-------------------------- MODULE AuditTrailProofs --------------------------
(***************************************************************************)
(* Proofs about the evidence of a session, for any number of connections   *)
(* and faults, any size of batches and any drift of the target's clock:    *)
(* a command that reached the target is shown exactly once, a collected    *)
(* operation that its asset dates within the life of its connection is     *)
(* never attributed to another one, and a connection event is told once.   *)
(***************************************************************************)
EXTENDS AuditTrail, TLAPS

USE ZenonT(5), SMTT(10), SMTT(30)

-----------------------------------------------------------------------------
\* The inductive invariant.

Early == {"idle", "connecting"}
Held == {"open", "starting", "forwarding", "running", "finishing"}
Ended == {"closing", "done"}

ConnectionEvent == [c : Conn, kind : ConnectionKind, at : Nat]
OperationEvent == [c : Conn, kind : OperationKind, at : Nat]

Phase == Early \cup Held \cup Ended
Worker == [pc : Phase, at : Nat, from : Nat]

\* The connection events that tell the truth: a start is told with the time of the
\* dial, an end by a worker that has closed its socket, with the time it did.
TrueEvent ==
    {e \in ConnectionEvent :
        /\ worker[e.c].from # 0
        /\ e.kind = "connected" => e.at = worker[e.c].from
        /\ e.kind = "disconnected" => worker[e.c].pc \in Ended /\ e.at = worker[e.c].at}

IsConnect(e, c, t) == e.c = c /\ e.kind = "connected" /\ e.at <= t

ConnectedBy(c, t) == \E r \in connections : IsConnect(r, c, t)

\* The times of a worker at time t.
Fits(w, t) ==
    /\ w.from <= w.at /\ w.at <= t
    /\ w.pc = "idle" => w.from = 0
    /\ w.pc \in Held \cup {"connecting", "closing"} => w.from # 0
    /\ w.pc = "connecting" => w.from = w.at

\* Of two workers that dialled, one had ended before the other did.
Apart(v, w) ==
    v.from # 0 /\ w.from # 0 =>
        (v.pc \in Ended /\ v.at < w.from) \/ (w.pc \in Ended /\ w.at < v.from)

\* A worker that may send commands has its connection on record, and so does
\* every command the target logged; the workers share the address in turn.
WorkersInv ==
    /\ now \in Nat
    /\ worker \in [Conn -> Worker]
    /\ forwarded \subseteq Conn
    /\ log \subseteq [c : Conn, at : Nat]
    /\ \A c \in Conn : Fits(worker[c], now)
    /\ \A c, d \in Conn : c # d => Apart(worker[c], worker[d])
    /\ \A x \in log : worker[x.c].from # 0 /\ ConnectedBy(x.c, now)
    /\ \A c \in Conn : worker[c].pc \in Held => ConnectedBy(c, now)

\* The connection event on its way through the spool is in the batch that is
\* written, in memory or on record.
InSpool(c, t) == \E n \in 1..Len(mem) : IsConnect(mem[n], c, t)

SpoolInv ==
    /\ mem \in Seq(TrueEvent) /\ file \in Seq(TrueEvent) /\ connections \subseteq TrueEvent
    /\ sink \in [pc : {"idle", "sync", "flush", "posted"}, c : Conn \cup {"drain", "none"},
                 batch : Seq(TrueEvent), accepted : Seq(TrueEvent)]
    /\ sink.pc = "sync" => sink.c \in Conn
    /\ sink.pc \in {"sync", "flush"} => sink.accepted = <<>>
    /\ sink.pc # "idle" /\ sink.c # "drain" =>
            sink.c \in Conn /\ worker[sink.c].pc \in {"connecting", "closing"}
    /\ sink.pc = "sync" /\ worker[sink.c].pc = "connecting" =>
            Len(sink.batch) = 1 /\ IsConnect(sink.batch[1], sink.c, now)
    /\ sink.pc = "posted" =>
            /\ Len(sink.batch) <= Len(mem)
            /\ \A n \in 1..Len(sink.batch) : mem[n] = sink.batch[n]
            /\ \A n \in 1..Len(sink.accepted) : sink.accepted[n] \in connections
    /\ sink.pc \in {"flush", "posted"} /\ sink.c # "drain" /\ worker[sink.c].pc = "connecting" =>
            ConnectedBy(sink.c, now) \/ InSpool(sink.c, now)

Known == directory \cup operations

HasOperation(c, kind) == \E e \in Known : e.c = c /\ e.kind = kind

OnRecord(c, kind) == \E e \in operations : e.c = c /\ e.kind = kind

\* The phase of a worker determines which of its operation events exist.
PhaseFits(c) ==
    /\ worker[c].pc \in {"idle", "connecting", "starting", "forwarding"} => c \notin forwarded
    /\ worker[c].pc \in {"running", "finishing"} => c \in forwarded
    /\ c \in forwarded \/ worker[c].pc = "forwarding" => OnRecord(c, "started")
    /\ \/ worker[c].pc \in Early
       \/ worker[c].pc = "open" /\ c \notin forwarded
       \/ worker[c].pc = "starting" /\ opsink.c # c
       => ~ HasOperation(c, "started")
    /\ \/ worker[c].pc \in {"idle", "connecting", "starting", "forwarding", "running"}
       \/ worker[c].pc = "open" /\ c \notin forwarded
       \/ worker[c].pc = "finishing" /\ opsink.c # c
       => ~ HasOperation(c, "completed")

OpSinkInv ==
    /\ opsink \in [pc : {"idle", "flush", "posted", "remove"}, c : Conn \cup {"drain", "none"},
                   batch : Seq(OperationEvent), accepted : Seq(OperationEvent)]
    /\ opsink.pc = "idle" => opsink.c = "none"
    /\ opsink.pc \in {"posted", "remove"} => \E e \in directory : opsink.batch = <<e>>
    /\ opsink.pc = "remove" => Head(opsink.batch) \in operations
    /\ opsink.pc # "idle" /\ opsink.c # "drain" =>
            /\ opsink.c \in Conn /\ worker[opsink.c].pc \in {"starting", "finishing"}
            /\ worker[opsink.c].pc = "starting" => HasOperation(opsink.c, "started")

\* There is one event of a kind for a command, however often it is stored or sent.
KnownInv ==
    /\ Known \subseteq OperationEvent
    /\ \A d, e \in Known : d.c = e.c /\ d.kind = e.kind => d = e

OperationsInv == OpSinkInv /\ KnownInv /\ \A c \in Conn : PhaseFits(c)

LateInv ==
    \/ late = NoRequest
    \/ /\ late.to = "events" /\ late.rest \in Seq(TrueEvent) /\ late.rest # <<>>
       /\ late = [to |-> "events", rest |-> late.rest]
    \/ \E e \in Known : late = [to |-> "operations", rest |-> <<e>>]

\* A drain has the two spools to itself, one after the other.
ProcessInv ==
    /\ sink.pc # "idle" /\ sink.c = "drain" => proc = "draining" /\ opsink.pc = "idle"
    /\ opsink.pc # "idle" /\ opsink.c = "drain" => proc = "draining"
    /\ proc = "down" => opsink.pc = "idle"

\* The collector reports what the target logged.
MatchInv == MatchIsRight /\ \A y \in collected : y.x \in log

AuditInv ==
    /\ WorkersInv /\ SpoolInv /\ OperationsInv /\ LateInv
    /\ ProcessInv /\ MatchInv

-----------------------------------------------------------------------------
\* What a step that leaves a part alone keeps.

\* A sequence of events stays one when more events count.
LEMMA SeqGrows ==
    ASSUME NEW S, NEW T, S \subseteq T, NEW q \in Seq(S)
    PROVE  q \in Seq(T)
  BY SMT

\* The start of a worker that dialled and the end of one that ended are settled.
Moves(v, w) ==
    /\ v.from # 0 => w.from = v.from
    /\ v.pc \in Ended => w.pc \in Ended /\ w.at = v.at

Steady == \A c \in Conn : Moves(worker[c], worker'[c])

\* No step makes a true event false.
LEMMA TrueEventGrows ==
    ASSUME Steady
    PROVE  TrueEvent \subseteq TrueEvent'
<1> SUFFICES ASSUME NEW e \in TrueEvent
             PROVE  e \in TrueEvent'
  OBVIOUS
<1>1. e \in ConnectionEvent /\ e.c \in Conn
  BY DEF TrueEvent, ConnectionEvent
<1>2. Moves(worker[e.c], worker'[e.c])
  BY <1>1 DEF Steady
<1> QED
  BY <1>1, <1>2 DEF TrueEvent, ConnectionEvent, Moves

LEMMA TrueEventStays ==
    ASSUME UNCHANGED worker
    PROVE  TrueEvent' = TrueEvent
  BY DEF TrueEvent, ConnectionEvent

LEMMA WorkersFrame ==
    ASSUME WorkersInv, UNCHANGED <<worker, now, target>>, connections \subseteq connections'
    PROVE  WorkersInv'
<1>1. \A c, t : ConnectedBy(c, t) => (\E r \in connections' : IsConnect(r, c, t))
  BY DEF ConnectedBy
<1> QED
  BY <1>1 DEF WorkersInv, target, ConnectedBy

LEMMA SpoolFrame ==
    ASSUME SpoolInv, UNCHANGED <<mem, file, sink>>, TrueEvent \subseteq TrueEvent',
           connections \subseteq connections', connections' \subseteq TrueEvent',
           now \in Nat, now' \in Nat, now <= now',
           sink.c \in Conn /\ sink.pc # "idle" => worker'[sink.c].pc = worker[sink.c].pc
    PROVE  SpoolInv'
<1>1. mem' \in Seq(TrueEvent') /\ file' \in Seq(TrueEvent')
  BY SeqGrows DEF SpoolInv
<1>2. sink' \in [pc : {"idle", "sync", "flush", "posted"}, c : Conn \cup {"drain", "none"},
                 batch : Seq(TrueEvent'), accepted : Seq(TrueEvent')]
  BY SeqGrows DEF SpoolInv
<1>3. \A e \in TrueEvent : \A c : IsConnect(e, c, now) => IsConnect(e, c, now')
  BY DEF IsConnect, TrueEvent, ConnectionEvent
<1>4. \A c : ConnectedBy(c, now) => ConnectedBy(c, now)'
  BY <1>3 DEF ConnectedBy, SpoolInv
<1>5. \A n \in 1..Len(mem) : mem[n] \in TrueEvent
  BY DEF SpoolInv
<1>6. \A c : InSpool(c, now) => InSpool(c, now)'
  BY <1>3, <1>5 DEF InSpool
<1>7. ASSUME sink.pc = "sync", worker'[sink.c].pc = "connecting"
      PROVE  Len(sink.batch) = 1 /\ IsConnect(sink.batch[1], sink.c, now')
  <2>1. Len(sink.batch) = 1 /\ IsConnect(sink.batch[1], sink.c, now)
    BY <1>7 DEF SpoolInv
  <2>2. sink.batch[1] \in TrueEvent
    BY <2>1 DEF SpoolInv
  <2> QED
    BY <2>1, <2>2, <1>3
<1>8. ASSUME sink.pc \in {"flush", "posted"}, sink.c # "drain", worker'[sink.c].pc = "connecting"
      PROVE  (ConnectedBy(sink.c, now) \/ InSpool(sink.c, now))'
  BY <1>4, <1>6, <1>8 DEF SpoolInv
<1>9. sink.pc = "posted" => \A n \in 1..Len(sink.accepted) : sink.accepted[n] \in connections'
  BY DEF SpoolInv
<1>10. sink.pc # "idle" /\ sink.c # "drain" =>
            sink.c \in Conn /\ worker'[sink.c].pc \in {"connecting", "closing"}
  BY DEF SpoolInv
<1> QED
  BY <1>1, <1>2, <1>7, <1>8, <1>9, <1>10 DEF SpoolInv

LEMMA OperationsFrame ==
    ASSUME OperationsInv, UNCHANGED <<opsink, directory, operations, forwarded>>,
           \A c \in Conn : worker'[c].pc = worker[c].pc
    PROVE  OperationsInv'
<1>1. UNCHANGED <<Known>> /\ \A c, k : HasOperation(c, k)' = HasOperation(c, k) /\ OnRecord(c, k)' = OnRecord(c, k)
  BY DEF Known, HasOperation, OnRecord
<1>2. OpSinkInv'
  BY <1>1 DEF OperationsInv, OpSinkInv
<1>3. KnownInv'
  BY <1>1 DEF OperationsInv, KnownInv
<1>4. \A c \in Conn : PhaseFits(c)'
  BY <1>1 DEF OperationsInv, PhaseFits
<1> QED
  BY <1>2, <1>3, <1>4 DEF OperationsInv

LEMMA LateFrame ==
    ASSUME LateInv, UNCHANGED late, TrueEvent \subseteq TrueEvent', Known \subseteq Known'
    PROVE  LateInv'
<1>1. ASSUME late.rest \in Seq(TrueEvent)
      PROVE  late.rest \in Seq(TrueEvent')
  BY <1>1, SeqGrows
<1> QED
  BY <1>1 DEF LateInv

LEMMA ProcessFrame ==
    ASSUME ProcessInv, UNCHANGED <<proc, sink, opsink>>
    PROVE  ProcessInv'
  BY DEF ProcessInv

\* The time a connection held the address only gets shorter.
LEMMA HeldShrinks ==
    ASSUME WorkersInv, Steady, NEW x \in log, HeldAddress(x.c, x.at)'
    PROVE  HeldAddress(x.c, x.at)
<1>1. x.c \in Conn /\ worker[x.c].from # 0
  BY DEF WorkersInv
<1>2. Moves(worker[x.c], worker'[x.c])
  BY <1>1 DEF Steady
<1> QED
  BY <1>1, <1>2 DEF Moves, HeldAddress, Over, Ended

LEMMA MatchMoves ==
    ASSUME MatchInv, WorkersInv, Steady, UNCHANGED collected, log \subseteq log'
    PROVE  MatchInv'
<1>1. \A y \in collected : y.x \in log /\ y.x \in log'
  BY DEF MatchInv
<1>2. ASSUME NEW y \in collected, HeldAddress(y.x.c, y.x.at)'
      PROVE  y.match \subseteq {y.x.c}
  <2>1. HeldAddress(y.x.c, y.x.at)
    BY <1>1, <1>2, HeldShrinks
  <2> QED
    BY <2>1 DEF MatchInv, MatchIsRight
<1> QED
  BY <1>1, <1>2 DEF MatchInv, MatchIsRight, HeldAddress, Over

LEMMA MatchFrame ==
    ASSUME MatchInv, UNCHANGED <<worker, collected, log>>
    PROVE  MatchInv'
  BY DEF MatchInv, MatchIsRight, HeldAddress, Over

LEMMA OneMoves ==
    ASSUME NEW c \in Conn, Moves(worker[c], worker'[c]),
           \A d \in Conn \ {c} : worker'[d] = worker[d]
    PROVE  Steady
  BY DEF Steady, Moves

\* One worker takes a step: it may end at any time, and may send commands, which the
\* target logs, only with its connection on record.
LEMMA WorkerMoves ==
    ASSUME WorkersInv, SpoolInv, NEW c \in Conn, connections \subseteq connections',
           forwarded' \subseteq Conn, log' \subseteq [c : Conn, at : Nat],
           \A x \in log' : x \in log \/ (x.c = c /\ worker'[c].pc \in Held),
           now' \in Nat, now <= now',
           worker' \in [Conn -> Worker],
           \A d \in Conn \ {c} : worker'[d] = worker[d],
           Fits(worker'[c], now'), Moves(worker[c], worker'[c]),
           \/ worker'[c].from = worker[c].from
           \/ \A d \in Conn \ {c} : Apart(worker'[c], worker[d]),
           worker'[c].pc \in Held => worker[c].pc \in Held \/ ConnectedBy(c, now)'
    PROVE  WorkersInv'
<1>1. \A d : ConnectedBy(d, now) => ConnectedBy(d, now)'
  <2>1. \A r \in connections : r.at \in Nat
    BY DEF SpoolInv, TrueEvent, ConnectionEvent
  <2>2. \A d : \A r \in connections : IsConnect(r, d, now) => IsConnect(r, d, now')
    BY <2>1 DEF IsConnect, WorkersInv
  <2> QED
    BY <2>2 DEF ConnectedBy
<1>2. \A d \in Conn : worker'[d].pc \in Held => ConnectedBy(d, now)'
  BY <1>1 DEF WorkersInv
<1>3. ASSUME NEW d \in Conn
      PROVE  Fits(worker'[d], now')
  <2>1. CASE d = c
    BY <2>1
  <2>2. CASE d # c
    <3>1. worker'[d] = worker[d] /\ worker[d] \in Worker /\ Fits(worker[d], now) /\ now \in Nat
      BY <2>2 DEF WorkersInv
    <3> QED
      BY <3>1 DEF Fits, Worker
  <2> QED
    BY <2>1, <2>2
<1>4. ASSUME NEW d \in Conn \ {c}
      PROVE  Apart(worker'[c], worker'[d]) /\ Apart(worker'[d], worker'[c])
  <2>1. worker'[d] = worker[d] /\ Apart(worker[c], worker[d])
    BY <1>4 DEF WorkersInv
  <2> QED
    BY <2>1 DEF Apart, Moves
<1>5. \A d, e \in Conn : d # e => Apart(worker'[d], worker'[e])
  BY <1>4 DEF WorkersInv
<1>6. ASSUME NEW x \in log'
      PROVE  worker'[x.c].from # 0 /\ ConnectedBy(x.c, now)'
  <2>1. CASE x \in log
    <3>1. x.c \in Conn /\ worker[x.c].from # 0 /\ ConnectedBy(x.c, now)'
      BY <2>1, <1>1 DEF WorkersInv
    <3> QED
      BY <3>1 DEF Moves
  <2>2. CASE x.c = c /\ worker'[c].pc \in Held
    BY <2>2, <1>2, <1>3 DEF Fits
  <2> QED
    BY <2>1, <2>2
<1> QED
  BY <1>2, <1>3, <1>5, <1>6 DEF WorkersInv, ConnectedBy

\* A batch records a true event.
LEMMA RecordedEvent ==
    ASSUME SpoolInv, NEW e \in TrueEvent, RecordGatewayEvent(e)
    PROVE  /\ connections' \subseteq TrueEvent
           /\ connections \subseteq connections' /\ e \in connections'
           /\ operations' = operations /\ collected' = collected
  BY DEF SpoolInv, RecordGatewayEvent, AppendConnectionEvent

\* The parts of a sequence of events.
LEMMA SeqFacts ==
    ASSUME NEW S, NEW q \in Seq(S), NEW r \in Seq(S), NEW n \in Nat
    PROVE  /\ q \o r \in Seq(S)
           /\ SubSeq(q, 1, IF Len(q) < n THEN Len(q) ELSE n) \in Seq(S)
           /\ SubSeq(q, n + 1, Len(q)) \in Seq(S)
           /\ SubSeq(q, 1, Len(q) - 1) \in Seq(S)
           /\ q # <<>> => Head(q) \in S /\ Tail(q) \in Seq(S)
  BY SMT

\* One worker changes its phase while the spool of operations is left alone.
LEMMA PhaseMoves ==
    ASSUME OperationsInv, NEW c \in Conn, UNCHANGED <<opsink, directory, operations>>,
           \A d \in Conn \ {c} : /\ worker'[d].pc = worker[d].pc
                                 /\ d \in forwarded' <=> d \in forwarded,
           worker[c].pc \notin {"starting", "finishing"},
           PhaseFits(c)'
    PROVE  OperationsInv'
<1>1. UNCHANGED <<Known>> /\ \A d, k : HasOperation(d, k)' = HasOperation(d, k) /\ OnRecord(d, k)' = OnRecord(d, k)
  BY DEF Known, HasOperation, OnRecord
<1>2. OpSinkInv'
  BY <1>1 DEF OperationsInv, OpSinkInv
<1>3. KnownInv'
  BY <1>1 DEF OperationsInv, KnownInv
<1>4. \A d \in Conn \ {c} : PhaseFits(d)'
  BY <1>1 DEF OperationsInv, PhaseFits
<1> QED
  BY <1>2, <1>3, <1>4 DEF OperationsInv

LEMMA AppendFacts ==
    ASSUME NEW S, NEW q \in Seq(S), NEW e \in S
    PROVE  /\ Append(q, e) \in Seq(S) /\ Len(Append(q, e)) = Len(q) + 1
           /\ \A n \in 1..Len(q) : Append(q, e)[n] = q[n]
           /\ Append(q, e)[Len(q) + 1] = e
  BY SMT

LEMMA SuffixFacts ==
    ASSUME NEW S, NEW q \in Seq(S), NEW m \in Nat, NEW n \in 1..Len(q), m < n
    PROVE  /\ n - m \in 1..Len(SubSeq(q, m + 1, Len(q)))
           /\ SubSeq(q, m + 1, Len(q))[n - m] = q[n]
<1>1. m + 1 \in 1..Len(q) /\ Len(q) \in Nat
  OBVIOUS
<1>2. Len(SubSeq(q, m + 1, Len(q))) = Len(q) - m
  BY <1>1
<1>3. n - m \in 1..(Len(q) - m)
  BY <1>1
<1>4. SubSeq(q, m + 1, Len(q))[n - m] = q[(m + 1) + (n - m) - 1]
  BY <1>1, <1>2, <1>3
<1>5. (m + 1) + (n - m) - 1 = n
  OBVIOUS
<1> QED
  BY <1>2, <1>3, <1>4, <1>5

-----------------------------------------------------------------------------
\* The workers.

LEMMA StepAtFacts ==
    ASSUME WorkersInv, NEW c \in Conn, NEW from \in Phase \ (Ended \cup {"connecting"}),
           NEW to \in Phase \ {"idle"}, to = "connecting" <=> from = "idle",
           StepAt(c, from, to)
    PROVE  /\ worker[c].pc = from /\ worker'[c].pc = to /\ worker'[c].at = now + 1
           /\ worker'[c].from = IF from = "idle" THEN now + 1 ELSE worker[c].from
           /\ worker' \in [Conn -> Worker]
           /\ \A d \in Conn \ {c} : worker'[d] = worker[d]
           /\ now \in Nat /\ now' = now + 1 /\ now' \in Nat /\ now <= now'
           /\ Fits(worker'[c], now') /\ Moves(worker[c], worker'[c])
<1>1. now \in Nat /\ worker \in [Conn -> Worker] /\ worker[c] \in Worker /\ Fits(worker[c], now)
  BY DEF WorkersInv
<1>2. PICK start \in Nat : start = IF from = "idle" THEN now + 1 ELSE worker[c].from
  BY <1>1 DEF Worker
<1>3. PICK w : w = [worker[c] EXCEPT !.pc = to, !.at = now + 1, !.from = start]
  OBVIOUS
<1>4. w \in Worker /\ w.pc = to /\ w.at = now + 1 /\ w.from = start
  <2>1. worker[c] \in Worker /\ to \in Phase /\ now + 1 \in Nat
    BY <1>1
  <2> QED
    BY <1>3, <2>1 DEF Worker
<1>5. worker' = [worker EXCEPT ![c] = w] /\ worker[c].pc = from /\ now' = now + 1
  <2>1. /\ worker' = [worker EXCEPT ![c].pc = to, ![c].at = now + 1,
                           ![c].from = IF from = "idle" THEN now + 1 ELSE @]
        /\ worker[c].pc = from /\ now' = now + 1
    BY DEF StepAt
  <2>2. worker' = [worker EXCEPT ![c] = [worker[c] EXCEPT !.pc = to, !.at = now + 1, !.from = start]]
    BY <1>1, <1>2, <2>1
  <2> QED
    BY <1>3, <2>1, <2>2
<1>6. worker'[c] = w /\ worker' \in [Conn -> Worker] /\ \A d \in Conn \ {c} : worker'[d] = worker[d]
  BY <1>1, <1>4, <1>5
<1>7. Fits(w, now + 1)
  <2>1. from = "idle" => w.from = w.at
    BY <1>2, <1>4
  <2>2. from # "idle" => w.from = worker[c].from /\ worker[c].pc \in Held
    BY <1>2, <1>4, <1>5 DEF Phase, Early, Held, Ended
  <2> QED
    BY <1>1, <1>4, <2>1, <2>2 DEF Fits, Worker
<1>8. Moves(worker[c], w)
  BY <1>1, <1>2, <1>4, <1>5 DEF Fits, Moves
<1> QED
  BY <1>1, <1>2, <1>4, <1>5, <1>6, <1>7, <1>8

\* What a step of a worker that is not waiting for a sink leaves in order.
LEMMA WorkerStep ==
    ASSUME AuditInv, NEW c \in Conn, NEW from \in Phase \ (Ended \cup {"connecting"}),
           NEW to \in Phase \ {"idle"}, to = "connecting" <=> from = "idle",
           StepAt(c, from, to), log \subseteq log',
           UNCHANGED <<evidence, spool, sink, directory, late>>
    PROVE  SpoolInv' /\ LateInv' /\ MatchInv'
<1>1. WorkersInv /\ SpoolInv /\ LateInv /\ MatchInv
  BY DEF AuditInv
<1>2. UNCHANGED <<connections, trail, operations, collected, mem, file>>
  BY DEF evidence, spool
<1>3. /\ worker[c].pc = from /\ \A d \in Conn \ {c} : worker'[d] = worker[d]
      /\ now \in Nat /\ now' \in Nat /\ now <= now'
      /\ Moves(worker[c], worker'[c])
  BY <1>1, StepAtFacts
<1>4. Steady /\ TrueEvent \subseteq TrueEvent'
  BY <1>3, OneMoves, TrueEventGrows
<1>5. sink.c \in Conn /\ sink.pc # "idle" => worker'[sink.c].pc = worker[sink.c].pc
  <2>1. "drain" \notin Conn
    BY ConnAssumption
  <2>2. sink.c \in Conn /\ sink.pc # "idle" => sink.c # c
    BY <1>1, <1>3, <2>1 DEF SpoolInv, Ended
  <2> QED
    BY <1>3, <2>2
<1>6. connections' \subseteq TrueEvent'
  BY <1>1, <1>2, <1>4 DEF SpoolInv
<1>7. SpoolInv'
  BY <1>1, <1>2, <1>3, <1>4, <1>5, <1>6, SpoolFrame
<1>8. LateInv'
  BY <1>1, <1>2, <1>4, LateFrame DEF Known
<1> QED
  BY <1>1, <1>2, <1>4, <1>7, <1>8, MatchMoves

LEMMA DialStep ==
    ASSUME AuditInv, NEW c \in Conn, Dial(c)
    PROVE  AuditInv'
<1>1. /\ StepAt(c, "idle", "connecting")
      /\ "idle" \in Phase \ (Ended \cup {"connecting"}) /\ "connecting" \in Phase \ {"idle"}
      /\ UNCHANGED <<proc, evidence, spool, sink, directory, opsink, late, target>>
      /\ WorkersInv /\ SpoolInv /\ OperationsInv
  BY DEF Dial, Phase, Early, Ended, AuditInv
<1>2. UNCHANGED <<connections, operations, forwarded, log>>
  BY <1>1 DEF evidence, target
<1>3. /\ worker[c].pc = "idle" /\ worker'[c].pc = "connecting" /\ worker'[c].from = now + 1
      /\ worker' \in [Conn -> Worker]
      /\ \A d \in Conn \ {c} : worker'[d] = worker[d]
      /\ now \in Nat /\ now' \in Nat /\ now <= now'
      /\ Fits(worker'[c], now') /\ Moves(worker[c], worker'[c])
  BY <1>1, StepAtFacts
<1>4. WorkersInv'
  <2>1. ASSUME NEW d \in Conn \ {c}
        PROVE  Apart(worker'[c], worker[d])
    <3>1. worker[d] \in Worker /\ Fits(worker[d], now)
      BY <1>1 DEF WorkersInv
    <3>2. worker[d].pc \in {"idle", "closing", "done"}
      BY DEF Dial
    <3> QED
      BY <1>3, <3>1, <3>2 DEF Apart, Fits, Ended, Worker
  <2>2. worker'[c].pc \notin Held
    BY <1>3 DEF Held
  <2> QED
    BY <1>1, <1>2, <1>3, <2>1, <2>2, WorkerMoves DEF WorkersInv
<1>5. SpoolInv' /\ LateInv' /\ MatchInv'
  BY <1>1, <1>2, WorkerStep DEF Ended
<1>6. PhaseFits(c)'
  BY <1>1, <1>2, <1>3 DEF OperationsInv, PhaseFits, Early, OnRecord, HasOperation, Known
<1>7. OperationsInv'
  BY <1>1, <1>2, <1>3, <1>6, PhaseMoves
<1> QED
  BY <1>1, <1>4, <1>5, <1>7, ProcessFrame DEF AuditInv

LEMMA BeginStep ==
    ASSUME AuditInv, NEW c \in Conn, begin(c)
    PROVE  AuditInv'
<1>1. /\ StepAt(c, "open", "starting")
      /\ "open" \in Phase \ (Ended \cup {"connecting"}) /\ "starting" \in Phase \ {"idle"}
      /\ UNCHANGED <<proc, evidence, spool, sink, directory, opsink, late, target>>
      /\ WorkersInv /\ SpoolInv /\ OperationsInv
      /\ c \notin forwarded
  BY DEF begin, Phase, Held, Ended, AuditInv
<1>2. UNCHANGED <<connections, operations, forwarded, log>>
  BY <1>1 DEF evidence, target
<1>3. /\ worker[c].pc = "open" /\ worker'[c].pc = "starting" /\ worker'[c].from = worker[c].from
      /\ worker' \in [Conn -> Worker]
      /\ \A d \in Conn \ {c} : worker'[d] = worker[d]
      /\ now' \in Nat /\ now <= now'
      /\ Fits(worker'[c], now') /\ Moves(worker[c], worker'[c])
  BY <1>1, StepAtFacts
<1>4. WorkersInv'
  BY <1>1, <1>2, <1>3, WorkerMoves DEF WorkersInv, Held
<1>5. SpoolInv' /\ LateInv' /\ MatchInv'
  BY <1>1, <1>2, WorkerStep DEF Ended
<1>6. PhaseFits(c)'
  BY <1>1, <1>2, <1>3, ConnAssumption DEF OperationsInv, PhaseFits, Early, OnRecord, HasOperation, Known
<1>7. OperationsInv'
  BY <1>1, <1>2, <1>3, <1>6, PhaseMoves
<1> QED
  BY <1>1, <1>4, <1>5, <1>7, ProcessFrame DEF AuditInv

LEMMA EndStep ==
    ASSUME AuditInv, NEW c \in Conn, end(c)
    PROVE  AuditInv'
<1>1. /\ StepAt(c, "running", "finishing")
      /\ "running" \in Phase \ (Ended \cup {"connecting"}) /\ "finishing" \in Phase \ {"idle"}
      /\ UNCHANGED <<proc, evidence, spool, sink, directory, opsink, late, target>>
      /\ WorkersInv /\ SpoolInv /\ OperationsInv
  BY DEF end, Phase, Held, Ended, AuditInv
<1>2. UNCHANGED <<connections, operations, forwarded, log>>
  BY <1>1 DEF evidence, target
<1>3. /\ worker[c].pc = "running" /\ worker'[c].pc = "finishing" /\ worker'[c].from = worker[c].from
      /\ worker' \in [Conn -> Worker]
      /\ \A d \in Conn \ {c} : worker'[d] = worker[d]
      /\ now' \in Nat /\ now <= now'
      /\ Fits(worker'[c], now') /\ Moves(worker[c], worker'[c])
  BY <1>1, StepAtFacts
<1>4. WorkersInv'
  BY <1>1, <1>2, <1>3, WorkerMoves DEF WorkersInv, Held
<1>5. SpoolInv' /\ LateInv' /\ MatchInv'
  BY <1>1, <1>2, WorkerStep DEF Ended
<1>6. PhaseFits(c)'
  BY <1>1, <1>2, <1>3, ConnAssumption DEF OperationsInv, PhaseFits, Early, OnRecord, HasOperation, Known
<1>7. OperationsInv'
  BY <1>1, <1>2, <1>3, <1>6, PhaseMoves
<1> QED
  BY <1>1, <1>4, <1>5, <1>7, ProcessFrame DEF AuditInv

LEMMA CloseStep ==
    ASSUME AuditInv, NEW c \in Conn, Close(c)
    PROVE  AuditInv'
<1>1. PICK from \in {"open", "forwarding", "running"} : StepAt(c, from, "closing")
  BY DEF Close
<1>2. /\ from \in Phase \ (Ended \cup {"connecting"}) /\ "closing" \in Phase \ {"idle"}
      /\ UNCHANGED <<proc, evidence, spool, sink, directory, opsink, late, target>>
      /\ WorkersInv /\ SpoolInv /\ OperationsInv
  BY DEF Close, Phase, Held, Ended, AuditInv
<1>3. UNCHANGED <<connections, operations, forwarded, log>>
  BY <1>2 DEF evidence, target
<1>4. /\ worker[c].pc = from /\ worker'[c].pc = "closing" /\ worker'[c].from = worker[c].from
      /\ worker' \in [Conn -> Worker]
      /\ \A d \in Conn \ {c} : worker'[d] = worker[d]
      /\ now' \in Nat /\ now <= now'
      /\ Fits(worker'[c], now') /\ Moves(worker[c], worker'[c])
  BY <1>1, <1>2, StepAtFacts
<1>5. WorkersInv'
  BY <1>2, <1>3, <1>4, WorkerMoves DEF WorkersInv, Held
<1>6. SpoolInv' /\ LateInv' /\ MatchInv'
  BY <1>1, <1>2, <1>3, WorkerStep DEF Ended
<1>7. PhaseFits(c)'
  BY <1>2, <1>3, <1>4 DEF OperationsInv, PhaseFits, Early, OnRecord, HasOperation, Known
<1>8. OperationsInv'
  BY <1>2, <1>3, <1>4, <1>7, PhaseMoves
<1> QED
  BY <1>2, <1>5, <1>6, <1>8, ProcessFrame DEF AuditInv

\* The command goes to the target: its start is on record, and so is its connection.
LEMMA ForwardStep ==
    ASSUME AuditInv, NEW c \in Conn, Forward(c)
    PROVE  AuditInv'
<1>1. /\ StepAt(c, "forwarding", "running")
      /\ "forwarding" \in Phase \ (Ended \cup {"connecting"}) /\ "running" \in Phase \ {"idle"}
      /\ forwarded' = forwarded \cup {c}
      /\ UNCHANGED <<proc, evidence, spool, sink, directory, opsink, late>>
      /\ WorkersInv /\ SpoolInv /\ OperationsInv
  BY DEF Forward, Phase, Held, Ended, AuditInv
<1>2. UNCHANGED <<connections, operations>>
  BY <1>1 DEF evidence
<1>3. /\ worker[c].pc = "forwarding" /\ worker'[c].pc = "running" /\ worker'[c].from = worker[c].from
      /\ worker' \in [Conn -> Worker]
      /\ \A d \in Conn \ {c} : worker'[d] = worker[d]
      /\ now' \in Nat /\ now <= now'
      /\ Fits(worker'[c], now') /\ Moves(worker[c], worker'[c])
  BY <1>1, StepAtFacts
<1>4. PICK at \in Nat : log' = log \cup {[c |-> c, at |-> at]}
  BY DEF Forward, Stamp
<1>5. WorkersInv'
  <2>1. worker'[c].pc \in Held /\ worker[c].pc \in Held
    BY <1>3 DEF Held
  <2>2. forwarded' \subseteq Conn /\ log' \subseteq [c : Conn, at : Nat]
    BY <1>1, <1>4 DEF WorkersInv
  <2>3. \A x \in log' : x \in log \/ x.c = c
    BY <1>4
  <2> QED
    BY <1>1, <1>2, <1>3, <2>1, <2>2, <2>3, WorkerMoves
<1>6. SpoolInv' /\ LateInv' /\ MatchInv'
  BY <1>1, <1>4, WorkerStep
<1>7. PhaseFits(c)'
  BY <1>1, <1>2, <1>3 DEF OperationsInv, PhaseFits, Early, OnRecord, HasOperation, Known
<1>8. OperationsInv'
  BY <1>1, <1>2, <1>3, <1>7, PhaseMoves
<1> QED
  BY <1>1, <1>5, <1>6, <1>8, ProcessFrame DEF AuditInv

-----------------------------------------------------------------------------
\* The spool of connection events.

\* A worker whose event was refused has ended.
LEMMA RefusedWorker ==
    ASSUME WorkersInv, NEW c \in Conn, Refused(c),
           worker[c].pc \in {"connecting", "closing", "starting", "finishing"}
    PROVE  /\ worker' \in [Conn -> Worker]
           /\ \A d \in Conn \ {c} : worker'[d] = worker[d]
           /\ worker'[c].pc \in Ended /\ worker'[c].from = worker[c].from
           /\ Fits(worker'[c], now) /\ Moves(worker[c], worker'[c])
<1>1. c # "drain"
  BY ConnAssumption
<1>2. now \in Nat /\ worker \in [Conn -> Worker] /\ worker[c] \in Worker /\ Fits(worker[c], now)
  BY DEF WorkersInv
<1>3. PICK pc \in Ended : pc = IF worker[c].pc \in {"starting", "finishing"} THEN "closing" ELSE "done"
  BY DEF Ended
<1>4. PICK at \in Nat : at = IF worker[c].pc = "closing" THEN worker[c].at ELSE now
  BY <1>2 DEF Worker
<1>5. PICK w : w = [worker[c] EXCEPT !.pc = pc, !.at = at]
  OBVIOUS
<1>6. w \in Worker /\ w.pc = pc /\ w.at = at /\ w.from = worker[c].from
  BY <1>2, <1>5 DEF Worker, Phase
<1>7. worker' = [worker EXCEPT ![c] = w]
  <2>1. worker' = [worker EXCEPT
            ![c].pc = IF @ \in {"starting", "finishing"} THEN "closing" ELSE "done",
            ![c].at = IF worker[c].pc = "closing" THEN @ ELSE now]
    BY <1>1 DEF Refused
  <2> QED
    BY <1>2, <1>3, <1>4, <1>5, <2>1
<1>8. Fits(w, now) /\ Moves(worker[c], w)
  BY <1>2, <1>3, <1>4, <1>6 DEF Fits, Moves, Worker, Held, Ended
<1> QED
  BY <1>2, <1>6, <1>7, <1>8

\* Nobody waits for the sink any more.
LEMMA SinkRefuses ==
    ASSUME AuditInv, NEW c \in Conn \cup {"drain"}, Refused(c),
           c \in Conn => worker[c].pc \in {"connecting", "closing"},
           sink' = Idle \/ (sink' = sink /\ sink.pc = "idle"),
           mem' = mem, file' \in Seq(TrueEvent),
           UNCHANGED <<evidence, directory, opsink, target, now>>
    PROVE  /\ TrueEvent \subseteq TrueEvent' /\ Known' = Known
           /\ WorkersInv' /\ SpoolInv' /\ OperationsInv' /\ MatchInv'
<1>1. WorkersInv /\ SpoolInv /\ OperationsInv /\ MatchInv
  BY DEF AuditInv
<1>2. UNCHANGED <<connections, trail, operations, collected, forwarded, log>>
  BY DEF evidence, target
<1>3. /\ c \in Conn => worker'[c].pc \in Ended /\ Moves(worker[c], worker'[c])
      /\ \A d \in Conn \ {c} : worker'[d] = worker[d]
  BY <1>1, RefusedWorker DEF Refused
<1>4. Steady /\ TrueEvent \subseteq TrueEvent'
  <2>1. Steady
    BY <1>3, OneMoves DEF Steady, Moves
  <2> QED
    BY <2>1, TrueEventGrows
<1>5. WorkersInv'
  <2>1. CASE c \in Conn
    <3>1. /\ worker' \in [Conn -> Worker] /\ Fits(worker'[c], now)
          /\ worker'[c].from = worker[c].from /\ worker'[c].pc \notin Held
          /\ now' = now /\ now \in Nat
      BY <2>1, <1>1, RefusedWorker DEF WorkersInv, Ended, Held
    <3> QED
      BY <1>1, <1>2, <1>3, <2>1, <3>1, WorkerMoves DEF WorkersInv
  <2>2. CASE c = "drain"
    <3>1. worker' = worker
      BY <2>2 DEF Refused
    <3> QED
      BY <3>1, <1>1, <1>2, WorkersFrame
  <2> QED
    BY <2>1, <2>2
<1>6. SpoolInv'
  <2>1. mem' \in Seq(TrueEvent') /\ file' \in Seq(TrueEvent') /\ connections' \subseteq TrueEvent'
    BY <1>1, <1>2, <1>4, SeqGrows DEF SpoolInv
  <2>2. sink' \in [pc : {"idle", "sync", "flush", "posted"}, c : Conn \cup {"drain", "none"},
                   batch : Seq(TrueEvent'), accepted : Seq(TrueEvent')]
    <3>1. CASE sink' = Idle
      <4>1. <<>> \in Seq(TrueEvent')
        OBVIOUS
      <4> QED
        BY <3>1, <4>1 DEF Idle
    <3>2. CASE sink' = sink
      BY <1>1, <1>4, <3>2, SeqGrows DEF SpoolInv
    <3> QED
      BY <3>1, <3>2
  <2>3. sink'.pc = "idle"
    BY DEF Idle
  <2> QED
    BY <2>1, <2>2, <2>3 DEF SpoolInv
<1>7. OperationsInv'
  <2>1. CASE c \in Conn
    <3>1. PhaseFits(c)'
      BY <1>1, <1>2, <1>3, <2>1 DEF OperationsInv, PhaseFits, Early, Ended, OnRecord, HasOperation, Known
    <3> QED
      BY <1>1, <1>2, <1>3, <2>1, <3>1, PhaseMoves
  <2>2. CASE c = "drain"
    <3>1. worker' = worker
      BY <2>2 DEF Refused
    <3> QED
      BY <3>1, <1>1, <1>2, OperationsFrame
  <2> QED
    BY <2>1, <2>2
<1> QED
  BY <1>1, <1>2, <1>4, <1>5, <1>6, <1>7, MatchMoves DEF Known

\* The event is written to the file, or half of it is.
LEMMA AppendWriteStep ==
    ASSUME AuditInv, NEW c \in Conn, AppendWrite(c)
    PROVE  AuditInv'
<1> DEFINE e == Event(c, IF worker[c].pc = "connecting" THEN "connected" ELSE "disconnected")
<1>1. /\ sink.pc = "idle" /\ worker[c].pc \in {"connecting", "closing"}
      /\ UNCHANGED <<evidence, mem, directory, opsink, late, target, now>>
      /\ WorkersInv /\ SpoolInv /\ OperationsInv /\ LateInv /\ MatchInv
  BY DEF AppendWrite, AuditInv
<1>2. UNCHANGED <<connections, trail, operations, collected, forwarded, log>>
  BY <1>1 DEF evidence, target
<1>3. CASE /\ file' = Append(file, e) /\ worker' = worker /\ proc' = proc
           /\ sink' = [Idle EXCEPT !.pc = "sync", !.c = c, !.batch = <<e>>]
  <2>1. /\ worker[c].at \in Nat /\ worker[c].at <= now /\ worker[c].from # 0
        /\ worker[c].pc = "connecting" => worker[c].at = worker[c].from
    BY <1>1 DEF WorkersInv, Worker, Fits
  <2>2. e \in ConnectionEvent
    BY <2>1 DEF Event, ConnectionEvent, ConnectionKind
  <2>3. e \in TrueEvent
    <3>1. CASE worker[c].pc = "connecting"
      BY <3>1, <2>1, <2>2 DEF TrueEvent, Event
    <3>2. CASE worker[c].pc = "closing"
      BY <3>2, <2>1, <2>2 DEF TrueEvent, Event, Ended
    <3> QED
      BY <1>1, <3>1, <3>2
  <2>4. TrueEvent' = TrueEvent
    BY <1>2, <1>3, TrueEventStays
  <2>5. file' \in Seq(TrueEvent') /\ <<e>> \in Seq(TrueEvent') /\ <<>> \in Seq(TrueEvent')
    <3>1. file \in Seq(TrueEvent)
      BY <1>1 DEF SpoolInv
    <3>2. Append(file, e) \in Seq(TrueEvent) /\ <<e>> \in Seq(TrueEvent) /\ <<>> \in Seq(TrueEvent)
      BY ONLY <2>3, <3>1, SMT
    <3> QED
      BY <3>2, <2>4, <1>3
  <2>6. sink' = [pc |-> "sync", c |-> c, batch |-> <<e>>, accepted |-> <<>>]
    BY <1>3 DEF Idle
  <2>7. worker[c].pc = "connecting" => IsConnect(e, c, now)
    BY <2>1 DEF IsConnect, Event
  <2>8. SpoolInv'
    <3>1. mem' \in Seq(TrueEvent') /\ connections' \subseteq TrueEvent'
      BY <1>1, <1>2, <2>4 DEF SpoolInv
    <3>2. Len(<<e>>) = 1 /\ <<e>>[1] = e
      OBVIOUS
    <3>3. /\ sink'.pc = "sync" /\ sink'.c = c /\ sink'.batch = <<e>> /\ sink'.accepted = <<>>
          /\ sink' \in [pc : {"idle", "sync", "flush", "posted"}, c : Conn \cup {"drain", "none"},
                        batch : Seq(TrueEvent'), accepted : Seq(TrueEvent')]
      BY <2>5, <2>6
    <3> QED
      BY <1>1, <1>3, <2>5, <2>7, <3>1, <3>2, <3>3 DEF SpoolInv
  <2>9. WorkersInv' /\ OperationsInv' /\ MatchInv'
    BY <1>1, <1>2, <1>3, WorkersFrame, OperationsFrame, MatchFrame
  <2>10. LateInv'
    BY <1>1, <1>2, <2>4, LateFrame DEF Known
  <2>11. ProcessInv'
    BY <1>1, <1>3, <2>6, ConnAssumption DEF AuditInv, ProcessInv
  <2> QED
    BY <2>8, <2>9, <2>10, <2>11 DEF AuditInv
<1>4. CASE Refused(c) /\ UNCHANGED <<file, sink, proc>>
  <2>1. file' \in Seq(TrueEvent)
    BY <1>1, <1>4 DEF SpoolInv
  <2>2. /\ TrueEvent \subseteq TrueEvent' /\ Known' = Known
        /\ WorkersInv' /\ SpoolInv' /\ OperationsInv' /\ MatchInv'
    BY <1>1, <1>4, <2>1, SinkRefuses
  <2> QED
    BY <1>1, <1>4, <2>2, LateFrame, ProcessFrame DEF AuditInv
<1> QED
  BY <1>3, <1>4 DEF AppendWrite, agent

LEMMA SinkErrorProcess ==
    ASSUME ProcessInv, SinkError, sink.pc # "idle", opsink' = opsink
    PROVE  ProcessInv'
<1>1. sink'.pc = "idle" /\ proc' = IF sink.c = "drain" THEN "down" ELSE proc
  BY DEF SinkError, Idle, DrainOutcome
<1> QED
  BY <1>1 DEF ProcessInv

\* The caller of the sink is a worker that waits for it, or the drain.
LEMMA SinkCaller ==
    ASSUME SpoolInv, sink.pc # "idle"
    PROVE  /\ sink.c \in Conn \cup {"drain"}
           /\ sink.c \in Conn => worker[sink.c].pc \in {"connecting", "closing"}
  BY ConnAssumption DEF SpoolInv

\* A step of the sink that fails.
LEMMA SinkErrorStep ==
    ASSUME AuditInv, SinkError, sink.pc # "idle", mem' = mem, file' \in Seq(TrueEvent),
           UNCHANGED <<evidence, directory, opsink, target, now>>,
           TrueEvent \subseteq TrueEvent' => LateInv'
    PROVE  AuditInv'
<1>1. SpoolInv /\ ProcessInv
  BY DEF AuditInv
<1>2. Refused(sink.c) /\ sink' = Idle
  BY DEF SinkError
<1>3. /\ TrueEvent \subseteq TrueEvent'
      /\ WorkersInv' /\ SpoolInv' /\ OperationsInv' /\ MatchInv'
  BY <1>1, <1>2, SinkCaller, SinkRefuses
<1>4. ProcessInv'
  BY <1>1, SinkErrorProcess
<1> QED
  BY <1>3, <1>4 DEF AuditInv

\* The event is on stable storage and remembered.
LEMMA AppendSyncStep ==
    ASSUME AuditInv, AppendSync
    PROVE  AuditInv'
<1>1. /\ sink.pc = "sync" /\ UNCHANGED <<evidence, file, directory, opsink, late, target, now>>
      /\ WorkersInv /\ SpoolInv /\ OperationsInv /\ LateInv /\ ProcessInv /\ MatchInv
  BY DEF AppendSync, AuditInv
<1>2. UNCHANGED <<connections, trail, operations, collected, forwarded, log>>
  BY <1>1 DEF evidence, target
<1>3. CASE /\ mem' = mem \o sink.batch /\ UNCHANGED <<worker, proc>>
           /\ sink' = [sink EXCEPT !.pc = "flush", !.batch = <<>>]
  <2>1. TrueEvent' = TrueEvent
    BY <1>2, <1>3, TrueEventStays
  <2>2. mem \in Seq(TrueEvent) /\ sink.batch \in Seq(TrueEvent)
    BY <1>1 DEF SpoolInv
  <2>3. mem \o sink.batch \in Seq(TrueEvent) /\ <<>> \in Seq(TrueEvent)
    BY <2>2, SeqFacts
  <2>4. /\ sink'.pc = "flush" /\ sink'.c = sink.c /\ sink'.accepted = <<>> /\ sink.c \in Conn
        /\ sink' \in [pc : {"idle", "sync", "flush", "posted"}, c : Conn \cup {"drain", "none"},
                      batch : Seq(TrueEvent), accepted : Seq(TrueEvent)]
    BY <1>1, <1>3, <2>3 DEF SpoolInv
  <2>5. worker[sink.c].pc = "connecting" => InSpool(sink.c, now)'
    <3>1. SUFFICES ASSUME worker[sink.c].pc = "connecting"
                   PROVE  InSpool(sink.c, now)'
      OBVIOUS
    <3>2. Len(sink.batch) = 1 /\ IsConnect(sink.batch[1], sink.c, now)
      BY <1>1, <3>1 DEF SpoolInv
    <3>3. /\ Len(mem) + 1 \in 1..Len(mem \o sink.batch)
          /\ (mem \o sink.batch)[Len(mem) + 1] = sink.batch[1]
      BY <2>2, <3>2
    <3> QED
      BY <1>1, <1>3, <2>4, <3>2, <3>3 DEF InSpool
  <2>6. worker[sink.c].pc \in {"connecting", "closing"} /\ sink.c # "drain"
    BY <1>1, <2>4, ConnAssumption DEF SpoolInv
  <2>7. SpoolInv'
    <3>1. file' \in Seq(TrueEvent') /\ connections' \subseteq TrueEvent' /\ mem' \in Seq(TrueEvent')
      BY <1>1, <1>2, <1>3, <2>1, <2>3 DEF SpoolInv
    <3> QED
      BY <1>3, <2>1, <2>4, <2>5, <2>6, <3>1 DEF SpoolInv
  <2>8. ProcessInv'
    BY <1>1, <1>3, <2>4, <2>6 DEF ProcessInv
  <2>9. WorkersInv' /\ OperationsInv' /\ MatchInv'
    BY <1>1, <1>2, <1>3, WorkersFrame, OperationsFrame, MatchFrame
  <2>10. LateInv'
    BY <1>1, <1>2, <2>1, LateFrame DEF Known
  <2> QED
    BY <2>7, <2>8, <2>9, <2>10 DEF AuditInv
<1>4. CASE SinkError /\ mem' = mem
  <2>1. file' \in Seq(TrueEvent)
    BY <1>1 DEF SpoolInv
  <2>2. TrueEvent \subseteq TrueEvent' => LateInv'
    BY <1>1, <1>2, LateFrame DEF Known
  <2> QED
    BY <1>1, <1>4, <2>1, <2>2, SinkErrorStep
<1> QED
  BY <1>3, <1>4 DEF AppendSync, agent

\* What the step of a worker from a sink's answer is.
LEMMA ReturnedWorker ==
    ASSUME WorkersInv, NEW c \in Conn, Returned(c),
           worker[c].pc \in {"connecting", "closing", "starting", "finishing"}
    PROVE  /\ worker' \in [Conn -> Worker]
           /\ \A d \in Conn \ {c} : worker'[d] = worker[d]
           /\ worker'[c].pc = After[worker[c].pc] /\ worker'[c].from = worker[c].from
           /\ Fits(worker'[c], now) /\ Moves(worker[c], worker'[c])
<1>1. c # "drain"
  BY ConnAssumption
<1>2. worker' = [worker EXCEPT ![c].pc = After[worker[c].pc]]
  BY <1>1 DEF Returned
<1>3. now \in Nat /\ worker \in [Conn -> Worker] /\ worker[c] \in Worker /\ Fits(worker[c], now)
  BY DEF WorkersInv
<1>4. PICK pc \in Phase \ Early : pc = After[worker[c].pc] /\ (worker[c].pc \in Ended => pc \in Ended)
  BY DEF After, Phase, Early, Held, Ended
<1>5. worker' \in [Conn -> Worker] /\ \A d \in Conn \ {c} : worker'[d] = worker[d]
  BY <1>2, <1>3, <1>4 DEF Worker
<1>6. worker'[c].pc = pc /\ worker'[c].at = worker[c].at /\ worker'[c].from = worker[c].from
  BY <1>2, <1>3, <1>4 DEF Worker
<1>7. Fits(worker'[c], now) /\ Moves(worker[c], worker'[c])
  BY <1>3, <1>4, <1>6 DEF Fits, Moves, Early, Held, Ended, Phase
<1> QED
  BY <1>4, <1>5, <1>6, <1>7

\* The spool is empty, so what the caller waits for is on record.
LEMMA SinkReturns ==
    ASSUME AuditInv, sink.pc = "flush", mem = <<>>, NEW c \in Conn, sink.c = c,
           Returned(c), sink' = Idle, UNCHANGED <<evidence, spool, directory, opsink, late, target, now>>
    PROVE  WorkersInv' /\ SpoolInv' /\ OperationsInv' /\ LateInv' /\ MatchInv'
<1>1. WorkersInv /\ SpoolInv /\ OperationsInv /\ LateInv /\ MatchInv
  BY DEF AuditInv
<1>2. UNCHANGED <<connections, operations, collected, forwarded, log, mem, file>>
  BY DEF evidence, target, spool
<1>3. worker[c].pc \in {"connecting", "closing"} /\ c # "drain"
  BY <1>1, ConnAssumption DEF SpoolInv
<1>4. /\ worker' \in [Conn -> Worker]
      /\ \A d \in Conn \ {c} : worker'[d] = worker[d]
      /\ worker'[c].pc = After[worker[c].pc] /\ worker'[c].from = worker[c].from
      /\ Fits(worker'[c], now) /\ Moves(worker[c], worker'[c])
  BY <1>1, <1>3, ReturnedWorker
<1>5. /\ worker[c].pc = "connecting" => worker'[c].pc = "open"
      /\ worker[c].pc = "closing" => worker'[c].pc = "done"
  BY <1>4 DEF After
<1>6. Steady /\ TrueEvent \subseteq TrueEvent'
  BY <1>4, OneMoves, TrueEventGrows
<1>7. WorkersInv'
  <2>1. worker[c].pc = "connecting" => ConnectedBy(c, now)'
    <3>1. ~ InSpool(c, now)
      BY DEF InSpool
    <3> QED
      BY <1>1, <1>2, <1>3, <3>1 DEF SpoolInv, ConnectedBy
  <2>2. worker'[c].pc \in Held => worker[c].pc = "connecting"
    BY <1>3, <1>5 DEF Held
  <2> QED
    BY <1>1, <1>2, <1>4, <2>1, <2>2, WorkerMoves DEF WorkersInv
<1>8. SpoolInv'
  <2>1. mem' \in Seq(TrueEvent') /\ file' \in Seq(TrueEvent') /\ connections' \subseteq TrueEvent'
    BY <1>1, <1>2, <1>6, SeqGrows DEF SpoolInv
  <2>2. <<>> \in Seq(TrueEvent')
    OBVIOUS
  <2>3. /\ sink'.pc = "idle"
        /\ sink' \in [pc : {"idle", "sync", "flush", "posted"}, c : Conn \cup {"drain", "none"},
                      batch : Seq(TrueEvent'), accepted : Seq(TrueEvent')]
    BY <2>2 DEF Idle
  <2> QED
    BY <2>1, <2>3 DEF SpoolInv
<1>9. OperationsInv'
  <2>1. PhaseFits(c)'
    BY <1>1, <1>2, <1>3, <1>5
       DEF OperationsInv, PhaseFits, Early, Ended, OnRecord, HasOperation, Known
  <2> QED
    BY <1>1, <1>2, <1>3, <1>4, <2>1, PhaseMoves
<1> QED
  BY <1>1, <1>2, <1>6, <1>7, <1>8, <1>9, LateFrame, MatchMoves DEF Known

\* The drain goes on with the operations, whose spool nobody else uses.
LEMMA DrainGoesOn ==
    ASSUME OperationsInv, opsink.pc = "idle", UNCHANGED <<worker, directory, operations, forwarded>>,
           opsink' = [Idle EXCEPT !.pc = "flush", !.c = "drain"]
    PROVE  OperationsInv' /\ opsink'.pc = "flush" /\ opsink'.c = "drain"
<1>1. UNCHANGED <<Known>> /\ \A d, k : HasOperation(d, k)' = HasOperation(d, k) /\ OnRecord(d, k)' = OnRecord(d, k)
  BY DEF Known, HasOperation, OnRecord
<1>2. opsink' = [pc |-> "flush", c |-> "drain", batch |-> <<>>, accepted |-> <<>>]
  BY DEF Idle
<1>3. OpSinkInv'
  <2>1. <<>> \in Seq(OperationEvent)
    OBVIOUS
  <2>2. opsink' \in [pc : {"idle", "flush", "posted", "remove"}, c : Conn \cup {"drain", "none"},
                       batch : Seq(OperationEvent), accepted : Seq(OperationEvent)]
    BY <1>2, <2>1 DEF Idle
  <2>3. opsink'.pc = "flush" /\ opsink'.c = "drain"
    BY <1>2
  <2> QED
    BY <2>2, <2>3 DEF OpSinkInv
<1>4. KnownInv'
  BY <1>1 DEF OperationsInv, KnownInv
<1>5. opsink.c \notin Conn /\ opsink'.c \notin Conn
  BY <1>2, ConnAssumption DEF OperationsInv, OpSinkInv
<1>6. \A c \in Conn : PhaseFits(c)'
  BY <1>1, <1>5 DEF OperationsInv, PhaseFits
<1> QED
  BY <1>2, <1>3, <1>4, <1>6 DEF OperationsInv

\* The next batch is sent, or the spool is empty and the caller goes on.
LEMMA FlushStep ==
    ASSUME AuditInv, Flush
    PROVE  AuditInv'
<1>1. /\ sink.pc = "flush" /\ proc' = proc
      /\ UNCHANGED <<evidence, spool, directory, late, target, now>>
      /\ WorkersInv /\ SpoolInv /\ OperationsInv /\ LateInv /\ ProcessInv /\ MatchInv
  BY DEF Flush, AuditInv, agent
<1>2. UNCHANGED <<connections, trail, operations, collected, forwarded, log, mem, file>>
  BY <1>1 DEF evidence, target, spool
<1>3. worker' = worker => MatchInv'
  BY <1>1, <1>2, MatchFrame
<1>4. CASE UNCHANGED <<worker, opsink>> /\ sink' = [sink EXCEPT !.pc = "posted", !.batch = Pending]
  <2>1. TrueEvent' = TrueEvent
    BY <1>2, <1>4, TrueEventStays
  <2>2. mem \in Seq(TrueEvent) /\ BatchSize \in Nat
    BY <1>1, BatchSizeAssumption DEF SpoolInv
  <2>3. Pending \in Seq(TrueEvent)
    BY <2>2, SeqFacts DEF Pending
  <2>4. Len(Pending) <= Len(mem) /\ \A n \in 1..Len(Pending) : mem[n] = Pending[n]
    BY <2>2 DEF Pending
  <2>5. /\ sink'.pc = "posted" /\ sink'.c = sink.c /\ sink'.accepted = <<>> /\ sink'.batch = Pending
        /\ sink' \in [pc : {"idle", "sync", "flush", "posted"}, c : Conn \cup {"drain", "none"},
                      batch : Seq(TrueEvent), accepted : Seq(TrueEvent)]
    BY <1>1, <1>4, <2>3 DEF SpoolInv
  <2>6. ConnectedBy(sink.c, now)' = ConnectedBy(sink.c, now) /\ InSpool(sink.c, now)' = InSpool(sink.c, now)
    BY <1>1, <1>2, <2>5 DEF ConnectedBy, InSpool
  <2>7. SpoolInv'
    <3>1. mem' \in Seq(TrueEvent') /\ file' \in Seq(TrueEvent') /\ connections' \subseteq TrueEvent'
      BY <1>1, <1>2, <2>1 DEF SpoolInv
    <3>2. 1..Len(<<>>) = {}
      OBVIOUS
    <3> QED
      BY <1>1, <1>2, <1>4, <2>1, <2>4, <2>5, <2>6, <3>1, <3>2 DEF SpoolInv
  <2>8. ProcessInv'
    BY <1>1, <1>4, <2>5 DEF ProcessInv
  <2> QED
    BY <1>1, <1>2, <1>3, <1>4, <2>1, <2>7, <2>8, WorkersFrame, OperationsFrame, LateFrame DEF AuditInv, Known
<1>5. CASE /\ mem = <<>> /\ Returned(sink.c) /\ sink' = Idle
           /\ opsink' = IF sink.c = "drain" THEN [Idle EXCEPT !.pc = "flush", !.c = "drain"] ELSE opsink
  <2>1. sink'.pc = "idle"
    BY <1>5 DEF Idle
  <2>2. CASE sink.c \in Conn
    <3>1. sink.c # "drain" /\ opsink' = opsink
      BY <2>2, <1>5, ConnAssumption
    <3>2. WorkersInv' /\ SpoolInv' /\ OperationsInv' /\ LateInv' /\ MatchInv'
      BY <1>1, <1>5, <2>2, <3>1, SinkReturns
    <3>3. ProcessInv'
      BY <1>1, <2>1, <3>1 DEF ProcessInv
    <3> QED
      BY <3>2, <3>3 DEF AuditInv
  <2>3. CASE sink.c = "drain"
    <3>1. worker' = worker /\ opsink.pc = "idle" /\ proc = "draining"
      BY <1>1, <1>5, <2>3 DEF Returned, ProcessInv
    <3>2. OperationsInv' /\ opsink'.pc = "flush" /\ opsink'.c = "drain"
      BY <1>1, <1>2, <1>5, <2>3, <3>1, DrainGoesOn
    <3>3. TrueEvent' = TrueEvent
      BY <1>2, <3>1, TrueEventStays
    <3>4. SpoolInv'
      <4>1. mem' \in Seq(TrueEvent') /\ file' \in Seq(TrueEvent') /\ connections' \subseteq TrueEvent'
        BY <1>1, <1>2, <3>3 DEF SpoolInv
      <4>2. <<>> \in Seq(TrueEvent')
        OBVIOUS
      <4>3. sink' \in [pc : {"idle", "sync", "flush", "posted"}, c : Conn \cup {"drain", "none"},
                       batch : Seq(TrueEvent'), accepted : Seq(TrueEvent')]
        BY <1>5, <4>2 DEF Idle
      <4> QED
        BY <2>1, <4>1, <4>3 DEF SpoolInv
    <3>5. ProcessInv'
      BY <1>1, <2>1, <3>1, <3>2 DEF ProcessInv
    <3> QED
      BY <1>1, <1>2, <1>3, <3>1, <3>2, <3>3, <3>4, <3>5, WorkersFrame, LateFrame DEF AuditInv, Known
  <2> QED
    BY <1>1, <2>2, <2>3, SinkCaller
<1> QED
  BY <1>4, <1>5 DEF Flush, agent

\* The control plane records an event of the batch; a sender that gives up may
\* leave the rest of its request behind.
LEMMA EventBatchStep ==
    ASSUME AuditInv, gatewayEventBatch
    PROVE  AuditInv'
<1> DEFINE rest == SubSeq(sink.batch, Len(sink.accepted) + 1, Len(sink.batch))
<1>1. /\ sink.pc = "posted" /\ UNCHANGED <<spool, directory, opsink, target, now>>
      /\ WorkersInv /\ SpoolInv /\ OperationsInv /\ LateInv /\ ProcessInv /\ MatchInv
  BY DEF gatewayEventBatch, AuditInv
<1>2. UNCHANGED <<forwarded, log, mem, file>>
  BY <1>1 DEF target, spool
<1>3. sink.batch \in Seq(TrueEvent) /\ sink.accepted \in Seq(TrueEvent)
  BY <1>1 DEF SpoolInv
<1>4. rest \in Seq(TrueEvent) /\ (rest # <<>> => Head(rest) \in TrueEvent)
  <2>1. Len(sink.accepted) \in Nat
    BY <1>3
  <2>2. rest \in Seq(TrueEvent)
    BY <1>3, <2>1, SeqFacts
  <2> QED
    BY <2>2, SeqFacts
<1>5. CASE /\ rest # <<>> /\ RecordGatewayEvent(Head(rest)) /\ UNCHANGED <<worker, proc, late>>
           /\ sink' = [sink EXCEPT !.accepted = Append(sink.accepted, Head(rest))]
  <2>1. PICK e \in TrueEvent : e = Head(rest)
    BY <1>4, <1>5
  <2>2. /\ connections' \subseteq TrueEvent /\ connections \subseteq connections'
        /\ e \in connections' /\ operations' = operations /\ collected' = collected
    BY <1>1, <1>5, <2>1, RecordedEvent
  <2>3. TrueEvent' = TrueEvent
    BY <1>2, <1>5, TrueEventStays
  <2>4. Append(sink.accepted, e) \in Seq(TrueEvent)
    BY <1>3, AppendFacts
  <2>5. /\ sink'.pc = "posted" /\ sink'.c = sink.c /\ sink'.batch = sink.batch
        /\ sink'.accepted = Append(sink.accepted, e)
        /\ sink' \in [pc : {"idle", "sync", "flush", "posted"}, c : Conn \cup {"drain", "none"},
                      batch : Seq(TrueEvent), accepted : Seq(TrueEvent)]
    BY <1>1, <1>5, <2>1, <2>4 DEF SpoolInv
  <2>6. ASSUME NEW n \in 1..Len(sink'.accepted)
        PROVE  sink'.accepted[n] \in connections'
    <3>1. Len(sink.accepted) \in Nat /\ Len(sink'.accepted) = Len(sink.accepted) + 1
      BY <1>3, <2>5, AppendFacts
    <3>2. CASE n \in 1..Len(sink.accepted)
      <4>1. sink'.accepted[n] = sink.accepted[n]
        BY <1>3, <2>5, <3>2, AppendFacts
      <4> QED
        BY <1>1, <2>2, <3>2, <4>1 DEF SpoolInv
    <3>3. CASE n = Len(sink.accepted) + 1
      BY <1>3, <2>2, <2>5, <3>3, AppendFacts
    <3> QED
      BY <3>1, <3>2, <3>3
  <2>7. /\ ConnectedBy(sink.c, now) => ConnectedBy(sink.c, now)'
        /\ InSpool(sink.c, now) => InSpool(sink.c, now)'
    BY <1>1, <1>2, <2>2, <2>5 DEF ConnectedBy, InSpool
  <2>8. SpoolInv'
    <3>1. /\ mem' \in Seq(TrueEvent') /\ file' \in Seq(TrueEvent') /\ connections' \subseteq TrueEvent'
          /\ sink' \in [pc : {"idle", "sync", "flush", "posted"}, c : Conn \cup {"drain", "none"},
                        batch : Seq(TrueEvent'), accepted : Seq(TrueEvent')]
      BY <1>1, <1>2, <2>2, <2>3, <2>5 DEF SpoolInv
    <3>2. /\ Len(sink'.batch) <= Len(mem') /\ \A n \in 1..Len(sink'.batch) : mem'[n] = sink'.batch[n]
      BY <1>1, <1>2, <2>5 DEF SpoolInv
    <3>3. sink'.c # "drain" => sink'.c \in Conn /\ worker'[sink'.c].pc \in {"connecting", "closing"}
      BY <1>1, <1>5, <2>5 DEF SpoolInv
    <3>4. sink'.c # "drain" /\ worker'[sink'.c].pc = "connecting" =>
              (ConnectedBy(sink.c, now) \/ InSpool(sink.c, now))'
      BY <1>1, <1>5, <2>5, <2>7 DEF SpoolInv
    <3> QED
      BY <2>5, <2>6, <3>1, <3>2, <3>3, <3>4 DEF SpoolInv
  <2>9. ProcessInv'
    BY <1>1, <1>5, <2>5 DEF ProcessInv
  <2>10. WorkersInv' /\ OperationsInv' /\ MatchInv'
    BY <1>1, <1>2, <1>5, <2>2, WorkersFrame, OperationsFrame, MatchFrame
  <2>11. LateInv'
    BY <1>1, <1>5, <2>2, <2>3, LateFrame DEF Known
  <2> QED
    BY <2>2, <2>8, <2>9, <2>10, <2>11 DEF AuditInv
<1>6. CASE /\ SinkError /\ UNCHANGED evidence
           /\ late' \in {late, IF late = NoRequest THEN Request("events", rest) ELSE late}
  <2>1. file' \in Seq(TrueEvent)
    BY <1>1, <1>2 DEF SpoolInv
  <2>2. ASSUME TrueEvent \subseteq TrueEvent'
        PROVE  LateInv'
    <3>1. Known' = Known
      BY <1>1, <1>6 DEF Known, evidence
    <3>2. CASE late' = late
      BY <1>1, <2>2, <3>1, <3>2, LateFrame
    <3>3. CASE late' = Request("events", rest)
      <4>1. rest \in Seq(TrueEvent')
        BY <1>4, <2>2, SeqGrows
      <4> QED
        BY <3>3, <4>1 DEF LateInv, Request
    <3> QED
      BY <1>6, <3>2, <3>3
  <2> QED
    BY <1>1, <1>2, <1>6, <2>1, <2>2, SinkErrorStep
<1> QED
  BY <1>5, <1>6 DEF gatewayEventBatch, agent

\* What is acknowledged is on record and leaves the spool.
LEMMA AckStep ==
    ASSUME AuditInv, Ack
    PROVE  AuditInv'
<1> DEFINE remaining == SubSeq(mem, Len(sink.batch) + 1, Len(mem))
<1>1. /\ sink.pc = "posted" /\ UNCHANGED <<evidence, directory, opsink, late, target, now>>
      /\ sink.accepted = sink.batch
      /\ WorkersInv /\ SpoolInv /\ OperationsInv /\ LateInv /\ ProcessInv /\ MatchInv
  BY DEF Ack, AuditInv, validateAuditAcknowledgement
<1>2. UNCHANGED <<connections, trail, operations, collected, forwarded, log>>
  BY <1>1 DEF evidence, target
<1>3. mem \in Seq(TrueEvent) /\ file \in Seq(TrueEvent) /\ sink.batch \in Seq(TrueEvent)
  BY <1>1 DEF SpoolInv
<1>4. remaining \in Seq(TrueEvent) /\ <<>> \in Seq(TrueEvent)
  <2>1. Len(sink.batch) \in Nat
    BY <1>3
  <2> QED
    BY <1>3, <2>1, SeqFacts
<1>5. CASE /\ file' = remaining /\ mem' = remaining /\ UNCHANGED <<worker, proc>>
           /\ sink' = [sink EXCEPT !.pc = "flush", !.batch = <<>>, !.accepted = <<>>]
  <2>1. TrueEvent' = TrueEvent
    BY <1>2, <1>5, TrueEventStays
  <2>2. /\ sink'.pc = "flush" /\ sink'.c = sink.c /\ sink'.accepted = <<>>
        /\ sink' \in [pc : {"idle", "sync", "flush", "posted"}, c : Conn \cup {"drain", "none"},
                      batch : Seq(TrueEvent), accepted : Seq(TrueEvent)]
    BY <1>1, <1>4, <1>5 DEF SpoolInv
  <2>3. ASSUME ConnectedBy(sink.c, now) \/ InSpool(sink.c, now)
        PROVE  (ConnectedBy(sink.c, now) \/ InSpool(sink.c, now))'
    <3>1. CASE ConnectedBy(sink.c, now)
      BY <1>1, <1>2, <2>2, <3>1 DEF ConnectedBy
    <3>2. CASE InSpool(sink.c, now)
      <4>1. PICK n \in 1..Len(mem) : IsConnect(mem[n], sink.c, now)
        BY <3>2 DEF InSpool
      <4>2. CASE n <= Len(sink.batch)
        <5>1. n \in 1..Len(sink.batch)
          BY <1>3, <4>2
        <5>2. mem[n] \in connections
          BY <1>1, <5>1 DEF SpoolInv
        <5> QED
          BY <1>1, <1>2, <2>2, <4>1, <5>2 DEF ConnectedBy
      <4>3. CASE ~ (n <= Len(sink.batch))
        <5>1. /\ n - Len(sink.batch) \in 1..Len(remaining)
              /\ remaining[n - Len(sink.batch)] = mem[n]
          <6>1. Len(sink.batch) \in Nat /\ Len(sink.batch) < n
            BY <1>3, <4>3
          <6> QED
            BY <1>3, <6>1, SuffixFacts
        <5> QED
          BY <1>1, <1>5, <2>2, <4>1, <5>1 DEF InSpool
      <4> QED
        BY <4>2, <4>3
    <3> QED
      BY <2>3, <3>1, <3>2
  <2>4. SpoolInv'
    <3>1. /\ mem' \in Seq(TrueEvent') /\ file' \in Seq(TrueEvent') /\ connections' \subseteq TrueEvent'
          /\ sink' \in [pc : {"idle", "sync", "flush", "posted"}, c : Conn \cup {"drain", "none"},
                        batch : Seq(TrueEvent'), accepted : Seq(TrueEvent')]
      BY <1>1, <1>2, <1>4, <1>5, <2>1, <2>2 DEF SpoolInv
    <3>2. sink'.c # "drain" => sink'.c \in Conn /\ worker'[sink'.c].pc \in {"connecting", "closing"}
      BY <1>1, <1>5, <2>2 DEF SpoolInv
    <3>3. sink'.c # "drain" /\ worker'[sink'.c].pc = "connecting" =>
              (ConnectedBy(sink.c, now) \/ InSpool(sink.c, now))'
      BY <1>1, <1>5, <2>2, <2>3 DEF SpoolInv
    <3> QED
      BY <2>2, <3>1, <3>2, <3>3 DEF SpoolInv
  <2>5. ProcessInv'
    BY <1>1, <1>5, <2>2 DEF ProcessInv
  <2>6. WorkersInv' /\ OperationsInv' /\ MatchInv'
    BY <1>1, <1>2, <1>5, WorkersFrame, OperationsFrame, MatchFrame
  <2>7. LateInv'
    BY <1>1, <1>2, <2>1, LateFrame DEF Known
  <2> QED
    BY <2>4, <2>5, <2>6, <2>7 DEF AuditInv
<1>6. CASE file' \in {remaining, file} /\ SinkError /\ mem' = mem
  <2>1. file' \in Seq(TrueEvent)
    BY <1>3, <1>4, <1>6
  <2>2. TrueEvent \subseteq TrueEvent' => LateInv'
    BY <1>1, <1>2, LateFrame DEF Known
  <2> QED
    BY <1>1, <1>6, <2>1, <2>2, SinkErrorStep
<1> QED
  BY <1>5, <1>6 DEF Ack, replace, replaceFails, agent

-----------------------------------------------------------------------------
\* The spool of operations.

\* The first event of its kind for the command of the worker.
LEMMA StoredEvent ==
    ASSUME AuditInv, NEW c \in Conn, opsink.pc = "idle", NEW kind,
           \/ worker[c].pc = "starting" /\ kind = "started"
           \/ worker[c].pc = "finishing" /\ kind = "completed",
           directory' = directory \cup {Event(c, kind)}, operations' = operations
    PROVE  /\ KnownInv' /\ Known \subseteq Known' /\ HasOperation(c, kind)'
           /\ \A d, k : d # c \/ k # kind => HasOperation(d, k)' = HasOperation(d, k)
<1>1. WorkersInv /\ OpSinkInv /\ KnownInv /\ PhaseFits(c)
  BY DEF AuditInv, OperationsInv
<1>2. PICK e : e = Event(c, kind)
  OBVIOUS
<1>3. e.c = c /\ e.kind = kind /\ e \in OperationEvent
  <2>1. worker[c].at \in Nat
    BY <1>1 DEF WorkersInv, Worker
  <2> QED
    BY <1>2, <2>1 DEF Event, OperationEvent, OperationKind
<1>4. Known' = Known \cup {e}
  BY <1>2 DEF Known
<1>5. ~ HasOperation(c, kind)
  <2>1. opsink.c # c
    BY <1>1, ConnAssumption DEF OpSinkInv
  <2> QED
    BY <1>1, <2>1 DEF PhaseFits
<1>6. KnownInv'
  BY <1>1, <1>3, <1>4, <1>5 DEF KnownInv, HasOperation, OperationEvent
<1> QED
  BY <1>3, <1>4, <1>6 DEF HasOperation

\* Nobody waits for the spool of operations any more.
LEMMA OpSinkRefuses ==
    ASSUME AuditInv, NEW c \in Conn \cup {"drain"}, Refused(c),
           c \in Conn => worker[c].pc \in {"starting", "finishing"},
           opsink.c \in Conn => opsink.c = c,
           opsink' = Idle \/ (opsink' = opsink /\ opsink.pc = "idle"),
           KnownInv', UNCHANGED <<evidence, mem, file, sink, target, now>>,
           \A d \in Conn \ {c} : \A k : HasOperation(d, k)' = HasOperation(d, k)
    PROVE  /\ TrueEvent \subseteq TrueEvent'
           /\ WorkersInv' /\ SpoolInv' /\ OperationsInv' /\ MatchInv'
<1>1. WorkersInv /\ SpoolInv /\ OperationsInv /\ MatchInv
  BY DEF AuditInv
<1>2. UNCHANGED <<connections, trail, operations, collected, forwarded, log>>
  BY DEF evidence, target
<1>3. /\ c \in Conn => worker'[c].pc \in Ended /\ Moves(worker[c], worker'[c])
      /\ \A d \in Conn \ {c} : worker'[d] = worker[d]
  BY <1>1, RefusedWorker DEF Refused
<1>4. Steady /\ TrueEvent \subseteq TrueEvent'
  <2>1. Steady
    BY <1>3, OneMoves DEF Steady, Moves
  <2> QED
    BY <2>1, TrueEventGrows
<1>5. WorkersInv'
  <2>1. CASE c \in Conn
    <3>1. /\ worker' \in [Conn -> Worker] /\ Fits(worker'[c], now)
          /\ worker'[c].from = worker[c].from /\ worker'[c].pc \notin Held
          /\ now' = now /\ now \in Nat
      BY <2>1, <1>1, RefusedWorker DEF WorkersInv, Ended, Held
    <3> QED
      BY <1>1, <1>2, <1>3, <2>1, <3>1, WorkerMoves DEF WorkersInv
  <2>2. CASE c = "drain"
    <3>1. worker' = worker
      BY <2>2 DEF Refused
    <3> QED
      BY <3>1, <1>1, <1>2, WorkersFrame
  <2> QED
    BY <2>1, <2>2
<1>6. SpoolInv'
  <2>1. sink.c \in Conn /\ sink.pc # "idle" => sink.c # c
    BY <1>1, SinkCaller
  <2>2. now \in Nat /\ connections' \subseteq TrueEvent'
    BY <1>1, <1>2, <1>4 DEF WorkersInv, SpoolInv
  <2> QED
    BY <1>1, <1>2, <1>3, <1>4, <2>1, <2>2, SpoolFrame
<1>7. OperationsInv'
  <2>1. opsink'.pc = "idle" /\ opsink'.c = "none"
    BY <1>1 DEF Idle, OperationsInv, OpSinkInv
  <2>2. OpSinkInv'
    <3>1. <<>> \in Seq(OperationEvent)
      OBVIOUS
    <3>2. opsink' \in [pc : {"idle", "flush", "posted", "remove"}, c : Conn \cup {"drain", "none"},
                       batch : Seq(OperationEvent), accepted : Seq(OperationEvent)]
      <4>1. CASE opsink' = Idle
        BY <3>1, <4>1 DEF Idle
      <4>2. CASE opsink' = opsink
        BY <1>1, <4>2 DEF OperationsInv, OpSinkInv
      <4> QED
        BY <4>1, <4>2
    <3> QED
      BY <2>1, <3>2 DEF OpSinkInv
  <2>3. \A d, k : OnRecord(d, k)' = OnRecord(d, k)
    BY <1>2 DEF OnRecord
  <2>4. ASSUME NEW d \in Conn
        PROVE  PhaseFits(d)'
    <3>1. CASE d = c
      BY <1>1, <1>2, <1>3, <2>3, <3>1 DEF OperationsInv, PhaseFits, Early, Ended
    <3>2. CASE d # c
      BY <1>1, <1>2, <1>3, <2>3, <3>2 DEF OperationsInv, PhaseFits
    <3> QED
      BY <3>1, <3>2
  <2> QED
    BY <2>2, <2>4 DEF OperationsInv
<1> QED
  BY <1>1, <1>2, <1>4, <1>5, <1>6, <1>7, MatchMoves

LEMMA OpSinkCaller ==
    ASSUME OperationsInv, opsink.pc # "idle"
    PROVE  /\ opsink.c \in Conn \cup {"drain"}
           /\ opsink.c \in Conn => worker[opsink.c].pc \in {"starting", "finishing"}
  BY ConnAssumption DEF OperationsInv, OpSinkInv

\* A step of the spool of operations that fails.
LEMMA OpErrorStep ==
    ASSUME AuditInv, OpError, opsink.pc # "idle",
           UNCHANGED <<evidence, spool, sink, directory, target, now>>,
           TrueEvent \subseteq TrueEvent' => LateInv'
    PROVE  AuditInv'
<1>1. OperationsInv /\ ProcessInv /\ Refused(opsink.c) /\ opsink' = Idle
  BY DEF AuditInv, OpError
<1>2. UNCHANGED <<operations, mem, file>>
  BY DEF evidence, spool
<1>3. KnownInv' /\ \A d, k : HasOperation(d, k)' = HasOperation(d, k)
  BY <1>1, <1>2 DEF OperationsInv, KnownInv, HasOperation, Known
<1>4. /\ TrueEvent \subseteq TrueEvent'
      /\ WorkersInv' /\ SpoolInv' /\ OperationsInv' /\ MatchInv'
  <2>1. /\ opsink.c \in Conn \cup {"drain"}
        /\ opsink.c \in Conn => worker[opsink.c].pc \in {"starting", "finishing"}
    BY <1>1, OpSinkCaller
  <2> QED
    BY <1>1, <1>2, <1>3, <2>1, OpSinkRefuses
<1>5. ProcessInv'
  <2>1. opsink'.pc = "idle" /\ proc' = IF opsink.c = "drain" THEN "down" ELSE proc
    BY <1>1 DEF OpError, DrainOutcome, Idle
  <2> QED
    BY <1>1, <2>1 DEF ProcessInv
<1> QED
  BY <1>4, <1>5 DEF AuditInv

\* The event gets a file of its own, or the write fails after it exists or before.
LEMMA StoreStep ==
    ASSUME AuditInv, NEW c \in Conn, Store(c)
    PROVE  AuditInv'
<1>1. PICK kind : /\ \/ worker[c].pc = "starting" /\ kind = "started"
                     \/ worker[c].pc = "finishing" /\ kind = "completed"
                  /\ kind = IF worker[c].pc = "starting" THEN "started" ELSE "completed"
  BY DEF Store
<1>2. /\ opsink.pc = "idle" /\ proc = "agent" /\ UNCHANGED <<evidence, spool, sink, late, target, now>>
      /\ WorkersInv /\ SpoolInv /\ OperationsInv /\ LateInv /\ ProcessInv /\ MatchInv
  BY DEF Store, AuditInv
<1>3. UNCHANGED <<connections, trail, operations, collected, forwarded, log, mem, file>>
  BY <1>2 DEF evidence, target, spool
<1>4. opsink.c = "none" /\ opsink.c \notin Conn /\ c # "drain"
  BY <1>2, ConnAssumption DEF OperationsInv, OpSinkInv
<1>5. CASE /\ directory' = directory \cup {Event(c, kind)} /\ UNCHANGED <<worker, proc>>
           /\ opsink' = [Idle EXCEPT !.pc = "flush", !.c = c]
  <2>1. /\ KnownInv' /\ Known \subseteq Known' /\ HasOperation(c, kind)'
        /\ \A d, k : d # c \/ k # kind => HasOperation(d, k)' = HasOperation(d, k)
    BY <1>1, <1>2, <1>3, <1>5, StoredEvent
  <2>2. opsink' = [pc |-> "flush", c |-> c, batch |-> <<>>, accepted |-> <<>>]
    BY <1>5 DEF Idle
  <2>3. opsink'.pc = "flush" /\ opsink'.c = c
    BY <2>2
  <2>4. OpSinkInv'
    <3>1. <<>> \in Seq(OperationEvent)
      OBVIOUS
    <3>2. opsink' \in [pc : {"idle", "flush", "posted", "remove"}, c : Conn \cup {"drain", "none"},
                       batch : Seq(OperationEvent), accepted : Seq(OperationEvent)]
      BY <2>2, <3>1
    <3>3. worker'[opsink'.c].pc \in {"starting", "finishing"}
      BY <1>1, <1>5, <2>3
    <3>4. worker'[opsink'.c].pc = "starting" => HasOperation(opsink.c, "started")'
      BY <1>1, <1>5, <2>1, <2>3 DEF HasOperation
    <3> QED
      BY <1>4, <2>3, <3>2, <3>3, <3>4 DEF OpSinkInv
  <2>5. ASSUME NEW d \in Conn
        PROVE  PhaseFits(d)'
    <3>1. \A k : OnRecord(d, k)' = OnRecord(d, k)
      BY <1>3 DEF OnRecord
    <3>2. PhaseFits(d) /\ worker' = worker /\ forwarded' = forwarded
      BY <1>2, <1>3, <1>5 DEF OperationsInv
    <3>3. CASE d = c
      BY <1>1, <2>1, <2>3, <1>4, <3>1, <3>2, <3>3 DEF PhaseFits, Early
    <3>4. CASE d # c
      BY <2>1, <2>3, <1>4, <3>1, <3>2, <3>4 DEF PhaseFits
    <3> QED
      BY <3>3, <3>4
  <2>6. TrueEvent' = TrueEvent
    BY <1>3, <1>5, TrueEventStays
  <2>7. WorkersInv' /\ MatchInv' /\ LateInv'
    BY <1>2, <1>3, <1>5, <2>1, <2>6, WorkersFrame, MatchFrame, LateFrame
  <2>8. SpoolInv'
    <3>1. now \in Nat /\ connections' \subseteq TrueEvent'
      BY <1>2, <1>3, <2>6 DEF WorkersInv, SpoolInv
    <3> QED
      BY <1>2, <1>3, <1>5, <2>6, <3>1, SpoolFrame
  <2>9. ProcessInv'
    BY <1>2, <1>4, <1>5, <2>3 DEF ProcessInv
  <2> QED
    BY <2>1, <2>4, <2>5, <2>7, <2>8, <2>9 DEF AuditInv, OperationsInv
<1>6. CASE /\ Refused(c) /\ directory' \in {directory, directory \cup {Event(c, kind)}}
           /\ UNCHANGED <<opsink, proc>>
  <2>1. /\ KnownInv' /\ Known \subseteq Known'
        /\ \A d, k : d # c => HasOperation(d, k)' = HasOperation(d, k)
    <3>1. CASE directory' = directory
      BY <1>2, <1>3, <3>1 DEF OperationsInv, KnownInv, HasOperation, Known
    <3>2. CASE directory' = directory \cup {Event(c, kind)}
      BY <1>1, <1>2, <1>3, <3>2, StoredEvent
    <3> QED
      BY <1>6, <3>1, <3>2
  <2>2. /\ TrueEvent \subseteq TrueEvent'
        /\ WorkersInv' /\ SpoolInv' /\ OperationsInv' /\ MatchInv'
    BY <1>1, <1>2, <1>3, <1>4, <1>6, <2>1, OpSinkRefuses
  <2> QED
    BY <1>2, <1>6, <2>1, <2>2, LateFrame, ProcessFrame DEF AuditInv
<1> QED
  BY <1>1, <1>5, <1>6 DEF Store, agent

\* A step of the spool of operations that keeps the events there are.
LEMMA KnownStays ==
    ASSUME OperationsInv, Known' = Known, operations \subseteq operations', OpSinkInv',
           opsink'.c = opsink.c, UNCHANGED <<worker, forwarded>>
    PROVE  OperationsInv'
<1>1. /\ \A d, k : HasOperation(d, k)' = HasOperation(d, k)
      /\ \A d, k : OnRecord(d, k) => OnRecord(d, k)'
  BY DEF HasOperation, OnRecord
<1>2. KnownInv'
  BY DEF OperationsInv, KnownInv
<1>3. \A c \in Conn : PhaseFits(c)'
  BY <1>1 DEF OperationsInv, PhaseFits
<1> QED
  BY <1>2, <1>3 DEF OperationsInv

\* What steps of the spool of operations leave in order.
LEMMA OpSinkFrame ==
    ASSUME AuditInv, UNCHANGED <<worker, mem, file, sink, connections, trail, collected, now, target>>
    PROVE  TrueEvent' = TrueEvent /\ WorkersInv' /\ SpoolInv' /\ MatchInv'
<1>1. WorkersInv /\ SpoolInv /\ MatchInv /\ UNCHANGED <<forwarded, log>>
  BY DEF AuditInv, target
<1>2. TrueEvent' = TrueEvent
  BY <1>1, TrueEventStays
<1>3. now \in Nat /\ connections' \subseteq TrueEvent'
  BY <1>1, <1>2 DEF WorkersInv, SpoolInv
<1> QED
  BY <1>1, <1>2, <1>3, WorkersFrame, SpoolFrame, MatchFrame

\* The directory is empty, so what the caller waits for is on record.
LEMMA OpSinkReturns ==
    ASSUME AuditInv, opsink.pc = "flush", directory = {}, NEW c \in Conn, opsink.c = c,
           Returned(c), opsink' = Idle,
           UNCHANGED <<evidence, spool, sink, directory, late, target, now>>
    PROVE  WorkersInv' /\ SpoolInv' /\ OperationsInv' /\ LateInv' /\ MatchInv'
<1>1. WorkersInv /\ SpoolInv /\ OperationsInv /\ LateInv /\ MatchInv
  BY DEF AuditInv
<1>2. UNCHANGED <<connections, operations, collected, forwarded, log, mem, file>>
  BY DEF evidence, target, spool
<1>3. worker[c].pc \in {"starting", "finishing"} /\ c # "drain"
  BY <1>1, OpSinkCaller, ConnAssumption
<1>4. /\ worker' \in [Conn -> Worker]
      /\ \A d \in Conn \ {c} : worker'[d] = worker[d]
      /\ worker'[c].pc = After[worker[c].pc] /\ worker'[c].from = worker[c].from
      /\ Fits(worker'[c], now) /\ Moves(worker[c], worker'[c])
  BY <1>1, <1>3, ReturnedWorker
<1>5. /\ worker[c].pc = "starting" => worker'[c].pc = "forwarding"
      /\ worker[c].pc = "finishing" => worker'[c].pc = "open"
  BY <1>4 DEF After
<1>6. Steady /\ TrueEvent \subseteq TrueEvent'
  BY <1>4, OneMoves, TrueEventGrows
<1>7. WorkersInv'
  <2>1. worker[c].pc \in Held
    BY <1>3 DEF Held
  <2> QED
    BY <1>1, <1>2, <1>4, <2>1, WorkerMoves DEF WorkersInv
<1>8. SpoolInv'
  <2>1. sink.c \in Conn /\ sink.pc # "idle" => sink.c # c
    BY <1>1, <1>3, SinkCaller
  <2>2. now \in Nat /\ connections' \subseteq TrueEvent'
    BY <1>1, <1>2, <1>6 DEF WorkersInv, SpoolInv
  <2> QED
    BY <1>1, <1>2, <1>4, <1>6, <2>1, <2>2, SpoolFrame
<1>9. OperationsInv'
  <2>1. /\ Known' = Known /\ Known = operations
        /\ \A d, k : HasOperation(d, k)' = HasOperation(d, k) /\ OnRecord(d, k)' = OnRecord(d, k)
        /\ \A d, k : HasOperation(d, k) = OnRecord(d, k)
    BY <1>2 DEF Known, HasOperation, OnRecord
  <2>2. opsink' = [pc |-> "idle", c |-> "none", batch |-> <<>>, accepted |-> <<>>]
    BY DEF Idle
  <2>3. OpSinkInv'
    <3>1. <<>> \in Seq(OperationEvent)
      OBVIOUS
    <3>2. opsink' \in [pc : {"idle", "flush", "posted", "remove"}, c : Conn \cup {"drain", "none"},
                       batch : Seq(OperationEvent), accepted : Seq(OperationEvent)]
      BY ONLY <2>2, <3>1
    <3>3. opsink'.pc = "idle" /\ opsink'.c = "none"
      BY <2>2
    <3> QED
      BY <3>2, <3>3 DEF OpSinkInv
  <2>4. KnownInv'
    BY <1>1, <2>1 DEF OperationsInv, KnownInv
  <2>5. ASSUME NEW d \in Conn
        PROVE  PhaseFits(d)'
    <3>1. CASE d = c
      <4>1. worker[c].pc = "starting" => OnRecord(c, "started")
        BY <1>1, <1>3, <2>1 DEF OperationsInv, OpSinkInv
      <4> QED
        BY <1>1, <1>2, <1>3, <1>5, <2>1, <3>1, <4>1 DEF OperationsInv, PhaseFits, Early
    <3>2. CASE d # c
      BY <1>1, <1>2, <1>4, <2>1, <3>2 DEF OperationsInv, PhaseFits
    <3> QED
      BY <3>1, <3>2
  <2> QED
    BY <2>3, <2>4, <2>5 DEF OperationsInv
<1> QED
  BY <1>1, <1>2, <1>6, <1>7, <1>8, <1>9, LateFrame, MatchMoves DEF Known

\* The oldest file is sent, or there is none and the caller goes on.
LEMMA FlushOperationsStep ==
    ASSUME AuditInv, FlushOperations
    PROVE  AuditInv'
<1>1. /\ opsink.pc = "flush" /\ UNCHANGED <<evidence, spool, sink, directory, late, target, now>>
      /\ WorkersInv /\ SpoolInv /\ OperationsInv /\ LateInv /\ ProcessInv /\ MatchInv
  BY DEF FlushOperations, AuditInv
<1>2. UNCHANGED <<connections, trail, operations, collected, forwarded, log, mem, file>>
  BY <1>1 DEF evidence, target, spool
<1>3. Known' = Known
  BY <1>1, <1>2 DEF Known
<1>4. CASE \E e \in directory : /\ opsink' = [opsink EXCEPT !.pc = "posted", !.batch = <<e>>]
                                /\ UNCHANGED <<worker, proc>>
  <2>1. PICK e \in directory : /\ opsink' = [opsink EXCEPT !.pc = "posted", !.batch = <<e>>]
                               /\ UNCHANGED <<worker, proc>>
    BY <1>4
  <2>2. <<e>> \in Seq(OperationEvent)
    <3>1. e \in OperationEvent
      BY <1>1 DEF OperationsInv, KnownInv, Known
    <3> QED
      BY ONLY <3>1, SMT
  <2>3. /\ opsink'.pc = "posted" /\ opsink'.c = opsink.c /\ opsink'.batch = <<e>>
        /\ opsink' \in [pc : {"idle", "flush", "posted", "remove"}, c : Conn \cup {"drain", "none"},
                        batch : Seq(OperationEvent), accepted : Seq(OperationEvent)]
    BY <1>1, <2>1, <2>2 DEF OperationsInv, OpSinkInv
  <2>4. OpSinkInv'
    BY <1>1, <1>3, <2>1, <2>3 DEF OperationsInv, OpSinkInv, HasOperation
  <2>5. OperationsInv'
    BY <1>1, <1>2, <1>3, <2>1, <2>3, <2>4, KnownStays
  <2>6. TrueEvent' = TrueEvent /\ WorkersInv' /\ SpoolInv' /\ MatchInv'
    BY <1>1, <1>2, <2>1, OpSinkFrame
  <2>7. ProcessInv'
    BY <1>1, <2>1, <2>3 DEF ProcessInv
  <2> QED
    BY <1>1, <1>3, <2>5, <2>6, <2>7, LateFrame DEF AuditInv
<1>5. CASE /\ directory = {} /\ Returned(opsink.c) /\ DrainOutcome(opsink.c, "drained")
           /\ opsink' = Idle
  <2>1. opsink' = [pc |-> "idle", c |-> "none", batch |-> <<>>, accepted |-> <<>>]
    BY <1>5 DEF Idle
  <2>2. ProcessInv'
    BY <1>1, <1>5, <2>1 DEF ProcessInv, DrainOutcome
  <2>3. CASE opsink.c \in Conn
    <3>1. WorkersInv' /\ SpoolInv' /\ OperationsInv' /\ LateInv' /\ MatchInv'
      BY <1>1, <1>5, <2>3, OpSinkReturns
    <3> QED
      BY <2>2, <3>1 DEF AuditInv
  <2>4. CASE opsink.c = "drain"
    <3>1. worker' = worker
      BY <1>5, <2>4 DEF Returned
    <3>2. TrueEvent' = TrueEvent /\ WorkersInv' /\ SpoolInv' /\ MatchInv'
      BY <1>1, <1>2, <3>1, OpSinkFrame
    <3>3. opsink'.pc = "idle" /\ opsink'.c = "none"
      BY <2>1
    <3>4. OpSinkInv'
      <4>1. <<>> \in Seq(OperationEvent)
        OBVIOUS
      <4>2. opsink' \in [pc : {"idle", "flush", "posted", "remove"}, c : Conn \cup {"drain", "none"},
                         batch : Seq(OperationEvent), accepted : Seq(OperationEvent)]
        BY ONLY <2>1, <4>1
      <4> QED
        BY <3>3, <4>2 DEF OpSinkInv
    <3>5. \A c \in Conn : PhaseFits(c)'
      <4>1. opsink.c \notin Conn /\ opsink'.c \notin Conn
        BY <2>4, <3>3, ConnAssumption
      <4>2. \A d, k : HasOperation(d, k)' = HasOperation(d, k) /\ OnRecord(d, k)' = OnRecord(d, k)
        BY <1>2, <1>3 DEF HasOperation, OnRecord
      <4> QED
        BY <1>1, <1>2, <3>1, <4>1, <4>2 DEF OperationsInv, PhaseFits
    <3>6. KnownInv'
      BY <1>1, <1>3 DEF OperationsInv, KnownInv
    <3> QED
      BY <1>1, <1>3, <2>2, <3>2, <3>4, <3>5, <3>6, LateFrame DEF AuditInv, OperationsInv
  <2> QED
    BY <1>1, <2>3, <2>4, OpSinkCaller
<1> QED
  BY <1>4, <1>5 DEF FlushOperations, agent

\* The control plane records the operation, refuses it, or its answer is lost.
LEMMA OperationBatchStep ==
    ASSUME AuditInv, sessionOperationBatch
    PROVE  AuditInv'
<1>1. /\ opsink.pc = "posted" /\ UNCHANGED <<spool, sink, directory, target, now>>
      /\ WorkersInv /\ SpoolInv /\ OperationsInv /\ LateInv /\ ProcessInv /\ MatchInv
  BY DEF sessionOperationBatch, AuditInv
<1>2. PICK e \in directory : opsink.batch = <<e>> /\ Head(opsink.batch) = e
  BY <1>1 DEF OperationsInv, OpSinkInv
<1>3. CASE /\ RecordSessionOperations(e) /\ UNCHANGED <<worker, proc, late>>
           /\ opsink' = [opsink EXCEPT !.pc = "remove"]
  <2>1. operations' = operations \cup {e} /\ UNCHANGED <<connections, trail, collected>>
    BY <1>3 DEF RecordSessionOperations, AppendOperationEvent
  <2>2. UNCHANGED <<forwarded, log, mem, file>>
    BY <1>1 DEF target, spool
  <2>3. Known' = Known
    BY <1>1, <2>1 DEF Known
  <2>4. /\ opsink'.pc = "remove" /\ opsink'.c = opsink.c /\ opsink'.batch = opsink.batch
        /\ opsink' \in [pc : {"idle", "flush", "posted", "remove"}, c : Conn \cup {"drain", "none"},
                        batch : Seq(OperationEvent), accepted : Seq(OperationEvent)]
    BY <1>1, <1>3 DEF OperationsInv, OpSinkInv
  <2>5. OpSinkInv'
    BY <1>1, <1>2, <1>3, <2>1, <2>3, <2>4 DEF OperationsInv, OpSinkInv, HasOperation
  <2>6. OperationsInv'
    BY <1>1, <1>3, <2>1, <2>2, <2>3, <2>4, <2>5, KnownStays
  <2>7. TrueEvent' = TrueEvent /\ WorkersInv' /\ SpoolInv' /\ MatchInv'
    BY <1>1, <1>3, <2>1, <2>2, OpSinkFrame
  <2>8. ProcessInv'
    BY <1>1, <1>3, <2>4 DEF ProcessInv
  <2> QED
    BY <1>1, <1>3, <2>3, <2>6, <2>7, <2>8, LateFrame DEF AuditInv
<1>4. CASE OpError /\ UNCHANGED evidence
           /\ late' \in {late, IF late = NoRequest THEN Request("operations", opsink.batch) ELSE late}
  <2>1. Known' = Known /\ e \in Known
    BY <1>1, <1>4 DEF Known, evidence
  <2>2. ASSUME TrueEvent \subseteq TrueEvent'
        PROVE  LateInv'
    <3>1. CASE late' = late
      BY <1>1, <2>1, <2>2, <3>1, LateFrame
    <3>2. CASE late' = Request("operations", opsink.batch)
      <4>1. late' = NoRequest \/ late' = [to |-> "operations", rest |-> <<e>>]
        BY <1>2, <3>2 DEF Request
      <4> QED
        BY <2>1, <4>1 DEF LateInv
    <3> QED
      BY <1>4, <3>1, <3>2
  <2> QED
    BY <1>1, <1>4, <2>2, OpErrorStep
<1> QED
  BY <1>2, <1>3, <1>4 DEF sessionOperationBatch, agent

\* The file of a recorded operation is removed.
LEMMA RemoveOperationStep ==
    ASSUME AuditInv, RemoveOperation
    PROVE  AuditInv'
<1>1. /\ opsink.pc = "remove" /\ UNCHANGED <<evidence, spool, sink, late, target, now>>
      /\ WorkersInv /\ SpoolInv /\ OperationsInv /\ LateInv /\ ProcessInv /\ MatchInv
  BY DEF RemoveOperation, AuditInv
<1>2. UNCHANGED <<connections, trail, operations, collected, forwarded, log, mem, file>>
  BY <1>1 DEF evidence, target, spool
<1>3. CASE /\ directory' = directory \ {Head(opsink.batch)} /\ UNCHANGED <<worker, proc>>
           /\ opsink' = [opsink EXCEPT !.pc = "flush", !.batch = <<>>]
  <2>1. Known' = Known
    BY <1>1, <1>2, <1>3 DEF Known, OperationsInv, OpSinkInv
  <2>2. <<>> \in Seq(OperationEvent)
    OBVIOUS
  <2>3. /\ opsink'.pc = "flush" /\ opsink'.c = opsink.c
        /\ opsink' \in [pc : {"idle", "flush", "posted", "remove"}, c : Conn \cup {"drain", "none"},
                        batch : Seq(OperationEvent), accepted : Seq(OperationEvent)]
    BY <1>1, <1>3, <2>2 DEF OperationsInv, OpSinkInv
  <2>4. OpSinkInv'
    BY <1>1, <1>3, <2>1, <2>3 DEF OperationsInv, OpSinkInv, HasOperation
  <2>5. OperationsInv'
    BY <1>1, <1>2, <1>3, <2>1, <2>3, <2>4, KnownStays
  <2>6. TrueEvent' = TrueEvent /\ WorkersInv' /\ SpoolInv' /\ MatchInv'
    BY <1>1, <1>2, <1>3, OpSinkFrame
  <2>7. ProcessInv'
    BY <1>1, <1>3, <2>3 DEF ProcessInv
  <2> QED
    BY <1>1, <2>1, <2>5, <2>6, <2>7, LateFrame DEF AuditInv
<1>4. CASE OpError /\ directory' = directory
  <2>1. TrueEvent \subseteq TrueEvent' => LateInv'
    BY <1>1, <1>2, <1>4, LateFrame DEF Known
  <2> QED
    BY <1>1, <1>4, <2>1, OpErrorStep
<1> QED
  BY <1>3, <1>4 DEF RemoveOperation, agent

-----------------------------------------------------------------------------
\* The end of the agent, what is late, and the collector.

\* A drain takes the spool over.
LEMMA DrainStarts ==
    ASSUME AuditInv, mem' \in Seq(TrueEvent), opsink.pc = "idle", proc' = "draining",
           sink' = [Idle EXCEPT !.pc = "flush", !.c = "drain"],
           UNCHANGED <<evidence, worker, file, directory, opsink, late, target, now>>
    PROVE  AuditInv'
<1>1. WorkersInv /\ SpoolInv /\ OperationsInv /\ LateInv /\ MatchInv
  BY DEF AuditInv
<1>2. UNCHANGED <<connections, trail, operations, collected, forwarded, log>>
  BY DEF evidence, target
<1>3. TrueEvent' = TrueEvent
  BY <1>2, TrueEventStays
<1>4. sink' = [pc |-> "flush", c |-> "drain", batch |-> <<>>, accepted |-> <<>>]
  BY DEF Idle
<1>5. SpoolInv'
  <2>1. <<>> \in Seq(TrueEvent')
    OBVIOUS
  <2>2. sink' \in [pc : {"idle", "sync", "flush", "posted"}, c : Conn \cup {"drain", "none"},
                   batch : Seq(TrueEvent'), accepted : Seq(TrueEvent')]
    BY ONLY <1>4, <2>1
  <2>3. sink'.pc = "flush" /\ sink'.c = "drain" /\ sink'.accepted = <<>>
    BY ONLY <1>4
  <2>4. mem' \in Seq(TrueEvent') /\ file' \in Seq(TrueEvent') /\ connections' \subseteq TrueEvent'
    BY <1>1, <1>2, <1>3 DEF SpoolInv
  <2> QED
    BY <2>2, <2>3, <2>4 DEF SpoolInv
<1>6. ProcessInv'
  BY <1>4 DEF AuditInv, ProcessInv
<1> QED
  BY <1>1, <1>2, <1>3, <1>5, <1>6, WorkersFrame, OperationsFrame, LateFrame, MatchFrame
     DEF AuditInv, Known

LEMMA StopAgentStep ==
    ASSUME AuditInv, StopAgent
    PROVE  AuditInv'
<1>1. mem' \in Seq(TrueEvent) /\ file' = file
  BY DEF StopAgent, spool, AuditInv, SpoolInv
<1> QED
  BY <1>1, DrainStarts DEF StopAgent

LEMMA FlushSessionAuditStep ==
    ASSUME AuditInv, FlushSessionAudit
    PROVE  AuditInv'
<1>1. mem' \in Seq(TrueEvent) /\ opsink.pc = "idle"
  BY DEF FlushSessionAudit, load, AuditInv, SpoolInv, ProcessInv
<1> QED
  BY <1>1, DrainStarts DEF FlushSessionAudit

\* The machine dies: every worker ends, and the last line of the file may be lost.
LEMMA CrashStep ==
    ASSUME AuditInv, Crash
    PROVE  AuditInv'
<1>1. /\ proc' = "down"
      /\ mem' = <<>> /\ sink' = Idle /\ opsink' = Idle /\ file' \in {file, SubSeq(file, 1, Len(file) - 1)}
      /\ UNCHANGED <<evidence, directory, late, target, now>>
      /\ WorkersInv /\ SpoolInv /\ OperationsInv /\ LateInv /\ MatchInv
  BY DEF Crash, AuditInv
<1>2. UNCHANGED <<connections, trail, operations, collected, forwarded, log>>
  BY <1>1 DEF evidence, target
<1>3. /\ worker' \in [Conn -> Worker]
      /\ \A c \in Conn : /\ worker'[c].pc = "done" /\ worker'[c].from = worker[c].from
                         /\ Fits(worker'[c], now) /\ Moves(worker[c], worker'[c])
  <2>1. worker' = [c \in Conn |-> [worker[c] EXCEPT
                     !.pc = "done", !.at = IF Over(c) THEN @ ELSE now]]
    BY DEF Crash
  <2>2. ASSUME NEW c \in Conn
        PROVE  /\ worker'[c] \in Worker /\ worker'[c].pc = "done" /\ worker'[c].from = worker[c].from
               /\ Fits(worker'[c], now) /\ Moves(worker[c], worker'[c])
    <3>1. now \in Nat /\ worker[c] \in Worker /\ Fits(worker[c], now) /\ "done" \in Phase
      BY <1>1 DEF WorkersInv, Phase, Ended
    <3>2. PICK at \in Nat : at = IF Over(c) THEN worker[c].at ELSE now
      BY <3>1 DEF Worker
    <3>3. worker'[c] = [worker[c] EXCEPT !.pc = "done", !.at = at]
      BY <2>1, <3>2
    <3>4. /\ worker'[c] \in Worker /\ worker'[c].pc = "done" /\ worker'[c].at = at
          /\ worker'[c].from = worker[c].from
      BY <3>1, <3>3 DEF Worker
    <3> QED
      BY <3>1, <3>2, <3>4 DEF Fits, Moves, Over, Ended, Held, Worker
  <2> QED
    BY <2>1, <2>2
<1>4. Steady /\ TrueEvent \subseteq TrueEvent'
  BY <1>3, TrueEventGrows DEF Steady
<1>5. WorkersInv'
  <2>1. now \in Nat /\ \A c \in Conn : worker'[c].pc \notin Held
    BY <1>1, <1>3 DEF WorkersInv, Held
  <2>2. ASSUME NEW c \in Conn, NEW e \in Conn, c # e
        PROVE  Apart(worker'[c], worker'[e])
    <3>1. Apart(worker[c], worker[e])
      BY <1>1, <2>2 DEF WorkersInv
    <3> QED
      BY <1>3, <3>1 DEF Apart, Moves
  <2>3. \A x \in log : worker'[x.c].from # 0 /\ ConnectedBy(x.c, now)'
    BY <1>1, <1>2, <1>3 DEF WorkersInv, ConnectedBy
  <2> QED
    BY <1>1, <1>2, <1>3, <2>1, <2>2, <2>3 DEF WorkersInv, ConnectedBy
<1>6. SpoolInv'
  <2>1. file' \in Seq(TrueEvent)
    <3>1. file \in Seq(TrueEvent)
      BY <1>1 DEF SpoolInv
    <3>2. SubSeq(file, 1, Len(file) - 1) \in Seq(TrueEvent)
      BY <3>1, SeqFacts
    <3> QED
      BY <1>1, <3>1, <3>2
  <2>2. mem' \in Seq(TrueEvent') /\ file' \in Seq(TrueEvent') /\ connections' \subseteq TrueEvent'
    BY <1>1, <1>2, <1>4, <2>1, SeqGrows DEF SpoolInv
  <2>3. <<>> \in Seq(TrueEvent')
    OBVIOUS
  <2>4. /\ sink'.pc = "idle"
        /\ sink' \in [pc : {"idle", "sync", "flush", "posted"}, c : Conn \cup {"drain", "none"},
                      batch : Seq(TrueEvent'), accepted : Seq(TrueEvent')]
    BY <1>1, <2>3 DEF Idle
  <2> QED
    BY <2>2, <2>4 DEF SpoolInv
<1>7. OperationsInv'
  <2>1. /\ Known' = Known
        /\ \A d, k : OnRecord(d, k)' = OnRecord(d, k)
    BY <1>1, <1>2 DEF Known, OnRecord
  <2>2. opsink' = [pc |-> "idle", c |-> "none", batch |-> <<>>, accepted |-> <<>>]
    BY <1>1 DEF Idle
  <2>3. OpSinkInv'
    <3>1. <<>> \in Seq(OperationEvent)
      OBVIOUS
    <3>2. opsink' \in [pc : {"idle", "flush", "posted", "remove"}, c : Conn \cup {"drain", "none"},
                       batch : Seq(OperationEvent), accepted : Seq(OperationEvent)]
      BY ONLY <2>2, <3>1
    <3>3. opsink'.pc = "idle" /\ opsink'.c = "none"
      BY <2>2
    <3> QED
      BY <3>2, <3>3 DEF OpSinkInv
  <2>4. KnownInv'
    BY <1>1, <2>1 DEF OperationsInv, KnownInv
  <2>5. \A c \in Conn : PhaseFits(c)'
    BY <1>1, <1>2, <1>3, <2>1 DEF OperationsInv, PhaseFits, Early
  <2> QED
    BY <2>3, <2>4, <2>5 DEF OperationsInv
<1>8. ProcessInv'
  BY <1>1 DEF ProcessInv, Idle
<1> QED
  BY <1>1, <1>2, <1>4, <1>5, <1>6, <1>7, <1>8, LateFrame, MatchMoves DEF AuditInv, Known

\* What a sender gave up is executed all the same.
LEMMA ExecuteLateStep ==
    ASSUME AuditInv, ExecuteLate
    PROVE  AuditInv'
<1>1. /\ late # NoRequest /\ late' = Request(late.to, Tail(late.rest))
      /\ UNCHANGED <<agent, spool, sink, directory, opsink, target, now>>
      /\ WorkersInv /\ SpoolInv /\ OperationsInv /\ LateInv /\ ProcessInv /\ MatchInv
  BY DEF ExecuteLate, AuditInv
<1>2. UNCHANGED <<proc, worker, forwarded, log, mem, file>>
  BY <1>1 DEF agent, target, spool
<1>3. TrueEvent' = TrueEvent /\ now \in Nat
  BY <1>1, <1>2, TrueEventStays DEF WorkersInv
<1>4. ProcessInv'
  BY <1>1, <1>2, ProcessFrame
<1>5. CASE late.to = "events" /\ late.rest \in Seq(TrueEvent) /\ late.rest # <<>>
  <2>1. PICK e \in TrueEvent : e = Head(late.rest)
    BY <1>5, SeqFacts
  <2>2. /\ connections' \subseteq TrueEvent /\ connections \subseteq connections'
        /\ operations' = operations /\ collected' = collected
    BY <1>1, <1>5, <2>1, RecordedEvent DEF ExecuteLate
  <2>3. WorkersInv' /\ OperationsInv' /\ MatchInv'
    BY <1>1, <1>2, <2>2, WorkersFrame, OperationsFrame, MatchFrame
  <2>4. SpoolInv'
    BY <1>1, <1>2, <1>3, <2>2, SpoolFrame
  <2>5. LateInv'
    <3>1. Tail(late.rest) \in Seq(TrueEvent)
      BY <1>5, SeqFacts
    <3>2. late' = Request("events", Tail(late.rest))
      BY <1>1, <1>5
    <3> QED
      BY <1>3, <3>1, <3>2 DEF LateInv, Request
  <2> QED
    BY <1>4, <2>2, <2>3, <2>4, <2>5 DEF AuditInv
<1>6. CASE \E e \in Known : late = [to |-> "operations", rest |-> <<e>>]
  <2>1. PICK e \in Known : late = [to |-> "operations", rest |-> <<e>>]
    BY <1>6
  <2>2. late.to = "operations" /\ late.rest = <<e>> /\ Head(late.rest) = e /\ Tail(late.rest) = <<>>
    BY <2>1
  <2>3. LateInv'
    BY <1>1, <2>2 DEF LateInv, Request
  <2>4. /\ UNCHANGED <<connections, trail, collected>>
        /\ operations' = operations \cup {e} \/ operations' = operations
    BY <2>2 DEF ExecuteLate, RecordSessionOperations, AppendOperationEvent, evidence
  <2>5. Known' = Known /\ operations \subseteq operations'
    BY <1>1, <2>4 DEF Known
  <2>6. OpSinkInv'
    BY <1>1, <1>2, <2>5 DEF OperationsInv, OpSinkInv, HasOperation
  <2>7. OperationsInv'
    BY <1>1, <1>2, <2>5, <2>6, KnownStays
  <2>8. WorkersInv' /\ SpoolInv' /\ MatchInv'
    BY <1>1, <1>2, <2>4, OpSinkFrame
  <2> QED
    BY <1>4, <2>3, <2>7, <2>8 DEF AuditInv
<1> QED
  BY <1>1, <1>5, <1>6 DEF LateInv

-----------------------------------------------------------------------------
\* The history of the session counts the connection events on record.

\* The library's facts about finite sets.
FST == INSTANCE FiniteSetTheorems

LEMMA FiniteIsFinite == \A S : IsFiniteSet(S) <=> FST!IsFiniteSet(S)
  BY Zenon DEF IsFiniteSet, FST!IsFiniteSet

LEMMA CardinalityIs == \A S : Cardinality(S) = FST!Cardinality(S)
  BY Zenon DEF Cardinality, FST!Cardinality

LEMMA EmptyFacts == IsFiniteSet({}) /\ Cardinality({}) = 0
  BY FST!FS_EmptySet, FiniteIsFinite, CardinalityIs

LEMMA AddFacts ==
    ASSUME NEW S, IsFiniteSet(S), NEW x
    PROVE  /\ IsFiniteSet(S \cup {x})
           /\ x \notin S => Cardinality(S \cup {x}) = Cardinality(S) + 1
  BY FST!FS_AddElement, FiniteIsFinite, CardinalityIs

LEMMA SubsetFacts ==
    ASSUME NEW S, IsFiniteSet(S), NEW T \in SUBSET S
    PROVE  IsFiniteSet(T)
  BY FST!FS_Subset, FiniteIsFinite

LEMMA SingletonFacts ==
    ASSUME NEW S
    PROVE  IsFiniteSet(S) /\ Cardinality(S) = 1 <=> \E x : S = {x}
  BY FST!FS_Singleton, FiniteIsFinite, CardinalityIs

\* The image of a finite set is finite.
LEMMA ImageFacts ==
    ASSUME NEW S, IsFiniteSet(S), NEW T, NEW f \in [S -> T], \A t \in T : \E s \in S : f[s] = t
    PROVE  IsFiniteSet(T)
<1>1. f \in FST!Surjection(S, T)
  BY DEF FST!Surjection
<1> QED
  BY <1>1, FST!FS_Surjection, FiniteIsFinite

TrailInv ==
    /\ IsFiniteSet(connections)
    /\ trail \in [Conn \X ConnectionKind -> Nat]
    /\ ToldOnce

LEMMA TrailFrame ==
    ASSUME TrailInv, UNCHANGED <<connections, trail>>
    PROVE  TrailInv'
  BY DEF TrailInv, ToldOnce

\* A batch records a connection event: sent again, it changes nothing.
LEMMA ToldEvent ==
    ASSUME TrailInv, SpoolInv, NEW e \in TrueEvent, RecordGatewayEvent(e)
    PROVE  TrailInv'
<1>1. /\ connections' = connections \cup {e}
      /\ trail' = IF e \in connections THEN trail ELSE [trail EXCEPT ![<<e.c, e.kind>>] = trail[<<e.c, e.kind>>] + 1]
  BY DEF RecordGatewayEvent, AppendConnectionEvent
<1>2. connections \subseteq TrueEvent /\ e.c \in Conn /\ e.kind \in ConnectionKind
  BY DEF SpoolInv, TrueEvent, ConnectionEvent
<1>3. CASE e \in connections
  <2>1. UNCHANGED <<connections, trail>>
    BY <1>1, <1>3
  <2> QED
    BY <2>1, TrailFrame
<1>4. CASE e \notin connections
  <2>1. IsFiniteSet(connections')
    BY <1>1, AddFacts DEF TrailInv
  <2>2. /\ trail' \in [Conn \X ConnectionKind -> Nat]
        /\ \A k \in Conn \X ConnectionKind :
              trail'[k] = IF k = <<e.c, e.kind>> THEN trail[k] + 1 ELSE trail[k]
    BY <1>1, <1>2, <1>4 DEF TrailInv
  <2>3. ASSUME NEW c \in Conn, NEW kind \in ConnectionKind
        PROVE  trail'[<<c, kind>>] = Cardinality({r \in connections' : r.c = c /\ r.kind = kind})
    <3> DEFINE Told == {r \in connections : r.c = c /\ r.kind = kind}
    <3>1. trail[<<c, kind>>] = Cardinality(Told) /\ IsFiniteSet(Told)
      BY SubsetFacts DEF TrailInv, ToldOnce
    <3>2. CASE c = e.c /\ kind = e.kind
      <4>1. {r \in connections' : r.c = c /\ r.kind = kind} = Told \cup {e} /\ e \notin Told
        BY <1>1, <1>4, <3>2
      <4>2. Cardinality(Told \cup {e}) = Cardinality(Told) + 1
        BY <3>1, <4>1, AddFacts
      <4>3. trail'[<<c, kind>>] = trail[<<c, kind>>] + 1
        BY <2>2, <3>2
      <4> QED
        BY <3>1, <4>1, <4>2, <4>3
    <3>3. CASE ~ (c = e.c /\ kind = e.kind)
      <4>1. {r \in connections' : r.c = c /\ r.kind = kind} = Told
        BY <1>1, <3>3
      <4>2. trail'[<<c, kind>>] = trail[<<c, kind>>]
        BY <2>2, <3>3
      <4> QED
        BY <3>1, <4>1, <4>2
    <3> QED
      BY <3>2, <3>3
  <2>4. TrailInv'
    BY <2>1, <2>2, <2>3 DEF TrailInv, ToldOnce
  <2> QED
    BY <2>4
<1> QED
  BY <1>3, <1>4

\* Only a batch of connection events, in time or late, adds one to the records.
LEMMA RecordsStep ==
    ASSUME AuditInv, Next
    PROVE  \/ UNCHANGED <<connections, trail>>
           \/ \E e \in TrueEvent : RecordGatewayEvent(e)
<1>1. SpoolInv /\ LateInv
  BY DEF AuditInv
<1>2. CASE gatewayEventBatch
  <2> DEFINE rest == SubSeq(sink.batch, Len(sink.accepted) + 1, Len(sink.batch))
  <2>1. sink.batch \in Seq(TrueEvent) /\ sink.accepted \in Seq(TrueEvent) /\ Len(sink.accepted) \in Nat
    BY <1>1, <1>2 DEF gatewayEventBatch, SpoolInv
  <2>2. rest \in Seq(TrueEvent)
    BY <2>1, SeqFacts
  <2>3. rest # <<>> => Head(rest) \in TrueEvent
    BY <2>2, SeqFacts
  <2>4. (rest # <<>> /\ RecordGatewayEvent(Head(rest))) \/ UNCHANGED evidence
    BY <1>2 DEF gatewayEventBatch
  <2> QED
    BY <2>3, <2>4 DEF evidence
<1>3. CASE ExecuteLate
  <2>1. late # NoRequest
    BY <1>3 DEF ExecuteLate
  <2>2. CASE late.to = "events" /\ late.rest \in Seq(TrueEvent) /\ late.rest # <<>>
    BY <1>3, <2>2, SeqFacts DEF ExecuteLate
  <2>3. CASE late.to = "operations"
    BY <1>3, <2>3 DEF ExecuteLate, RecordSessionOperations, evidence
  <2> QED
    BY <1>1, <2>1, <2>2, <2>3 DEF LateInv
<1>4. CASE Collect
  BY <1>4 DEF Collect, RecordOperationAuditBatch
<1>5. CASE sessionOperationBatch
  BY <1>5 DEF sessionOperationBatch, RecordSessionOperations, evidence
<1>6. CASE \E c \in Conn : AppendWrite(c) \/ Store(c) \/ Forward(c) \/ end(c) \/ Close(c) \/ Dial(c) \/ begin(c)
  BY <1>6 DEF AppendWrite, Store, Forward, end, Close, Dial, begin, evidence
<1>7. CASE AppendSync \/ Flush \/ Ack \/ FlushOperations \/ RemoveOperation
  BY <1>7 DEF AppendSync, Flush, Ack, FlushOperations, RemoveOperation, evidence
<1>8. CASE StopAgent \/ FlushSessionAudit \/ Crash
  BY <1>8 DEF StopAgent, FlushSessionAudit, Crash, evidence
<1> QED
  BY <1>2, <1>3, <1>4, <1>5, <1>6, <1>7, <1>8 DEF Next, Progress

LEMMA TrailStep ==
    ASSUME AuditInv, TrailInv, Next
    PROVE  TrailInv'
  BY RecordsStep, TrailFrame, ToldEvent DEF AuditInv

\* The connection an operation was sent over is a candidate, or is too old, and then
\* so is every connection before it, and none after it had started.
LEMMA SenderIsCandidate ==
    ASSUME WorkersInv, SpoolInv, NEW x \in log, HeldAddress(x.c, x.at),
           NEW d \in CorrelateOperation(x.at), d # x.c
    PROVE  x.c \in CorrelateOperation(x.at)
<1>1. PICK r \in connections : IsConnect(r, x.c, now)
  BY DEF WorkersInv, ConnectedBy
<1>2. PICK e \in connections :
          e.c = d /\ e.kind = "connected" /\ e.at <= x.at /\ x.at <= e.at + MaxAge
  BY DEF CorrelateOperation
<1>3. /\ r \in TrueEvent /\ r.at = worker[x.c].from /\ r.c = x.c /\ r.kind = "connected"
      /\ e \in TrueEvent /\ e.at = worker[d].from
      /\ worker[x.c].from # 0 /\ worker[d].from # 0
  BY <1>1, <1>2 DEF SpoolInv, TrueEvent, IsConnect
<1>4. /\ x.c \in Conn /\ x.at \in Nat /\ d \in Conn /\ MaxAge \in Nat
      /\ worker[x.c].from \in Nat /\ worker[x.c].at \in Nat
      /\ worker[d].from \in Nat /\ worker[d].at \in Nat /\ worker[d].from <= worker[d].at
  BY <1>2, <1>3, ClockAssumption DEF WorkersInv, TrueEvent, ConnectionEvent, Worker, Fits
<1>5. worker[x.c].from <= x.at /\ (worker[x.c].pc \in Ended => x.at <= worker[x.c].at)
  BY DEF HeldAddress, Over, Ended
<1>6. worker[d].from < worker[x.c].from
  <2>1. Apart(worker[x.c], worker[d])
    BY <1>4 DEF WorkersInv
  <2> QED
    BY <1>2, <1>3, <1>4, <1>5, <2>1 DEF Apart
<1>7. r.at <= x.at /\ x.at <= r.at + MaxAge
  BY <1>2, <1>3, <1>4, <1>5, <1>6
<1>8. ASSUME NEW f \in connections, f.c = r.c, f.kind = "disconnected"
      PROVE  ~ (f.at < x.at)
  <2>1. f \in TrueEvent /\ f.c = x.c
    <3>1. connections \subseteq TrueEvent
      BY DEF SpoolInv
    <3> QED
      BY ONLY <1>3, <1>8, <3>1
  <2>2. worker[x.c].pc \in Ended /\ f.at = worker[x.c].at
    BY ONLY <1>8, <2>1 DEF TrueEvent
  <2> QED
    BY ONLY <1>4, <1>5, <2>2
<1> QED
  BY <1>3, <1>7, <1>8 DEF CorrelateOperation

LEMMA CollectStep ==
    ASSUME AuditInv, TrailInv, Collect
    PROVE  AuditInv'
<1>1. PICK x \in log : RecordOperationAuditBatch(x)
  BY DEF Collect
<1>2. /\ UNCHANGED <<agent, spool, sink, directory, opsink, late, target, now>>
      /\ WorkersInv /\ SpoolInv /\ OperationsInv /\ LateInv /\ ProcessInv /\ MatchInv
  BY DEF Collect, AuditInv
<1>3. UNCHANGED <<proc, worker, forwarded, log, mem, file, connections, trail, operations>>
  BY <1>1, <1>2 DEF agent, target, spool, RecordOperationAuditBatch
<1>4. PICK match : /\ collected' = collected \cup {[x |-> x, match |-> match]}
                   /\ match = IF Cardinality(CorrelateOperation(x.at)) = 1
                              THEN CorrelateOperation(x.at) ELSE {}
  BY <1>1 DEF RecordOperationAuditBatch
<1>5. HeldAddress(x.c, x.at) => match \subseteq {x.c}
  <2>1. CASE Cardinality(CorrelateOperation(x.at)) = 1
    <3>1. HeldAddress(x.c, x.at) =>
              \A d \in CorrelateOperation(x.at) : d # x.c => x.c \in CorrelateOperation(x.at)
      BY <1>2, SenderIsCandidate
    <3>2. IsFiniteSet(CorrelateOperation(x.at))
      <4> DEFINE open == {r \in connections :
                /\ r.kind = "connected"
                /\ r.at <= x.at /\ x.at <= r.at + MaxAge
                /\ ~ \E f \in connections : f.c = r.c /\ f.kind = "disconnected" /\ f.at < x.at}
                 image == {r.c : r \in open}
      <4>1. IsFiniteSet(open)
        BY SubsetFacts DEF TrailInv
      <4>2. IsFiniteSet(image)
        <5> DEFINE sender == [r \in open |-> r.c]
        <5>1. sender \in [open -> image] /\ \A t \in image : \E r \in open : sender[r] = t
          OBVIOUS
        <5> HIDE DEF sender, open, image
        <5> QED
          BY <4>1, <5>1, ImageFacts
      <4> QED
        BY <4>2 DEF CorrelateOperation
    <3>3. \E y : CorrelateOperation(x.at) = {y}
      BY <2>1, <3>2, SingletonFacts
    <3> QED
      BY <1>4, <3>1, <3>3
  <2>2. CASE Cardinality(CorrelateOperation(x.at)) # 1
    BY <1>4, <2>2
  <2> QED
    BY <2>1, <2>2
<1>6. MatchInv'
  <2>1. ASSUME NEW y \in collected'
        PROVE  y.x \in log /\ (HeldAddress(y.x.c, y.x.at) => y.match \subseteq {y.x.c})
    <3>1. CASE y \in collected
      BY <1>2, <3>1 DEF MatchInv, MatchIsRight
    <3>2. CASE y = [x |-> x, match |-> match]
      BY <1>5, <3>2
    <3> QED
      BY <1>4, <3>1, <3>2
  <2> QED
    BY <1>3, <2>1 DEF MatchInv, MatchIsRight, HeldAddress, Over
<1>7. SpoolInv'
  <2>1. TrueEvent' = TrueEvent /\ now \in Nat
    BY <1>2, <1>3, TrueEventStays DEF WorkersInv
  <2>2. connections' \subseteq TrueEvent'
    BY <1>2, <1>3, <2>1 DEF SpoolInv
  <2> QED
    BY <1>2, <1>3, <2>1, <2>2, SpoolFrame
<1>8. WorkersInv' /\ OperationsInv' /\ ProcessInv'
  BY <1>2, <1>3, WorkersFrame, OperationsFrame, ProcessFrame
<1>9. LateInv'
  BY <1>2, <1>3, TrueEventStays, LateFrame DEF Known
<1> QED
  BY <1>6, <1>7, <1>8, <1>9 DEF AuditInv

-----------------------------------------------------------------------------
\* The theorems.

LEMMA AuditInitial == Init => AuditInv /\ TrailInv
<1> SUFFICES ASSUME Init
             PROVE  AuditInv /\ TrailInv
  OBVIOUS
<1>1. /\ connections = {} /\ trail = [k \in Conn \X ConnectionKind |-> 0] /\ operations = {}
      /\ collected = {} /\ worker = [c \in Conn |-> [pc |-> "idle", at |-> 0, from |-> 0]] /\ mem = <<>>
      /\ file = <<>> /\ sink = Idle /\ directory = {} /\ opsink = Idle /\ late = NoRequest
      /\ forwarded = {} /\ log = {} /\ now = 0 /\ proc = "agent"
  BY DEF Init, EvidenceInit
<1>2. \A c \in Conn : worker[c].pc = "idle" /\ worker[c].at = 0 /\ worker[c].from = 0
  BY <1>1
<1>3. WorkersInv
  <2>1. worker \in [Conn -> Worker]
    BY <1>1 DEF Worker, Phase, Early
  <2> QED
    BY <1>1, <1>2, <2>1 DEF WorkersInv, Held, Fits, Apart
<1>4. SpoolInv
  <2>1. <<>> \in Seq(TrueEvent)
    OBVIOUS
  <2>2. /\ sink.pc = "idle"
        /\ sink \in [pc : {"idle", "sync", "flush", "posted"}, c : Conn \cup {"drain", "none"},
                     batch : Seq(TrueEvent), accepted : Seq(TrueEvent)]
    BY <1>1, <2>1 DEF Idle
  <2> QED
    BY <1>1, <2>1, <2>2 DEF SpoolInv
<1>5. OperationsInv
  <2>1. <<>> \in Seq(OperationEvent)
    OBVIOUS
  <2>2. /\ opsink.pc = "idle" /\ opsink.c = "none"
        /\ opsink \in [pc : {"idle", "flush", "posted", "remove"}, c : Conn \cup {"drain", "none"},
                       batch : Seq(OperationEvent), accepted : Seq(OperationEvent)]
    BY <1>1, <2>1 DEF Idle
  <2>3. OpSinkInv
    BY <2>2 DEF OpSinkInv
  <2>4. KnownInv
    BY <1>1 DEF KnownInv, Known
  <2>5. \A c \in Conn : PhaseFits(c)
    BY <1>1, <1>2 DEF PhaseFits, HasOperation, OnRecord, Known
  <2> QED
    BY <2>3, <2>4, <2>5 DEF OperationsInv
<1>6. LateInv /\ MatchInv
  BY <1>1 DEF LateInv, MatchInv, MatchIsRight
<1>7. ProcessInv
  BY <1>1 DEF ProcessInv, Idle
<1>8. TrailInv
  <2>1. IsFiniteSet({}) /\ Cardinality({}) = 0
    BY EmptyFacts
  <2>2. \A c \in Conn, kind \in ConnectionKind : {r \in connections : r.c = c /\ r.kind = kind} = {}
    BY <1>1
  <2>3. \A c \in Conn, kind \in ConnectionKind : trail[<<c, kind>>] = 0
    BY <1>1
  <2>4. ToldOnce
    BY <2>1, <2>2, <2>3 DEF ToldOnce
  <2> QED
    BY <1>1, <2>1, <2>4 DEF TrailInv
<1> QED
  BY <1>3, <1>4, <1>5, <1>6, <1>7, <1>8 DEF AuditInv

LEMMA AuditStep == AuditInv /\ TrailInv /\ [Next]_vars => AuditInv' /\ TrailInv'
<1> SUFFICES ASSUME AuditInv, TrailInv, [Next]_vars
             PROVE  AuditInv' /\ TrailInv'
  OBVIOUS
<1>0. Next => TrailInv'
  BY TrailStep
<1>1. CASE \E c \in Conn : AppendWrite(c) \/ Store(c) \/ Forward(c) \/ end(c) \/ Close(c)
  BY <1>1, <1>0, AppendWriteStep, StoreStep, ForwardStep, EndStep, CloseStep DEF Next, Progress
<1>2. CASE AppendSync \/ Flush \/ gatewayEventBatch \/ Ack
  BY <1>2, <1>0, AppendSyncStep, FlushStep, EventBatchStep, AckStep DEF Next, Progress
<1>3. CASE FlushOperations \/ sessionOperationBatch \/ RemoveOperation
  BY <1>3, <1>0, FlushOperationsStep, OperationBatchStep, RemoveOperationStep DEF Next, Progress
<1>4. CASE StopAgent \/ FlushSessionAudit
  BY <1>4, <1>0, StopAgentStep, FlushSessionAuditStep DEF Next, Progress
<1>5. CASE \E c \in Conn : Dial(c) \/ begin(c)
  BY <1>5, <1>0, DialStep, BeginStep DEF Next, Progress
<1>6. CASE Crash \/ ExecuteLate \/ Collect
  BY <1>6, <1>0, CrashStep, ExecuteLateStep, CollectStep DEF Next, Progress
<1>7. CASE UNCHANGED vars
  <2>1. /\ UNCHANGED <<connections, trail, operations, collected, proc, worker, mem, file, sink>>
        /\ UNCHANGED <<directory, opsink, late, target, forwarded, now>>
    BY <1>7 DEF vars, evidence, target
  <2>2. TrueEvent' = TrueEvent /\ WorkersInv' /\ SpoolInv' /\ MatchInv'
    BY <2>1, OpSinkFrame
  <2>3. OperationsInv' /\ ProcessInv' /\ LateInv'
    BY <2>1, <2>2, OperationsFrame, ProcessFrame, LateFrame DEF AuditInv, Known
  <2>4. TrailInv'
    BY <2>1, TrailFrame
  <2> QED
    BY <2>2, <2>3, <2>4 DEF AuditInv
<1> QED
  BY <1>1, <1>2, <1>3, <1>4, <1>5, <1>6, <1>7 DEF Next, Progress

\* The started event of a forwarded command is on record, and there is at most one
\* event of each kind: the completion, once it is there, hides the start.
LEMMA OneIsShown == AuditInv => ForwardedIsShown
<1> SUFFICES ASSUME AuditInv, NEW c \in forwarded
             PROVE  Cardinality({o \in visibleOperation : o.c = c}) = 1
  BY DEF ForwardedIsShown
<1>1. c \in Conn /\ KnownInv /\ PhaseFits(c)
  BY DEF AuditInv, WorkersInv, OperationsInv
<1>2. PICK s \in operations : s.c = c /\ s.kind = "started"
  BY <1>1 DEF PhaseFits, OnRecord
<1>3. \A o \in operations : o.c = c => o.kind \in {"started", "completed"}
  BY <1>1 DEF KnownInv, Known, OperationEvent, OperationKind
<1>4. \A d, e \in operations : d.c = e.c /\ d.kind = e.kind => d = e
  BY <1>1 DEF KnownInv, Known
<1>5. \E y : {o \in visibleOperation : o.c = c} = {y}
  <2>1. CASE \E d \in operations : d.c = c /\ d.kind = "completed"
    <3>1. PICK d \in operations : d.c = c /\ d.kind = "completed"
      BY <2>1
    <3>2. {o \in visibleOperation : o.c = c} = {d}
      BY <1>3, <1>4, <3>1 DEF visibleOperation
    <3> QED
      BY <3>2
  <2>2. CASE ~ \E d \in operations : d.c = c /\ d.kind = "completed"
    <3>1. {o \in visibleOperation : o.c = c} = {s}
      BY <1>2, <1>3, <1>4, <2>2 DEF visibleOperation
    <3> QED
      BY <3>1
  <2> QED
    BY <2>1, <2>2
<1> QED
  BY <1>5, SingletonFacts

\* session_agent.go: a command that reached the target is shown exactly once by the
\* records of the control plane, for any number of connections, whatever crashed,
\* was sent again or was executed after its sender had given up.
THEOREM ForwardedIsShownHolds == Spec => []ForwardedIsShown
<1>1. AuditInv => ForwardedIsShown
  BY OneIsShown
<1> QED
  BY AuditInitial, AuditStep, <1>1, PTL DEF Spec

\* RecordOperationAuditBatch: an operation the collector reports, with a time of its
\* asset's clock between the start and the end of the connection that sent it, is
\* attributed to that connection or to none, although connections reuse one source
\* address and their own events may be late; for any drift of that clock and any
\* length of the window in which a connection is matched.
THEOREM MatchIsRightHolds == Spec => []MatchIsRight
<1>1. AuditInv => MatchIsRight
  BY DEF AuditInv, MatchInv
<1> QED
  BY AuditInitial, AuditStep, <1>1, PTL DEF Spec

\* RecordGatewayEvent: a connection event is told once by the session's history,
\* however often it is sent.
THEOREM ToldOnceHolds == Spec => []ToldOnce
<1>1. TrailInv => ToldOnce
  BY DEF TrailInv
<1> QED
  BY AuditInitial, AuditStep, <1>1, PTL DEF Spec
=============================================================================
