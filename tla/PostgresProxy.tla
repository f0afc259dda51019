---------------------------- MODULE PostgresProxy ----------------------------
(***************************************************************************)
(* postgres.go and postgres_cancel.go: clients pipeline messages; one       *)
(* goroutine records and forwards them, another matches the server's       *)
(* answers with the operations still pending.                              *)
(***************************************************************************)
EXTENDS Recorder

CONSTANT SyncFails    \* the commit of an implicit transaction may fail at Sync

pgInit ==
    /\ proxy = [stage |-> "ssl", steps |-> 0, authenticated |-> FALSE, out |-> <<>>,
                pending |-> <<>>, recovering |-> FALSE, copying |-> FALSE,
                cancelKey |-> "none", cancel |-> 0]
    /\ target = [as |-> "none", queue |-> <<>>, skipping |-> FALSE, copying |-> FALSE]

\* SSLRequest, 'S', TLS on both sides, then a startup for the bound account.
pgUpgrade ==
    /\ Speaks("postgresql") /\ proxy.stage = "ssl"
    /\ \E sslRequest, answersS, trusted \in BOOLEAN :
        IF ~ (sslRequest /\ answersS /\ trusted) THEN Fails
        ELSE /\ proxy' = [proxy EXCEPT !.stage = "startup"]
             /\ UNCHANGED <<protocol, target, journal, effects, wire>>

pgStartup ==
    /\ Speaks("postgresql") /\ proxy.stage = "startup"
    /\ \E user \in Anyone, replication \in BOOLEAN :
        IF user # Account \/ replication THEN Fails
        ELSE /\ proxy' = [proxy EXCEPT !.stage = "auth"]
             /\ target' = [target EXCEPT !.as = user]
             /\ UNCHANGED <<protocol, journal, effects, wire>>

\* The authentication loop (at most 64 messages): password and SCRAM exchanges,
\* AuthenticationOk, the key of a later cancel request, ReadyForQuery.
pgAuthenticate ==
    /\ Speaks("postgresql") /\ proxy.stage = "auth"
    /\ \E message \in {"password", "gss", "ok", "K", "E", "Z"} :
        IF message \in {"gss", "E"} \/ proxy.steps > MaxSteps THEN Fails
        ELSE /\ message \in {"K", "Z"} => proxy.authenticated
             /\ proxy' = [proxy EXCEPT
                   !.steps = @ + 1,
                   !.authenticated = @ \/ message = "ok",
                   !.cancelKey = IF message = "K" THEN "read"
                                 ELSE IF message = "Z" /\ @ = "read" THEN "registered" ELSE @,
                   !.stage = IF message = "Z" THEN "ready" ELSE @]
             /\ UNCHANGED <<protocol, target, journal, effects, wire>>

-----------------------------------------------------------------------------
Frontend == {"Q", "E", "S"}          \* simple query, extended message, Sync

\* The answers that complete a pending message.
Completes(kind) ==
    CASE kind = "Q" -> {"Z"}
      [] kind = "S" -> {"Z"}
      [] kind = "E" -> {"C", "s", "I"}

\* The front goroutine: record, add to pending, then write.
pgFront(kind) ==
    /\ Speaks("postgresql") /\ proxy.stage = "ready" /\ proxy.out = <<>>
    /\ CanBegin
    /\ \/ Fails
       \/ /\ begin(Account)
          /\ proxy' = [proxy EXCEPT
                !.out = <<[kind |-> kind, op |-> Op + 1]>>,
                !.pending = Append(@, [kind |-> kind, op |-> Op + 1, failed |-> FALSE])]
          /\ UNCHANGED <<protocol, target, effects, wire>>

pgWrite ==
    /\ Speaks("postgresql") /\ proxy.out # <<>>
    /\ Executes(Head(proxy.out).op, target.as, "running")
    /\ target' = [target EXCEPT !.queue = @ \o proxy.out]
    /\ proxy' = [proxy EXCEPT !.out = <<>>]
    /\ UNCHANGED <<protocol, journal, wire>>

\* CopyData is forwarded only while the server copies in.
pgCopy ==
    /\ Speaks("postgresql") /\ proxy.stage = "ready" /\ proxy.out = <<>>
    /\ IF ~ proxy.copying THEN Fails
       ELSE /\ target.copying
            /\ target' = [target EXCEPT !.copying = FALSE, !.queue = Tail(@)]
            /\ wire' = wire \o <<"C", "Z">>
            /\ Outcome(Head(target.queue).op, "success")
            /\ UNCHANGED <<protocol, proxy, journal>>

pgTerminate ==
    /\ Speaks("postgresql") /\ proxy.stage = "ready" /\ proxy.out = <<>>
    /\ CanBegin
    /\ journal' = Append(journal, [account |-> Account, result |-> "sent"])
    /\ Executes(Op + 1, target.as, "success")
    /\ proxy' = [proxy EXCEPT !.stage = "closed"]
    /\ UNCHANGED <<protocol, target, wire>>

\* The server (external) handles its messages in order.  After an error of an
\* extended message it skips to the next Sync; an error at Sync itself, or of a
\* simple query, skips nothing.
Serves(answers, outcome, skipping) ==
    /\ wire' = wire \o answers
    /\ Outcome(Head(target.queue).op, outcome)
    /\ target' = [target EXCEPT !.queue = Tail(@), !.skipping = skipping]
    /\ UNCHANGED <<protocol, proxy, journal>>

pgServer ==
    /\ protocol = "postgresql" /\ target.queue # <<>> /\ ~ target.copying
    /\ LET kind == Head(target.queue).kind IN
       \/ target.skipping /\ kind # "S" /\ Serves(<<>>, "skipped", TRUE)
       \/ kind = "S" /\ Serves(<<"Z">>, "success", FALSE)
       \/ kind = "S" /\ SyncFails /\ ~ target.skipping /\ Serves(<<"E", "Z">>, "failure", FALSE)
       \/ kind = "Q" /\ ~ target.skipping /\ Serves(<<"C", "Z">>, "success", FALSE)
       \/ kind = "Q" /\ ~ target.skipping /\ Serves(<<"C", "E", "Z">>, "failure", FALSE)
       \/ kind = "E" /\ ~ target.skipping /\ Serves(<<"C">>, "success", FALSE)
       \/ kind = "E" /\ ~ target.skipping /\ Serves(<<"s">>, "partial", FALSE)
       \/ kind = "E" /\ ~ target.skipping /\ Serves(<<"E">>, "failure", TRUE)
       \/ /\ kind = "Q" /\ ~ target.skipping
          /\ wire' = Append(wire, "G")
          /\ target' = [target EXCEPT !.copying = TRUE]
          /\ UNCHANGED <<protocol, proxy, journal, effects>>

\* The pending operations ReadyForQuery pops while recovering: up to the Sync.
FirstSync ==
    LET syncs == {i \in DOMAIN proxy.pending : proxy.pending[i].kind = "S"} IN
    IF syncs = {} THEN Len(proxy.pending) ELSE CHOOSE i \in syncs : \A j \in syncs : i <= j

\* A mutant of pgRecovers: an error ends only its own operation.
NeverRecovers(message) == FALSE

pgRecovers(message) == message = "Z" /\ proxy.recovering

\* How many pending operations a message finishes.
pgFinished(message) ==
    IF proxy.pending = <<>> THEN 0
    ELSE IF pgRecovers(message) THEN FirstSync
    ELSE LET head == Head(proxy.pending) IN
         IF message \in Completes(head.kind) \/ (message = "E" /\ head.kind # "Q") THEN 1 ELSE 0

pgResult(v, message) ==
    IF pgRecovers(message) /\ v.kind # "S" THEN "skipped"
    ELSE IF message = "s" THEN "partial"
    ELSE IF v.failed \/ message = "E" THEN "failure" ELSE "success"

\* The back goroutine: one message of the server, the records it completes, and
\* the message to the client.
pgBack ==
    /\ Speaks("postgresql") /\ wire # <<>>
    /\ \/ Fails
       \/ LET message == Head(wire)
              count == pgFinished(message)
              ops == {proxy.pending[i].op : i \in 1..count} IN
          /\ wire' = Tail(wire)
          /\ journal' = [i \in DOMAIN journal |->
                IF i \in ops
                THEN LET v == CHOOSE p \in {proxy.pending[k] : k \in 1..count} : p.op = i IN
                     [journal[i] EXCEPT !.result = pgResult(v, message)]
                ELSE journal[i]]
          /\ proxy' = [proxy EXCEPT
                !.copying = IF message = "G" THEN TRUE ELSE IF message \in {"C", "E", "Z"} THEN FALSE ELSE @,
                !.pending = IF message = "E" /\ count = 0 /\ @ # <<>>
                            THEN [@ EXCEPT ![1].failed = TRUE]
                            ELSE SubSeq(@, count + 1, Len(@)),
                !.recovering = IF @ /\ message = "Z" THEN proxy.pending = <<>>
                               ELSE @ \/ (message = "E" /\ proxy.pending # <<>> /\ count = 1)]
          /\ UNCHANGED <<protocol, target, effects>>

-----------------------------------------------------------------------------
\* A cancel request arrives on a connection of its own; its key must belong to a
\* live connection of the same binding, before it is recorded and again before it
\* is sent.
register == proxy.cancelKey = "registered" /\ proxy.stage = "ready"

lookup == register

cancelBegin ==
    /\ protocol = "postgresql" /\ proxy.cancel = 0 /\ lookup /\ CanBegin
    /\ begin(Account)
    /\ proxy' = [proxy EXCEPT !.cancel = Op + 1]
    /\ UNCHANGED <<protocol, target, effects, wire>>

servePostgresCancel ==
    /\ protocol = "postgresql" /\ proxy.cancel > 0
    /\ journal[proxy.cancel].result = "started"
    /\ \/ /\ lookup
          /\ Executes(proxy.cancel, target.as, "success")
          /\ end(proxy.cancel, "sent")
       \/ /\ lookup
          /\ Executes(proxy.cancel, target.as, "failure")
          /\ end(proxy.cancel, "failure")
       \/ /\ end(proxy.cancel, "failure")
          /\ UNCHANGED effects
    /\ UNCHANGED <<protocol, proxy, target, wire>>

pgNext ==
    \/ pgUpgrade
    \/ pgStartup
    \/ pgAuthenticate
    \/ \E kind \in Frontend : pgFront(kind)
    \/ pgWrite
    \/ pgCopy
    \/ pgTerminate
    \/ pgServer
    \/ pgBack
    \/ cancelBegin
    \/ servePostgresCancel

-----------------------------------------------------------------------------
\* docs/02-ModuleImplementation.md: the PostgreSQL terminal records "simple and
\* extended queries, transaction results".  An operation the server has run is
\* never recorded as skipped.
RunIsNotSkipped ==
    \A op \in DOMAIN effects :
        effects[op].outcome \in {"success", "failure"} => journal[op].result # "skipped"
=============================================================================
