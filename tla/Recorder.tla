------------------------------ MODULE Recorder ------------------------------
(***************************************************************************)
(* What the audit proxies of sessionproxy share.  A proxy sits between a   *)
(* client and one target; it records an operation ("started") before it    *)
(* forwards it and completes the record with the result it reads in the    *)
(* target's answers.  `proxy` is the state of the proxy's goroutines,      *)
(* `target` the server's own; both are records whose fields depend on the  *)
(* protocol.  The proxy never reads `target` or `effects`.                 *)
(***************************************************************************)
EXTENDS Naturals, Sequences

CONSTANTS
    MaxOps,       \* per protocol, a bound on the operations of one connection
    MaxSteps      \* bound on the packets of an authentication or a result

VARIABLES
    protocol,
    proxy,
    target,
    journal,      \* the durable records, in the order of begin
    effects,      \* per record, what the target did: by whom, with which outcome
    wire          \* the target's answers the proxy has not read

recorderVars == <<protocol, proxy, target, journal, effects, wire>>

Account == "app"           \* r.binding.Account
Anyone == {Account, "other"}
Unproven == {"unverified", "unauthenticated"}

Op == Len(journal)         \* the operation begun last
CanBegin == Len(journal) < MaxOps[protocol]

begin(account) == journal' = Append(journal, [account |-> account, result |-> "started"])

\* operation.end: the first result is kept.
end(op, result) ==
    journal' = [journal EXCEPT ![op].result = IF @ = "started" THEN result ELSE @]

\* The target runs op as the account it has authenticated.
Executes(op, as, outcome) ==
    effects' = [i \in DOMAIN effects \cup {op} |->
                   IF i = op THEN [as |-> as, outcome |-> outcome] ELSE effects[i]]

Outcome(op, outcome) == effects' = [effects EXCEPT ![op].outcome = outcome]

\* Every error, a failed persist included, closes both connections.
Fails ==
    /\ proxy' = [proxy EXCEPT !.stage = "closed"]
    /\ UNCHANGED <<protocol, target, journal, effects, wire>>

Speaks(name) == protocol = name /\ proxy.stage # "closed"

-----------------------------------------------------------------------------
\* recorder.go begin: an operation reaches the target only when its record exists,
\* and a record that claims a verified account names the account that ran it.
RecordedBeforeExecuted ==
    \A op \in DOMAIN effects :
        /\ op \in DOMAIN journal
        /\ journal[op].account \in Unproven \cup {effects[op].as}

Definite == {"success", "failure", "skipped", "partial", "eof", "http_ok", "http_error"}

\* A completed record says what the target did with that operation and no other:
\* results of several statements, of transactions, of pipelined and of concurrent
\* requests are attributed to the right one.  Only a failure may be recorded for
\* an operation that never reached the target.
ResultIsRight ==
    \A op \in DOMAIN journal :
        journal[op].result \in Definite =>
            IF op \in DOMAIN effects THEN effects[op].outcome = journal[op].result
                                     ELSE journal[op].result = "failure"
=============================================================================
