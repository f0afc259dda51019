----------------------------- MODULE MongoProxy -----------------------------
(***************************************************************************)
(* mongodb.go: one command at a time; an exhaust command is answered by a  *)
(* chain of replies, each one responding to the one before.                *)
(***************************************************************************)
EXTENDS Recorder

mongoInit ==
    /\ proxy = [stage |-> "command", account |-> "unauthenticated", candidate |-> "none",
                cmd |-> "none", exhaust |-> FALSE, expected |-> 0]
    /\ target = [as |-> "unauthenticated", sasl |-> "none", last |-> 0]

\* OP_MSG or a legacy hello; compression and unacknowledged writes are refused.
MongoCommand == {"hello", "saslstart", "saslcontinue", "ping", "find", "unacknowledged"}

\* The user of a saslStart, or of one nested in a hello.
mongoAccount(cmd, user) == IF cmd \in {"saslstart", "hello"} THEN user ELSE "none"

serveMongo(cmd, user, exhaust) ==
    /\ Speaks("mongodb") /\ proxy.stage = "command"
    /\ CanBegin
    /\ LET name == mongoAccount(cmd, user) IN
       IF \/ cmd = "unacknowledged"
          \/ name \notin {"none", Account}
          \/ cmd = "find" /\ proxy.account = "unauthenticated"
       THEN Fails
       ELSE \/ Fails
            \/ /\ begin(proxy.account)
               /\ Executes(Op + 1, target.as, "running")
               /\ target' = [target EXCEPT !.sasl = IF name # "none" THEN name ELSE @, !.last = 0]
               /\ proxy' = [proxy EXCEPT !.stage = "reply", !.cmd = cmd, !.exhaust = exhaust,
                               !.expected = 0,
                               !.candidate = IF name # "none" THEN name ELSE @]
               /\ UNCHANGED <<protocol, wire>>

\* A reply of the server (external): every reply responds to the previous one of
\* its chain.  A conversation is done only if one was started.
MongoReply == [ok : BOOLEAN, done : BOOLEAN, more : BOOLEAN, responseTo : 0..MaxSteps]

ServerMaySend(reply) ==
    /\ reply.responseTo = target.last
    /\ reply.done => reply.ok /\ proxy.cmd = "saslcontinue" /\ target.sasl # "none"
    /\ reply.more => target.last < MaxSteps

mongoEnds(reply) == ~ reply.more

mongoRead ==
    /\ Speaks("mongodb") /\ proxy.stage = "reply"
    /\ \/ Fails
       \/ \E reply \in MongoReply :
            /\ ServerMaySend(reply)
            /\ IF reply.responseTo # proxy.expected \/ (reply.more /\ ~ proxy.exhaust) THEN Fails
               ELSE /\ target' = [target EXCEPT
                           !.as = IF reply.done THEN target.sasl ELSE @,
                           !.sasl = IF reply.done THEN "none" ELSE @,
                           !.last = IF reply.more THEN @ + 1 ELSE 0]
                    /\ IF reply.more THEN UNCHANGED effects
                       ELSE Outcome(Op, IF reply.ok THEN "success" ELSE "failure")
                    /\ IF mongoEnds(reply) THEN end(Op, IF reply.ok THEN "success" ELSE "failure")
                                           ELSE UNCHANGED journal
                    /\ proxy' = [proxy EXCEPT
                           !.account = IF reply.done /\ proxy.candidate # "none"
                                       THEN proxy.candidate ELSE @,
                           !.stage = IF mongoEnds(reply) THEN "command" ELSE @,
                           !.expected = @ + 1]
                    /\ UNCHANGED <<protocol, wire>>

mongoNext ==
    \/ \E cmd \in MongoCommand, user \in Anyone \cup {"none"}, exhaust \in BOOLEAN :
         serveMongo(cmd, user, exhaust)
    \/ mongoRead
=============================================================================
