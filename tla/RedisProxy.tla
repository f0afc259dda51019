----------------------------- MODULE RedisProxy -----------------------------
(***************************************************************************)
(* redis.go: one command and one reply at a time; the commands of a        *)
(* transaction stay open until EXEC or DISCARD tells what became of them.  *)
(***************************************************************************)
EXTENDS Recorder

redisInit ==
    /\ proxy = [stage |-> "command", account |-> "unauthenticated", candidate |-> "unauthenticated",
                cmd |-> "none", inTransaction |-> FALSE, queued |-> <<>>]
    /\ target = [as |-> "unauthenticated", multi |-> FALSE, dirty |-> FALSE, queue |-> <<>>]

RedisCommand == {"AUTH", "HELLO", "PING", "SET", "MULTI", "EXEC", "DISCARD", "RESET", "QUIT", "SUBSCRIBE"}
Lone == {"AUTH", "HELLO", "RESET", "QUIT"}      \* refused inside a transaction

\* respArgs and the checks before the record: the account a command claims is the
\* bound one; before it is proven only a few commands pass; pushes never do.
redisRefuses(cmd, user) ==
    \/ cmd = "SUBSCRIBE"
    \/ proxy.inTransaction /\ cmd \in Lone
    \/ cmd \in {"AUTH", "HELLO"} /\ user \notin {proxy.account, Account}
    \/ /\ proxy.account = "unauthenticated"
       /\ cmd \notin {"HELLO", "PING", "QUIT"} /\ ~ (cmd = "AUTH" /\ user # proxy.account)

serveRedis(cmd, user) ==
    /\ Speaks("redis") /\ proxy.stage = "command"
    /\ CanBegin
    /\ IF redisRefuses(cmd, user) THEN Fails
       ELSE \/ Fails
            \/ /\ begin(proxy.account)
               /\ Executes(Op + 1, target.as, "running")
               /\ proxy' = [proxy EXCEPT !.stage = "reply", !.cmd = cmd,
                               !.candidate = IF cmd \in {"AUTH", "HELLO"} THEN user ELSE proxy.account]
               /\ UNCHANGED <<protocol, target, wire>>

-----------------------------------------------------------------------------
\* What the server does with the command it received last (external): a reply, the
\* outcome of every queued command at EXEC, and its next state.
Reply(kind, outcomes, next) == [kind |-> kind, outcomes |-> outcomes, next |-> next]

NoTransaction == [target EXCEPT !.multi = FALSE, !.dirty = FALSE, !.queue = <<>>]
Outcomes(result) == [i \in DOMAIN target.queue |-> result]

ServerReplies ==
    LET cmd == proxy.cmd IN
    CASE target.multi /\ cmd \notin {"MULTI", "EXEC", "DISCARD", "RESET"} ->
            {Reply("queued", <<>>, [target EXCEPT !.queue = Append(@, Op)]),
             Reply("error", <<>>, [target EXCEPT !.dirty = TRUE])}
      [] cmd = "MULTI" -> {IF target.multi THEN Reply("error", <<>>, target)
                           ELSE Reply("ok", <<>>, [target EXCEPT !.multi = TRUE])}
      [] cmd = "EXEC" /\ target.multi ->
            IF target.dirty THEN {Reply("error", Outcomes("skipped"), NoTransaction)}
            ELSE {Reply("nil", Outcomes("skipped"), NoTransaction)} \cup
                 {Reply("ok", o, NoTransaction) :
                     o \in [DOMAIN target.queue -> {"success", "failure"}]}
      [] cmd = "DISCARD" /\ target.multi -> {Reply("ok", Outcomes("skipped"), NoTransaction)}
      [] cmd \in {"EXEC", "DISCARD"} /\ ~ target.multi -> {Reply("error", <<>>, target)}
      [] cmd = "RESET" -> {Reply("ok", <<>>, [NoTransaction EXCEPT !.as = "unauthenticated"])}
      [] /\ cmd = "AUTH" \/ (cmd = "HELLO" /\ proxy.candidate # "unauthenticated")
         /\ ~ target.multi ->
            {Reply("ok", <<>>, [target EXCEPT !.as = proxy.candidate]), Reply("error", <<>>, target)}
      [] OTHER -> {Reply("ok", <<>>, target), Reply("error", <<>>, target)}

ServerOutcomes(reply) ==
    [i \in DOMAIN effects |->
        [effects[i] EXCEPT !.outcome =
            IF reply.outcomes # <<>> /\ \E k \in DOMAIN target.queue : target.queue[k] = i
            THEN reply.outcomes[CHOOSE k \in DOMAIN target.queue : target.queue[k] = i]
            ELSE IF i # Op \/ reply.kind = "queued" THEN @
            ELSE IF reply.kind = "error" THEN "failure" ELSE "success"]]

\* redisExecResults: nil (a watched key changed) leaves every command skipped.
redisExecResults(reply) == IF reply.kind = "ok" THEN reply.outcomes ELSE Outcomes("skipped")

\* EXEC and DISCARD end the transaction whatever they answer.
redisEnds(reply) == proxy.cmd \in {"EXEC", "DISCARD"} /\ proxy.inTransaction

redisResult(reply) == IF reply.kind = "error" THEN "failure" ELSE "success"

\* The records the reply completes: the queued ones, then the command itself.
redisCompletes(reply) ==
    LET outcomes == redisExecResults(reply) IN
    [i \in DOMAIN journal |->
        [journal[i] EXCEPT !.result =
            IF redisEnds(reply) /\ \E k \in DOMAIN proxy.queued : proxy.queued[k] = i
            THEN LET k == CHOOSE j \in DOMAIN proxy.queued : proxy.queued[j] = i IN
                 IF proxy.cmd = "EXEC" /\ k \in DOMAIN outcomes THEN outcomes[k] ELSE "skipped"
            ELSE IF i = Op /\ ~ (proxy.inTransaction /\ reply.kind = "queued")
            THEN redisResult(reply) ELSE @]]

\* The account a command proves once the server accepted it; RESET drops it.
redisAccount(reply) ==
    IF reply.kind = "error" THEN proxy.account
    ELSE IF proxy.cmd = "RESET" THEN "unauthenticated" ELSE proxy.candidate

redisReply ==
    /\ Speaks("redis") /\ proxy.stage = "reply"
    /\ \/ Fails
       \/ \E reply \in ServerReplies :
            /\ target' = reply.next
            /\ effects' = ServerOutcomes(reply)
            /\ journal' = redisCompletes(reply)
            /\ proxy' = [proxy EXCEPT
                  !.stage = IF proxy.cmd = "QUIT" THEN "closed" ELSE "command",
                  !.account = redisAccount(reply),
                  !.inTransaction = IF redisEnds(reply) THEN FALSE
                                    ELSE @ \/ (proxy.cmd = "MULTI" /\ reply.kind # "error"),
                  !.queued = IF redisEnds(reply) THEN <<>>
                             ELSE IF proxy.inTransaction /\ reply.kind = "queued" THEN Append(@, Op)
                             ELSE @]
            /\ UNCHANGED <<protocol, wire>>

redisNext ==
    \/ \E cmd \in RedisCommand, user \in Anyone \cup {"unauthenticated"} : serveRedis(cmd, user)
    \/ redisReply
=============================================================================
