----------------------------- MODULE MySQLProxy -----------------------------
(***************************************************************************)
(* mysql.go: one command at a time; its result is a stream of packets whose *)
(* end the proxy has to recognise.  The target's packets are chosen by the *)
(* grammar of the server, the proxy reads them with its own state.         *)
(***************************************************************************)
EXTENDS Recorder

mysqlInit ==
    /\ proxy = [stage |-> "greeting", steps |-> 0, cmd |-> "none", left |-> 0, statements |-> {}]
    /\ target = [as |-> "none", emits |-> "none", left |-> 0]

\* The greeting must offer TLS; capabilities the proxy cannot follow are masked.
mysqlGreeting ==
    /\ Speaks("mysql") /\ proxy.stage = "greeting"
    /\ \E tls \in BOOLEAN :
        IF ~ tls THEN Fails
        ELSE /\ proxy' = [proxy EXCEPT !.stage = "ssl"]
             /\ UNCHANGED <<protocol, target, journal, effects, wire>>

\* An SSLRequest and no login before TLS.  When the target's certificate is
\* refused the client's login is read, answered and never forwarded.
mysqlUpgrade ==
    /\ Speaks("mysql") /\ proxy.stage = "ssl"
    /\ \E sslRequest \in BOOLEAN, trusted \in BOOLEAN :
        IF ~ sslRequest \/ ~ trusted THEN Fails
        ELSE /\ proxy' = [proxy EXCEPT !.stage = "login"]
             /\ UNCHANGED <<protocol, target, journal, effects, wire>>

mysqlLogin ==
    /\ Speaks("mysql") /\ proxy.stage = "login"
    /\ \E account \in Anyone :
        IF account # Account THEN Fails
        ELSE /\ proxy' = [proxy EXCEPT !.stage = "auth"]
             /\ target' = [target EXCEPT !.as = account]
             /\ UNCHANGED <<protocol, journal, effects, wire>>

\* OK, ERR, or one more exchange (at most 16).
mysqlAuthenticate ==
    /\ Speaks("mysql") /\ proxy.stage = "auth"
    /\ \E packet \in {"ok", "err", "more"} :
        IF packet = "err" \/ (packet = "more" /\ proxy.steps >= MaxSteps) THEN Fails
        ELSE /\ proxy' = [proxy EXCEPT !.stage = IF packet = "ok" THEN "ready" ELSE @,
                                       !.steps = @ + 1]
             /\ UNCHANGED <<protocol, target, journal, effects, wire>>

OneWay == {"quit", "bind_data", "statement_close"}
Prepared == {"execute", "bind_data", "statement_close", "statement_reset"}
MySQLCommand == {"query", "field_list", "prepare", "reset_connection", "quit", "change_user"}
                \cup Prepared

\* A command is recorded, forwarded and, when it has no answer, completed.  An
\* unknown command, or a statement the proxy has not seen prepared, is refused.
\* "query" stands for every command answered by a result.
serveMySQL(cmd, sid) ==
    /\ Speaks("mysql") /\ proxy.stage = "ready"
    /\ CanBegin
    /\ IF cmd = "change_user" \/ (cmd \in Prepared /\ sid \notin proxy.statements) THEN Fails
       ELSE LET op == Op + 1 IN
            \/ Fails
            \/ /\ journal' = Append(journal, [account |-> Account,
                                              result |-> IF cmd \in OneWay THEN "sent" ELSE "started"])
               /\ Executes(op, target.as, "running")
               /\ target' = IF cmd \in OneWay THEN target
                            ELSE [target EXCEPT !.emits = CASE cmd = "prepare" -> "prepare"
                                                            [] cmd = "field_list" -> "fields"
                                                            [] OTHER -> "first"]
               /\ proxy' = [proxy EXCEPT
                     !.stage = CASE cmd = "quit" -> "closed"
                                 [] cmd \in OneWay \ {"quit"} -> "ready"
                                 [] cmd = "prepare" -> "prepare"
                                 [] cmd = "field_list" -> "fields"
                                 [] OTHER -> "first",
                     !.cmd = cmd,
                     !.statements = IF cmd = "statement_close" THEN @ \ {sid} ELSE @]
               /\ UNCHANGED <<protocol, wire>>

-----------------------------------------------------------------------------
\* The server's packets (external): results may follow each other, a result set
\* is one column definition, EOF and rows.
Emits ==
    CASE target.emits = "first" -> {"ok", "ok_more", "err", "columns"}
      [] target.emits = "columns" -> IF target.left = 2 THEN {"def"} ELSE {"eof"}
      [] target.emits = "rows" -> {"row", "eof", "eof_more", "err"}
      [] target.emits = "fields" -> {"def", "eof", "err"}
      [] target.emits = "prepare" -> {"prepare_ok", "err"}
      [] OTHER -> {}

Emitted(packet) ==
    /\ target' = [target EXCEPT
          !.emits = CASE packet = "columns" -> "columns"
                      [] packet = "def" -> @
                      [] packet = "row" -> @
                      [] packet \in {"ok_more", "eof_more"} -> "first"
                      [] packet = "eof" /\ @ = "columns" -> "rows"
                      [] OTHER -> "none",
          !.left = IF packet = "columns" THEN 2 ELSE IF packet = "def" THEN 1 ELSE 0]
    /\ IF target'.emits = "none" THEN Outcome(Op, IF packet = "err" THEN "failure" ELSE "success")
                                 ELSE UNCHANGED effects

\* The proxy's reading of one packet: where it goes on, or the result.
Done(result) == [stage |-> "ready", result |-> result]
Goes(stage) == [stage |-> stage, result |-> "started"]

mysqlResult(packet) ==
    CASE proxy.stage = "columns" ->
            Goes(IF proxy.left = 2 THEN "columns" ELSE IF packet = "eof" THEN "rows" ELSE "closed")
      [] proxy.stage # "columns" /\ packet = "err" -> Done("failure")
      [] proxy.stage = "first" /\ packet # "err" ->
            IF packet = "ok" THEN Done("success")
            ELSE Goes(IF packet = "ok_more" THEN "first" ELSE "columns")
      [] OTHER ->
            IF packet = "eof" THEN Done("success")
            ELSE Goes(IF packet = "eof_more" THEN "first" ELSE "rows")

mysqlFieldListResult(packet) ==
    CASE packet = "err" -> Done("failure")
      [] packet = "eof" -> Done("success")
      [] OTHER -> Goes("fields")

prepareResult(packet) == Done(IF packet = "prepare_ok" THEN "success" ELSE "failure")

\* One packet: read, forwarded, and the operation ended when it was the last.  A
\* successful reset forgets the statements, a successful prepare adds one.
mysqlRead ==
    /\ Speaks("mysql") /\ proxy.stage \in {"first", "columns", "rows", "fields", "prepare"}
    /\ \/ Fails
       \/ \E packet \in Emits :
            LET next == CASE proxy.stage = "fields" -> mysqlFieldListResult(packet)
                          [] proxy.stage = "prepare" -> prepareResult(packet)
                          [] OTHER -> mysqlResult(packet) IN
            /\ Emitted(packet)
            /\ proxy' = [proxy EXCEPT
                  !.stage = next.stage,
                  !.left = IF packet = "columns" THEN 2 ELSE IF @ > 0 THEN @ - 1 ELSE 0,
                  !.statements = IF next.result = "success"
                                 THEN CASE proxy.cmd = "prepare" -> @ \cup {Op}
                                        [] proxy.cmd = "reset_connection" -> {}
                                        [] OTHER -> @
                                 ELSE @]
            /\ end(Op, next.result)
            /\ UNCHANGED <<protocol, wire>>

mysqlNext ==
    \/ mysqlGreeting
    \/ mysqlUpgrade
    \/ mysqlLogin
    \/ mysqlAuthenticate
    \/ \E cmd \in MySQLCommand, sid \in 1..MaxOps["mysql"] : serveMySQL(cmd, sid)
    \/ mysqlRead
=============================================================================
