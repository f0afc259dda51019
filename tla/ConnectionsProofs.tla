-------------------------- MODULE ConnectionsProofs --------------------------
(***************************************************************************)
(* Proofs about the parts of Connections.  For the audit proxies and the   *)
(* browser terminal: an operation is recorded, under the account it runs   *)
(* as, before its target executes it, and output is recorded before it is  *)
(* shown; one invariant per protocol says what the proxy knows of the      *)
(* operation in flight.  For the guard of a native connection and the      *)
(* connection controller: every number of connections, every limit and     *)
(* every number of failures.                                               *)
(***************************************************************************)
EXTENDS Connections, TLAPS

USE ZenonT(5), SMTT(10), SMTT(30)

-----------------------------------------------------------------------------
\* The audit proxies: what an operation's record and its execution have in
\* common, in every protocol.

RecordsInv ==
    /\ Len(journal) \in Nat /\ DOMAIN journal = 1 .. Len(journal)
    /\ \A i \in DOMAIN journal : DOMAIN journal[i] = {"account", "result"}
    /\ \A op \in DOMAIN effects : DOMAIN effects[op] = {"as", "outcome"}
    /\ RecordedBeforeExecuted

\* No step rewrites the account of a record, or who executed an operation.
JournalKept ==
    /\ Len(journal') \in Nat /\ DOMAIN journal' = 1 .. Len(journal')
    /\ \A i \in DOMAIN journal' : DOMAIN journal'[i] = {"account", "result"}
    /\ \A i \in DOMAIN journal : i \in DOMAIN journal' /\ journal'[i].account = journal[i].account

EffectsKept ==
    \A op \in DOMAIN effects' :
        /\ op \in DOMAIN effects /\ DOMAIN effects'[op] = {"as", "outcome"}
        /\ effects'[op].as = effects[op].as

LEMMA SameJournal ==
    ASSUME RecordsInv, UNCHANGED journal
    PROVE  JournalKept
BY Zenon DEF RecordsInv, JournalKept

LEMMA SameEffects ==
    ASSUME RecordsInv, UNCHANGED effects
    PROVE  EffectsKept
BY DEF RecordsInv, EffectsKept

LEMMA AppendJournal ==
    ASSUME RecordsInv, NEW account, NEW result,
           journal' = Append(journal, [account |-> account, result |-> result])
    PROVE  /\ JournalKept
           /\ Op + 1 \in DOMAIN journal' /\ journal'[Op + 1].account = account
<1>1. Len(journal') = Len(journal) + 1 /\ DOMAIN journal' = 1 .. Len(journal) + 1
  BY DEF RecordsInv
<1>2. journal'[Len(journal) + 1] = [account |-> account, result |-> result]
  BY DEF RecordsInv
<1>3. \A i \in DOMAIN journal : journal'[i] = journal[i]
  BY DEF RecordsInv
<1> QED
  BY <1>1, <1>2, <1>3 DEF RecordsInv, JournalKept, Op

LEMMA EndJournal ==
    ASSUME RecordsInv, NEW op, NEW result, end(op, result)
    PROVE  JournalKept
<1>1. DOMAIN journal' = DOMAIN journal
  BY DEF end
<1>2. Len(journal') = Len(journal)
  BY <1>1 DEF RecordsInv
<1>3. \A i \in DOMAIN journal : /\ DOMAIN journal'[i] = {"account", "result"}
                                /\ journal'[i].account = journal[i].account
  BY DEF end, RecordsInv
<1> QED
  BY <1>1, <1>2, <1>3 DEF RecordsInv, JournalKept

LEMMA OutcomeEffects ==
    ASSUME RecordsInv, NEW op, NEW outcome, Outcome(op, outcome)
    PROVE  EffectsKept
BY DEF RecordsInv, EffectsKept, Outcome

LEMMA KeptNext ==
    ASSUME RecordsInv, JournalKept, EffectsKept
    PROVE  RecordsInv'
BY DEF RecordsInv, RecordedBeforeExecuted, JournalKept, EffectsKept

LEMMA ExecutesNext ==
    ASSUME RecordsInv, JournalKept, NEW op, NEW as, NEW outcome, Executes(op, as, outcome),
           op \in DOMAIN journal', journal'[op].account \in Unproven \cup {as}
    PROVE  RecordsInv'
<1>1. DOMAIN effects' = DOMAIN effects \cup {op}
  BY DEF Executes
<1>2. effects'[op] = [as |-> as, outcome |-> outcome]
  BY DEF Executes
<1>3. \A i \in DOMAIN effects : i # op => effects'[i] = effects[i]
  BY DEF Executes
<1>4. /\ effects'[op].as = as /\ DOMAIN effects'[op] = {"as", "outcome"}
  BY <1>2
<1>5. /\ \A i \in DOMAIN effects' : DOMAIN effects'[i] = {"as", "outcome"}
  BY <1>1, <1>3, <1>4 DEF RecordsInv
<1>6. RecordedBeforeExecuted'
  <2> SUFFICES ASSUME NEW i \in DOMAIN effects'
               PROVE  i \in DOMAIN journal' /\ journal'[i].account \in Unproven \cup {effects'[i].as}
    BY DEF RecordedBeforeExecuted, Unproven
  <2>1. CASE i = op
    BY <2>1, <1>4, Zenon
  <2>2. CASE i # op
    <3>1. i \in DOMAIN effects /\ effects'[i] = effects[i]
      BY <2>2, <1>1, <1>3
    <3>2. i \in DOMAIN journal /\ journal[i].account \in Unproven \cup {effects[i].as}
      BY <3>1 DEF RecordsInv, RecordedBeforeExecuted
    <3> QED
      BY <3>1, <3>2 DEF JournalKept
  <2> QED
    BY <2>1, <2>2
<1> QED
  BY <1>5, <1>6 DEF RecordsInv, JournalKept

LEMMA QuietNext ==
    ASSUME RecordsInv, UNCHANGED <<journal, effects>>
    PROVE  RecordsInv'
BY Zenon DEF RecordsInv, RecordedBeforeExecuted

\* mysql.go: past the login the target runs as the bound account.
MySQLInv ==
    /\ DOMAIN proxy = {"stage", "steps", "cmd", "left", "statements"}
    /\ DOMAIN target = {"as", "emits", "left"}
    /\ proxy.stage \notin {"greeting", "ssl", "login", "closed"} => target.as = Account

LEMMA MySQLFails ==
    ASSUME RecordsInv, MySQLInv, Fails
    PROVE  RecordsInv' /\ MySQLInv'
<1>1. RecordsInv'
  BY QuietNext DEF Fails
<1>2. MySQLInv'
  BY DEF Fails, MySQLInv
<1> QED
  BY <1>1, <1>2

LEMMA MySQLNext ==
    ASSUME RecordsInv, MySQLInv, mysqlNext
    PROVE  RecordsInv' /\ MySQLInv'
<1>1. CASE Fails
  BY <1>1, MySQLFails
<1>2. CASE mysqlGreeting /\ ~ Fails
  <2>1. RecordsInv'
    BY <1>2, QuietNext DEF mysqlGreeting
  <2>2. MySQLInv'
    BY <1>2 DEF mysqlGreeting, MySQLInv
  <2> QED
    BY <2>1, <2>2
<1>3. CASE mysqlUpgrade /\ ~ Fails
  <2>1. RecordsInv'
    BY <1>3, QuietNext DEF mysqlUpgrade
  <2>2. MySQLInv'
    BY <1>3 DEF mysqlUpgrade, MySQLInv
  <2> QED
    BY <2>1, <2>2
<1>4. CASE mysqlLogin /\ ~ Fails
  <2>1. RecordsInv'
    BY <1>4, QuietNext DEF mysqlLogin
  <2>2. MySQLInv'
    BY <1>4 DEF mysqlLogin, MySQLInv
  <2> QED
    BY <2>1, <2>2
<1>5. CASE mysqlAuthenticate /\ ~ Fails
  <2>1. RecordsInv'
    BY <1>5, QuietNext DEF mysqlAuthenticate
  <2>2. MySQLInv'
    BY <1>5, Zenon DEF mysqlAuthenticate, MySQLInv
  <2> QED
    BY <2>1, <2>2
<1>6. ASSUME NEW cmd \in MySQLCommand, NEW sid \in 1..MaxOps["mysql"], serveMySQL(cmd, sid), ~ Fails
      PROVE  RecordsInv' /\ MySQLInv'
  <2>1. /\ journal' = Append(journal, [account |-> Account,
                                       result |-> IF cmd \in OneWay THEN "sent" ELSE "started"])
        /\ Executes(Op + 1, target.as, "running")
        /\ target.as = Account
    BY <1>6 DEF serveMySQL, Speaks, MySQLInv
  <2>2. JournalKept /\ Op + 1 \in DOMAIN journal' /\ journal'[Op + 1].account = Account
    BY <2>1, AppendJournal
  <2>3. RecordsInv'
    BY <2>1, <2>2, ExecutesNext
  <2>4. target'.as = target.as /\ DOMAIN target' = DOMAIN target /\ DOMAIN proxy' = DOMAIN proxy
    BY <1>6, Zenon DEF serveMySQL, MySQLInv
  <2> QED
    BY <2>1, <2>3, <2>4 DEF MySQLInv
<1>7. CASE mysqlRead /\ ~ Fails
  <2>1. PICK packet \in Emits : /\ Emitted(packet)
                                /\ DOMAIN proxy' = DOMAIN proxy
                                /\ \E result : end(Op, result)
    BY <1>7, Zenon DEF mysqlRead
  <2>2. JournalKept
    BY <2>1, EndJournal
  <2>3. EffectsKept
    BY <2>1, SameEffects, OutcomeEffects DEF Emitted
  <2>4. target'.as = target.as /\ DOMAIN target' = DOMAIN target
    BY <2>1 DEF Emitted, MySQLInv
  <2>5. target.as = Account
    BY <1>7, Zenon DEF mysqlRead, MySQLInv
  <2> QED
    BY <2>1, <2>2, <2>3, <2>4, <2>5, KeptNext DEF MySQLInv
<1> QED
  BY <1>1, <1>2, <1>3, <1>4, <1>5, <1>6, <1>7 DEF mysqlNext

\* postgres.go, postgres_cancel.go: past the startup the target runs as the bound
\* account; what waits to be written, and a cancel request, has its record.
PgInv ==
    /\ DOMAIN proxy = {"stage", "steps", "authenticated", "out", "pending", "recovering",
                       "copying", "cancelKey", "cancel"}
    /\ DOMAIN target = {"as", "queue", "skipping", "copying"}
    /\ proxy.stage \notin {"ssl", "startup", "closed"} => target.as = Account
    /\ proxy.stage \in {"ssl", "startup"} => proxy.out = <<>>
    /\ proxy.out # <<>> => /\ Head(proxy.out).op \in DOMAIN journal
                           /\ journal[Head(proxy.out).op].account = Account
    /\ proxy.cancel > 0 => /\ proxy.cancel \in DOMAIN journal
                           /\ journal[proxy.cancel].account = Account

\* redis.go: the proxy knows the account and the transaction of its target.
RedisInv ==
    /\ DOMAIN proxy = {"stage", "account", "candidate", "cmd", "inTransaction", "queued"}
    /\ DOMAIN target = {"as", "multi", "dirty", "queue"}
    /\ proxy.stage \in {"command", "reply", "closed"}
    /\ proxy.stage # "closed" =>
        /\ proxy.account \in {"unauthenticated", Account}
        /\ proxy.account = Account => target.as = Account
        /\ proxy.inTransaction = target.multi
        /\ target.multi \in BOOLEAN
    /\ proxy.stage = "reply" =>
        /\ proxy.candidate \in {"unauthenticated", Account}
        /\ proxy.cmd \notin {"AUTH", "HELLO"} => proxy.candidate = proxy.account
        /\ proxy.cmd = "AUTH" => proxy.candidate = Account
        /\ target.multi => proxy.cmd \notin Lone

\* mongodb.go: an account is proven by the conversation that was started for it.
MongoInv ==
    /\ DOMAIN proxy = {"stage", "account", "candidate", "cmd", "exhaust", "expected"}
    /\ DOMAIN target = {"as", "sasl", "last"}
    /\ proxy.account \in {"unauthenticated", Account}
    /\ proxy.candidate \in {"none", Account}
    /\ target.sasl \in {"none", Account}
    /\ proxy.account = Account => target.as = Account

\* ssh.go, ssh_terminal.go, sftp.go: past the login the target runs as the bound
\* account; a request that waits to be written has its record; a frame of a shell
\* is counted as recorded before it is delivered.
SSHInv ==
    /\ DOMAIN proxy = {"stage", "pty", "interactive", "frame", "outputs", "result", "recorded",
                       "delivered", "pending", "out"}
    /\ DOMAIN target = {"as", "exited", "queue"}
    /\ proxy.stage \notin {"auth", "closed"} => target.as = Account
    /\ proxy.stage = "auth" => proxy.out = <<>>
    /\ proxy.out # <<>> => /\ Head(proxy.out).op \in DOMAIN journal
                           /\ journal[Head(proxy.out).op].account = Account
    /\ proxy.recorded \in Nat /\ proxy.delivered \in Nat
    /\ proxy.delivered + (IF proxy.frame = "recorded" THEN 1 ELSE 0) <= proxy.recorded

\* http.go: a request on its way to the target has its record.
HTTPInv ==
    /\ DOMAIN proxy = {"stage", "at", "op", "used", "busy", "answer"}
    /\ DOMAIN target = {"as", "open", "dials"}
    /\ DOMAIN proxy.at = HTTPStream /\ DOMAIN proxy.op = HTTPStream
    /\ \A s \in HTTPStream : proxy.at[s] = "begun" =>
        /\ proxy.op[s] \in DOMAIN journal
        /\ journal[proxy.op[s]].account = "unverified"

\* The browser: a frame is counted as recorded before it is shown, and the exit of
\* a shell is told by the step that records it, once.
BrowserInv ==
    /\ DOMAIN shell = {"pc", "process", "children", "cause", "swept", "input", "output", "bridges"}
    /\ DOMAIN page = {"relay", "browser", "done", "copies", "ticket"}
    /\ DOMAIN output = {"frame", "recorded", "shown", "record", "told"}
    /\ output.recorded \in Nat /\ output.shown \in Nat
    /\ output.shown + (IF output.frame = "recorded" THEN 1 ELSE 0) <= output.recorded
    /\ shell.pc # "idle" => page.relay \in {"serving", "draining", "returned"}
    /\ output.told = "exit" => /\ output.record = "success"
                               /\ shell.pc \in {"reported", "returned"}

\* A step that neither logs in nor begins anything.
LEMMA PgSame ==
    ASSUME PgInv, JournalKept,
           DOMAIN proxy' = DOMAIN proxy, DOMAIN target' = DOMAIN target,
           target'.as = target.as, proxy'.stage \in {proxy.stage, "closed"},
           proxy'.out \in {proxy.out, <<>>}, proxy'.cancel = proxy.cancel
    PROVE  PgInv'
<1>1. proxy'.out # <<>> => /\ Head(proxy'.out).op \in DOMAIN journal'
                           /\ journal'[Head(proxy'.out).op].account = Account
  BY DEF PgInv, JournalKept
<1>2. proxy'.cancel > 0 => /\ proxy'.cancel \in DOMAIN journal'
                           /\ journal'[proxy'.cancel].account = Account
  BY DEF PgInv, JournalKept
<1> QED
  BY <1>1, <1>2 DEF PgInv

LEMMA PgFails ==
    ASSUME RecordsInv, PgInv, Fails
    PROVE  RecordsInv' /\ PgInv'
<1>1. RecordsInv' /\ JournalKept
  BY QuietNext, SameJournal DEF Fails
<1>2. /\ DOMAIN proxy' = DOMAIN proxy /\ DOMAIN target' = DOMAIN target
      /\ target'.as = target.as /\ proxy'.stage = "closed"
      /\ proxy'.out = proxy.out /\ proxy'.cancel = proxy.cancel
  BY DEF Fails, PgInv
<1> QED
  BY <1>1, <1>2, PgSame

LEMMA PgLogin ==
    ASSUME RecordsInv, PgInv, pgUpgrade \/ pgStartup \/ pgAuthenticate, ~ Fails
    PROVE  RecordsInv' /\ PgInv'
<1>1. UNCHANGED <<journal, effects>>
  BY DEF pgUpgrade, pgStartup, pgAuthenticate
<1>2. RecordsInv' /\ JournalKept
  BY <1>1, QuietNext, SameJournal
<1>3. /\ DOMAIN proxy' = DOMAIN proxy /\ DOMAIN target' = DOMAIN target
      /\ proxy'.out = proxy.out /\ proxy'.cancel = proxy.cancel
  BY Zenon DEF pgUpgrade, pgStartup, pgAuthenticate, PgInv
<1>4. CASE pgUpgrade
  <2>1. proxy.stage = "ssl" /\ proxy'.stage = "startup"
    BY <1>4 DEF pgUpgrade, PgInv
  <2> QED
    BY <1>1, <1>2, <1>3, <2>1 DEF PgInv
<1>5. CASE pgStartup
  <2>1. proxy.stage = "startup" /\ proxy'.stage = "auth" /\ target'.as = Account
    BY <1>5 DEF pgStartup, PgInv
  <2> QED
    BY <1>1, <1>2, <1>3, <2>1 DEF PgInv
<1>6. CASE pgAuthenticate
  <2>1. proxy.stage = "auth" /\ proxy'.stage \in {"auth", "ready"} /\ target'.as = target.as
    BY <1>6, Zenon DEF pgAuthenticate, PgInv
  <2> QED
    BY <1>1, <1>2, <1>3, <2>1 DEF PgInv
<1> QED
  BY <1>4, <1>5, <1>6

LEMMA PgBegins ==
    ASSUME RecordsInv, PgInv, ~ Fails,
           \/ \E mode \in Frontend : pgFront(mode)
           \/ pgTerminate
           \/ cancelBegin
    PROVE  RecordsInv' /\ PgInv'
<1>0. proxy.stage = "ready" /\ target.as = Account
  BY Zenon DEF pgFront, pgTerminate, cancelBegin, lookup, register, PgInv
<1>1. ASSUME NEW mode \in Frontend, pgFront(mode)
      PROVE  RecordsInv' /\ PgInv'
  <2>1. begin(Account) /\ UNCHANGED <<target, effects>>
    BY <1>1, Zenon DEF pgFront
  <2>2. JournalKept /\ Op + 1 \in DOMAIN journal' /\ journal'[Op + 1].account = Account
    BY <2>1, AppendJournal DEF begin
  <2>3. RecordsInv'
    BY <2>1, <2>2, SameEffects, KeptNext
  <2>4. /\ DOMAIN proxy' = DOMAIN proxy /\ proxy'.stage = proxy.stage
        /\ proxy'.cancel = proxy.cancel
        /\ proxy'.out = <<[kind |-> mode, op |-> Op + 1]>>
    BY <1>1, Zenon DEF pgFront, PgInv
  <2>5. Head(proxy'.out).op = Op + 1
    BY <2>4
  <2>6. proxy'.cancel > 0 => /\ proxy'.cancel \in DOMAIN journal'
                             /\ journal'[proxy'.cancel].account = Account
    BY <2>2, <2>4 DEF PgInv, JournalKept
  <2> QED
    BY <1>0, <2>1, <2>2, <2>3, <2>4, <2>5, <2>6 DEF PgInv
<1>2. CASE pgTerminate
  <2>1. /\ journal' = Append(journal, [account |-> Account, result |-> "sent"])
        /\ Executes(Op + 1, target.as, "success")
    BY <1>2 DEF pgTerminate
  <2>2. JournalKept /\ Op + 1 \in DOMAIN journal' /\ journal'[Op + 1].account = Account
    BY <2>1, AppendJournal
  <2>3. RecordsInv'
    BY <1>0, <2>1, <2>2, ExecutesNext
  <2>4. /\ DOMAIN proxy' = DOMAIN proxy /\ DOMAIN target' = DOMAIN target
        /\ target'.as = target.as /\ proxy'.stage = "closed"
        /\ proxy'.out = proxy.out /\ proxy'.cancel = proxy.cancel
    BY <1>2 DEF pgTerminate, PgInv
  <2> QED
    BY <2>2, <2>3, <2>4, PgSame
<1>3. CASE cancelBegin
  <2>1. begin(Account) /\ UNCHANGED <<target, effects>>
    BY <1>3 DEF cancelBegin
  <2>2. JournalKept /\ Op + 1 \in DOMAIN journal' /\ journal'[Op + 1].account = Account
    BY <2>1, AppendJournal DEF begin
  <2>3. RecordsInv'
    BY <2>1, <2>2, SameEffects, KeptNext
  <2>4. /\ DOMAIN proxy' = DOMAIN proxy /\ proxy'.stage = proxy.stage
        /\ proxy'.cancel = Op + 1 /\ proxy'.out = proxy.out
    BY <1>3 DEF cancelBegin, PgInv
  <2>5. proxy'.out # <<>> => /\ Head(proxy'.out).op \in DOMAIN journal'
                             /\ journal'[Head(proxy'.out).op].account = Account
    BY <2>2, <2>4 DEF PgInv, JournalKept
  <2> QED
    BY <1>0, <2>1, <2>2, <2>3, <2>4, <2>5 DEF PgInv
<1> QED
  BY <1>1, <1>2, <1>3

LEMMA PgRuns ==
    ASSUME RecordsInv, PgInv, ~ Fails, pgWrite \/ servePostgresCancel
    PROVE  RecordsInv' /\ PgInv'
<1>1. CASE pgWrite
  <2>1. /\ Executes(Head(proxy.out).op, target.as, "running") /\ UNCHANGED journal
        /\ proxy.stage # "closed" /\ proxy.out # <<>>
    BY <1>1 DEF pgWrite, Speaks
  <2>2. JournalKept
    BY <2>1, SameJournal
  <2>3. /\ Head(proxy.out).op \in DOMAIN journal' /\ target.as = Account
        /\ journal'[Head(proxy.out).op].account = Account
    BY <2>1 DEF PgInv
  <2>4. RecordsInv'
    BY <2>1, <2>2, <2>3, ExecutesNext
  <2>5. /\ DOMAIN proxy' = DOMAIN proxy /\ DOMAIN target' = DOMAIN target
        /\ target'.as = target.as /\ proxy'.stage = proxy.stage
        /\ proxy'.out = <<>> /\ proxy'.cancel = proxy.cancel
    BY <1>1 DEF pgWrite, PgInv
  <2> QED
    BY <2>2, <2>4, <2>5, PgSame
<1>2. CASE servePostgresCancel
  <2>1. PICK result : end(proxy.cancel, result)
    BY <1>2 DEF servePostgresCancel
  <2>2. JournalKept
    BY <2>1, EndJournal
  <2>3. proxy.cancel \in DOMAIN journal' /\ journal'[proxy.cancel].account = Account
    BY <1>2, <2>2 DEF servePostgresCancel, PgInv, JournalKept
  <2>4. RecordsInv'
    <3>1. CASE UNCHANGED effects
      BY <3>1, <2>2, SameEffects, KeptNext
    <3>2. CASE lookup /\ \E outcome : Executes(proxy.cancel, target.as, outcome)
      <4>1. target.as = Account
        BY <3>2 DEF lookup, register, PgInv
      <4> QED
        BY <3>2, <4>1, <2>2, <2>3, ExecutesNext
    <3> QED
      BY <1>2, <3>1, <3>2 DEF servePostgresCancel
  <2>5. UNCHANGED <<proxy, target>>
    BY <1>2 DEF servePostgresCancel
  <2> QED
    BY <2>2, <2>4, <2>5, PgSame
<1> QED
  BY <1>1, <1>2

LEMMA PgAnswers ==
    ASSUME RecordsInv, PgInv, ~ Fails, pgCopy \/ pgServer \/ pgBack
    PROVE  RecordsInv' /\ PgInv'
<1>1. CASE pgCopy
  <2>1. UNCHANGED <<proxy, journal>> /\ \E op, outcome : Outcome(op, outcome)
    BY <1>1 DEF pgCopy
  <2>2. RecordsInv' /\ JournalKept
    BY <2>1, SameJournal, OutcomeEffects, KeptNext
  <2>3. DOMAIN target' = DOMAIN target /\ target'.as = target.as
    BY <1>1, Zenon DEF pgCopy, PgInv
  <2> QED
    BY <2>1, <2>2, <2>3, PgSame
<1>2. CASE pgServer
  <2>1. UNCHANGED <<proxy, journal>>
    BY <1>2, Zenon DEF pgServer, Serves
  <2>2. UNCHANGED effects \/ \E op, outcome : Outcome(op, outcome)
    BY <1>2, Zenon DEF pgServer, Serves
  <2>3. RecordsInv' /\ JournalKept
    BY <2>1, <2>2, SameJournal, SameEffects, OutcomeEffects, KeptNext
  <2>4. DOMAIN target' = DOMAIN target /\ target'.as = target.as
    BY <1>2, Zenon DEF pgServer, Serves, PgInv
  <2> QED
    BY <2>1, <2>3, <2>4, PgSame
<1>3. CASE pgBack
  <2>1. DOMAIN journal' = DOMAIN journal
    BY <1>3 DEF pgBack
  <2>2. Len(journal') = Len(journal)
    BY <2>1 DEF RecordsInv
  <2>3. \A i \in DOMAIN journal : /\ DOMAIN journal'[i] = {"account", "result"}
                                  /\ journal'[i].account = journal[i].account
    BY <1>3 DEF pgBack, RecordsInv
  <2>4. JournalKept
    BY <2>1, <2>2, <2>3 DEF RecordsInv, JournalKept
  <2>5. UNCHANGED <<target, effects>>
    BY <1>3 DEF pgBack
  <2>6. RecordsInv'
    BY <2>4, <2>5, SameEffects, KeptNext
  <2>7. /\ DOMAIN proxy' = DOMAIN proxy /\ proxy'.stage = proxy.stage
        /\ proxy'.out = proxy.out /\ proxy'.cancel = proxy.cancel
    BY <1>3, Zenon DEF pgBack, PgInv
  <2> QED
    BY <2>4, <2>5, <2>6, <2>7, PgSame
<1> QED
  BY <1>1, <1>2, <1>3

LEMMA PgNext ==
    ASSUME RecordsInv, PgInv, pgNext
    PROVE  RecordsInv' /\ PgInv'
<1>1. CASE Fails
  BY <1>1, PgFails
<1>2. CASE ~ Fails
  BY <1>2, PgLogin, PgBegins, PgRuns, PgAnswers DEF pgNext
<1> QED
  BY <1>1, <1>2

LEMMA MongoNext ==
    ASSUME RecordsInv, MongoInv, mongoNext
    PROVE  RecordsInv' /\ MongoInv'
<1>1. CASE Fails
  <2>1. RecordsInv'
    BY <1>1, QuietNext DEF Fails
  <2>2. MongoInv'
    BY <1>1 DEF Fails, MongoInv
  <2> QED
    BY <2>1, <2>2
<1>2. ASSUME NEW cmd \in MongoCommand, NEW user \in Anyone \cup {"none"}, NEW exhaust \in BOOLEAN,
             serveMongo(cmd, user, exhaust), ~ Fails
      PROVE  RecordsInv' /\ MongoInv'
  <2>1. begin(proxy.account) /\ Executes(Op + 1, target.as, "running")
    BY <1>2 DEF serveMongo
  <2>2. JournalKept /\ Op + 1 \in DOMAIN journal' /\ journal'[Op + 1].account = proxy.account
    BY <2>1, AppendJournal DEF begin
  <2>3. proxy.account \in Unproven \cup {target.as}
    BY DEF MongoInv, Unproven
  <2>4. RecordsInv'
    BY <2>1, <2>2, <2>3, ExecutesNext
  <2>5. PICK name : /\ name \in {"none", Account}
                    /\ target' = [target EXCEPT !.sasl = IF name # "none" THEN name ELSE @, !.last = 0]
                    /\ proxy' = [proxy EXCEPT !.stage = "reply", !.cmd = cmd, !.exhaust = exhaust,
                                              !.expected = 0,
                                              !.candidate = IF name # "none" THEN name ELSE @]
    BY <1>2, Zenon DEF serveMongo
  <2>6. MongoInv'
    BY <2>5 DEF MongoInv, Account
  <2> QED
    BY <2>4, <2>6
<1>3. CASE mongoRead /\ ~ Fails
  <2>1. PICK reply0 \in MongoReply :
           /\ ServerMaySend(reply0)
           /\ target' = [target EXCEPT
                  !.as = IF reply0.done THEN target.sasl ELSE @,
                  !.sasl = IF reply0.done THEN "none" ELSE @,
                  !.last = IF reply0.more THEN @ + 1 ELSE 0]
           /\ UNCHANGED effects \/ \E outcome : Outcome(Op, outcome)
           /\ UNCHANGED journal \/ \E result : end(Op, result)
           /\ proxy' = [proxy EXCEPT
                  !.account = IF reply0.done /\ proxy.candidate # "none" THEN proxy.candidate ELSE @,
                  !.stage = IF mongoEnds(reply0) THEN "command" ELSE @,
                  !.expected = @ + 1]
    BY <1>3, Zenon DEF mongoRead
  <2>2. JournalKept /\ EffectsKept
    BY <2>1, SameJournal, EndJournal, SameEffects, OutcomeEffects
  <2>3. RecordsInv'
    BY <2>2, KeptNext
  <2>4. reply0.done => target.sasl = Account
    BY <2>1 DEF ServerMaySend, MongoInv
  <2>5. CASE reply0.done
    <3>1. target'.as = Account /\ target'.sasl = "none" /\ DOMAIN target' = DOMAIN target
      BY <2>1, <2>4, <2>5 DEF MongoInv
    <3>2. /\ proxy'.account \in {proxy.account, Account} /\ proxy'.candidate = proxy.candidate
          /\ DOMAIN proxy' = DOMAIN proxy
      BY <2>1, <2>5 DEF MongoInv
    <3> QED
      BY <2>3, <3>1, <3>2 DEF MongoInv
  <2>6. CASE ~ reply0.done
    <3>1. target'.as = target.as /\ target'.sasl = target.sasl /\ DOMAIN target' = DOMAIN target
      BY <2>1, <2>6 DEF MongoInv
    <3>2. /\ proxy'.account = proxy.account /\ proxy'.candidate = proxy.candidate
          /\ DOMAIN proxy' = DOMAIN proxy
      BY <2>1, <2>6 DEF MongoInv
    <3> QED
      BY <2>3, <3>1, <3>2 DEF MongoInv
  <2> QED
    BY <2>5, <2>6
<1> QED
  BY <1>1, <1>2, <1>3 DEF mongoNext

LEMMA HTTPNext ==
    ASSUME RecordsInv, HTTPInv, httpNext
    PROVE  RecordsInv' /\ HTTPInv'
<1>1. CASE Fails
  <2>1. RecordsInv'
    BY <1>1, QuietNext DEF Fails
  <2>2. HTTPInv'
    BY <1>1 DEF Fails, HTTPInv
  <2> QED
    BY <2>1, <2>2
<1>2. ASSUME NEW s \in HTTPStream, httpRequest(s), ~ Fails
      PROVE  RecordsInv' /\ HTTPInv'
  <2>1. /\ begin("unverified") /\ UNCHANGED <<target, effects>>
        /\ proxy' = [proxy EXCEPT !.at[s] = "begun", !.op[s] = Op + 1]
    BY <1>2 DEF httpRequest
  <2>2. JournalKept /\ Op + 1 \in DOMAIN journal' /\ journal'[Op + 1].account = "unverified"
    BY <2>1, AppendJournal DEF begin
  <2>3. RecordsInv'
    BY <2>1, <2>2, SameEffects, KeptNext
  <2>4. /\ DOMAIN proxy' = DOMAIN proxy
        /\ proxy'.at = [proxy.at EXCEPT ![s] = "begun"] /\ proxy'.op = [proxy.op EXCEPT ![s] = Op + 1]
    BY <2>1 DEF HTTPInv
  <2>5. \A t \in HTTPStream : proxy'.at[t] = "begun" =>
            proxy'.op[t] \in DOMAIN journal' /\ journal'[proxy'.op[t]].account = "unverified"
    BY <2>2, <2>4 DEF HTTPInv, JournalKept
  <2> QED
    BY <2>1, <2>3, <2>4, <2>5 DEF HTTPInv
<1>3. ASSUME NEW s \in HTTPStream, roundTrip(s), ~ Fails
      PROVE  RecordsInv' /\ HTTPInv'
  <2>1. /\ UNCHANGED journal /\ Executes(proxy.op[s], target.as, "running")
        /\ proxy' = [proxy EXCEPT !.at[s] = "sent", !.used = TRUE, !.busy = s]
        /\ proxy.at[s] = "begun"
    BY <1>3 DEF roundTrip
  <2>2. JournalKept
    BY <2>1, SameJournal
  <2>3. proxy.op[s] \in DOMAIN journal' /\ journal'[proxy.op[s]].account \in Unproven
    BY <2>1 DEF HTTPInv, Unproven
  <2>4. RecordsInv'
    BY <2>1, <2>2, <2>3, ExecutesNext
  <2>5. DOMAIN target' = DOMAIN target
    BY <1>3 DEF roundTrip
  <2>6. /\ DOMAIN proxy' = DOMAIN proxy
        /\ proxy'.at = [proxy.at EXCEPT ![s] = "sent"] /\ proxy'.op = proxy.op
    BY <2>1 DEF HTTPInv
  <2>7. \A t \in HTTPStream : proxy'.at[t] = "begun" => proxy.at[t] = "begun"
    BY <2>6 DEF HTTPInv
  <2> QED
    BY <2>1, <2>4, <2>5, <2>6, <2>7 DEF HTTPInv
<1>4. CASE httpTarget
  <2>1. UNCHANGED journal /\ (UNCHANGED effects \/ \E op, outcome : Outcome(op, outcome))
    BY <1>4 DEF httpTarget
  <2>2. RecordsInv'
    BY <2>1, SameJournal, SameEffects, OutcomeEffects, KeptNext
  <2>3. DOMAIN target' = DOMAIN target
    BY <1>4 DEF httpTarget
  <2>4. DOMAIN proxy' = DOMAIN proxy /\ proxy'.at = proxy.at /\ proxy'.op = proxy.op
    BY <1>4 DEF httpTarget, HTTPInv
  <2> QED
    BY <2>1, <2>2, <2>3, <2>4 DEF HTTPInv
<1>5. ASSUME NEW s \in HTTPStream, serveHTTP(s), ~ Fails
      PROVE  RecordsInv' /\ HTTPInv'
  <2>1. /\ UNCHANGED effects /\ DOMAIN target' = DOMAIN target
        /\ \E result : end(proxy.op[s], result)
        /\ proxy' = [proxy EXCEPT !.at[s] = "idle", !.busy = 0, !.answer[s] = "none"]
    BY <1>5 DEF serveHTTP
  <2>2. JournalKept
    BY <2>1, EndJournal
  <2>3. RecordsInv'
    BY <2>1, <2>2, SameEffects, KeptNext
  <2>4. /\ DOMAIN proxy' = DOMAIN proxy
        /\ proxy'.at = [proxy.at EXCEPT ![s] = "idle"] /\ proxy'.op = proxy.op
    BY <2>1 DEF HTTPInv
  <2>5. \A t \in HTTPStream : proxy'.at[t] = "begun" => proxy.at[t] = "begun"
    BY <2>4 DEF HTTPInv
  <2> QED
    BY <2>1, <2>2, <2>3, <2>4, <2>5 DEF HTTPInv, JournalKept
<1> QED
  BY <1>1, <1>2, <1>3, <1>4, <1>5 DEF httpNext

\* A step that neither logs in, begins nor delivers anything.
LEMMA SSHSame ==
    ASSUME SSHInv, JournalKept,
           DOMAIN proxy' = DOMAIN proxy, DOMAIN target' = DOMAIN target,
           target'.as = target.as, proxy'.stage = "auth" => proxy.stage = "auth",
           proxy.stage = "auth" => proxy'.stage \in {"auth", "closed"},
           proxy.stage = "closed" => proxy'.stage = "closed",
           proxy'.out \in {proxy.out, <<>>},
           proxy'.recorded = proxy.recorded, proxy'.delivered = proxy.delivered,
           proxy'.frame = proxy.frame
    PROVE  SSHInv'
<1>1. proxy'.out # <<>> => /\ Head(proxy'.out).op \in DOMAIN journal'
                           /\ journal'[Head(proxy'.out).op].account = Account
  BY DEF SSHInv, JournalKept
<1> QED
  BY <1>1 DEF SSHInv

LEMMA SSHFails ==
    ASSUME RecordsInv, SSHInv, Fails
    PROVE  RecordsInv' /\ SSHInv'
<1>1. RecordsInv' /\ JournalKept
  BY QuietNext, SameJournal DEF Fails
<1>2. /\ DOMAIN proxy' = DOMAIN proxy /\ DOMAIN target' = DOMAIN target
      /\ target'.as = target.as /\ proxy'.stage = "closed"
      /\ proxy'.out = proxy.out /\ proxy'.recorded = proxy.recorded
      /\ proxy'.delivered = proxy.delivered /\ proxy'.frame = proxy.frame
  BY DEF Fails, SSHInv
<1> QED
  BY <1>1, <1>2, SSHSame

\* The login, and the frames of a shell.
LEMMA SSHShell ==
    ASSUME RecordsInv, SSHInv, serveSSH \/ copySSHTerminal, ~ Fails
    PROVE  RecordsInv' /\ SSHInv'
<1>1. UNCHANGED <<journal, effects>>
  BY DEF serveSSH, copySSHTerminal
<1>2. RecordsInv'
  BY <1>1, QuietNext
<1>3. CASE serveSSH
  <2>1. /\ DOMAIN proxy' = DOMAIN proxy /\ DOMAIN target' = DOMAIN target
        /\ target'.as = Account /\ proxy'.stage = "channel"
        /\ proxy'.out = proxy.out /\ proxy'.recorded = proxy.recorded
        /\ proxy'.delivered = proxy.delivered /\ proxy'.frame = proxy.frame
    BY <1>3 DEF serveSSH, SSHInv
  <2> QED
    BY <1>1, <1>2, <2>1 DEF SSHInv
<1>4. CASE copySSHTerminal
  <2>1. /\ DOMAIN proxy' = DOMAIN proxy /\ UNCHANGED target
        /\ proxy'.stage = proxy.stage /\ proxy'.out = proxy.out
    BY <1>4, Zenon DEF copySSHTerminal, SSHInv
  <2>2. /\ proxy'.recorded \in Nat /\ proxy'.delivered \in Nat
        /\ proxy'.delivered + (IF proxy'.frame = "recorded" THEN 1 ELSE 0) <= proxy'.recorded
    <3>1. CASE proxy' = [proxy EXCEPT !.frame = "recorded", !.recorded = @ + 1] /\ proxy.frame = "none"
      <4>1. /\ proxy'.frame = "recorded" /\ proxy'.recorded = proxy.recorded + 1
            /\ proxy'.delivered = proxy.delivered
        BY <3>1 DEF SSHInv
      <4> QED
        BY <3>1, <4>1 DEF SSHInv
    <3>2. CASE proxy' = [proxy EXCEPT !.frame = "none", !.delivered = @ + 1] /\ proxy.frame = "recorded"
      <4>1. /\ proxy'.frame = "none" /\ proxy'.recorded = proxy.recorded
            /\ proxy'.delivered = proxy.delivered + 1
        BY <3>2 DEF SSHInv
      <4> QED
        BY <3>2, <4>1 DEF SSHInv
    <3> QED
      BY <1>4, <3>1, <3>2 DEF copySSHTerminal
  <2> QED
    BY <1>1, <1>2, <2>1, <2>2 DEF SSHInv
<1> QED
  BY <1>3, <1>4

\* The steps of a channel that leave the records alone.
LEMMA SSHChannelMoves ==
    ASSUME RecordsInv, SSHInv, ~ Fails,
           \/ sshOpenChannel \/ sshPty \/ relayExitStatus \/ relaySSHSession \/ sftpStart
           \/ \E stream \in Stream : copyOutput(stream)
    PROVE  RecordsInv' /\ SSHInv'
<1>1. /\ UNCHANGED journal \/ \E result : end(Op, result)
      /\ UNCHANGED effects \/ \E result : Outcome(Op, result)
  BY DEF sshOpenChannel, sshPty, relayExitStatus, relaySSHSession, sftpStart, copyOutput
<1>2. JournalKept /\ RecordsInv'
  BY <1>1, SameJournal, EndJournal, SameEffects, OutcomeEffects, KeptNext
<1>3. /\ DOMAIN proxy' = DOMAIN proxy
      /\ proxy.stage \notin {"auth", "closed"} /\ proxy'.stage # "auth"
      /\ proxy'.out = proxy.out /\ proxy'.recorded = proxy.recorded
      /\ proxy'.delivered = proxy.delivered /\ proxy'.frame = proxy.frame
  BY Zenon DEF sshOpenChannel, sshPty, relayExitStatus, relaySSHSession, sftpStart, copyOutput,
     SSHInv
<1>4. DOMAIN target' = DOMAIN target /\ target'.as = target.as
  BY DEF sshOpenChannel, sshPty, relayExitStatus, relaySSHSession, sftpStart, copyOutput, SSHInv
<1> QED
  BY <1>2, <1>3, <1>4, SSHSame

LEMMA SSHBegins ==
    ASSUME RecordsInv, SSHInv, ~ Fails, NEW mode, sshChannel(mode)
    PROVE  RecordsInv' /\ SSHInv'
<1>0. proxy.stage = "requests" /\ target.as = Account
  BY DEF sshChannel, SSHInv
<1>1. PICK result : journal' = Append(journal, [account |-> Account, result |-> result])
  BY Zenon DEF sshChannel, begin
<1>2. JournalKept /\ Op + 1 \in DOMAIN journal' /\ journal'[Op + 1].account = Account
  BY <1>1, AppendJournal
<1>3. RecordsInv'
  <2>1. UNCHANGED effects \/ Executes(Op + 1, target.as, "running")
    BY DEF sshChannel
  <2> QED
    BY <1>0, <1>2, <2>1, SameEffects, KeptNext, ExecutesNext
<1>4. /\ DOMAIN proxy' = DOMAIN proxy /\ UNCHANGED target /\ proxy'.stage # "auth"
      /\ proxy'.out = proxy.out /\ proxy'.recorded = proxy.recorded
      /\ proxy'.delivered = proxy.delivered /\ proxy'.frame = proxy.frame
  BY Zenon DEF sshChannel, SSHInv
<1> QED
  BY <1>0, <1>2, <1>3, <1>4, SSHSame

LEMMA SFTPNext ==
    ASSUME RecordsInv, SSHInv, ~ Fails,
           (\E id \in RequestId : sftpFront(id)) \/ sftpWrite \/ sftpServer \/ sftpBack
    PROVE  RecordsInv' /\ SSHInv'
<1>1. ASSUME NEW id \in RequestId, sftpFront(id)
      PROVE  RecordsInv' /\ SSHInv'
  <2>0. proxy.stage = "sftp" /\ target.as = Account
    BY <1>1, Zenon DEF sftpFront, SSHInv
  <2>1. begin(Account) /\ UNCHANGED <<target, effects>>
    BY <1>1, Zenon DEF sftpFront
  <2>2. JournalKept /\ Op + 1 \in DOMAIN journal' /\ journal'[Op + 1].account = Account
    BY <2>1, AppendJournal DEF begin
  <2>3. RecordsInv'
    BY <2>1, <2>2, SameEffects, KeptNext
  <2>4. /\ DOMAIN proxy' = DOMAIN proxy /\ proxy'.stage \in {"sftp", "closed"}
        /\ proxy'.recorded = proxy.recorded
        /\ proxy'.delivered = proxy.delivered /\ proxy'.frame = proxy.frame
        /\ proxy'.out = proxy.out \/ proxy'.out = <<[id |-> id, op |-> Op + 1]>>
    BY <2>0, <1>1, Zenon DEF sftpFront, SSHInv
  <2>5. CASE proxy'.out = proxy.out
    BY <2>0, <2>1, <2>2, <2>3, <2>4, <2>5, SSHSame
  <2>6. CASE proxy'.out = <<[id |-> id, op |-> Op + 1]>>
    <3>1. Head(proxy'.out).op = Op + 1
      BY <2>6
    <3> QED
      BY <2>0, <2>1, <2>2, <2>3, <2>4, <3>1 DEF SSHInv
  <2> QED
    BY <2>4, <2>5, <2>6
<1>2. CASE sftpWrite
  <2>1. /\ Executes(Head(proxy.out).op, target.as, "running") /\ UNCHANGED journal
        /\ proxy.stage # "closed" /\ proxy.out # <<>>
    BY <1>2 DEF sftpWrite, Speaks
  <2>2. JournalKept
    BY <2>1, SameJournal
  <2>3. /\ Head(proxy.out).op \in DOMAIN journal' /\ target.as = Account
        /\ journal'[Head(proxy.out).op].account = Account
    BY <2>1 DEF SSHInv
  <2>4. RecordsInv'
    BY <2>1, <2>2, <2>3, ExecutesNext
  <2>5. /\ DOMAIN proxy' = DOMAIN proxy /\ DOMAIN target' = DOMAIN target
        /\ target'.as = target.as /\ proxy'.stage = proxy.stage
        /\ proxy'.out = <<>> /\ proxy'.recorded = proxy.recorded
        /\ proxy'.delivered = proxy.delivered /\ proxy'.frame = proxy.frame
    BY <1>2 DEF sftpWrite, SSHInv
  <2> QED
    BY <2>2, <2>4, <2>5, SSHSame
<1>3. CASE sftpServer
  <2>1. UNCHANGED <<proxy, journal>> /\ \E op, status0 : Outcome(op, status0)
    BY <1>3 DEF sftpServer
  <2>2. JournalKept /\ RecordsInv'
    BY <2>1, SameJournal, OutcomeEffects, KeptNext
  <2>3. DOMAIN target' = DOMAIN target /\ target'.as = target.as
    BY <1>3 DEF sftpServer, SSHInv
  <2> QED
    BY <2>1, <2>2, <2>3, SSHSame
<1>4. CASE sftpBack
  <2>1. UNCHANGED <<target, effects>> /\ \E op, result : end(op, result)
    BY <1>4 DEF sftpBack
  <2>2. JournalKept /\ RecordsInv'
    BY <2>1, EndJournal, SameEffects, KeptNext
  <2>3. /\ DOMAIN proxy' = DOMAIN proxy /\ proxy'.stage = proxy.stage
        /\ proxy'.out = proxy.out /\ proxy'.recorded = proxy.recorded
        /\ proxy'.delivered = proxy.delivered /\ proxy'.frame = proxy.frame
    BY <1>4 DEF sftpBack, SSHInv
  <2> QED
    BY <2>1, <2>2, <2>3, SSHSame
<1> QED
  BY <1>1, <1>2, <1>3, <1>4

LEMMA SSHNext ==
    ASSUME RecordsInv, SSHInv, sshNext
    PROVE  RecordsInv' /\ SSHInv'
<1>1. CASE Fails
  BY <1>1, SSHFails
<1>2. CASE ~ Fails
  BY <1>2, SSHShell, SSHChannelMoves, SSHBegins, SFTPNext DEF sshNext
<1> QED
  BY <1>1, <1>2

LEMMA RedisFails ==
    ASSUME RecordsInv, RedisInv, Fails
    PROVE  RecordsInv' /\ RedisInv'
<1>1. RecordsInv'
  BY QuietNext DEF Fails
<1>2. RedisInv'
  BY DEF Fails, RedisInv
<1> QED
  BY <1>1, <1>2

LEMMA RedisBegins ==
    ASSUME RecordsInv, RedisInv, ~ Fails, NEW cmd \in RedisCommand,
           NEW user \in Anyone \cup {"unauthenticated"}, serveRedis(cmd, user)
    PROVE  RecordsInv' /\ RedisInv'
<1>1. /\ begin(proxy.account) /\ Executes(Op + 1, target.as, "running")
      /\ proxy' = [proxy EXCEPT !.stage = "reply", !.cmd = cmd,
                      !.candidate = IF cmd \in {"AUTH", "HELLO"} THEN user ELSE proxy.account]
      /\ UNCHANGED target /\ ~ redisRefuses(cmd, user) /\ proxy.stage = "command"
  BY DEF serveRedis
<1>2. JournalKept /\ Op + 1 \in DOMAIN journal' /\ journal'[Op + 1].account = proxy.account
  BY <1>1, AppendJournal DEF begin
<1>3. proxy.account \in Unproven \cup {target.as}
  BY <1>1 DEF RedisInv, Unproven
<1>4. RecordsInv'
  BY <1>1, <1>2, <1>3, ExecutesNext
<1>5. /\ DOMAIN proxy' = DOMAIN proxy /\ proxy'.stage = "reply" /\ proxy'.cmd = cmd
      /\ proxy'.account = proxy.account /\ proxy'.inTransaction = proxy.inTransaction
      /\ proxy'.candidate = IF cmd \in {"AUTH", "HELLO"} THEN user ELSE proxy.account
  BY <1>1 DEF RedisInv
<1>6. /\ target.multi => cmd \notin Lone
      /\ cmd \in {"AUTH", "HELLO"} => user \in {"unauthenticated", Account}
      /\ cmd = "AUTH" => user = Account
  BY <1>1 DEF redisRefuses, RedisInv, Account
<1> QED
  BY <1>1, <1>4, <1>5, <1>6 DEF RedisInv

\* What a reply of the server does to the connection it answers.
LEMMA RedisServer ==
    ASSUME RedisInv, proxy.stage = "reply", NEW answer \in ServerReplies
    PROVE  /\ DOMAIN answer.next = DOMAIN target
           /\ answer.next.multi \in BOOLEAN
           /\ answer.kind = "error" => answer.next.as = target.as
           /\ answer.kind # "error" =>
                 answer.next.as = IF proxy.cmd = "RESET" THEN "unauthenticated"
                                  ELSE IF /\ proxy.cmd = "AUTH" \/ proxy.cmd = "HELLO"
                                          /\ proxy.candidate # "unauthenticated"
                                  THEN proxy.candidate ELSE target.as
           /\ answer.next.multi =
                 IF proxy.cmd \in {"EXEC", "DISCARD"} THEN FALSE
                 ELSE target.multi \/ (proxy.cmd = "MULTI" /\ answer.kind # "error")
<1>0. DOMAIN target = {"as", "multi", "dirty", "queue"} /\ target.multi \in BOOLEAN
  BY DEF RedisInv
<1>1. CASE target.multi /\ proxy.cmd \notin {"MULTI", "EXEC", "DISCARD", "RESET"}
  <2>1. PICK q : \/ answer = Reply("queued", <<>>, [target EXCEPT !.queue = q])
                 \/ answer = Reply("error", <<>>, [target EXCEPT !.dirty = TRUE])
    BY <1>1, Zenon DEF ServerReplies
  <2>2. /\ DOMAIN answer.next = DOMAIN target
        /\ answer.next.as = target.as /\ answer.next.multi = target.multi
    BY <1>0, <2>1 DEF Reply
  <2>3. proxy.cmd \notin Lone
    BY <1>1 DEF RedisInv
  <2> QED
    BY <1>0, <1>1, <2>2, <2>3, Zenon DEF Lone
<1>2. CASE proxy.cmd = "MULTI"
  <2>1. \/ target.multi /\ answer = Reply("error", <<>>, target)
        \/ ~ target.multi /\ answer = Reply("ok", <<>>, [target EXCEPT !.multi = TRUE])
    BY <1>2 DEF ServerReplies
  <2>2. /\ DOMAIN answer.next = DOMAIN target
        /\ answer.next.as = target.as
    BY <1>0, <2>1 DEF Reply
  <2>3. answer.next.multi = TRUE /\ (target.multi \/ answer.kind # "error")
    BY <1>0, <2>1 DEF Reply
  <2> QED
    BY <1>0, <1>2, <2>2, <2>3, Zenon
<1>3. CASE proxy.cmd \in {"EXEC", "DISCARD"} /\ target.multi
  <2>1. PICK mode, o : answer = Reply(mode, o, NoTransaction)
    <3>1. CASE proxy.cmd = "EXEC"
      BY <1>3, <3>1 DEF ServerReplies
    <3>2. CASE proxy.cmd = "DISCARD"
      BY <1>3, <3>2 DEF ServerReplies
    <3> QED
      BY <1>3, <3>1, <3>2
  <2>2. answer.next = NoTransaction
    BY <2>1 DEF Reply
  <2>3. /\ DOMAIN NoTransaction = DOMAIN target /\ NoTransaction.as = target.as
        /\ NoTransaction.multi = FALSE
    BY <1>0 DEF NoTransaction
  <2> QED
    BY <1>3, <2>2, <2>3, Zenon
<1>4. CASE proxy.cmd \in {"EXEC", "DISCARD"} /\ ~ target.multi
  <2>1. answer = Reply("error", <<>>, target)
    BY <1>4 DEF ServerReplies
  <2>2. answer.next = target
    BY <2>1 DEF Reply
  <2> QED
    BY <1>0, <1>4, <2>2, Zenon
<1>5. CASE proxy.cmd = "RESET"
  <2>1. answer = Reply("ok", <<>>, [NoTransaction EXCEPT !.as = "unauthenticated"])
    BY <1>5 DEF ServerReplies
  <2>2. answer.kind = "ok" /\ answer.next = [NoTransaction EXCEPT !.as = "unauthenticated"]
    BY <2>1 DEF Reply
  <2>3. /\ DOMAIN answer.next = DOMAIN target /\ answer.next.as = "unauthenticated"
        /\ answer.next.multi = FALSE
    BY <1>0, <2>2 DEF NoTransaction
  <2>4. ~ target.multi
    BY <1>5 DEF RedisInv, Lone
  <2> QED
    BY <1>0, <1>5, <2>2, <2>3, <2>4, Zenon
<1>6. CASE /\ proxy.cmd = "AUTH" \/ (proxy.cmd = "HELLO" /\ proxy.candidate # "unauthenticated")
           /\ ~ target.multi
  <2>1. \/ answer = Reply("ok", <<>>, [target EXCEPT !.as = proxy.candidate])
        \/ answer = Reply("error", <<>>, target)
    BY <1>6 DEF ServerReplies
  <2>2. /\ DOMAIN answer.next = DOMAIN target /\ answer.next.multi = target.multi
        /\ answer.next.as = IF answer.kind = "error" THEN target.as ELSE proxy.candidate
    BY <1>0, <2>1 DEF Reply
  <2>3. proxy.candidate # "unauthenticated"
    BY <1>6 DEF RedisInv, Account
  <2> QED
    BY <1>0, <1>6, <2>2, <2>3, Zenon
<1>7. CASE /\ ~ target.multi
           /\ proxy.cmd \notin {"MULTI", "EXEC", "DISCARD", "RESET", "AUTH"}
           /\ ~ (proxy.cmd = "HELLO" /\ proxy.candidate # "unauthenticated")
  <2>1. answer = Reply("ok", <<>>, target) \/ answer = Reply("error", <<>>, target)
    BY <1>7 DEF ServerReplies
  <2>2. answer.next = target
    BY <2>1 DEF Reply
  <2> QED
    BY <1>0, <1>7, <2>2, Zenon
<1> QED
  BY <1>1, <1>2, <1>3, <1>4, <1>5, <1>6, <1>7, Zenon

LEMMA RedisReads ==
    ASSUME RecordsInv, RedisInv, ~ Fails, redisReply
    PROVE  RecordsInv' /\ RedisInv'
<1>1. PICK answer \in ServerReplies :
        /\ target' = answer.next
        /\ effects' = ServerOutcomes(answer)
        /\ journal' = redisCompletes(answer)
        /\ proxy' = [proxy EXCEPT
              !.stage = IF proxy.cmd = "QUIT" THEN "closed" ELSE "command",
              !.account = redisAccount(answer),
              !.inTransaction = IF redisEnds(answer) THEN FALSE
                                ELSE @ \/ (proxy.cmd = "MULTI" /\ answer.kind # "error"),
              !.queued = IF redisEnds(answer) THEN <<>>
                         ELSE IF proxy.inTransaction /\ answer.kind = "queued" THEN Append(@, Op)
                         ELSE @]
  BY Zenon DEF redisReply
<1>2. proxy.stage = "reply"
  BY Zenon DEF redisReply
<1>3. JournalKept
  <2>1. DOMAIN journal' = DOMAIN journal
    BY <1>1 DEF redisCompletes
  <2>2. Len(journal') = Len(journal)
    BY <2>1 DEF RecordsInv
  <2>3. \A i \in DOMAIN journal : /\ DOMAIN journal'[i] = {"account", "result"}
                                  /\ journal'[i].account = journal[i].account
    BY <1>1 DEF redisCompletes, RecordsInv
  <2> QED
    BY <2>1, <2>2, <2>3 DEF RecordsInv, JournalKept
<1>4. EffectsKept
  <2>1. DOMAIN effects' = DOMAIN effects
    BY <1>1 DEF ServerOutcomes
  <2>2. \A op \in DOMAIN effects : /\ DOMAIN effects'[op] = {"as", "outcome"}
                                   /\ effects'[op].as = effects[op].as
    BY <1>1 DEF ServerOutcomes, RecordsInv
  <2> QED
    BY <2>1, <2>2 DEF EffectsKept
<1>5. RecordsInv'
  BY <1>3, <1>4, KeptNext
<1>6. /\ DOMAIN proxy' = DOMAIN proxy /\ proxy'.stage \in {"command", "closed"}
      /\ proxy'.account = redisAccount(answer)
  BY <1>1 DEF RedisInv
<1>7. proxy'.inTransaction = IF redisEnds(answer) THEN FALSE
                             ELSE proxy.inTransaction \/ (proxy.cmd = "MULTI" /\ answer.kind # "error")
  BY <1>1 DEF RedisInv
<1>8. /\ DOMAIN target' = DOMAIN target /\ target'.multi \in BOOLEAN
      /\ answer.kind = "error" => target'.as = target.as
      /\ answer.kind # "error" =>
            target'.as = IF proxy.cmd = "RESET" THEN "unauthenticated"
                         ELSE IF /\ proxy.cmd = "AUTH" \/ proxy.cmd = "HELLO"
                                 /\ proxy.candidate # "unauthenticated"
                         THEN proxy.candidate ELSE target.as
      /\ target'.multi = IF proxy.cmd \in {"EXEC", "DISCARD"} THEN FALSE
                         ELSE target.multi \/ (proxy.cmd = "MULTI" /\ answer.kind # "error")
  BY <1>1, <1>2, RedisServer, Zenon
<1>9. proxy'.account \in {"unauthenticated", Account} /\ (proxy'.account = Account => target'.as = Account)
  BY <1>2, <1>6, <1>8 DEF redisAccount, RedisInv, Account
<1>10. proxy'.inTransaction = target'.multi
  <2>1. proxy.inTransaction = target.multi /\ target.multi \in BOOLEAN
    BY <1>2 DEF RedisInv
  <2>2. CASE proxy.cmd \in {"EXEC", "DISCARD"}
    BY <1>7, <1>8, <2>1, <2>2, Zenon DEF redisEnds
  <2>3. CASE proxy.cmd \notin {"EXEC", "DISCARD"}
    BY <1>7, <1>8, <2>1, <2>3 DEF redisEnds
  <2> QED
    BY <2>2, <2>3
<1> QED
  BY <1>5, <1>6, <1>8, <1>9, <1>10, Zenon DEF RedisInv

LEMMA RedisNext ==
    ASSUME RecordsInv, RedisInv, redisNext
    PROVE  RecordsInv' /\ RedisInv'
<1>1. CASE Fails
  BY <1>1, RedisFails
<1>2. CASE ~ Fails
  BY <1>2, RedisBegins, RedisReads DEF redisNext
<1> QED
  BY <1>1, <1>2

-----------------------------------------------------------------------------
\* The terminal in the browser.

LEMMA PageNext ==
    ASSUME BrowserInv,
           \/ authorizeWebTerminal \/ openTerminalStart \/ terminalRecheck \/ relayCloses
           \/ copyFromBrowser \/ copyFromWorker \/ webTerminal
           \/ browserLeaves \/ accessRevoked \/ workerStops
    PROVE  BrowserInv'
<1>1. UNCHANGED <<shell, output>>
  BY DEF authorizeWebTerminal, openTerminalStart, relayReturns, terminalRecheck, relayCloses,
         copyFromBrowser, copyFromWorker, webTerminal, browserLeaves, accessRevoked, workerStops
<1>2. DOMAIN page' = DOMAIN page
  BY Zenon DEF authorizeWebTerminal, openTerminalStart, relayReturns, terminalRecheck, relayCloses,
         copyFromBrowser, copyFromWorker, webTerminal, browserLeaves, accessRevoked, workerStops
<1>3. \/ page'.relay \in {"draining", "returned"} \/ page'.relay = page.relay
      \/ page.relay \in {"idle", "upgraded"}
  BY Zenon DEF authorizeWebTerminal, openTerminalStart, relayReturns, terminalRecheck, relayCloses,
         copyFromBrowser, copyFromWorker, webTerminal, browserLeaves, accessRevoked, workerStops,
         BrowserInv
<1> QED
  BY <1>1, <1>2, <1>3 DEF BrowserInv

LEMMA OpensNext ==
    ASSUME BrowserInv, OpenTerminal
    PROVE  BrowserInv'
<1>1. CASE relayReturns
  <2>1. UNCHANGED <<shell, output>> /\ DOMAIN page' = DOMAIN page /\ page'.relay = "returned"
    BY <1>1 DEF relayReturns, BrowserInv
  <2> QED
    BY <2>1 DEF BrowserInv
<1>2. CASE ~ relayReturns
  <2>1. /\ UNCHANGED output /\ DOMAIN page' = DOMAIN page /\ page'.relay = "serving"
        /\ DOMAIN shell' = DOMAIN shell
    BY <1>2, Zenon DEF OpenTerminal, BrowserInv
  <2>2. shell.pc = "idle" /\ output.told # "exit"
    BY DEF OpenTerminal, BrowserInv
  <2> QED
    BY <2>1, <2>2 DEF BrowserInv
<1> QED
  BY <1>1, <1>2

\* The steps of the worker that leave the output alone.
LEMMA ShellNext ==
    ASSUME BrowserInv,
           \/ sendReady \/ afterCancel \/ inputBlocks \/ terminalInput \/ outputEnds \/ broker
           \/ bridge \/ processExits \/ waitProcess
    PROVE  BrowserInv'
<1>1. UNCHANGED <<page, output>>
  BY Zenon DEF sendReady, afterCancel, inputBlocks, terminalInput, outputEnds, broker, bridge,
     processExits, waitProcess
<1>2. DOMAIN shell' = DOMAIN shell
  BY Zenon DEF sendReady, afterCancel, inputBlocks, terminalInput, outputEnds, broker, bridge,
     processExits, waitProcess, Killed
<1>3. shell'.pc = shell.pc \/ shell.pc \notin {"idle", "reported", "returned"}
  BY Zenon DEF sendReady, afterCancel, inputBlocks, terminalInput, outputEnds, broker, bridge,
     processExits, waitProcess, Killed, BrowserInv
<1> QED
  BY <1>1, <1>2, <1>3 DEF BrowserInv

LEMMA StartsNext ==
    ASSUME BrowserInv, ServeSSHTerminal \/ serveClientTerminal \/ launch
    PROVE  BrowserInv'
<1>1. shell.pc \in {"starting", "prepared"} /\ UNCHANGED page
  BY DEF ServeSSHTerminal, serveClientTerminal, Begins, launch
<1>2. DOMAIN shell' = DOMAIN shell
  BY Zenon DEF ServeSSHTerminal, serveClientTerminal, Begins, launch
<1>3. /\ DOMAIN output' = DOMAIN output /\ output'.frame = output.frame
      /\ output'.recorded = output.recorded /\ output'.shown = output.shown
      /\ output'.told = output.told
  BY DEF ServeSSHTerminal, serveClientTerminal, Begins, launch, Ends, BrowserInv
<1> QED
  BY <1>1, <1>2, <1>3 DEF BrowserInv

\* A frame: recorded, then shown.
LEMMA FrameNext ==
    ASSUME BrowserInv, auditedWrite \/ deliverFrame
    PROVE  BrowserInv'
<1>1. UNCHANGED page /\ DOMAIN shell' = DOMAIN shell
  BY Zenon DEF auditedWrite, deliverFrame, OutputFails, Killed
<1>2. shell'.pc = shell.pc
  BY Zenon DEF auditedWrite, deliverFrame, OutputFails, Killed, BrowserInv
<1>3. /\ DOMAIN output' = DOMAIN output /\ output'.record = output.record
      /\ output'.told = output.told
  BY Zenon DEF auditedWrite, deliverFrame, BrowserInv
<1>4. /\ output'.recorded \in Nat /\ output'.shown \in Nat
      /\ output'.shown + (IF output'.frame = "recorded" THEN 1 ELSE 0) <= output'.recorded
  <2>1. CASE UNCHANGED output
    BY <2>1 DEF BrowserInv
  <2>2. CASE auditedWrite /\ ~ UNCHANGED output
    <3>1. /\ output.frame = "none" /\ output'.frame = "recorded"
          /\ output'.recorded = output.recorded + 1 /\ output'.shown = output.shown
      BY <2>2, Zenon DEF auditedWrite, BrowserInv
    <3> QED
      BY <3>1 DEF BrowserInv
  <2>3. CASE deliverFrame
    <3>1. /\ output.frame = "recorded" /\ output'.frame = "none"
          /\ output'.recorded = output.recorded
          /\ output'.shown \in {output.shown, output.shown + 1}
      BY <2>3 DEF deliverFrame, BrowserInv
    <3> QED
      BY <3>1 DEF BrowserInv
  <2> QED
    BY <2>1, <2>2, <2>3
<1> QED
  BY <1>1, <1>2, <1>3, <1>4 DEF BrowserInv

\* The end of the shell: the exit is told by the step that records the success.
LEMMA ReportNext ==
    ASSUME BrowserInv, report \/ terminalReturns
    PROVE  BrowserInv'
<1>1. UNCHANGED page /\ DOMAIN shell' = DOMAIN shell /\ shell'.pc \in {"reported", "returned"}
  BY Zenon DEF report, terminalReturns, Killed, BrowserInv
<1>2. /\ DOMAIN output' = DOMAIN output /\ output'.frame = output.frame
      /\ output'.recorded = output.recorded /\ output'.shown = output.shown
  BY Zenon DEF report, terminalReturns, Ends, BrowserInv
<1>3. output'.told = "exit" => output'.record = "success"
  <2>1. CASE report
    <3>1. output.told # "exit"
      BY <2>1 DEF report, BrowserInv
    <3>2. /\ output'.told = "exit" => terminalResult = "none"
          /\ terminalResult = "none" => output'.record = Result
      BY <2>1, <3>1 DEF report, BrowserInv
    <3> QED
      BY <3>2 DEF Result
  <2>2. CASE terminalReturns
    BY <2>2 DEF terminalReturns, Ends, BrowserInv
  <2> QED
    BY <2>1, <2>2
<1>4. page.relay \in {"serving", "draining", "returned"}
  BY DEF report, terminalReturns, BrowserInv
<1> QED
  BY <1>1, <1>2, <1>3, <1>4 DEF BrowserInv

LEMMA TerminalStep ==
    ASSUME BrowserInv, TerminalNext
    PROVE  BrowserInv'
BY PageNext, OpensNext, ShellNext, StartsNext, FrameNext, ReportNext DEF TerminalNext

-----------------------------------------------------------------------------
\* The guard of a native connection.

\* What the guard writes: never the clear content or the login of a side.
Relayed == {"ssh_banner", "kex", "kex_packet", "newkeys", "client_hello", "hello12", "hello13",
            "retry", "tls_greeting", "ssl_request", "S", "ccs", "handshake", "alert", "sealed"}

ReaderState == [kind : {"none", "ssh", "tls12", "tls13"}, encrypted : BOOLEAN, ccs : BOOLEAN]

\* A reader that takes what it reads for encrypted is right about its sender.
GuardInv ==
    /\ half \in [Side -> Unit \cup {"none"}]
    /\ reader \in [Side -> ReaderState]
    /\ passed \in [Side -> SUBSET Relayed]
    /\ \A s \in Side : reader[s].encrypted => Content(s) = "sealed"

LEMMA ReaderType ==
    ASSUME NEW mode \in {"none", "ssh", "tls12", "tls13"}
    PROVE  /\ Reader(mode) \in ReaderState
           /\ Reader(mode).encrypted <=> mode = "tls13"
<1>1. (mode = "tls13") \in BOOLEAN
  OBVIOUS
<1> QED
  BY <1>1, Zenon DEF Reader, ReaderState

LEMMA GuardInitInv == GuardInit => GuardInv
<1> SUFFICES ASSUME GuardInit PROVE GuardInv
  OBVIOUS
<1>1. half \in [Side -> Unit \cup {"none"}] /\ passed \in [Side -> SUBSET Relayed]
  BY DEF GuardInit, Unread
<1>2. reader = [s \in Side |-> Reader("none")]
  BY DEF GuardInit
<1> QED
  BY <1>1, <1>2, ReaderType DEF GuardInv

\* What crossed once stays crossed.
LEMMA PassedStep ==
    ASSUME GuardInv, NEW s \in Side, NEW unit \in Relayed, writeNative(s, unit)
    PROVE  /\ passed' \in [Side -> SUBSET Relayed]
           /\ unit \in passed'[s]
           /\ \A t \in Side : Content(t) = "sealed" => Content(t)' = "sealed"
<1>1. /\ passed' \in [Side -> SUBSET Relayed] /\ unit \in passed'[s]
      /\ \A t \in Side : passed[t] \subseteq passed'[t]
  BY DEF GuardInv, writeNative
<1> QED
  BY <1>1 DEF Content, Side

\* A step that writes one unit and leaves the readers alone.
LEMMA WriteStep ==
    ASSUME GuardInv, NEW s \in Side, NEW unit \in Relayed, writeNative(s, unit),
           half' \in [Side -> Unit \cup {"none"}], UNCHANGED reader
    PROVE  GuardInv'
BY PassedStep DEF GuardInv

\* A step that writes nothing and leaves the readers alone.
LEMMA SilentStep ==
    ASSUME GuardInv, half' \in [Side -> Unit \cup {"none"}], UNCHANGED <<reader, passed>>
    PROVE  GuardInv'
BY DEF GuardInv, Content

LEMMA RejectedStep ==
    ASSUME GuardInv, Rejected
    PROVE  GuardInv'
BY SilentStep DEF Rejected, GuardInv

LEMMA BothStep ==
    ASSUME GuardInv, NEW s \in Side, NEW unit \in Unit, nativeBoth(s, unit)
    PROVE  half' \in [Side -> Unit \cup {"none"}] /\ UNCHANGED reader
BY DEF GuardInv, nativeBoth

LEMMA MySQLStep ==
    ASSUME GuardInv, NEW unit \in Unit, negotiateNativeMySQL(unit)
    PROVE  GuardInv'
<1>1. "backend" \in Side /\ "client" \in Side
  BY DEF Side
<1>2. CASE Rejected
  BY <1>2, RejectedStep
<1>3. CASE writeNative("backend", "tls_greeting") /\ UNCHANGED <<half, reader>>
  BY <1>1, <1>3, WriteStep DEF GuardInv, Relayed
<1>4. CASE writeNative("client", "ssl_request") /\ UNCHANGED <<half, reader>>
  BY <1>1, <1>4, WriteStep DEF GuardInv, Relayed
<1> QED
  BY <1>2, <1>3, <1>4 DEF negotiateNativeMySQL

LEMMA PostgreSQLStep ==
    ASSUME GuardInv, NEW unit \in Unit, negotiateNativePostgreSQL(unit)
    PROVE  GuardInv'
<1>1. "backend" \in Side /\ "client" \in Side
  BY DEF Side
<1>2. CASE Rejected
  BY <1>2, RejectedStep
<1>3. CASE writeNative("client", "ssl_request") /\ UNCHANGED <<half, reader>>
  BY <1>1, <1>3, WriteStep DEF GuardInv, Relayed
<1>4. CASE writeNative("backend", "S") /\ UNCHANGED <<half, reader>>
  BY <1>1, <1>4, WriteStep DEF GuardInv, Relayed
<1> QED
  BY <1>2, <1>3, <1>4 DEF negotiateNativePostgreSQL

LEMMA ClientHelloStep ==
    ASSUME GuardInv, NEW s \in Side, NEW unit \in Unit, readNativeTLSHello(s, unit)
    PROVE  GuardInv'
<1>1. CASE Rejected
  BY <1>1, RejectedStep
<1>2. CASE /\ nativeBoth(s, unit) /\ s = "client" /\ unit = "client_hello"
           /\ writeNative("client", unit)
  BY <1>2, BothStep, WriteStep, Zenon DEF Relayed
<1>3. CASE nativeBoth(s, unit) /\ UNCHANGED passed
  BY <1>3, BothStep, SilentStep
<1> QED
  BY <1>1, <1>2, <1>3 DEF readNativeTLSHello, validateNativeTLSClientHello

\* The ServerHello decides what the readers take for encrypted.
LEMMA ServerHelloStep ==
    ASSUME GuardInv, negotiateNativeTLS
    PROVE  GuardInv'
<1> DEFINE hello == half["backend"]
<1>1. "backend" \in Side /\ Unread \in [Side -> Unit \cup {"none"}]
  BY DEF Side, Unread
<1>2. CASE Rejected
  BY <1>2, RejectedStep
<1>3. CASE /\ writeNative("backend", hello) /\ half' = Unread
           /\ hello = "retry" /\ UNCHANGED reader
  <2>1. hello \in Relayed
    BY <1>3 DEF Relayed
  <2> QED
    BY <1>1, <1>3, <2>1, WriteStep
<1>4. CASE /\ writeNative("backend", hello) /\ half' = Unread
           /\ hello \in {"hello12", "hello13"}
           /\ reader' = [s \in Side |-> Reader(IF hello = "hello13" THEN "tls13" ELSE "tls12")]
  <2>1. hello \in Relayed
    BY <1>4 DEF Relayed
  <2>2. passed' \in [Side -> SUBSET Relayed] /\ hello \in passed'["backend"]
    BY <1>1, <1>4, <2>1, PassedStep
  <2>3. hello = "hello13" => \A s \in Side : Content(s)' = "sealed"
    BY <2>2 DEF Content
  <2>4. PICK mode \in {"tls12", "tls13"} :
           /\ mode = IF hello = "hello13" THEN "tls13" ELSE "tls12"
           /\ reader' = [s \in Side |-> Reader(mode)]
    BY <1>4
  <2>5. Reader(mode) \in ReaderState /\ (Reader(mode).encrypted => hello = "hello13")
    BY <2>4, ReaderType
  <2>6. reader' \in [Side -> ReaderState]
    BY <2>4, <2>5
  <2>7. \A s \in Side : reader'[s].encrypted => Content(s)' = "sealed"
    BY <2>3, <2>4, <2>5
  <2> QED
    BY <1>1, <1>4, <2>2, <2>6, <2>7 DEF GuardInv
<1> QED
  BY <1>2, <1>3, <1>4 DEF negotiateNativeTLS, nativeTLSServerHello

\* A reader updated for one side, whose unit crosses.
LEMMA ReaderStep ==
    ASSUME GuardInv, NEW s \in Side, NEW unit \in Relayed, NEW r \in ReaderState,
           writeNative(s, unit), reader' = [reader EXCEPT ![s] = r], UNCHANGED half,
           r.encrypted => Content(s)' = "sealed"
    PROVE  GuardInv'
<1>1. passed' \in [Side -> SUBSET Relayed] /\ reader' \in [Side -> ReaderState]
  BY PassedStep DEF GuardInv
<1>2. ASSUME NEW t \in Side, reader'[t].encrypted
      PROVE  Content(t)' = "sealed"
  <2>1. CASE t = s
    BY <1>2, <2>1 DEF GuardInv
  <2>2. CASE t # s
    <3>1. Content(t) = "sealed"
      BY <1>2, <2>2 DEF GuardInv
    <3> QED
      BY <3>1, PassedStep
  <2> QED
    BY <2>1, <2>2
<1> QED
  BY <1>1, <1>2 DEF GuardInv

LEMMA TLSRecordStep ==
    ASSUME GuardInv, NEW s \in Side, NEW unit \in Unit, nativeTLSReader(s, unit)
    PROVE  GuardInv'
<1>1. CASE Rejected
  BY <1>1, RejectedStep
<1>2. CASE readNativeTLSRecord(s, unit)
  <2> DEFINE out == IF unit = "data" THEN Content(s) ELSE unit
             r == [reader[s] EXCEPT !.ccs = reader[s].ccs \/ unit = "ccs",
                                    !.encrypted = reader[s].encrypted \/ unit = "ccs"]
  <2>1. reader[s] \in ReaderState
    BY DEF GuardInv
  <2>2. (reader[s].ccs \/ unit = "ccs") \in BOOLEAN /\ (reader[s].encrypted \/ unit = "ccs") \in BOOLEAN
    OBVIOUS
  <2>3. r \in ReaderState /\ (r.encrypted <=> reader[s].encrypted \/ unit = "ccs")
    BY <2>1, <2>2, Zenon DEF ReaderState
  <2>4. /\ unit \in {"ccs", "handshake", "data", "alert"}
        /\ unit = "data" => reader[s].encrypted
    BY <1>2 DEF readNativeTLSRecord
  <2>5. out \in Relayed
    BY <2>4 DEF GuardInv, Relayed
  <2>6. writeNative(s, out) /\ UNCHANGED half
    BY <1>2 DEF nativeTLSReader, Rejected
  <2>7. reader' = [reader EXCEPT ![s] = r]
    BY <1>2, Zenon DEF nativeTLSReader, GuardInv
  <2>8. ASSUME r.encrypted
        PROVE  Content(s)' = "sealed"
    <3>1. CASE reader[s].encrypted
      BY <2>5, <2>6, <3>1, PassedStep DEF GuardInv
    <3>2. CASE unit = "ccs"
      <4>1. "ccs" \in passed'[s]
        BY <2>5, <2>6, <3>2, PassedStep
      <4> QED
        BY <4>1 DEF Content
    <3> QED
      BY <2>3, <2>8, <3>1, <3>2
  <2> QED
    BY <2>3, <2>5, <2>6, <2>7, <2>8, ReaderStep, Zenon
<1> QED
  BY <1>1, <1>2 DEF nativeTLSReader

LEMMA BannerStep ==
    ASSUME GuardInv, NEW s \in Side, NEW unit \in Unit, sshBanner(s, unit)
    PROVE  GuardInv'
<1>1. CASE Rejected
  BY <1>1, RejectedStep
<1>2. CASE unit = "ssh_banner" /\ nativeBoth(s, unit) /\ writeNative(s, unit)
  BY <1>2, BothStep, WriteStep DEF Relayed
<1> QED
  BY <1>1, <1>2 DEF sshBanner

LEMMA KexStep ==
    ASSUME GuardInv, NEW s \in Side, NEW unit \in Unit, readKex(s, unit)
    PROVE  GuardInv'
<1>1. CASE Rejected
  BY <1>1, RejectedStep
<1>2. CASE nativeBoth(s, unit) /\ UNCHANGED passed
  BY <1>2, BothStep, SilentStep
<1> QED
  BY <1>1, <1>2 DEF readKex

LEMMA SSHStep ==
    ASSUME GuardInv, negotiateNativeSSH
    PROVE  GuardInv'
<1>1. CASE Rejected
  BY <1>1, RejectedStep
<1>2. CASE /\ passed' = [s \in Side |-> passed[s] \cup {"kex"}]
           /\ reader' = [s \in Side |-> Reader("ssh")]
           /\ half' = Unread
  <2>1. passed' \in [Side -> SUBSET Relayed] /\ half' \in [Side -> Unit \cup {"none"}]
    BY <1>2 DEF GuardInv, Relayed, Unread
  <2>2. Reader("ssh") \in ReaderState /\ ~ Reader("ssh").encrypted
    BY ReaderType
  <2> QED
    BY <1>2, <2>1, <2>2 DEF GuardInv
<1> QED
  BY <1>1, <1>2 DEF negotiateNativeSSH

LEMMA SSHPacketStep ==
    ASSUME GuardInv, NEW s \in Side, NEW unit \in Unit, nativeSSHReader(s, unit)
    PROVE  GuardInv'
<1>1. CASE Rejected
  BY <1>1, RejectedStep
<1>2. CASE /\ reader[s].encrypted \/ unit \in {"kex_packet", "newkeys"}
           /\ reader' = [reader EXCEPT ![s].encrypted = @ \/ unit = "newkeys"]
           /\ writeNative(s, IF unit \in {"kex_packet", "newkeys"} THEN unit ELSE Content(s))
           /\ UNCHANGED half
  <2> DEFINE out == IF unit \in {"kex_packet", "newkeys"} THEN unit ELSE Content(s)
             r == [reader[s] EXCEPT !.encrypted = reader[s].encrypted \/ unit = "newkeys"]
  <2>1. reader[s] \in ReaderState
    BY DEF GuardInv
  <2>2. (reader[s].encrypted \/ unit = "newkeys") \in BOOLEAN
    OBVIOUS
  <2>3. r \in ReaderState /\ (r.encrypted <=> reader[s].encrypted \/ unit = "newkeys")
    BY <2>1, <2>2, Zenon DEF ReaderState
  <2>4. out \in Relayed
    BY <1>2 DEF GuardInv, Relayed
  <2>5. writeNative(s, out) /\ reader' = [reader EXCEPT ![s] = r]
    BY <1>2 DEF GuardInv
  <2>6. ASSUME r.encrypted
        PROVE  Content(s)' = "sealed"
    <3>1. CASE reader[s].encrypted
      BY <2>4, <2>5, <3>1, PassedStep DEF GuardInv
    <3>2. CASE unit = "newkeys"
      <4>1. "newkeys" \in passed'[s]
        BY <2>4, <2>5, <3>2, PassedStep
      <4> QED
        BY <4>1 DEF Content
    <3> QED
      BY <2>3, <2>6, <3>1, <3>2
  <2> QED
    BY <1>2, <2>3, <2>4, <2>5, <2>6, ReaderStep, Zenon
<1> QED
  BY <1>1, <1>2 DEF nativeSSHReader

LEMMA GuardInvNext == GuardInv /\ GuardNext => GuardInv'
<1> SUFFICES ASSUME GuardInv, GuardNext PROVE GuardInv'
  OBVIOUS
<1>1. CASE UNCHANGED <<half, reader, passed>>
  BY <1>1, SilentStep DEF GuardInv
<1>2. CASE bannersExchanged
  BY <1>2, SilentStep DEF bannersExchanged, Unread
<1>3. ASSUME NEW s \in Side, NEW first, negotiateNativeEncryption(s, first)
      PROVE  UNCHANGED <<half, reader, passed>>
  BY <1>3 DEF negotiateNativeEncryption
<1>4. CASE nativeHandshakeTimeout
  BY <1>4, RejectedStep DEF nativeHandshakeTimeout
<1>5. CASE streamEnds
  BY <1>1, <1>5 DEF streamEnds
<1>6. ASSUME NEW s \in Side, nativePeer(s)
      PROVE  UNCHANGED <<half, reader, passed>>
  BY <1>6 DEF nativePeer
<1> QED
  BY <1>1, <1>2, <1>3, <1>4, <1>5, <1>6, MySQLStep, PostgreSQLStep, ClientHelloStep,
     ServerHelloStep, TLSRecordStep, BannerStep, KexStep, SSHStep, SSHPacketStep DEF GuardNext

\* No login and no unencrypted data crosses the guard (native_encryption.go), in
\* whatever order and whichever protocol the two sides speak.
THEOREM GuardPassesOnlyEncrypted == Spec => []OnlyEncryptedCrosses
<1>1. Init => GuardInv
  BY GuardInitInv DEF Init
<1>2. GuardInv /\ [Next]_vars => GuardInv'
  <2> SUFFICES ASSUME GuardInv, [Next]_vars PROVE GuardInv'
    OBVIOUS
  <2>1. CASE UNCHANGED guardVars
    BY <2>1, SilentStep DEF guardVars, GuardInv
  <2>2. CASE GuardNext
    BY <2>2, GuardInvNext
  <2> QED
    BY <2>1, <2>2 DEF Next, Rest, vars
<1>3. GuardInv => OnlyEncryptedCrosses
  BY DEF GuardInv, Relayed, OnlyEncryptedCrosses
<1> QED
  BY <1>1, <1>2, <1>3, PTL DEF Spec

-----------------------------------------------------------------------------
\* The connection controller.

WorkerState == {"idle", "attempt", "admit", "start", "dial", "dialled", "relay", "ending",
                "closing", "done", "killed"}

\* No goroutine is left, and none can be started by the accept loop.
Quiet == serve # "accepting" /\ waitForConnections /\ ~ listening /\ slot = {}

\* A runtime that is not registered is quiet, before its start as after a Stop,
\* and no Stop reports an end while it is registered.
ControllerInv ==
    /\ worker \in [Conn -> WorkerState]
    /\ trail \in [Conn -> SUBSET Bounds]
    /\ stop \in [Stopper -> {"idle", "called", "wait", "wait_expired"}]
    /\ reply \in [Stopper -> {"none", "error", "closed", "expired", "not_found"}]
    /\ slot \subseteq {c \in Conn : Live(c)}
    /\ agent = "new" => ~ registered /\ \A x \in Stopper : stop[x] = "idle" /\ reply[x] = "none"
    /\ ~ registered => Quiet
    /\ serve = "done" => ~ listening
    /\ \A x \in Stopper : reply[x] \in {"closed", "expired", "not_found"} => ~ registered

\* Where a connection can be once its backend_connected event is acknowledged.
EndsLater(c) ==
    "backend_connected" \in trail[c] =>
        \/ worker[c] \in {"relay", "ending", "killed"}
        \/ {"disconnected", "auth_rejected"} \cap trail[c] # {}
        \/ auditFailed

EndInv == \A c \in Conn : EndsLater(c)

BothInv == ControllerInv /\ EndInv

LEMMA ControllerInitInv == ControllerInit => BothInv
<1> SUFFICES ASSUME ControllerInit PROVE BothInv
  OBVIOUS
<1>1. \A c \in Conn : worker[c] = "idle" /\ ~ Live(c) /\ trail[c] = {}
  BY DEF ControllerInit, Live
<1>2. Quiet
  BY <1>1 DEF ControllerInit, Quiet, waitForConnections
<1>3. ControllerInv
  BY <1>1, <1>2 DEF ControllerInit, ControllerInv, WorkerState
<1>4. EndInv
  BY <1>1 DEF EndInv, EndsLater
<1> QED
  BY <1>3, <1>4 DEF BothInv

\* Only a registered runtime has goroutines.
LEMMA LiveIsRegistered ==
    ASSUME ControllerInv, NEW c \in Conn, Live(c)
    PROVE  registered
BY DEF ControllerInv, Quiet, waitForConnections

\* A step of one connection of a registered runtime, at most taking a place for
\* a connection that is live after it.
LEMMA ConnectionStep ==
    ASSUME BothInv, registered, NEW c \in Conn, NEW pc \in WorkerState,
           worker' = [worker EXCEPT ![c] = pc],
           trail' \in [Conn -> SUBSET Bounds],
           \A d \in Conn \ {c} : trail'[d] = trail[d],
           stop' \in [Stopper -> {"idle", "called", "wait", "wait_expired"}],
           slot' \subseteq (slot \ {c}) \cup {d \in {c} : pc \notin {"idle", "done", "killed"}},
           listening' => listening, auditFailed => auditFailed',
           UNCHANGED <<agent, registered, serve, reply>>,
           EndsLater(c)'
    PROVE  BothInv'
<1>1. /\ worker' \in [Conn -> WorkerState] /\ worker'[c] = pc
      /\ \A d \in Conn \ {c} : worker'[d] = worker[d]
  BY DEF BothInv, ControllerInv
<1>2. slot' \subseteq {d \in Conn : Live(d)'}
  <2> SUFFICES ASSUME NEW d \in slot'
               PROVE  d \in Conn /\ Live(d)'
    OBVIOUS
  <2>1. CASE d = c
    BY <1>1, <2>1 DEF Live
  <2>2. CASE d # c
    <3>1. d \in slot
      BY <2>2
    <3>2. d \in Conn /\ Live(d)
      BY <3>1 DEF BothInv, ControllerInv
    <3> QED
      BY <1>1, <2>2, <3>2 DEF Live
  <2> QED
    BY <2>1, <2>2
<1>3. ControllerInv'
  BY <1>1, <1>2 DEF BothInv, ControllerInv
<1>4. \A d \in Conn : EndsLater(d)'
  BY <1>1 DEF BothInv, EndInv, EndsLater
<1> QED
  BY <1>3, <1>4 DEF BothInv, EndInv

\* appendEvent: acknowledged, or the audit failed and the session is stopped.
LEMMA AppendEffect ==
    ASSUME BothInv, registered, NEW c \in Conn, NEW event, NEW next, NEW failed,
           appendEvent(c, event, next, failed)
    PROVE  /\ \/ worker' = [worker EXCEPT ![c] = next] /\ trail'[c] = trail[c] \cup ({event} \cap Bounds)
              \/ worker' = [worker EXCEPT ![c] = failed] /\ auditFailed'
           /\ trail' \in [Conn -> SUBSET Bounds]
           /\ \A d \in Conn \ {c} : trail'[d] = trail[d]
           /\ stop' \in [Stopper -> {"idle", "called", "wait", "wait_expired"}]
           /\ listening' => listening
           /\ auditFailed => auditFailed'
<1>1. /\ trail \in [Conn -> SUBSET Bounds]
      /\ stop \in [Stopper -> {"idle", "called", "wait", "wait_expired"}]
      /\ "audit" \in Stopper
  BY DEF BothInv, ControllerInv, Stopper
<1>2. CASE /\ trail' = [trail EXCEPT ![c] = @ \cup ({event} \cap Bounds)]
           /\ worker' = [worker EXCEPT ![c] = next]
           /\ UNCHANGED <<auditFailed, status, cancelled, listening, stop, open, failures>>
  BY <1>1, <1>2
<1>3. CASE auditFailure /\ worker' = [worker EXCEPT ![c] = failed] /\ UNCHANGED trail
  BY <1>1, <1>3 DEF auditFailure, CloseAll
<1> QED
  BY <1>2, <1>3 DEF appendEvent

\* A step that appends an event: only the event of an end leads away from the
\* states in which the end is still to come.
LEMMA AppendStep ==
    ASSUME BothInv, NEW c \in Conn, Live(c), NEW event,
           NEW next \in WorkerState \ {"idle", "done", "killed"},
           NEW failed \in WorkerState \ {"idle", "done", "killed"},
           appendEvent(c, event, next, failed),
           UNCHANGED <<slot, reply, agent, registered, serve>>,
           event = "backend_connected" => next = "relay",
           worker[c] \in {"relay", "ending"} => event \in {"disconnected", "auth_rejected"}
    PROVE  BothInv'
<1>1. registered
  BY LiveIsRegistered DEF BothInv
<1>2. /\ \/ worker' = [worker EXCEPT ![c] = next] /\ trail'[c] = trail[c] \cup ({event} \cap Bounds)
         \/ worker' = [worker EXCEPT ![c] = failed] /\ auditFailed'
      /\ trail' \in [Conn -> SUBSET Bounds]
      /\ \A d \in Conn \ {c} : trail'[d] = trail[d]
      /\ stop' \in [Stopper -> {"idle", "called", "wait", "wait_expired"}]
      /\ listening' => listening
      /\ auditFailed => auditFailed'
  BY <1>1, AppendEffect
<1>3. worker[c] \notin {"idle", "done", "killed"} /\ EndsLater(c)
  BY DEF Live, BothInv, EndInv
<1>4. CASE worker' = [worker EXCEPT ![c] = next] /\ trail'[c] = trail[c] \cup ({event} \cap Bounds)
  <2>1. worker'[c] = next
    BY <1>4 DEF BothInv, ControllerInv
  <2>2. EndsLater(c)'
    BY <1>2, <1>3, <1>4, <2>1, Zenon DEF EndsLater, Bounds
  <2> QED
    BY <1>1, <1>2, <1>4, <2>2, ConnectionStep, Zenon
<1>5. CASE worker' = [worker EXCEPT ![c] = failed] /\ auditFailed'
  <2>1. EndsLater(c)'
    BY <1>5 DEF EndsLater
  <2> QED
    BY <1>1, <1>2, <1>5, <2>1, ConnectionStep, Zenon
<1> QED
  BY <1>2, <1>4, <1>5

\* A step that moves a worker that is not between its two events.
LEMMA MoveStep ==
    ASSUME BothInv, registered, NEW c \in Conn, NEW pc \in WorkerState, To(c, pc),
           worker[c] \notin {"relay", "ending", "killed"},
           slot' \subseteq (slot \ {c}) \cup {d \in {c} : pc \notin {"idle", "done", "killed"}},
           UNCHANGED <<trail, stop, listening, auditFailed, reply, agent, registered, serve>>
    PROVE  BothInv'
<1>1. worker' = [worker EXCEPT ![c] = pc] /\ EndsLater(c)
  BY DEF To, BothInv, EndInv
<1>2. EndsLater(c)'
  BY <1>1 DEF EndsLater
<1> QED
  BY <1>1, <1>2, ConnectionStep, Zenon DEF BothInv, ControllerInv

LEMMA WorkerStepInv ==
    ASSUME BothInv, NEW c \in Conn, WorkerStep(c)
    PROVE  BothInv'
<1>1. Live(c)
  BY DEF WorkerStep, connectAttempt, handleConnection, terminalStart, dial, backendConnected,
         operationAuditLost, terminalDisconnected, disconnected, Return, Live
<1>2. registered
  BY <1>1, LiveIsRegistered DEF BothInv
<1> USE DEF processVars, stopVars, runtimeVars
<1>3. CASE connectAttempt(c)
  <2>1. CASE To(c, "closing") /\ UNCHANGED <<trail, stop, listening, auditFailed>>
    BY <1>2, <1>3, <2>1, MoveStep DEF connectAttempt, WorkerState
  <2> QED
    BY <1>1, <1>3, <2>1, AppendStep DEF connectAttempt, WorkerState
<1>4. CASE handleConnection(c)
  <2>1. CASE /\ To(c, IF addConnection(c) THEN "dial" ELSE "closing") /\ slot' = slot \cup {c}
             /\ UNCHANGED <<trail, stop, listening, auditFailed>>
    BY <1>2, <1>4, <2>1, MoveStep DEF handleConnection, WorkerState
  <2> QED
    BY <1>1, <1>4, <2>1, AppendStep DEF handleConnection, WorkerState
<1>5. CASE terminalStart(c)
  BY <1>2, <1>5, MoveStep DEF terminalStart, WorkerState
<1>6. CASE dial(c)
  <2>1. CASE To(c, "dialled") /\ UNCHANGED <<trail, stop, listening, auditFailed>>
    BY <1>2, <1>6, <2>1, MoveStep DEF dial, WorkerState
  <2> QED
    BY <1>1, <1>6, <2>1, AppendStep DEF dial, WorkerState
<1>7. CASE backendConnected(c)
  <2>1. CASE To(c, "closing") /\ UNCHANGED <<trail, stop, listening, auditFailed>>
    BY <1>2, <1>7, <2>1, MoveStep DEF backendConnected, WorkerState
  <2> QED
    BY <1>1, <1>7, <2>1, AppendStep DEF backendConnected, WorkerState
<1>8. CASE operationAuditLost(c)
  <2>1. auditFailed' /\ (listening' => listening)
    BY <1>2, <1>8 DEF operationAuditLost, auditFailure, CloseAll
  <2>2. stop' \in [Stopper -> {"idle", "called", "wait", "wait_expired"}]
    BY <1>8 DEF operationAuditLost, auditFailure, BothInv, ControllerInv
  <2>3. EndsLater(c)'
    BY <2>1 DEF EndsLater
  <2> QED
    BY <1>2, <1>8, <2>1, <2>2, <2>3, ConnectionStep, Zenon
       DEF operationAuditLost, To, WorkerState, BothInv, ControllerInv
<1>9. CASE terminalDisconnected(c)
  BY <1>1, <1>9, AppendStep DEF terminalDisconnected, WorkerState
<1>10. CASE disconnected(c)
  BY <1>1, <1>10, AppendStep DEF disconnected, WorkerState
<1>11. CASE Return(c)
  BY <1>2, <1>11, MoveStep DEF Return, WorkerState
<1> QED
  BY <1>3, <1>4, <1>5, <1>6, <1>7, <1>8, <1>9, <1>10, <1>11 DEF WorkerStep

\* A new connection: through the listener, or of a running terminal.
LEMMA NewConnectionInv ==
    ASSUME BothInv, NEW c \in Conn,
           Accept(c) \/ terminal(c) \/ extraTerminalConnection(c)
    PROVE  BothInv'
<1> USE DEF processVars, stopVars, runtimeVars
<1>1. CASE Accept(c)
  <2>1. registered
    BY <1>1 DEF Accept, BothInv, ControllerInv, Quiet
  <2> QED
    BY <1>1, <2>1, MoveStep DEF Accept, WorkerState
<1>2. CASE terminal(c)
  BY <1>2, MoveStep DEF terminal, WorkerState
<1>3. CASE extraTerminalConnection(c)
  <2>1. PICK w \in Web : worker[w] = "relay"
    BY <1>3 DEF extraTerminalConnection
  <2>2. registered
    BY <2>1, LiveIsRegistered DEF Live, Conn, BothInv
  <2> QED
    BY <1>3, <2>2, MoveStep DEF extraTerminalConnection, WorkerState
<1> QED
  BY <1>1, <1>2, <1>3

\* A step that leaves the connections and the registration alone.
LEMMA ControlStep ==
    ASSUME BothInv, UNCHANGED <<registered, worker, slot, trail, auditFailed, reply>>,
           stop' \in [Stopper -> {"idle", "called", "wait", "wait_expired"}],
           listening' => listening, serve' # serve => serve' = "done" /\ ~ listening,
           agent' = "new" => agent = "new" /\ (registered \/ UNCHANGED stop)
    PROVE  BothInv'
<1>1. \A c \in Conn : Live(c)' <=> Live(c)
  BY DEF Live
<1>2. slot' \subseteq {c \in Conn : Live(c)'}
  BY <1>1 DEF BothInv, ControllerInv
<1>3. Quiet => Quiet'
  BY <1>1 DEF Quiet, waitForConnections
<1>4. serve' = "done" => ~ listening'
  BY DEF BothInv, ControllerInv
<1>5. ControllerInv'
  BY <1>2, <1>3, <1>4 DEF BothInv, ControllerInv
<1>6. EndInv'
  BY DEF BothInv, EndInv, EndsLater
<1> QED
  BY <1>5, <1>6 DEF BothInv

LEMMA StartInv ==
    ASSUME BothInv, startRuntime
    PROVE  BothInv'
<1> USE DEF stopVars
<1>1. \A c \in Conn : Live(c)' <=> Live(c)
  BY DEF startRuntime, Live
<1>2. slot' \subseteq {c \in Conn : Live(c)'}
  BY <1>1 DEF startRuntime, BothInv, ControllerInv
<1>3. ControllerInv'
  BY <1>2 DEF startRuntime, BothInv, ControllerInv
<1>4. EndInv'
  BY DEF startRuntime, BothInv, EndInv, EndsLater
<1> QED
  BY <1>3, <1>4 DEF BothInv

LEMMA StopWaitsInv ==
    ASSUME BothInv, NEW x \in Stopper, stopWaits(x)
    PROVE  BothInv'
<1> USE DEF processVars
<1>1. stop' \in [Stopper -> {"idle", "called", "wait", "wait_expired"}]
  BY DEF stopWaits, BothInv, ControllerInv
<1>2. CASE registered
  BY <1>1, <1>2, ControlStep DEF stopWaits, CloseAll
<1>3. CASE ~ registered
  <2>1. /\ reply' \in [Stopper -> {"none", "error", "closed", "expired", "not_found"}]
        /\ ~ registered' /\ UNCHANGED <<agent, serve, listening, worker, slot, trail, auditFailed>>
    BY <1>3 DEF stopWaits, BothInv, ControllerInv
  <2>2. agent # "new"
    BY DEF stopWaits, BothInv, ControllerInv
  <2>3. \A c \in Conn : Live(c)' <=> Live(c)
    BY <2>1 DEF Live
  <2>4. Quiet' /\ slot' \subseteq {c \in Conn : Live(c)'}
    BY <1>3, <2>1, <2>3 DEF Quiet, waitForConnections, BothInv, ControllerInv
  <2>5. ControllerInv'
    BY <1>1, <2>1, <2>2, <2>4 DEF BothInv, ControllerInv
  <2>6. EndInv'
    BY <2>1 DEF BothInv, EndInv, EndsLater
  <2> QED
    BY <2>5, <2>6 DEF BothInv
<1> QED
  BY <1>2, <1>3

\* Stop forgets the runtime only when nothing of it runs.
LEMMA StopInv ==
    ASSUME BothInv, NEW x \in Stopper, Stop(x)
    PROVE  BothInv'
<1>1. /\ stop' \in [Stopper -> {"idle", "called", "wait", "wait_expired"}]
      /\ reply' \in [Stopper -> {"none", "error", "closed", "expired", "not_found"}]
  BY DEF Stop, BothInv, ControllerInv
<1>2. \A c \in Conn : Live(c)' <=> Live(c)
  BY DEF Stop, Live
<1>3. Quiet'
  BY <1>2 DEF Stop, Quiet, waitForConnections, BothInv, ControllerInv
<1>4. agent # "new"
  BY DEF Stop, Waiting, BothInv, ControllerInv
<1>5. ControllerInv'
  BY <1>1, <1>2, <1>3, <1>4 DEF Stop, BothInv, ControllerInv, Quiet
<1>6. EndInv'
  BY DEF Stop, BothInv, EndInv, EndsLater
<1> QED
  BY <1>5, <1>6 DEF BothInv

\* The end of the process ends every goroutine with it.
LEMMA ShutdownInv ==
    ASSUME BothInv, Shutdown
    PROVE  BothInv'
<1>1. /\ worker' \in [Conn -> WorkerState] /\ slot' = {} /\ ~ listening' /\ serve' = "done"
      /\ \A c \in Conn : worker'[c] = IF Live(c) THEN "killed" ELSE worker[c]
      /\ UNCHANGED <<registered, trail, auditFailed, reply>>
      /\ agent' = "exited"
  BY DEF Shutdown, BothInv, ControllerInv, WorkerState
<1>2. stop' \in [Stopper -> {"idle", "called", "wait", "wait_expired"}]
  BY DEF Shutdown
<1>3. \A c \in Conn : ~ Live(c)'
  BY <1>1 DEF Live
<1>4. Quiet'
  BY <1>1, <1>3 DEF Quiet, waitForConnections
<1>5. ControllerInv'
  BY <1>1, <1>2, <1>4 DEF BothInv, ControllerInv
<1>6. EndInv'
  BY <1>1 DEF BothInv, EndInv, EndsLater, Live
<1> QED
  BY <1>5, <1>6 DEF BothInv

LEMMA ControllerInvNext == BothInv /\ ControllerNext => BothInv'
<1> SUFFICES ASSUME BothInv, ControllerNext PROVE BothInv'
  OBVIOUS
<1> USE DEF processVars, stopVars, runtimeVars
<1>1. stop \in [Stopper -> {"idle", "called", "wait", "wait_expired"}]
  BY DEF BothInv, ControllerInv
<1>2. CASE Restore
  BY <1>1, <1>2, ControlStep DEF Restore
<1>3. CASE expire
  BY <1>1, <1>3, ControlStep DEF expire, CloseAll
<1>4. CASE removeExposure
  BY <1>1, <1>4, ControlStep DEF removeExposure
<1>5. CASE serveReturns
  BY <1>1, <1>5, ControlStep DEF serveReturns
<1>6. CASE requestStop
  BY <1>1, <1>6, ControlStep DEF requestStop
<1>7. CASE closeAgent
  <2>1. stop' \in [Stopper -> {"idle", "called", "wait", "wait_expired"}]
    BY <1>1, <1>7, Zenon DEF closeAgent
  <2> QED
    BY <1>7, <2>1, ControlStep DEF closeAgent
<1>8. CASE RunSessionAgent
  BY <1>1, <1>8, ControlStep DEF RunSessionAgent, CloseAll
<1>9. ASSUME NEW x \in Stopper, stopTimesOut(x)
      PROVE  BothInv'
  <2>1. /\ stop' \in [Stopper -> {"idle", "called", "wait", "wait_expired"}]
        /\ reply' \in [Stopper -> {"none", "error", "closed", "expired", "not_found"}]
        /\ \A y \in Stopper : reply'[y] \in {reply[y], "error"}
        /\ agent # "new"
    BY <1>9 DEF stopTimesOut, Waiting, BothInv, ControllerInv
  <2>2. \A c \in Conn : Live(c)' <=> Live(c)
    BY <1>9 DEF stopTimesOut, Live
  <2>3. (Quiet => Quiet') /\ slot' \subseteq {c \in Conn : Live(c)'}
    BY <1>9, <2>2 DEF stopTimesOut, Quiet, waitForConnections, BothInv, ControllerInv
  <2>4. ControllerInv'
    BY <1>9, <2>1, <2>3 DEF stopTimesOut, BothInv, ControllerInv
  <2>5. EndInv'
    BY <1>9 DEF stopTimesOut, BothInv, EndInv, EndsLater
  <2> QED
    BY <2>4, <2>5 DEF BothInv
<1> QED
  BY <1>2, <1>3, <1>4, <1>5, <1>6, <1>7, <1>8, <1>9, NewConnectionInv, WorkerStepInv, StartInv,
     StopWaitsInv, StopInv, ShutdownInv DEF ControllerNext

LEMMA ControllerInvariance == Spec => []BothInv
<1>1. Init => BothInv
  BY ControllerInitInv DEF Init
<1>2. BothInv /\ [Next]_vars => BothInv'
  <2> SUFFICES ASSUME BothInv, [Next]_vars PROVE BothInv'
    OBVIOUS
  <2>1. CASE UNCHANGED controllerVars
    <3>1. stop \in [Stopper -> {"idle", "called", "wait", "wait_expired"}]
      BY DEF BothInv, ControllerInv
    <3> QED
      BY <2>1, <3>1, ControlStep DEF controllerVars
  <2>2. CASE ControllerNext
    BY <2>2, ControllerInvNext
  <2> QED
    BY <2>1, <2>2 DEF Next, Rest, vars
<1> QED
  BY <1>1, <1>2, PTL DEF Spec

\* A Stop that reported an end (direct_controller.go) leaves no goroutine, no
\* place of the semaphore and no listener behind, for every number of
\* connections and whatever they were doing.
THEOREM StopIsComplete == Spec => []StoppedIsQuiet
<1>1. BothInv => StoppedIsQuiet
  BY DEF BothInv, ControllerInv, StoppedIsQuiet, Quiet
<1> QED
  BY <1>1, ControllerInvariance, PTL

\* Every acknowledged backend_connected event is followed by the event of an end
\* before its goroutine returns, unless the audit failed.
THEOREM ConnectionsAreEnded == Spec => []ConnectedIsEnded
<1>1. BothInv => ConnectedIsEnded
  BY DEF BothInv, EndInv, EndsLater, ConnectedIsEnded
<1> QED
  BY <1>1, ControllerInvariance, PTL

-----------------------------------------------------------------------------
\* The proxies and the terminal, as parts of Connections.

ProxyInv ==
    /\ RecordsInv /\ BrowserInv
    /\ part = "mysql" => MySQLInv
    /\ part = "postgresql" => PgInv
    /\ part = "redis" => RedisInv
    /\ part = "mongodb" => MongoInv
    /\ part = "ssh" => SSHInv
    /\ part = "http" => HTTPInv

LEMMA ProxyInvInit ==
    ASSUME Init
    PROVE  ProxyInv
<1>1. RecordsInv
  <2>1. journal = <<>> /\ effects = <<>>
    BY DEF Init
  <2>2. DOMAIN effects = {} /\ DOMAIN journal = {} /\ Len(journal) = 0
    BY <2>1
  <2> QED
    BY <2>2 DEF RecordsInv, RecordedBeforeExecuted
<1>2. BrowserInv
  <2>1. /\ page = [relay |-> "idle", browser |-> "none", done |-> FALSE, copies |-> {}, ticket |-> TRUE]
        /\ shell = [pc |-> "idle", process |-> "none", children |-> FALSE, cause |-> "none",
                    swept |-> FALSE, input |-> "none", output |-> "none", bridges |-> 0]
        /\ output = [frame |-> "none", recorded |-> 0, shown |-> 0, record |-> "none", told |-> "none"]
    BY DEF Init, TerminalInit
  <2> QED
    BY <2>1 DEF BrowserInv
<1>3. ASSUME part \in Proxies PROVE protocol = part /\ Serve
  BY <1>3 DEF Init
<1>4. ASSUME part = "mysql" PROVE MySQLInv
  <2>1. mysqlInit
    BY <1>3, <1>4 DEF Proxies, Serve
  <2> QED
    BY <2>1 DEF mysqlInit, MySQLInv
<1>5. ASSUME part = "postgresql" PROVE PgInv
  <2>1. pgInit
    BY <1>3, <1>5 DEF Proxies, Serve
  <2> QED
    BY <2>1 DEF pgInit, PgInv
<1>6. ASSUME part = "redis" PROVE RedisInv
  <2>1. redisInit
    BY <1>3, <1>6 DEF Proxies, Serve
  <2>2. /\ DOMAIN proxy = {"stage", "account", "candidate", "cmd", "inTransaction", "queued"}
        /\ proxy.stage = "command" /\ proxy.account = "unauthenticated"
        /\ DOMAIN target = {"as", "multi", "dirty", "queue"}
    BY <2>1 DEF redisInit
  <2>3. proxy.inTransaction = FALSE /\ target.multi = FALSE
    BY <2>1 DEF redisInit
  <2> QED
    BY <2>2, <2>3, Zenon DEF RedisInv, Account
<1>7. ASSUME part = "mongodb" PROVE MongoInv
  <2>1. mongoInit
    BY <1>3, <1>7 DEF Proxies, Serve
  <2> QED
    BY <2>1 DEF mongoInit, MongoInv, Account
<1>8. ASSUME part = "ssh" PROVE SSHInv
  <2>1. sshInit
    BY <1>3, <1>8 DEF Proxies, Serve
  <2> QED
    BY <2>1 DEF sshInit, SSHInv
<1>9. ASSUME part = "http" PROVE HTTPInv
  <2>1. httpInit
    BY <1>3, <1>9 DEF Proxies, Serve
  <2> QED
    BY <2>1 DEF httpInit, HTTPInv
<1> QED
  BY <1>1, <1>2, <1>4, <1>5, <1>6, <1>7, <1>8, <1>9 DEF ProxyInv

\* A step of another part leaves the proxy where it is.
LEMMA ProxyIdle ==
    ASSUME ProxyInv, UNCHANGED part, UNCHANGED recorderVars
    PROVE  /\ RecordsInv'
           /\ (part = "mysql" => MySQLInv)' /\ (part = "postgresql" => PgInv)'
           /\ (part = "redis" => RedisInv)' /\ (part = "mongodb" => MongoInv)'
           /\ (part = "ssh" => SSHInv)' /\ (part = "http" => HTTPInv)'
<1>1. UNCHANGED <<proxy, target, journal, effects>>
  BY DEF recorderVars
<1>2. RecordsInv'
  BY <1>1, QuietNext DEF ProxyInv
<1>3. (part = "mysql" => MySQLInv)' /\ (part = "postgresql" => PgInv)'
  BY <1>1 DEF ProxyInv, MySQLInv, PgInv
<1>4. (part = "redis" => RedisInv)' /\ (part = "mongodb" => MongoInv)'
  BY <1>1 DEF ProxyInv, RedisInv, MongoInv
<1>5. (part = "ssh" => SSHInv)' /\ (part = "http" => HTTPInv)'
  BY <1>1 DEF ProxyInv, SSHInv, HTTPInv
<1> QED
  BY <1>2, <1>3, <1>4, <1>5

LEMMA ProxyInvStep ==
    ASSUME ProxyInv, [Next]_vars
    PROVE  ProxyInv'
<1>1. CASE UNCHANGED terminalVars
  <2>1. BrowserInv'
    BY <1>1 DEF terminalVars, BrowserInv, ProxyInv
  <2>2. CASE UNCHANGED <<part, recorderVars>>
    BY <2>1, <2>2, ProxyIdle DEF ProxyInv
  <2>3. CASE Only("mysql") /\ mysqlNext
    BY <2>1, <2>3, MySQLNext DEF Only, ProxyInv
  <2>4. CASE Only("postgresql") /\ pgNext
    BY <2>1, <2>4, PgNext DEF Only, ProxyInv
  <2>5. CASE Only("redis") /\ redisNext
    BY <2>1, <2>5, RedisNext DEF Only, ProxyInv
  <2>6. CASE Only("mongodb") /\ mongoNext
    BY <2>1, <2>6, MongoNext DEF Only, ProxyInv
  <2>7. CASE Only("ssh") /\ sshNext
    BY <2>1, <2>7, SSHNext DEF Only, ProxyInv
  <2>8. CASE Only("http") /\ httpNext
    BY <2>1, <2>8, HTTPNext DEF Only, ProxyInv
  <2>9. CASE Only("terminal") /\ UNCHANGED recorderVars
    BY <2>1, <2>9, ProxyIdle DEF Only, ProxyInv
  <2> QED
    BY <2>2, <2>3, <2>4, <2>5, <2>6, <2>7, <2>8, <2>9 DEF Next, vars, Only
<1>2. CASE Only("terminal") /\ TerminalNext /\ UNCHANGED recorderVars
  <2>1. BrowserInv'
    BY <1>2, TerminalStep DEF ProxyInv
  <2> QED
    BY <1>2, <2>1, ProxyIdle DEF Only, ProxyInv
<1> QED
  BY <1>1, <1>2 DEF Next, vars, Rest

\* Nothing happens unrecorded (recorder.go begin; mysql.go, postgres.go,
\* postgres_cancel.go, redis.go, mongodb.go, ssh.go, sftp.go, http.go; and both
\* terminals): for any number of operations, frames and connections, an operation
\* is in the journal under the account it runs as before its target executes it,
\* and what a terminal shows has been recorded.
THEOREM OperationsAreRecordedFirst == Spec => []RecordedFirst
<1>1. Init => ProxyInv
  BY ProxyInvInit
<1>2. ProxyInv /\ [Next]_vars => ProxyInv'
  BY ProxyInvStep
<1>3. ProxyInv => RecordedFirst
  <2> SUFFICES ASSUME ProxyInv
               PROVE  RecordedFirst
    OBVIOUS
  <2>1. RecordedBeforeExecuted
    BY DEF ProxyInv, RecordsInv
  <2>2. BrowserSeesRecorded
    BY DEF ProxyInv, BrowserInv, BrowserSeesRecorded
  <2>3. part = "ssh" => proxy.delivered <= proxy.recorded
    BY DEF ProxyInv, SSHInv
  <2> QED
    BY <2>1, <2>2, <2>3 DEF RecordedFirst
<1> QED
  BY <1>1, <1>2, <1>3, PTL DEF Spec
=============================================================================
