---------------------------- MODULE Connections ----------------------------
(***************************************************************************)
(* What carries a user's traffic, one part at a time: the agent's          *)
(* connection controller, the guard of a native connection, the audit      *)
(* proxy of a protocol and the terminal in the browser.  The parts meet in *)
(* one call each (the controller runs a guard, a proxy or a terminal until *)
(* it returns), so that a behaviour follows the part chosen at the start   *)
(* and the others stay where they are.                                     *)
(***************************************************************************)
EXTENDS NativeGuard, DirectController, MySQLProxy, PostgresProxy, RedisProxy, MongoProxy,
        SSHProxy, HTTPProxy, WebTerminal

CONSTANT Parts     \* the parts to follow

Proxies == {"mysql", "postgresql", "redis", "mongodb", "ssh", "http"}

ASSUME PartsAssumption == Parts \subseteq Proxies \cup {"guard", "controller", "terminal"}

VARIABLE part

vars == <<part, guardVars, controllerVars, recorderVars, terminalVars>>

\* Serve dispatches on the protocol of the grant's profile.
Serve ==
    CASE protocol = "mysql" -> mysqlInit
      [] protocol = "postgresql" -> pgInit
      [] protocol = "redis" -> redisInit
      [] protocol = "mongodb" -> mongoInit
      [] protocol = "ssh" -> sshInit
      [] protocol = "http" -> httpInit
      [] OTHER -> proxy = [stage |-> "closed"] /\ target = [as |-> "none"]

Init ==
    /\ part \in Parts
    /\ protocol = IF part \in Proxies THEN part ELSE "none"
    /\ Serve
    /\ journal = <<>> /\ effects = <<>> /\ wire = <<>>
    /\ GuardInit
    /\ ControllerInit
    /\ TerminalInit
    /\ part # "terminal" => kind = "ssh"
    /\ part # "controller" => ~ webOnly

Only(chosen) == part = chosen /\ UNCHANGED part

Rest == UNCHANGED <<guardVars, controllerVars, terminalVars>>

Next ==
    \/ Only("guard") /\ GuardNext /\ UNCHANGED <<controllerVars, recorderVars, terminalVars>>
    \/ Only("controller") /\ ControllerNext /\ UNCHANGED <<guardVars, recorderVars, terminalVars>>
    \/ Only("terminal") /\ TerminalNext /\ UNCHANGED <<guardVars, controllerVars, recorderVars>>
    \/ Only("mysql") /\ mysqlNext /\ Rest
    \/ Only("postgresql") /\ pgNext /\ Rest
    \/ Only("redis") /\ redisNext /\ Rest
    \/ Only("mongodb") /\ mongoNext /\ Rest
    \/ Only("ssh") /\ sshNext /\ Rest
    \/ Only("http") /\ httpNext /\ Rest

\* The goroutines run: a connection whose end was requested does end, a timer
\* fires, a woken goroutine continues.  Nothing is assumed of users or targets.
Progress ==
    \/ Only("controller") /\ ControllerProgress /\ UNCHANGED <<guardVars, recorderVars, terminalVars>>
    \/ Only("terminal") /\ TerminalProgress /\ UNCHANGED <<guardVars, controllerVars, recorderVars>>

Spec == Init /\ [][Next]_vars /\ WF_vars(Progress)

-----------------------------------------------------------------------------
\* Nothing happens unrecorded: an operation is in the journal, under the account
\* it runs as, before its target executes it, and output of a shell is recorded
\* before anyone sees it, through a native SSH connection (copySSHTerminal) as in
\* the browser.
RecordedFirst ==
    /\ RecordedBeforeExecuted
    /\ BrowserSeesRecorded
    /\ part = "ssh" => proxy.delivered <= proxy.recorded
=============================================================================
