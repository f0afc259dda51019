----------------------------- MODULE WebTerminal -----------------------------
(***************************************************************************)
(* One terminal in the browser: the relay of the control plane             *)
(* (httpapi/web_terminal.go) between the browser's socket and the session  *)
(* worker's, and in the worker either an SSH shell on the target           *)
(* (sessionproxy/web_terminal.go) or a native client in a process group of *)
(* its own behind a PTY (client_terminal.go, terminalclient).              *)
(***************************************************************************)
EXTENDS Naturals

CONSTANTS
    MaxFrames,     \* bound on the output of the terminal
    MaxBridges     \* bound on the client's concurrent connections (5 in the code)

VARIABLES
    kind,          \* "ssh" or "client"
    authorized,    \* AuthorizeTerminal and terminalIdentityValid hold
    stopped,       \* the worker's own context is cancelled: expiry, stop, shutdown
    page,          \* the relay: pc, browser socket, context, copy goroutines, ticket
    upstream,      \* the socket between the relay and the worker
    shell,         \* the worker: pc, process, PTY, goroutines and their cause
    output         \* frames recorded and shown, the record, what the browser was told

terminalVars == <<kind, authorized, stopped, page, upstream, shell, output>>

Both == {"up", "down"}

\* A close frame sent earlier still reaches the worker first.
CloseUpstream == upstream' = IF upstream = "closing" THEN "closing" ELSE "closed"

-----------------------------------------------------------------------------
\* authorizeWebTerminal, and the upgrade of the request.
authorizeWebTerminal ==
    /\ page.relay = "idle" /\ authorized
    /\ page' = [page EXCEPT !.relay = "upgraded", !.browser = "open"]
    /\ UNCHANGED <<kind, authorized, stopped, upstream, shell, output>>

relayReturns ==
    /\ page' = [page EXCEPT !.relay = "returned", !.browser = "closed", !.done = TRUE]
    /\ UNCHANGED <<kind, authorized, stopped, upstream, shell, output>>

\* The encrypted start is read within 15 seconds and consumes its challenge.
openTerminalStart ==
    /\ page.relay = "upgraded"
    /\ \/ relayReturns
       \/ /\ page.browser = "open" /\ page.ticket
          /\ page' = [page EXCEPT !.relay = "started", !.ticket = FALSE]
          /\ UNCHANGED <<kind, authorized, stopped, upstream, shell, output>>

\* OpenTerminal authorizes again, then dials the worker; the start is forwarded.
OpenTerminal ==
    /\ page.relay = "started"
    /\ \/ relayReturns
       \/ /\ authorized
          /\ upstream' = "open"
          /\ page' = [page EXCEPT !.relay = "serving", !.copies = Both]
          /\ shell' = [shell EXCEPT !.pc = "starting"]
          /\ UNCHANGED <<kind, authorized, stopped, output>>

\* The ticker cancels the relay when the identity or the session is not valid.
terminalRecheck ==
    /\ page.relay = "serving" /\ ~ authorized /\ ~ page.done
    /\ page' = [page EXCEPT !.done = TRUE]
    /\ UNCHANGED <<kind, authorized, stopped, upstream, shell, output>>

\* The two AfterFuncs of the relay's context.
relayCloses ==
    /\ page.relay = "serving" /\ page.done
    /\ page.browser # "closed" \/ upstream = "open"
    /\ page' = [page EXCEPT !.browser = "closed"]
    /\ CloseUpstream
    /\ UNCHANGED <<kind, authorized, stopped, shell, output>>

\* copyMessages(upstream, browser): a deliberate close is passed on as one; a lost
\* browser misses its pongs and the read deadline ends the copy.
copyFromBrowser ==
    /\ "up" \in page.copies
    /\ page.browser # "open"
    /\ upstream' = IF page.browser = "leaving" /\ upstream = "open" THEN "closing" ELSE upstream
    /\ page' = [page EXCEPT !.copies = @ \ {"up"}]
    /\ UNCHANGED <<kind, authorized, stopped, shell, output>>

copyFromWorker ==
    /\ "down" \in page.copies
    /\ upstream = "closed" \/ page.relay = "draining"
    /\ page' = [page EXCEPT !.copies = @ \ {"down"}]
    /\ UNCHANGED <<kind, authorized, stopped, upstream, shell, output>>

\* The first copy to end cancels, closes both sockets and waits for the other.
webTerminal ==
    \/ /\ page.relay = "serving" /\ page.copies # Both
       /\ page' = [page EXCEPT !.relay = "draining", !.done = TRUE, !.browser = "closed"]
       /\ CloseUpstream
       /\ UNCHANGED <<kind, authorized, stopped, shell, output>>
    \/ /\ page.relay = "draining" /\ page.copies = {}
       /\ page' = [page EXCEPT !.relay = "returned"]
       /\ UNCHANGED <<kind, authorized, stopped, upstream, shell, output>>

-----------------------------------------------------------------------------
\* The worker.  context.WithCancelCause keeps the first cause.
Cause(reason) == IF shell.cause = "none" THEN reason ELSE shell.cause

Deliberate == {"closed", "stopped"}

\* killGroup: the client and the children of its shell escapes.  For SSH the
\* connection to the target closes.
Killed(s) == [s EXCEPT !.process = IF @ = "running" THEN "killed" ELSE @, !.children = FALSE]

Ends(result) == [output EXCEPT !.record = IF @ = "started" THEN result ELSE @]

\* The operation is recorded before the shell or the client starts.
Begins ==
    /\ shell.pc = "starting"
    /\ \/ /\ shell' = [shell EXCEPT !.pc = "returned"]
          /\ upstream' = "closed"
          /\ UNCHANGED output
       \/ /\ shell' = [shell EXCEPT !.pc = "prepared"]
          /\ output' = [output EXCEPT !.record = "started"]
          /\ UNCHANGED upstream
    /\ UNCHANGED <<kind, authorized, stopped, page>>

\* The connection to the target, its account and host key; a session and its PTY.
ServeSSHTerminal == kind = "ssh" /\ Begins

\* The identity and the certificates of the client's own connections.
serveClientTerminal == kind = "client" /\ Begins

\* Directory, files, pipes, PTY, sandbox and Start, or shell.Shell: any failure
\* ends the operation and returns.
launch ==
    /\ shell.pc = "prepared"
    /\ \/ /\ shell' = [shell EXCEPT !.pc = "returned"]
          /\ upstream' = "closed"
          /\ output' = Ends("failure")
       \/ /\ ~ stopped
          /\ shell' = [shell EXCEPT !.pc = "ready", !.process = "running"]
          /\ UNCHANGED <<upstream, output>>
    /\ UNCHANGED <<kind, authorized, stopped, page>>

\* A browser that cannot be told "ready" cancels; Wait then relies on the kill.
sendReady ==
    /\ shell.pc = "ready"
    /\ IF upstream = "open"
       THEN shell' = [shell EXCEPT !.pc = "running", !.input = "copying", !.output = "copying"]
       ELSE shell' = [shell EXCEPT !.pc = "aborting", !.cause = Cause("error")]
    /\ UNCHANGED <<kind, authorized, stopped, page, upstream, output>>

\* context.AfterFunc(ctx): the process group, the PTY and the stream.
afterCancel ==
    /\ shell.pc \in {"ready", "running", "aborting", "waited"}
    /\ stopped \/ (shell.cause # "none" /\ (kind = "client" \/ shell.pc = "aborting"))
    /\ ~ shell.swept
    /\ shell' = [Killed(shell) EXCEPT !.swept = TRUE, !.cause = Cause("stopped")]
    /\ upstream' = "closed"
    /\ UNCHANGED <<kind, authorized, stopped, page, output>>

\* A program that no longer reads blocks the write of what was typed, and the copy
\* does not notice the end of the stream.
inputBlocks ==
    /\ shell.input = "copying" /\ shell.process = "running"
    /\ shell' = [shell EXCEPT !.input = "blocked"]
    /\ UNCHANGED <<kind, authorized, stopped, page, upstream, output>>

\* No process holds the terminal, or it is closed.
TerminalHungUp == shell.swept \/ (shell.process # "running" /\ ~ shell.children)

\* A mutant of terminalInput: the end of the input ends nothing else.
DetachedInput ==
    /\ \/ shell.input = "copying" /\ upstream # "open"
       \/ shell.input = "blocked" /\ TerminalHungUp
    /\ shell' = [shell EXCEPT !.input = "done"]
    /\ UNCHANGED <<kind, authorized, stopped, page, upstream, output>>

\* The copy of the input ends with the stream, or with what a blocked write was
\* for: for a client it cancels, for SSH it closes the connection.
terminalInput ==
    /\ \/ shell.input = "copying" /\ upstream # "open"
       \/ shell.input = "blocked" /\ TerminalHungUp
    /\ LET reason == IF shell.input = "copying" /\ upstream = "closing" THEN "closed" ELSE "error"
           done == [shell EXCEPT !.input = "done", !.cause = Cause(reason)] IN
       shell' = IF kind = "ssh" THEN Killed(done) ELSE done
    /\ UNCHANGED <<kind, authorized, stopped, page, upstream, output>>

OutputFails ==
    LET failed == [shell EXCEPT !.output = "failed", !.cause = Cause("error")] IN
    shell' = IF kind = "ssh" THEN Killed(failed) ELSE failed

\* A mutant of auditedWrite: the browser sees a frame before it is recorded.
ShownFirst ==
    /\ shell.output = "copying" /\ ~ shell.swept
    /\ output.frame = "none" /\ output.recorded < MaxFrames /\ upstream = "open"
    /\ output' = [output EXCEPT !.frame = "recorded", !.shown = @ + 1]
    /\ UNCHANGED <<kind, authorized, stopped, page, upstream, shell>>

\* copySSHTerminal and auditedClientStream.Write: the record of a frame first.
auditedWrite ==
    /\ shell.output = "copying" /\ ~ shell.swept
    /\ output.frame = "none" /\ output.recorded < MaxFrames
    /\ \/ /\ output' = [output EXCEPT !.frame = "recorded", !.recorded = @ + 1]
          /\ UNCHANGED shell
       \/ OutputFails /\ UNCHANGED output
    /\ UNCHANGED <<kind, authorized, stopped, page, upstream>>

\* Then the browser.  After a close frame the write fails without cancelling, so
\* that the reader classifies the close.
deliverFrame ==
    /\ shell.output = "copying" /\ output.frame = "recorded"
    /\ output' = [output EXCEPT !.frame = "none", !.shown = IF upstream = "open" THEN @ + 1 ELSE @]
    /\ CASE upstream = "open" -> UNCHANGED shell
         [] upstream = "closing" -> shell' = [shell EXCEPT !.output = "done"]
         [] OTHER -> OutputFails
    /\ UNCHANGED <<kind, authorized, stopped, page, upstream>>

\* The output of the PTY, or of the SSH channel, ends.
outputEnds ==
    /\ shell.output = "copying" /\ output.frame = "none"
    /\ TerminalHungUp
    /\ shell' = [shell EXCEPT !.output = "done"]
    /\ UNCHANGED <<kind, authorized, stopped, page, upstream, output>>

\* broker and bridge: connections of the client, each an audited proxy.
broker ==
    /\ kind = "client" /\ shell.pc \in {"ready", "running"} /\ shell.process = "running"
    /\ shell.cause = "none" /\ shell.bridges < MaxBridges
    /\ shell' = [shell EXCEPT !.bridges = @ + 1]
    /\ UNCHANGED <<kind, authorized, stopped, page, upstream, output>>

bridge ==
    /\ shell.bridges > 0
    /\ \/ shell' = [shell EXCEPT !.bridges = @ - 1]
       \/ /\ shell.cause = "none"
          /\ shell' = [shell EXCEPT !.bridges = @ - 1, !.cause = "error"]
    /\ UNCHANGED <<kind, authorized, stopped, page, upstream, output>>

\* The client or the shell exits on its own; children of a client may stay.
processExits ==
    /\ shell.process = "running" /\ shell.pc \in {"ready", "running"}
    /\ \E status \in {"exited", "crashed"}, left \in BOOLEAN :
        /\ left => kind = "client"
        /\ shell' = [shell EXCEPT !.process = status, !.children = left]
    /\ UNCHANGED <<kind, authorized, stopped, page, upstream, output>>

waitProcess ==
    /\ shell.pc = "running" /\ shell.process # "running"
    /\ shell' = [Killed(shell) EXCEPT !.pc = "waited"]
    /\ UNCHANGED <<kind, authorized, stopped, page, upstream, output>>

\* clientExitError and sshTerminalResult: a deliberate close explains a kill, but
\* neither a crash nor a failed output.
terminalResult ==
    IF shell.output = "failed" \/ shell.process = "crashed" THEN "error"
    ELSE IF shell.cause \in Deliberate THEN shell.cause
    ELSE IF shell.cause = "none" /\ shell.process = "exited" THEN "none" ELSE "error"

Result == IF terminalResult = "error" THEN "failure" ELSE "success"

\* "Record the completion before reporting the result to the browser": the record,
\* then exit or the error, then the stream is closed and the context cancelled.
report ==
    /\ shell.pc = "waited" /\ shell.output \in {"done", "failed"}
    /\ output' = [output EXCEPT
          !.record = IF kind = "ssh" \/ terminalResult = "none" THEN Result ELSE @,
          !.told = IF upstream # "open" THEN @
                   ELSE IF terminalResult = "none" THEN "exit"
                   ELSE IF terminalResult = "error" /\ ~ stopped THEN "error" ELSE @]
    /\ upstream' = "closed"
    /\ shell' = [shell EXCEPT !.pc = "reported", !.cause = Cause("closed")]
    /\ UNCHANGED <<kind, authorized, stopped, page>>

\* finishNetwork waits for the bridges; serveClientTerminal ends the operation.
terminalReturns ==
    /\ \/ shell.pc = "reported" /\ shell.input = "done"
       \/ shell.pc = "aborting" /\ shell.process # "running"
    /\ shell.bridges = 0
    /\ shell' = [Killed(shell) EXCEPT !.pc = "returned"]
    /\ output' = Ends(IF shell.pc = "aborting" THEN "failure" ELSE Result)
    /\ upstream' = "closed"
    /\ UNCHANGED <<kind, authorized, stopped, page>>

-----------------------------------------------------------------------------
\* The world: the user closes the page or vanishes, access is revoked, the agent
\* expires or is stopped.
browserLeaves ==
    /\ page.browser = "open"
    /\ \E how \in {"leaving", "lost"} : page' = [page EXCEPT !.browser = how]
    /\ UNCHANGED <<kind, authorized, stopped, upstream, shell, output>>

accessRevoked ==
    /\ authorized
    /\ authorized' = FALSE
    /\ UNCHANGED <<kind, stopped, page, upstream, shell, output>>

workerStops ==
    /\ ~ stopped /\ shell.pc # "idle"
    /\ stopped' = TRUE
    /\ UNCHANGED <<kind, authorized, page, upstream, shell, output>>

TerminalInit ==
    /\ kind \in {"ssh", "client"}
    /\ authorized = TRUE /\ stopped = FALSE
    /\ page = [relay |-> "idle", browser |-> "none", done |-> FALSE, copies |-> {}, ticket |-> TRUE]
    /\ upstream = "none"
    /\ shell = [pc |-> "idle", process |-> "none", children |-> FALSE, cause |-> "none",
                swept |-> FALSE, input |-> "none", output |-> "none", bridges |-> 0]
    /\ output = [frame |-> "none", recorded |-> 0, shown |-> 0, record |-> "none", told |-> "none"]

TerminalProgress ==
    \/ openTerminalStart \/ OpenTerminal \/ terminalRecheck \/ relayCloses
    \/ copyFromBrowser \/ copyFromWorker \/ webTerminal
    \/ ServeSSHTerminal \/ serveClientTerminal \/ launch \/ sendReady \/ afterCancel \/ terminalInput
    \/ deliverFrame \/ outputEnds \/ (bridge /\ shell.process # "running")
    \/ waitProcess \/ report \/ terminalReturns

TerminalNext ==
    \/ authorizeWebTerminal
    \/ openTerminalStart
    \/ OpenTerminal
    \/ terminalRecheck
    \/ relayCloses
    \/ copyFromBrowser
    \/ copyFromWorker
    \/ webTerminal
    \/ ServeSSHTerminal
    \/ serveClientTerminal
    \/ launch
    \/ sendReady
    \/ afterCancel
    \/ inputBlocks
    \/ terminalInput
    \/ auditedWrite
    \/ deliverFrame
    \/ outputEnds
    \/ broker
    \/ bridge
    \/ processExits
    \/ waitProcess
    \/ report
    \/ terminalReturns
    \/ browserLeaves
    \/ accessRevoked
    \/ workerStops

-----------------------------------------------------------------------------
\* copySSHTerminal: "The durable acknowledgement precedes delivery to the
\* terminal"; ServeSSHTerminal: "Record the completion before reporting the result
\* to the browser".  What the browser has seen, its exit included, is on record.
BrowserSeesRecorded ==
    /\ output.shown <= output.recorded
    /\ output.told = "exit" => output.record = "success"

TerminalEnding ==
    \/ page.browser \in {"leaving", "lost"}
    \/ ~ authorized /\ page.relay # "idle"
    \/ stopped

TerminalGone ==
    /\ shell.pc \in {"idle", "returned"}
    /\ shell.process # "running" /\ ~ shell.children /\ shell.bridges = 0
    /\ page.relay = "returned" /\ page.copies = {}

\* terminalclient.Run: "No subprocess survives the browser connection".  Once the
\* user leaves or the access is revoked, the client, the children it left behind and
\* every goroutine of the relay and of the worker end; a program that does not read
\* what was typed may keep its terminal until it does, or until the agent stops,
\* which ends all of them in any case.
TerminalEnds ==
    /\ TerminalEnding ~> (TerminalGone \/ shell.input = "blocked")
    /\ stopped ~> TerminalGone
=============================================================================
