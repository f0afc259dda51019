------------------------------ MODULE SSHProxy ------------------------------
(***************************************************************************)
(* ssh.go, ssh_terminal.go and sftp.go: one SSH connection whose session   *)
(* channel runs a command, a shell or SFTP.  Shell output is recorded      *)
(* frame by frame before the client sees it.  SFTP requests are answered   *)
(* in any order and matched by their id.                                   *)
(***************************************************************************)
EXTENDS Recorder

Stream == {"stdout", "stderr"}
RequestId == 1..2

sshInit ==
    /\ proxy = [stage |-> "auth", pty |-> FALSE, interactive |-> FALSE, frame |-> "none",
                outputs |-> Stream, result |-> "unknown", recorded |-> 0, delivered |-> 0,
                pending |-> [id \in RequestId |-> 0], out |-> <<>>]
    /\ target = [as |-> "none", exited |-> FALSE, queue |-> {}]

\* The password is tried upstream as the bound account on a pinned host; a key of
\* the grant is checked here and the target's own key used upstream.
serveSSH ==
    /\ Speaks("ssh") /\ proxy.stage = "auth"
    /\ \E user \in Anyone, credential, hostKey, upstream \in BOOLEAN :
        IF ~ (user = Account /\ credential /\ hostKey /\ upstream) THEN Fails
        ELSE /\ proxy' = [proxy EXCEPT !.stage = "channel"]
             /\ target' = [target EXCEPT !.as = user]
             /\ UNCHANGED <<protocol, journal, effects, wire>>

\* Only session channels; forwarding is rejected and the connection goes on.  Of
\* the eight channels a connection may have open at a time the model follows one:
\* they share nothing but the recorder and the failure that closes them all.
sshOpenChannel ==
    /\ Speaks("ssh") /\ proxy.stage = "channel"
    /\ proxy' = [proxy EXCEPT !.stage = "requests", !.pty = FALSE, !.interactive = FALSE,
                              !.outputs = Stream, !.result = "unknown"]
    /\ target' = [target EXCEPT !.exited = FALSE]
    /\ UNCHANGED <<protocol, journal, effects, wire>>

\* One PTY per channel, when the target allocates it.
sshPty ==
    /\ Speaks("ssh") /\ proxy.stage = "requests"
    /\ ~ proxy.pty
    /\ proxy' = [proxy EXCEPT !.pty = TRUE]
    /\ UNCHANGED <<protocol, target, journal, effects, wire>>

\* exec and shell are recorded before the target hears of them; it may accept,
\* reject, or the request is lost.
sshChannel(kind) ==
    /\ Speaks("ssh") /\ proxy.stage = "requests"
    /\ CanBegin
    /\ \/ Fails
       \/ /\ begin(Account)
          /\ Executes(Op + 1, target.as, "running")
          /\ proxy' = [proxy EXCEPT !.stage = "relay", !.interactive = kind = "shell" \/ proxy.pty]
          /\ UNCHANGED <<protocol, target, wire>>
       \/ /\ journal' = Append(journal, [account |-> Account, result |-> "rejected"])
          /\ proxy' = [proxy EXCEPT !.stage = "channel"]
          /\ UNCHANGED <<protocol, target, effects, wire>>
       \/ /\ journal' = Append(journal, [account |-> Account, result |-> "unknown"])
          /\ Executes(Op + 1, target.as, "running")
          /\ proxy' = [proxy EXCEPT !.stage = "closed"]
          /\ UNCHANGED <<protocol, target, wire>>

\* Several copies of the relay run at once: the server's exit status, its output
\* and the end of each stream.
relayExitStatus ==
    /\ Speaks("ssh") /\ proxy.stage = "relay" /\ ~ target.exited
    /\ \E result \in {"success", "failure"} :
        /\ proxy' = [proxy EXCEPT !.result = result]
        /\ Outcome(Op, result)
    /\ target' = [target EXCEPT !.exited = TRUE]
    /\ UNCHANGED <<protocol, journal, wire>>

\* Interactive output: the record of a frame, then the frame.
copySSHTerminal ==
    /\ Speaks("ssh") /\ proxy.stage = "relay" /\ proxy.interactive /\ proxy.outputs # {}
    /\ \/ /\ proxy.frame = "none" /\ proxy.recorded < MaxSteps
          /\ proxy' = [proxy EXCEPT !.frame = "recorded", !.recorded = @ + 1]
       \/ /\ proxy.frame = "recorded"
          /\ proxy' = [proxy EXCEPT !.frame = "none", !.delivered = @ + 1]
    /\ UNCHANGED <<protocol, target, journal, effects, wire>>

copyOutput(stream) ==
    /\ Speaks("ssh") /\ proxy.stage = "relay" /\ stream \in proxy.outputs
    /\ proxy.frame = "none"
    /\ proxy' = [proxy EXCEPT !.outputs = @ \ {stream}]
    /\ UNCHANGED <<protocol, target, journal, effects, wire>>

\* Both outputs and the target's requests ended: the operation ends.
relaySSHSession ==
    /\ Speaks("ssh") /\ proxy.stage = "relay" /\ proxy.outputs = {}
    /\ \/ Fails
       \/ /\ end(Op, proxy.result)
          /\ proxy' = [proxy EXCEPT !.stage = "channel"]
          /\ UNCHANGED <<protocol, target, effects, wire>>

-----------------------------------------------------------------------------
\* SFTP: version 3 without extensions.
sftpStart ==
    /\ Speaks("ssh") /\ proxy.stage = "requests"
    /\ \E clientVersion, serverVersion \in {2, 3} :
        IF clientVersion # 3 \/ serverVersion # 3 THEN Fails
        ELSE /\ proxy' = [proxy EXCEPT !.stage = "sftp"]
             /\ UNCHANGED <<protocol, target, journal, effects, wire>>

\* One goroutine records a request, enters it under its id and writes it.
sftpFront(id) ==
    /\ Speaks("ssh") /\ proxy.stage = "sftp" /\ proxy.out = <<>>
    /\ CanBegin
    /\ \/ Fails
       \/ /\ begin(Account)
          /\ proxy' = IF proxy.pending[id] # 0 THEN [proxy EXCEPT !.stage = "closed"]
                      ELSE [proxy EXCEPT !.pending[id] = Op + 1,
                                         !.out = <<[id |-> id, op |-> Op + 1]>>]
          /\ UNCHANGED <<protocol, target, effects, wire>>

sftpWrite ==
    /\ Speaks("ssh") /\ proxy.out # <<>>
    /\ Executes(Head(proxy.out).op, target.as, "running")
    /\ target' = [target EXCEPT !.queue = @ \cup {Head(proxy.out)}]
    /\ proxy' = [proxy EXCEPT !.out = <<>>]
    /\ UNCHANGED <<protocol, journal, wire>>

\* The server answers in any order (external).
sftpServer ==
    /\ protocol = "ssh"
    /\ \E request \in target.queue, status \in {"success", "eof", "failure"} :
        /\ target' = [target EXCEPT !.queue = @ \ {request}]
        /\ Outcome(request.op, status)
        /\ wire' = Append(wire, [id |-> request.id, status |-> status])
    /\ UNCHANGED <<protocol, proxy, journal>>

\* The other goroutine: the operation of the id, its result, then the client.
sftpBack ==
    /\ Speaks("ssh") /\ proxy.stage = "sftp" /\ wire # <<>>
    /\ LET reply == Head(wire)
           op == proxy.pending[reply.id] IN
       IF op = 0 THEN Fails
       ELSE \/ Fails
            \/ /\ end(op, reply.status)
               /\ proxy' = [proxy EXCEPT !.pending[reply.id] = 0]
               /\ wire' = Tail(wire)
               /\ UNCHANGED <<protocol, target, effects>>

sshNext ==
    \/ serveSSH
    \/ sshOpenChannel
    \/ sshPty
    \/ \E kind \in {"exec", "shell"} : sshChannel(kind)
    \/ relayExitStatus
    \/ copySSHTerminal
    \/ \E stream \in Stream : copyOutput(stream)
    \/ relaySSHSession
    \/ sftpStart
    \/ \E id \in RequestId : sftpFront(id)
    \/ sftpWrite
    \/ sftpServer
    \/ sftpBack
=============================================================================
