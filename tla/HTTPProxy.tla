------------------------------ MODULE HTTPProxy ------------------------------
(***************************************************************************)
(* http.go: concurrent requests of an HTTP/2 client share one connection   *)
(* to the target, which is never dialled again.                            *)
(***************************************************************************)
EXTENDS Recorder

HTTPStream == 1..2

httpInit ==
    /\ proxy = [stage |-> "serving", at |-> [s \in HTTPStream |-> "idle"],
                op |-> [s \in HTTPStream |-> 0], used |-> FALSE, busy |-> 0,
                answer |-> [s \in HTTPStream |-> "none"]]
    /\ target = [as |-> "anyone", open |-> TRUE, dials |-> 0]

\* CONNECT and Upgrade are answered 501 and forwarded nowhere; a request is
\* recorded under the account "unverified".
httpRequest(s) ==
    /\ Speaks("http") /\ proxy.at[s] = "idle"
    /\ CanBegin
    /\ \/ Fails
       \/ /\ begin("unverified")
          /\ proxy' = [proxy EXCEPT !.at[s] = "begun", !.op[s] = Op + 1]
          /\ UNCHANGED <<protocol, target, effects, wire>>

\* RoundTrip: the first use takes the connection the agent dialled, the next ones
\* the idle one; a lost connection cannot be replaced.
roundTrip(s) ==
    /\ Speaks("http") /\ proxy.at[s] = "begun" /\ proxy.busy = 0
    /\ IF ~ target.open THEN Fails
       ELSE /\ proxy' = [proxy EXCEPT !.at[s] = "sent", !.used = TRUE, !.busy = s]
            /\ target' = [target EXCEPT !.dials = IF proxy.used THEN @ ELSE @ + 1]
            /\ Executes(proxy.op[s], target.as, "running")
            /\ UNCHANGED <<protocol, journal, wire>>

\* The target (external) answers the request it holds, or closes.
httpTarget ==
    /\ Speaks("http") /\ target.open
    /\ \/ /\ proxy.busy # 0 /\ proxy.at[proxy.busy] = "sent"
          /\ proxy.answer[proxy.busy] = "none"
          /\ \E answer \in {"http_ok", "http_error", "upgrade"} :
               /\ Outcome(proxy.op[proxy.busy], answer)
               /\ proxy' = [proxy EXCEPT !.answer[proxy.busy] = answer]
          /\ UNCHANGED target
       \/ /\ target' = [target EXCEPT !.open = FALSE]
          /\ UNCHANGED <<proxy, effects>>
    /\ UNCHANGED <<protocol, journal, wire>>

\* The response is streamed, then the record completed; a broken body or a failed
\* record closes everything.  101 is recorded and refused: the Transport hands the
\* connection over with that response, and closing its body closes it.
serveHTTP(s) ==
    /\ Speaks("http") /\ proxy.at[s] = "sent"
    /\ \/ ~ target.open /\ Fails
       \/ /\ proxy.answer[s] # "none"
          /\ \/ Fails
             \/ /\ end(proxy.op[s], IF proxy.answer[s] = "upgrade" THEN "rejected" ELSE proxy.answer[s])
                /\ proxy' = [proxy EXCEPT !.at[s] = "idle", !.busy = 0, !.answer[s] = "none"]
                /\ target' = [target EXCEPT !.open = @ /\ proxy.answer[s] # "upgrade"]
                /\ UNCHANGED <<protocol, effects, wire>>

httpNext ==
    \/ \E s \in HTTPStream : httpRequest(s)
    \/ \E s \in HTTPStream : roundTrip(s)
    \/ httpTarget
    \/ \E s \in HTTPStream : serveHTTP(s)
=============================================================================
