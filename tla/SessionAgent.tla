---------------------------- MODULE SessionAgent ----------------------------
(***************************************************************************)
(* What a session runtime promises to the access service, whichever driver *)
(* runs the workloads (gateway.SessionResourceReconciler and the approved  *)
(* session calls of internal/gateway/session_runtime.go).  An approved     *)
(* grant starts at most one agent; only a shared gateway process opens its *)
(* listener again when it restarts.  A revoked grant is never granted      *)
(* again and, once its cleanup is settled, no agent of it runs or ever     *)
(* will.                                                                   *)
(***************************************************************************)
CONSTANTS Session,
          LateLaunch,  \* a launch in flight may still land after the revocation
          Shared       \* the agent is a listener of a process shared by sessions

VARIABLES phase,       \* phase[s]: the durable life of the grant
          agent        \* agent[s]: the workload of the grant

vars == <<phase, agent>>

Init ==
    /\ phase = [s \in Session |-> "new"]
    /\ agent = [s \in Session |-> "none"]

Advance(s, from, to) == phase[s] \in from /\ phase'[s] = to /\ agent'[s] = agent[s]

\* CreateApprovedSession makes the grant durable before anything is started.
Grant(s) == Advance(s, {"new"}, "granted")

Launch(s) ==
    /\ \/ phase[s] = "granted" /\ agent[s] = "none"
       \/ phase[s] = "granted" /\ agent[s] = "down" /\ Shared
       \/ phase[s] = "revoked" /\ agent[s] # "up" /\ LateLaunch
    /\ agent'[s] = "up" /\ phase'[s] = phase[s]

Exit(s) == agent[s] = "up" /\ agent'[s] = "down" /\ phase'[s] = phase[s]

\* CloseSession, for a grant or as a tombstone before one.
Revoke(s) == Advance(s, {"new", "granted"}, "revoked")

\* A shared process also settles a grant whose start failed or whose listener is
\* gone.
Settle(s) ==
    /\ agent[s] # "up"
    /\ Advance(s, IF Shared THEN {"granted", "revoked"} ELSE {"revoked"}, "settled")

\* A shared process may repeat the cleanup: one of two concurrent stops failed.
Repeat(s) == Shared /\ Advance(s, {"settled"}, "revoked")

Stays(s) == phase'[s] = phase[s] /\ agent'[s] = agent[s]

\* Sessions move on their own: one step may be a step of several, as when a shared
\* process ends and takes all its listeners along.
Next == \A s \in Session :
    Grant(s) \/ Launch(s) \/ Exit(s) \/ Revoke(s) \/ Settle(s) \/ Repeat(s) \/ Stays(s)

Spec == Init /\ [][Next]_vars
=============================================================================
