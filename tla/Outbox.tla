------------------------------- MODULE Outbox -------------------------------
(***************************************************************************)
(* The transactional outbox of internal/repository/events.go: durable      *)
(* commands written in the transaction that changes a session, claimed by  *)
(* workers under a lease, and settled as processed or failed.              *)
(*                                                                         *)
(* Every operator is one SQL statement; the caller's transaction makes it  *)
(* atomic with the rest of the action it appears in.  A command is named   *)
(* by a slot of EventId.  Rows that are settled (processed or failed) are  *)
(* never read again, so settling a command empties its slot.  A slot may   *)
(* be taken by a new command once no worker still works on the old one:    *)
(* the set of slots bounds the commands alive at one time, not the         *)
(* commands ever written.                                                  *)
(***************************************************************************)
EXTENDS Domain

CONSTANTS EventId,    \* slots for outbox rows
          MaxRetry    \* retries before a command is given up (4 in the code)

ASSUME MaxRetryAssumption == MaxRetry \in Nat

VARIABLE outbox       \* outbox[e]: the row in slot e

\* 'pending' and 'processing' rows are the ones that still have to take effect.
ActiveStatus == {"pending", "processing"}

Settled == [status |-> "none", type |-> "provision", session |-> NoSession, retry |-> 0]

OutboxRow == [status : ActiveStatus \cup {"none"}, type : CommandType,
              session : Session \cup {NoSession}, retry : 0 .. MaxRetry]

OutboxInit == outbox = [e \in EventId |-> Settled]

IsActive(e) == outbox[e].status \in ActiveStatus

\* The rows that CreateIfNoActive and the revocation queries look for.
ActiveCommands(s, t) ==
    {e \in EventId : IsActive(e) /\ outbox[e].session = s /\ outbox[e].type = t}

FreeSlots(held) == {e \in EventId : ~IsActive(e)} \ held

Create(held, s, t) ==
    \E e \in FreeSlots(held) :
        outbox' = [outbox EXCEPT ![e] =
            [status |-> "pending", type |-> t, session |-> s, retry |-> 0]]

\* Inserts the command unless one with the same aggregate and type is active.
CreateIfNoActive(held, s, t) ==
    IF ActiveCommands(s, t) = {} THEN Create(held, s, t) ELSE UNCHANGED outbox

\* Due pending rows, and processing rows whose one-minute lease ran out.  Real
\* time is not modelled, so a lease may run out at any moment.
ClaimPending(e) ==
    /\ IsActive(e)
    /\ outbox' = [outbox EXCEPT ![e].status = "processing"]

\* Affects the row only while it is leased.
MarkProcessed(e) ==
    outbox' = IF outbox[e].status = "processing"
              THEN [outbox EXCEPT ![e] = Settled]
              ELSE outbox

\* Mutant of Retried: a command that has to be retried is settled.
RetriedNever(row) == Settled

\* retry_count is only compared with MaxRetry, so it is not counted beyond it.
Retried(row) ==
    [row EXCEPT !.status = "pending",
                !.retry = IF row.retry < MaxRetry THEN row.retry + 1 ELSE row.retry]

\* Affects the row only while it is leased; a terminal row counts as settled.
Reschedule(e, terminal) ==
    outbox' = IF outbox[e].status = "processing"
              THEN [outbox EXCEPT ![e] = IF terminal THEN Settled ELSE Retried(outbox[e])]
              ELSE outbox
=============================================================================
