--------------------------- MODULE SupportTickets ---------------------------
(***************************************************************************)
(* The life of a support ticket (apps/api/src/main.ts) along the           *)
(* transition table of packages/validation/src/index.ts.  Agents and the   *)
(* requester work on it at the same time; every route reads the ticket and *)
(* updates it by id in one transaction.                                    *)
(***************************************************************************)
EXTENDS Naturals

CONSTANT TicketRequests     \* requests that may be in flight together

VARIABLES
    ticket,         \* SupportTicket: status, and whether the times are set
    lastEvent,      \* toStatus of the last TicketStatusEvent
    ticketTx,       \* what each request has read, and does
    ticketAlone,    \* assumption: no two requests overlap
    broken          \* history: an event did not start where the last one ended

ticketVars == <<ticket, lastEvent, ticketTx, ticketAlone, broken>>

\* The targets the status route accepts; NEW means START_PROGRESS, and no
\* status means REOPEN.
supportTransitionTargets ==
    [START_PROGRESS |-> "IN_PROGRESS", WAIT_FOR_USER |-> "WAITING_FOR_USER",
     REVIEW |-> "UNDER_REVIEW", RESOLVE |-> "RESOLVED", CLOSE |-> "CLOSED",
     REJECT |-> "REJECTED"]

supportAllowedTransitions ==
    [START_PROGRESS |-> {"NEW", "WAITING_FOR_USER", "UNDER_REVIEW"},
     WAIT_FOR_USER |-> {"NEW", "IN_PROGRESS", "UNDER_REVIEW"},
     REVIEW |-> {"NEW", "IN_PROGRESS"},
     RESOLVE |-> {"IN_PROGRESS", "UNDER_REVIEW", "WAITING_FOR_USER"},
     CLOSE |-> {"RESOLVED", "REJECTED"},
     REJECT |-> {"NEW", "IN_PROGRESS", "UNDER_REVIEW"}]

NoTicketTx == [op |-> "idle", read |-> [status |-> "NONE"]]

SupportTicketsInit ==
    /\ ticket = [status |-> "NEW", resolvedAt |-> FALSE, closedAt |-> FALSE, answered |-> 0]
    /\ lastEvent = "NEW"
    /\ ticketTx = [r \in TicketRequests |-> NoTicketTx]
    /\ ticketAlone \in BOOLEAN
    /\ broken = FALSE

BeginTicket(r, op) ==
    /\ ticketTx[r].op = "idle"
    /\ ticketAlone => \A q \in TicketRequests : ticketTx[q].op = "idle"
    /\ ticketTx' = [ticketTx EXCEPT ![r] = [op |-> op, read |-> ticket]]
    /\ UNCHANGED <<ticket, lastEvent, ticketAlone, broken>>

EndTicket(r) ==
    /\ ticketTx' = [ticketTx EXCEPT ![r] = NoTicketTx]
    /\ UNCHANGED ticketAlone

\* The ticket and its TicketStatusEvent.
MoveTicket(row, from, to) ==
    /\ ticket' = row
    /\ lastEvent' = to
    /\ broken' = (broken \/ from # lastEvent)

-----------------------------------------------------------------------------
\* evaluateSupportTransition; the same status again changes nothing.
\* (mutant) a closed ticket is reopened by starting work on it
MayMoveTicketAgain(from, action) ==
    from \in supportAllowedTransitions[action] \cup {"CLOSED"}
MayMoveTicket(from, action) == from \in supportAllowedTransitions[action]

StatusBegin(r, action) ==
    /\ MayMoveTicket(ticket.status, action)
    /\ BeginTicket(r, action)

\* (mutant) closing forgets closedAt
StampedResolved(row, to, read) ==
    [row EXCEPT !.status = to, !.resolvedAt = to = "RESOLVED" \/ read.resolvedAt]
Stamped(row, to, read) ==
    [row EXCEPT !.status = to, !.resolvedAt = to = "RESOLVED" \/ read.resolvedAt,
                !.closedAt = to = "CLOSED" \/ read.closedAt]

TicketStatus(r) ==
    LET t == ticketTx[r]
        to == supportTransitionTargets[t.op]
    IN  /\ t.op \in DOMAIN supportTransitionTargets
        /\ EndTicket(r)
        /\ MoveTicket(Stamped(ticket, to, t.read), t.read.status, to)

\* A message of the requester is USER_REPLY if the ticket waited for one.
UserReply(r) ==
    LET t == ticketTx[r]
    IN  /\ t.op = "message"
        /\ EndTicket(r)
        /\ IF t.read.status = "WAITING_FOR_USER"
           THEN MoveTicket([ticket EXCEPT !.status = "IN_PROGRESS"], t.read.status, "IN_PROGRESS")
           ELSE UNCHANGED <<ticket, lastEvent, broken>>

\* A reply of an agent sets firstResponseAt unless it read one; answered counts
\* how often it is set.
AgentReply(r) ==
    LET t == ticketTx[r]
    IN  /\ t.op = "reply"
        /\ EndTicket(r)
        /\ ticket' = IF t.read.answered = 0 THEN [ticket EXCEPT !.answered = @ + 1] ELSE ticket
        /\ UNCHANGED <<lastEvent, broken>>

TicketFails(r) ==
    /\ ticketTx[r].op # "idle"
    /\ EndTicket(r)
    /\ UNCHANGED <<ticket, lastEvent, broken>>

SupportTicketsNext == \E r \in TicketRequests :
    \/ \E action \in DOMAIN supportTransitionTargets : StatusBegin(r, action)
    \/ BeginTicket(r, "message") \/ BeginTicket(r, "reply")
    \/ TicketStatus(r) \/ UserReply(r) \/ AgentReply(r) \/ TicketFails(r)

SupportTicketsSpec == SupportTicketsInit /\ [][SupportTicketsNext]_ticketVars

-----------------------------------------------------------------------------
(* The history of a ticket ends where the ticket is, whatever overlaps;    *)
(* while requests do not overlap, it has no gaps and firstResponseAt is    *)
(* the time of the first response.                                         *)
HistoryLeadsToStatus ==
    /\ lastEvent = ticket.status
    /\ ticketAlone => ~broken /\ ticket.answered <= 1

(* While requests do not overlap, a ticket is CLOSED if it has a closedAt, *)
(* and has been resolved or rejected before; it stays so, whatever either  *)
(* side writes.                                                            *)
ClosedIsFinal == ticketAlone =>
    /\ ticket.closedAt <=> ticket.status = "CLOSED"
    /\ ticket.resolvedAt => ticket.status \in {"RESOLVED", "CLOSED"}

(* The history and the stamps of a ticket tell how it came to its status,  *)
(* and nothing follows the end of it.                                      *)
TicketHistoryHolds == HistoryLeadsToStatus /\ ClosedIsFinal
=============================================================================
