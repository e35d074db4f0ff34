------------------------------ MODULE TicketDesk ------------------------------
(***************************************************************************)
(* Who works on a support ticket and who reads what of it                  *)
(* (apps/api/src/main.ts): the requester opens it, admins and agents       *)
(* assign it and leave internal notes, and all of them open its page.  A   *)
(* page is read table by table: first the ticket, then what belongs to it. *)
(* How the status of a ticket moves is the subject of SupportTickets.      *)
(***************************************************************************)
EXTENDS Naturals

CONSTANTS
    Agents,             \* users a ticket may be assigned to, but its requester
    DeskRequests,       \* requests that may be in flight together
    MaxAssignments      \* bound: TicketAssignment rows

ASSUME MaxAssignmentsAssumption == MaxAssignments \in Nat

VARIABLES
    involved,       \* the requester's part in the journey the ticket is about
    deskTicket,     \* SupportTicket: opened, about, assignedToUserId
    takingPart,     \* users with a SupportTicketParticipant row without leftAt
    noted,          \* there is a TicketInternalNote
    newestAssigned, \* the TicketAssignment with the latest createdAt
    clock,          \* createdAt of the assignments so far
    deskTx,         \* what each request has read, and does or shows
    deskAlone       \* assumption: no two assignments overlap

deskVars == <<involved, deskTicket, takingPart, noted, newestAssigned, clock, deskTx, deskAlone>>

Requester == "REQUESTER"
Unassigned == "NONE"
People == Agents \cup {Requester}

NoPage == [internal |-> FALSE, assigned |-> Unassigned, people |-> {}, notes |-> FALSE]
NoDeskTx == [op |-> "idle", who |-> Unassigned, at |-> 0, page |-> NoPage]

TicketDeskInit ==
    /\ involved \in {"NONE", "client", "driver", "sender"}
    /\ deskTicket = [opened |-> FALSE, about |-> {}, assigned |-> Unassigned]
    /\ takingPart = {} /\ noted = FALSE
    /\ newestAssigned = [at |-> 0, who |-> Unassigned] /\ clock = 0
    /\ deskTx = [r \in DeskRequests |-> NoDeskTx]
    /\ deskAlone \in BOOLEAN

EndDesk(r, op) ==
    /\ deskTx[r].op = op
    /\ deskTx' = [deskTx EXCEPT ![r] = NoDeskTx]

-----------------------------------------------------------------------------
\* ensureSupportEntityAccess: a booking of one's own, a parcel one sends, a trip
\* one has any part in.
EntityAccessible(about) ==
    /\ "booking" \in about => involved = "client"
    /\ "parcel" \in about => involved = "sender"
    /\ "trip" \in about => involved # "NONE"

\* POST /support/tickets, in one transaction.
OpenTicket ==
    /\ ~deskTicket.opened
    /\ \E about \in SUBSET {"booking", "trip", "parcel"} :
           /\ EntityAccessible(about)
           /\ deskTicket' = [deskTicket EXCEPT !.opened = TRUE, !.about = about]
    /\ takingPart' = {Requester}
    /\ UNCHANGED <<involved, noted, newestAssigned, clock, deskTx, deskAlone>>

\* POST /admin/support/tickets/:ticketId/internal-notes
AddInternalNote ==
    /\ deskTicket.opened /\ ~noted
    /\ noted' = TRUE
    /\ UNCHANGED <<involved, deskTicket, takingPart, newestAssigned, clock, deskTx, deskAlone>>

\* POST /admin/support/tickets/:ticketId/assign: the row with its createdAt, which
\* others see when the transaction commits; no assignee takes the ticket from all.
AssignBegin(r, who) ==
    /\ deskTicket.opened /\ clock < MaxAssignments
    /\ deskTx[r].op = "idle"
    /\ deskAlone => \A q \in DeskRequests : deskTx[q].op # "assign"
    /\ clock' = clock + 1
    /\ deskTx' = [deskTx EXCEPT ![r] = [op |-> "assign", who |-> who, at |-> clock + 1, page |-> NoPage]]
    /\ UNCHANGED <<involved, deskTicket, takingPart, noted, newestAssigned, deskAlone>>

\* The assignee takes part, again if it had left; the one before stays.
Joined(who) == IF who = Unassigned THEN takingPart ELSE takingPart \cup {who}

AssignCommit(r) ==
    /\ EndDesk(r, "assign")
    /\ deskTicket' = [deskTicket EXCEPT !.assigned = deskTx[r].who]
    /\ takingPart' = Joined(deskTx[r].who)
    /\ newestAssigned' = IF deskTx[r].at > newestAssigned.at
                         THEN [at |-> deskTx[r].at, who |-> deskTx[r].who]
                         ELSE newestAssigned
    /\ UNCHANGED <<involved, noted, clock, deskAlone>>

-----------------------------------------------------------------------------
\* userCanAccessSupportTicket
MayOpen(user) == user = Requester \/ user \in takingPart

PageBegin(r, internal) ==
    /\ deskTicket.opened
    /\ deskTx[r].op = "idle"
    /\ deskTx' = [deskTx EXCEPT ![r] = [NoDeskTx EXCEPT !.op = "page",
           !.page = [NoPage EXCEPT !.internal = internal, !.assigned = deskTicket.assigned]]]
    /\ UNCHANGED <<involved, deskTicket, takingPart, noted, newestAssigned, clock, deskAlone>>

\* GET /support/tickets and /support/tickets/:ticketId, of clients and drivers
OpenPage(r) == (\E user \in People : MayOpen(user)) /\ PageBegin(r, FALSE)

\* GET /admin/support/tickets and /admin/support/tickets/:ticketId
OpenAdminPage(r) == PageBegin(r, TRUE)

\* supportTicketInclude: what belongs to the ticket is read after the ticket, for
\* both pages; serializeSupportTicket leaves the notes out of one of them.
ShowPage(r) ==
    /\ deskTx[r].op = "page"
    /\ deskTx' = [deskTx EXCEPT ![r] = [NoDeskTx EXCEPT !.op = "shown", !.page =
           [deskTx[r].page EXCEPT !.people = takingPart, !.notes = noted /\ deskTx[r].page.internal]]]
    /\ UNCHANGED <<involved, deskTicket, takingPart, noted, newestAssigned, clock, deskAlone>>

\* The request fails, or its page is closed.
DeskCloses(r) ==
    /\ deskTx[r].op # "idle"
    /\ EndDesk(r, deskTx[r].op)
    /\ UNCHANGED <<involved, deskTicket, takingPart, noted, newestAssigned, clock, deskAlone>>

TicketDeskNext ==
    \/ OpenTicket \/ AddInternalNote
    \/ \E r \in DeskRequests :
           \/ \E who \in People \cup {Unassigned} : AssignBegin(r, who)
           \/ AssignCommit(r) \/ OpenPage(r) \/ OpenAdminPage(r) \/ ShowPage(r) \/ DeskCloses(r)

TicketDeskSpec == TicketDeskInit /\ [][TicketDeskNext]_deskVars

-----------------------------------------------------------------------------
(* Whoever a ticket is assigned to takes part in it, and so does its       *)
(* requester, who can open it, in spite of overlapping assignments; if     *)
(* they do not overlap the newest assignment tells the assignee.           *)
AssigneeTakesPart ==
    /\ deskTicket.opened => Requester \in takingPart
    /\ deskTicket.assigned # Unassigned => deskTicket.assigned \in takingPart
    /\ deskAlone => newestAssigned.who = deskTicket.assigned

(* A page names its assignee among the participants, also if the ticket is *)
(* reassigned between its queries, and internal notes are shown to staff   *)
(* only.                                                                   *)
PageIsConsistent == \A r \in DeskRequests : LET page == deskTx[r].page IN
    deskTx[r].op = "shown" =>
        /\ page.assigned # Unassigned => page.assigned \in page.people
        /\ page.notes => page.internal

(* A ticket has the people its assignments and its pages name.             *)
TicketDeskHolds == AssigneeTakesPart /\ PageIsConsistent
=============================================================================
