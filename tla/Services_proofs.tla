---------------------------- MODULE Services_proofs ----------------------------
(***************************************************************************)
(* The components of MCServices, proved one by one: those of Accounts_proofs*)
(* and the others below.  Of the specification that TLC runs, the theorems *)
(* at the end state its properties for all values of the constants.        *)
(***************************************************************************)
EXTENDS MCServices, Accounts_proofs

-----------------------------------------------------------------------------
(* Support tickets. While requests do not overlap, each writes the ticket   *)
(* that it has read, and takes a step of the table from there.              *)

TicketStatuses == {"NEW", "IN_PROGRESS", "WAITING_FOR_USER", "UNDER_REVIEW", "RESOLVED",
                   "REJECTED", "CLOSED"}
TicketRows == [status : TicketStatuses, resolvedAt : BOOLEAN, closedAt : BOOLEAN, answered : Nat]
TicketOps == {"message", "reply"} \cup DOMAIN supportTransitionTargets
TicketReads == [op : TicketOps, read : TicketRows]

TicketTypeOK ==
    /\ ticket \in TicketRows
    /\ ticketTx \in [TicketRequests -> TicketReads \cup {NoTicketTx}]
    /\ ticketAlone \in BOOLEAN /\ broken \in BOOLEAN

(* Requests that do not overlap write the ticket that they have read.      *)
TicketReadHolds ==
    /\ \A r, q \in TicketRequests : ticketTx[r].op # "idle" /\ ticketTx[q].op # "idle" => r = q
    /\ \A r \in TicketRequests : ticketTx[r].op # "idle" => ticketTx[r].read = ticket
    /\ \A r \in TicketRequests : ticketTx[r].op \in DOMAIN supportTransitionTargets =>
           ticket.status \in supportAllowedTransitions[ticketTx[r].op]

TicketInv ==
    /\ TicketTypeOK
    /\ ticketAlone => TicketReadHolds
    /\ TicketHistoryHolds

(* What the table of the transitions says of the end of a ticket.          *)
LEMMA SupportTable ==
    /\ DOMAIN supportTransitionTargets =
           {"START_PROGRESS", "WAIT_FOR_USER", "REVIEW", "RESOLVE", "CLOSE", "REJECT"}
    /\ \A a \in DOMAIN supportTransitionTargets :
           /\ supportTransitionTargets[a] \in TicketStatuses
           /\ "CLOSED" \notin supportAllowedTransitions[a]
           /\ "RESOLVED" \in supportAllowedTransitions[a] => supportTransitionTargets[a] = "CLOSED"
  BY DEF supportTransitionTargets, supportAllowedTransitions, TicketStatuses

\* A request that has not begun, and one that has.
LEMMA IdleTicket ==
    /\ NoTicketTx.op = "idle" /\ "idle" \notin TicketOps
    /\ \A t \in TicketReads \cup {NoTicketTx} : t.op # "idle" => t \in TicketReads
    /\ \A t \in TicketReads : t.op \in TicketOps /\ t.read \in TicketRows
  BY SupportTable DEF NoTicketTx, TicketReads, TicketOps

\* The invariant holds of a new ticket.
LEMMA TicketsStart == SupportTicketsInit => TicketInv
  <1> SUFFICES ASSUME SupportTicketsInit PROVE TicketInv
    OBVIOUS
  <1> USE DEF SupportTicketsInit
  <1>1. ticket \in TicketRows /\ ticket.status = "NEW" /\ ~ticket.closedAt /\ ~ticket.resolvedAt
        /\ ticket.answered = 0
    BY DEF TicketRows, TicketStatuses
  <1>2. TicketTypeOK
    BY <1>1 DEF TicketTypeOK
  <1>3. TicketReadHolds
    BY IdleTicket, SupportTable DEF TicketReadHolds, TicketOps
  <1>4. TicketHistoryHolds
    BY <1>1 DEF TicketHistoryHolds, HistoryLeadsToStatus, ClosedIsFinal
  <1> QED
    BY <1>2, <1>3, <1>4 DEF TicketInv

(* The row of a ticket that is moved.                                       *)
LEMMA StampedRow ==
    ASSUME NEW row \in TicketRows, NEW read \in TicketRows, NEW to \in TicketStatuses
    PROVE  /\ Stamped(row, to, read) \in TicketRows
           /\ Stamped(row, to, read).status = to
           /\ Stamped(row, to, read).resolvedAt <=> to = "RESOLVED" \/ read.resolvedAt
           /\ Stamped(row, to, read).closedAt <=> to = "CLOSED" \/ read.closedAt
           /\ Stamped(row, to, read).answered = row.answered
  <1>1. PICK c \in BOOLEAN, d \in BOOLEAN :
            /\ Stamped(row, to, read) = [row EXCEPT !.status = to, !.resolvedAt = c, !.closedAt = d]
            /\ c = (to = "RESOLVED" \/ read.resolvedAt) /\ d = (to = "CLOSED" \/ read.closedAt)
    BY Zenon DEF Stamped
  <1>2. /\ c <=> to = "RESOLVED" \/ read.resolvedAt
        /\ d <=> to = "CLOSED" \/ read.closedAt
    BY <1>1
  <1>3. LET new == [row EXCEPT !.status = to, !.resolvedAt = c, !.closedAt = d]
        IN  /\ new \in TicketRows /\ new.status = to /\ new.resolvedAt = c
            /\ new.closedAt = d /\ new.answered = row.answered
    BY DEF TicketRows
  <1> QED
    BY <1>1, <1>2, <1>3

\* A request that ends leaves the others as they were.
LEMMA TicketEnded ==
    ASSUME TicketInv, NEW r \in TicketRequests, EndTicket(r), ticketTx[r].op # "idle"
    PROVE  /\ ticketTx' \in [TicketRequests -> TicketReads \cup {NoTicketTx}]
           /\ ticketAlone' = ticketAlone
           /\ ticketAlone => \A q \in TicketRequests : ticketTx'[q].op = "idle"
           /\ ticketAlone => TicketReadHolds'
  <1>1. \A q \in TicketRequests : ticketTx'[q] = IF q = r THEN NoTicketTx ELSE ticketTx[q]
    BY DEF EndTicket, TicketInv, TicketTypeOK
  <1>2. ticketAlone => \A q \in TicketRequests : ticketTx'[q].op = "idle"
    BY <1>1, IdleTicket DEF TicketInv, TicketReadHolds
  <1> QED
    BY <1>2, IdleTicket, SupportTable DEF EndTicket, TicketInv, TicketTypeOK, TicketReadHolds, TicketOps

\* Every step keeps it.
LEMMA TicketsStep == TicketInv /\ [SupportTicketsNext]_ticketVars => TicketInv'
  <1> SUFFICES ASSUME TicketInv, [SupportTicketsNext]_ticketVars PROVE TicketInv'
    OBVIOUS
  <1>begin. ASSUME NEW r \in TicketRequests, NEW op \in TicketOps, BeginTicket(r, op),
                   op \in DOMAIN supportTransitionTargets => MayMoveTicket(ticket.status, op)
            PROVE  TicketInv'
    <2>1. ticketTx' = [ticketTx EXCEPT ![r] = [op |-> op, read |-> ticket]]
          /\ UNCHANGED <<ticket, lastEvent, ticketAlone, broken>>
      BY <1>begin DEF BeginTicket
    <2>2. TicketTypeOK'
      BY <2>1 DEF TicketInv, TicketTypeOK, TicketReads
    <2>3. \A q \in TicketRequests : ticketTx'[q] = IF q = r THEN [op |-> op, read |-> ticket] ELSE ticketTx[q]
      BY <2>1 DEF TicketInv, TicketTypeOK
    <2>4. ticketAlone => \A q \in TicketRequests \ {r} : ticketTx'[q].op = "idle"
      BY <1>begin, <2>3 DEF BeginTicket
    <2>5. ticketAlone' => TicketReadHolds'
      BY <1>begin, <2>1, <2>3, <2>4, SupportTable, IdleTicket DEF TicketReadHolds, MayMoveTicket, TicketOps
    <2> QED
      BY <2>1, <2>2, <2>5 DEF TicketInv, TicketHistoryHolds, HistoryLeadsToStatus, ClosedIsFinal
  <1>1. ASSUME NEW r \in TicketRequests, NEW action \in DOMAIN supportTransitionTargets,
               StatusBegin(r, action)
        PROVE  TicketInv'
    BY <1>begin, <1>1 DEF StatusBegin, TicketOps
  <1>2. ASSUME NEW r \in TicketRequests, NEW op \in {"message", "reply"}, BeginTicket(r, op)
        PROVE  TicketInv'
    BY <1>begin, <1>2, SupportTable DEF TicketOps
  <1>3. ASSUME NEW r \in TicketRequests, TicketStatus(r) PROVE TicketInv'
    <2> DEFINE t == ticketTx[r]
               to == supportTransitionTargets[t.op]
    <2> HIDE DEF t
    <2>1. /\ t \in TicketReads /\ t.op \in DOMAIN supportTransitionTargets /\ EndTicket(r)
          /\ MoveTicket(Stamped(ticket, to, t.read), t.read.status, to) /\ t.op # "idle"
      BY <1>3, IdleTicket, SupportTable DEF TicketStatus, TicketInv, TicketTypeOK, t
    <2>2. t.read \in TicketRows /\ ticket \in TicketRows /\ to \in TicketStatuses
      BY <2>1, IdleTicket, SupportTable DEF TicketInv, TicketTypeOK
    <2> HIDE DEF to
    <2>3. /\ ticket' \in TicketRows /\ ticket'.status = to /\ lastEvent' = to
          /\ ticket'.resolvedAt <=> to = "RESOLVED" \/ t.read.resolvedAt
          /\ ticket'.closedAt <=> to = "CLOSED" \/ t.read.closedAt
          /\ ticket'.answered = ticket.answered
      <3>1. ticket' = Stamped(ticket, to, t.read) /\ lastEvent' = to
        BY <2>1 DEF MoveTicket
      <3>2. /\ Stamped(ticket, to, t.read) \in TicketRows
            /\ Stamped(ticket, to, t.read).status = to
            /\ Stamped(ticket, to, t.read).resolvedAt <=> to = "RESOLVED" \/ t.read.resolvedAt
            /\ Stamped(ticket, to, t.read).closedAt <=> to = "CLOSED" \/ t.read.closedAt
            /\ Stamped(ticket, to, t.read).answered = ticket.answered
        BY <2>2, StampedRow, Zenon
      <3> QED BY <3>1, <3>2, Zenon
    <2>4. /\ ticketTx' \in [TicketRequests -> TicketReads \cup {NoTicketTx}]
          /\ ticketAlone' = ticketAlone /\ (ticketAlone => TicketReadHolds')
      BY <2>1, TicketEnded DEF t
    <2>5. ticketAlone =>
              /\ t.read = ticket
              /\ ticket.status # "CLOSED"
              /\ ticket.status = "RESOLVED" => to = "CLOSED"
      BY <2>1, SupportTable DEF TicketInv, TicketReadHolds, t, to
    <2>6. broken' = (broken \/ t.read.status # lastEvent)
      BY <2>1 DEF MoveTicket
    <2>7. broken' \in BOOLEAN /\ (ticketAlone => ~broken')
      BY <2>5, <2>6 DEF TicketInv, TicketHistoryHolds, HistoryLeadsToStatus
    <2>8. TicketHistoryHolds'
      BY <2>3, <2>4, <2>5, <2>7 DEF TicketInv, TicketHistoryHolds, HistoryLeadsToStatus, ClosedIsFinal
    <2> QED
      BY <2>3, <2>4, <2>7, <2>8 DEF TicketInv, TicketTypeOK
  <1>4. ASSUME NEW r \in TicketRequests, UserReply(r) PROVE TicketInv'
    <2>1. ticketTx[r].op # "idle" /\ EndTicket(r)
      BY <1>4 DEF UserReply
    <2>2. /\ ticketTx' \in [TicketRequests -> TicketReads \cup {NoTicketTx}]
          /\ ticketAlone' = ticketAlone /\ (ticketAlone => TicketReadHolds')
      BY <2>1, TicketEnded
    <2>3. CASE UNCHANGED <<ticket, lastEvent, broken>>
      BY <2>2, <2>3 DEF TicketInv, TicketTypeOK, TicketHistoryHolds, HistoryLeadsToStatus, ClosedIsFinal
    <2>4. CASE /\ ticketTx[r].read.status = "WAITING_FOR_USER"
               /\ MoveTicket([ticket EXCEPT !.status = "IN_PROGRESS"], ticketTx[r].read.status,
                             "IN_PROGRESS")
      <3>1. /\ ticket' = [ticket EXCEPT !.status = "IN_PROGRESS"] /\ lastEvent' = "IN_PROGRESS"
            /\ broken' = (broken \/ ticketTx[r].read.status # lastEvent)
        BY <2>4 DEF MoveTicket
      <3>2. /\ ticket' \in TicketRows /\ ticket'.status = "IN_PROGRESS"
            /\ ticket'.resolvedAt = ticket.resolvedAt /\ ticket'.closedAt = ticket.closedAt
            /\ ticket'.answered = ticket.answered
        BY <3>1 DEF TicketInv, TicketTypeOK, TicketRows, TicketStatuses
      <3>3. ticketAlone => ticket.status = "WAITING_FOR_USER" /\ ticketTx[r].read = ticket
        BY <2>1, <2>4 DEF TicketInv, TicketReadHolds
      <3>4. broken' \in BOOLEAN /\ (ticketAlone => ~broken')
        BY <3>1, <3>3 DEF TicketInv, TicketHistoryHolds, HistoryLeadsToStatus
      <3>5. TicketHistoryHolds'
        BY <2>2, <3>1, <3>2, <3>3, <3>4 DEF TicketInv, TicketHistoryHolds, HistoryLeadsToStatus, ClosedIsFinal
      <3> QED
        BY <2>2, <3>2, <3>4, <3>5 DEF TicketInv, TicketTypeOK
    <2> QED
      BY <1>4, <2>3, <2>4 DEF UserReply
  <1>5. ASSUME NEW r \in TicketRequests, AgentReply(r) PROVE TicketInv'
    <2>1. /\ ticketTx[r].op # "idle" /\ EndTicket(r) /\ UNCHANGED <<lastEvent, broken>>
          /\ ticket' = IF ticketTx[r].read.answered = 0 THEN [ticket EXCEPT !.answered = @ + 1] ELSE ticket
      BY <1>5 DEF AgentReply
    <2>2. /\ ticketTx' \in [TicketRequests -> TicketReads \cup {NoTicketTx}]
          /\ ticketAlone' = ticketAlone /\ (ticketAlone => TicketReadHolds')
      BY <2>1, TicketEnded
    <2>3. /\ ticket' \in TicketRows /\ ticket'.status = ticket.status
          /\ ticket'.resolvedAt = ticket.resolvedAt /\ ticket'.closedAt = ticket.closedAt
      BY <2>1 DEF TicketInv, TicketTypeOK, TicketRows
    <2>4. ticketAlone => ticket'.answered <= 1
      BY <2>1 DEF TicketInv, TicketTypeOK, TicketRows, TicketReadHolds, TicketHistoryHolds, HistoryLeadsToStatus
    <2> QED
      BY <2>1, <2>2, <2>3, <2>4 DEF TicketInv, TicketTypeOK, TicketHistoryHolds, HistoryLeadsToStatus, ClosedIsFinal
  <1>6. ASSUME NEW r \in TicketRequests, TicketFails(r) PROVE TicketInv'
    BY <1>6, TicketEnded DEF TicketFails, TicketInv, TicketTypeOK, TicketHistoryHolds, HistoryLeadsToStatus, ClosedIsFinal
  <1>7. CASE UNCHANGED ticketVars
    BY <1>7 DEF ticketVars, TicketInv, TicketTypeOK, TicketReadHolds, TicketHistoryHolds, HistoryLeadsToStatus, ClosedIsFinal
  <1> QED
    BY <1>1, <1>2, <1>3, <1>4, <1>5, <1>6, <1>7 DEF SupportTicketsNext

-----------------------------------------------------------------------------
(* Conversations. A receipt is READ exactly if the message is among those   *)
(* that its reader has opened, while requests do not overlap; the rest      *)
(* holds however they do.                                                   *)

MessageRows == [status : {"NONE", "SENT", "DELETED", "REPORTED"}, by : Participants \cup {"NONE"},
                edited : BOOLEAN, deleted : BOOLEAN]
ChatRows == [op : {"idle", "open", "send", "read"}, by : Participants \cup {"NONE"},
             id : ClientMessageIds \cup {"NONE"}, seen : SUBSET ClientMessageIds]

\* What a request wants is a message, or a reading, of a participant.
ChatRequestHolds(t) ==
    /\ t.op = "send" => t.id \in ClientMessageIds
    /\ t.op \in {"send", "read"} => t.by \in Participants

ConversationsTypeOK ==
    /\ conversations \in {0, 1}
    /\ message \in [ClientMessageIds -> MessageRows]
    /\ receipt \in [ClientMessageIds -> {"NONE", "SENT", "READ"}]
    /\ alerts \in [ClientMessageIds -> {0, 1}]
    /\ lastRead \in [Participants -> SUBSET ClientMessageIds]
    /\ withheld \subseteq ClientMessageIds
    /\ chatTx \in [ChatRequests -> ChatRows]
    /\ chatAlone \in BOOLEAN

ChatReadHolds ==
    /\ \A r, q \in ChatRequests : chatTx[r].op # "idle" /\ chatTx[q].op # "idle" => r = q
    /\ \A r \in ChatRequests : chatTx[r].op = "read" => chatTx[r].seen = Sent
    /\ \A p \in Participants : lastRead[p] \subseteq Sent
    /\ \A m \in Sent, p \in Participants :
           message[m].by # p => (receipt[m] = "READ" <=> m \in lastRead[p])

ConversationsInv ==
    /\ ConversationsTypeOK
    /\ \A r \in ChatRequests : ChatRequestHolds(chatTx[r])
    /\ \A m \in ClientMessageIds : alerts[m] = IF message[m].status = "NONE" THEN 0 ELSE 1
    /\ \A m \in Sent : message[m].by \in Participants
    /\ \A m \in withheld : m \in Sent /\ message[m].deleted
    /\ chatAlone => ChatReadHolds

\* A request that has not begun, and one that has.
LEMMA IdleChat ==
    /\ NoChatTx \in ChatRows /\ NoChatTx.op = "idle"
    /\ NoMessage \in MessageRows /\ NoMessage.status = "NONE"
  BY DEF NoChatTx, ChatRows, NoMessage, MessageRows

\* The invariant holds before a message is sent.
LEMMA ConversationsStart == ConversationsInit => ConversationsInv
  <1> SUFFICES ASSUME ConversationsInit PROVE ConversationsInv
    OBVIOUS
  <1>1. ConversationsTypeOK
    BY IdleChat DEF ConversationsInit, ConversationsTypeOK
  <1>2. Sent = {}
    BY IdleChat DEF ConversationsInit, Sent
  <1>3. \A r \in ChatRequests : chatTx[r].op = "idle"
    BY IdleChat DEF ConversationsInit
  <1> QED
    BY <1>1, <1>2, <1>3, IdleChat
       DEF ConversationsInit, ConversationsInv, ChatReadHolds, ChatRequestHolds

\* Every step keeps it.
LEMMA ConversationsStep == ConversationsInv /\ [ConversationsNext]_chatVars => ConversationsInv'
  <1> SUFFICES ASSUME ConversationsInv, [ConversationsNext]_chatVars PROVE ConversationsInv'
    OBVIOUS
  <1>type. ConversationsTypeOK
    BY DEF ConversationsInv
  \* Requests come and go; the rows stay.
  <1>rows. ASSUME UNCHANGED <<conversations, message, receipt, alerts, lastRead, withheld, chatAlone>>,
                  chatTx' \in [ChatRequests -> ChatRows],
                  \A r \in ChatRequests : ChatRequestHolds(chatTx'[r]),
                  chatAlone => /\ \A r, q \in ChatRequests : chatTx'[r].op # "idle" /\ chatTx'[q].op # "idle" => r = q
                               /\ \A r \in ChatRequests : chatTx'[r].op = "read" => chatTx'[r].seen = Sent
           PROVE  ConversationsInv'
    <2>1. Sent' = Sent
      BY <1>rows DEF Sent
    <2>2. ConversationsTypeOK'
      BY <1>rows, <1>type DEF ConversationsTypeOK
    <2>3. chatAlone => ChatReadHolds'
      BY <1>rows, <2>1 DEF ConversationsInv, ChatReadHolds
    <2> QED
      BY <1>rows, <2>1, <2>2, <2>3 DEF ConversationsInv, ChatRequestHolds
  <1>begin. ASSUME NEW r \in ChatRequests, NEW op \in {"open", "send", "read"}, NEW by \in Participants,
                   NEW id \in ClientMessageIds \cup {"NONE"}, BeginChat(r, op, by, id),
                   op = "send" => id \in ClientMessageIds
            PROVE  ConversationsInv'
    <2>1. PICK seen \in SUBSET ClientMessageIds : /\ op = "read" => seen = Sent
              /\ chatTx' = [chatTx EXCEPT ![r] = [op |-> op, by |-> by, id |-> id, seen |-> seen]]
      BY <1>begin DEF BeginChat, Sent
    <2> DEFINE t == [op |-> op, by |-> by, id |-> id, seen |-> seen]
    <2>2. t \in ChatRows /\ ChatRequestHolds(t) /\ t.op = op /\ t.seen = seen
      BY <1>begin DEF ChatRows, ChatRequestHolds
    <2> HIDE DEF t
    <2>3. chatTx' = [chatTx EXCEPT ![r] = t]
      BY <2>1 DEF t
    <2>4. /\ chatTx' \in [ChatRequests -> ChatRows]
          /\ \A q \in ChatRequests : chatTx'[q] = IF q = r THEN t ELSE chatTx[q]
      BY <2>2, <2>3, <1>type DEF ConversationsTypeOK
    <2>5. /\ chatAlone => \A q \in ChatRequests : chatTx[q].op = "idle"
          /\ UNCHANGED <<conversations, message, receipt, alerts, lastRead, withheld, chatAlone>>
      BY <1>begin DEF BeginChat
    <2>6. \A q \in ChatRequests : ChatRequestHolds(chatTx'[q])
      BY <2>2, <2>4 DEF ConversationsInv
    <2> QED
      BY <2>1, <2>2, <2>4, <2>5, <2>6, <1>rows
  <1> DEFINE Ended(r) == /\ chatTx' \in [ChatRequests -> ChatRows]
                         /\ \A q \in ChatRequests : chatTx'[q] = IF q = r THEN NoChatTx ELSE chatTx[q]
                         /\ \A q \in ChatRequests : ChatRequestHolds(chatTx[q])'
                         /\ chatAlone => \A q \in ChatRequests : chatTx'[q].op = "idle"
  <1>end. ASSUME NEW r \in ChatRequests, chatTx[r].op # "idle", chatTx' = [chatTx EXCEPT ![r] = NoChatTx]
          PROVE  Ended(r)
    <2>1. /\ chatTx' \in [ChatRequests -> ChatRows]
          /\ \A q \in ChatRequests : chatTx'[q] = IF q = r THEN NoChatTx ELSE chatTx[q]
      BY <1>end, <1>type, IdleChat DEF ConversationsTypeOK
    <2> QED
      BY <2>1, <1>end, IdleChat DEF ConversationsInv, ChatReadHolds, ChatRequestHolds
  <1> HIDE DEF Ended
  <1>1. CASE BookingMovesOn
    BY <1>1, <1>type, <1>rows DEF BookingMovesOn, ConversationsTypeOK, ConversationsInv, ChatReadHolds
  <1>2. ASSUME NEW r \in ChatRequests, OpenBegin(r) PROVE ConversationsInv'
    BY <1>2, <1>begin DEF OpenBegin, Participants
  <1>3. ASSUME NEW r \in ChatRequests, OpenConversation(r) PROVE ConversationsInv'
    <2>1. /\ chatTx[r].op = "open" /\ chatTx' = [chatTx EXCEPT ![r] = NoChatTx] /\ conversations' \in {0, 1}
          /\ UNCHANGED <<message, receipt, alerts, lastRead, withheld, chatAlone>>
      BY <1>3, <1>type DEF OpenConversation, EndChat, Created, ConversationsTypeOK
    <2>2. Ended(r) /\ Sent' = Sent
      BY <2>1, <1>end DEF Sent
    <2>3. ConversationsTypeOK'
      BY <2>1, <2>2, <1>type DEF ConversationsTypeOK, Ended
    <2>4. chatAlone => ChatReadHolds'
      BY <2>1, <2>2 DEF ConversationsInv, ChatReadHolds, Ended
    <2> QED
      BY <2>1, <2>2, <2>3, <2>4 DEF ConversationsInv, Ended
  <1>4. ASSUME NEW r \in ChatRequests, SendMessage(r) PROVE ConversationsInv'
    <2>1. PICK i \in ClientMessageIds, b \in Participants : i = chatTx[r].id /\ b = chatTx[r].by
      BY <1>4 DEF SendMessage, EndChat, ConversationsInv, ChatRequestHolds
    <2> DEFINE new == [NoMessage EXCEPT !.status = "SENT", !.by = b]
    <2>2. new \in MessageRows /\ new.status = "SENT" /\ new.by = b
      BY IdleChat DEF MessageRows
    <2> HIDE DEF new
    <2>3. /\ chatTx[r].op = "send" /\ chatTx' = [chatTx EXCEPT ![r] = NoChatTx] /\ message[i].status = "NONE"
          /\ message' = [message EXCEPT ![i] = new] /\ receipt' = [receipt EXCEPT ![i] = "SENT"]
          /\ alerts' = [alerts EXCEPT ![i] = alerts[i] + 1]
          /\ UNCHANGED <<conversations, lastRead, withheld, chatAlone>>
      BY <1>4, <2>1 DEF SendMessage, EndChat, IdUnused, new
    <2>4. Ended(r)
      BY <2>3, <1>end
    <2>5. /\ message' \in [ClientMessageIds -> MessageRows]
          /\ \A m \in ClientMessageIds : message'[m] = IF m = i THEN new ELSE message[m]
      BY <2>2, <2>3, <1>type DEF ConversationsTypeOK
    <2>6. /\ receipt' \in [ClientMessageIds -> {"NONE", "SENT", "READ"}]
          /\ \A m \in ClientMessageIds : receipt'[m] = IF m = i THEN "SENT" ELSE receipt[m]
      BY <2>3, <1>type DEF ConversationsTypeOK
    <2>7. Sent' = Sent \cup {i} /\ i \notin Sent
      BY <2>2, <2>3, <2>5 DEF Sent
    <2>8. alerts[i] = 0
      BY <2>3 DEF ConversationsInv
    <2>9. /\ alerts' \in [ClientMessageIds -> {0, 1}]
          /\ \A m \in ClientMessageIds : alerts'[m] = IF m = i THEN 1 ELSE alerts[m]
      BY <2>3, <2>8, <1>type DEF ConversationsTypeOK
    <2>10. ConversationsTypeOK'
      BY <2>3, <2>4, <2>5, <2>6, <2>9, <1>type DEF ConversationsTypeOK, Ended
    <2>11. ASSUME chatAlone PROVE ChatReadHolds'
      <3>1. \A p \in Participants : lastRead'[p] \subseteq Sent' /\ i \notin lastRead'[p]
        BY <2>3, <2>7, <2>11 DEF ConversationsInv, ChatReadHolds
      <3>2. ASSUME NEW m \in Sent', NEW p \in Participants, message'[m].by # p
            PROVE  receipt'[m] = "READ" <=> m \in lastRead'[p]
        BY <2>3, <2>5, <2>6, <2>7, <2>11, <3>1, <3>2 DEF ConversationsInv, ChatReadHolds, Sent
      <3> QED
        BY <2>4, <2>11, <3>1, <3>2 DEF ChatReadHolds, Ended
    <2>12. \A m \in withheld' : m \in Sent' /\ message'[m].deleted
      BY <2>3, <2>5, <2>7 DEF ConversationsInv, Sent
    <2>13. \A m \in Sent' : message'[m].by \in Participants
      BY <2>2, <2>5, <2>7 DEF ConversationsInv, Sent
    <2>14. \A m \in ClientMessageIds : alerts'[m] = IF message'[m].status = "NONE" THEN 0 ELSE 1
      BY <2>2, <2>5, <2>9 DEF ConversationsInv
    <2> QED
      BY <2>3, <2>4, <2>10, <2>11, <2>12, <2>13, <2>14 DEF ConversationsInv, Ended
  <1>5. ASSUME NEW r \in ChatRequests, ReadMessages(r) PROVE ConversationsInv'
    <2>1. PICK b \in Participants : b = chatTx[r].by
      BY <1>5 DEF ReadMessages, EndChat, ConversationsInv, ChatRequestHolds
    <2>2. /\ chatTx[r].op = "read" /\ chatTx' = [chatTx EXCEPT ![r] = NoChatTx]
          /\ receipt' = [m \in ClientMessageIds |-> IF m \in Received(b) THEN "READ" ELSE receipt[m]]
          /\ lastRead' = [lastRead EXCEPT ![b] = chatTx[r].seen]
          /\ UNCHANGED <<conversations, message, alerts, withheld, chatAlone>>
      BY <1>5, <2>1 DEF ReadMessages, EndChat
    <2>3. Ended(r) /\ Sent' = Sent
      BY <2>2, <1>end DEF Sent
    <2>4. receipt' \in [ClientMessageIds -> {"NONE", "SENT", "READ"}]
      BY <2>2, <1>type DEF ConversationsTypeOK
    <2>5. /\ lastRead' \in [Participants -> SUBSET ClientMessageIds]
          /\ \A p \in Participants : lastRead'[p] = IF p = b THEN chatTx[r].seen ELSE lastRead[p]
      BY <2>2, <1>type DEF ConversationsTypeOK, ChatRows
    <2>6. ConversationsTypeOK'
      BY <2>2, <2>3, <2>4, <2>5, <1>type DEF ConversationsTypeOK, Ended
    <2>7. ASSUME chatAlone PROVE ChatReadHolds'
      <3>1. chatTx[r].seen = Sent
        BY <2>2, <2>7 DEF ConversationsInv, ChatReadHolds
      <3>2. ASSUME NEW m \in Sent, NEW p \in Participants, message[m].by # p
            PROVE  receipt'[m] = "READ" <=> m \in lastRead'[p]
        <4>1. CASE p = b
          BY <2>2, <2>5, <3>1, <3>2, <4>1 DEF Received, Sent
        <4>2. CASE p # b
          <5>1. message[m].by = b
            BY <3>2, <4>2 DEF ConversationsInv, Participants
          <5> QED
            BY <2>2, <2>5, <2>7, <3>2, <4>2, <5>1 DEF Received, Sent, ConversationsInv, ChatReadHolds
        <4> QED BY <4>1, <4>2
      <3>3. \A p \in Participants : lastRead'[p] \subseteq Sent
        BY <2>5, <2>7, <3>1 DEF ConversationsInv, ChatReadHolds
      <3> QED
        BY <2>2, <2>3, <2>7, <3>2, <3>3 DEF ChatReadHolds, Ended
    <2> QED
      BY <2>2, <2>3, <2>6, <2>7 DEF ConversationsInv, Ended
  <1>6. ASSUME NEW r \in ChatRequests, ChatFails(r) PROVE ConversationsInv'
    <2>1. Ended(r)
      BY <1>6, <1>end DEF ChatFails
    <2> QED
      BY <1>6, <2>1, <1>rows, IdleChat DEF ChatFails, Ended
  <1>7. ASSUME NEW r \in ChatRequests, NEW by \in Participants, ReadBegin(r, by) PROVE ConversationsInv'
    BY <1>7, <1>begin DEF ReadBegin
  <1>8. ASSUME NEW r \in ChatRequests, NEW by \in Participants, NEW m \in ClientMessageIds,
               SendBegin(r, by, m)
        PROVE  ConversationsInv'
    BY <1>8, <1>begin DEF SendBegin
  \* A message is changed, but stays one, of the same sender, and deleted if it was.
  <1>change. ASSUME NEW i \in ClientMessageIds, NEW row \in MessageRows,
                    message[i].status # "NONE", message' = [message EXCEPT ![i] = row],
                    row.status # "NONE", row.by = message[i].by, message[i].deleted => row.deleted,
                    withheld' \subseteq ClientMessageIds,
                    withheld' = withheld \/ (withheld' = withheld \cup {i} /\ row.deleted),
                    UNCHANGED <<conversations, receipt, alerts, lastRead, chatTx, chatAlone>>
             PROVE  ConversationsInv'
    <2>1. /\ message' \in [ClientMessageIds -> MessageRows]
          /\ \A m \in ClientMessageIds : message'[m] = IF m = i THEN row ELSE message[m]
      BY <1>change, <1>type DEF ConversationsTypeOK
    <2>2. Sent' = Sent /\ i \in Sent
      BY <1>change, <2>1 DEF Sent
    <2>3. ConversationsTypeOK'
      BY <1>change, <2>1, <1>type DEF ConversationsTypeOK
    <2>4. \A m \in ClientMessageIds : message'[m].by = message[m].by
      BY <1>change, <2>1
    <2>5. chatAlone => ChatReadHolds'
      BY <1>change, <2>2, <2>4 DEF ConversationsInv, ChatReadHolds, Sent
    <2>6. \A m \in withheld' : m \in Sent' /\ message'[m].deleted
      BY <1>change, <2>1, <2>2 DEF ConversationsInv, Sent
    <2>7. \A m \in Sent' : message'[m].by \in Participants
      BY <2>2, <2>4 DEF ConversationsInv, Sent
    <2>8. \A m \in ClientMessageIds : alerts'[m] = IF message'[m].status = "NONE" THEN 0 ELSE 1
      BY <1>change, <2>1 DEF ConversationsInv
    <2> QED
      BY <1>change, <2>3, <2>5, <2>6, <2>7, <2>8 DEF ConversationsInv, ChatRequestHolds
  <1>9. ASSUME NEW m \in ClientMessageIds, EditMessage(m) PROVE ConversationsInv'
    <2> DEFINE row == [message[m] EXCEPT !.edited = TRUE]
    <2>1. /\ row \in MessageRows /\ row.status = message[m].status /\ row.by = message[m].by
          /\ row.deleted = message[m].deleted
      BY <1>type, ZenonT(60) DEF ConversationsTypeOK, MessageRows
    <2>2. message' = [message EXCEPT ![m] = row]
      BY <1>9, <1>type DEF EditMessage, ConversationsTypeOK
    <2> HIDE DEF row
    <2> QED
      BY <1>9, <2>1, <2>2, <1>change, <1>type, ZenonT(60) DEF EditMessage, ConversationsTypeOK
  <1>10. ASSUME NEW m \in ClientMessageIds, DeleteMessage(m) PROVE ConversationsInv'
    <2> DEFINE row == [message[m] EXCEPT !.status = "DELETED", !.deleted = TRUE]
    <2>1. row \in MessageRows /\ row.status = "DELETED" /\ row.by = message[m].by /\ row.deleted
      BY <1>type, ZenonT(60) DEF ConversationsTypeOK, MessageRows
    <2>2. message' = [message EXCEPT ![m] = row]
      BY <1>10, <1>type, Zenon DEF DeleteMessage, ConversationsTypeOK
    <2> HIDE DEF row
    <2> QED
      BY <1>10, <2>1, <2>2, <1>change, <1>type, ZenonT(60) DEF DeleteMessage, ConversationsTypeOK
  <1>11. ASSUME NEW m \in ClientMessageIds, ReportMessage(m) PROVE ConversationsInv'
    <2> DEFINE row == [message[m] EXCEPT !.status = "REPORTED"]
    <2>1. /\ row \in MessageRows /\ row.status = "REPORTED" /\ row.by = message[m].by
          /\ row.deleted = message[m].deleted
      BY <1>type DEF ConversationsTypeOK, MessageRows
    <2>2. message' = [message EXCEPT ![m] = row]
      BY <1>11, <1>type DEF ReportMessage, ConversationsTypeOK
    <2> HIDE DEF row
    <2> QED
      BY <1>11, <2>1, <2>2, <1>change, <1>type DEF ReportMessage, ConversationsTypeOK
  <1>12. CASE UNCHANGED chatVars
    BY <1>12, <1>type, <1>rows DEF chatVars, ConversationsTypeOK, ConversationsInv, ChatReadHolds
  <1> QED
    BY <1>1, <1>2, <1>3, <1>4, <1>5, <1>6, <1>7, <1>8, <1>9, <1>10, <1>11, <1>12
       DEF ConversationsNext

\* Messages, receipts and alerts agree.
LEMMA ConversationsAccounted == ConversationsInv => MessagesAccounted
  <1> SUFFICES ASSUME ConversationsInv PROVE MessagesAccounted
    OBVIOUS
  <1>1. SentOnce /\ DeletedStaysHidden
    BY DEF ConversationsInv, ConversationsTypeOK, SentOnce, DeletedStaysHidden,
           Text, LastMessage
  <1>2. ReceiptsFollowReading
    BY DEF ConversationsInv, ChatReadHolds, ReceiptsFollowReading
  <1> QED
    BY <1>1, <1>2 DEF MessagesAccounted

-----------------------------------------------------------------------------
(* Reviews. A key has one effect because its record is unique; while        *)
(* requests do not overlap, nothing changes between what a request has      *)
(* read and what it writes, or counts.                                      *)

ReviewRows == [status : {"NONE", "PUBLISHED", "DELETED_BY_AUTHOR", "UNDER_REVIEW"},
               by : Reviewers \cup {"NONE"}, rating : Ratings \cup {0}]
ReviewTxRows == [op : {"idle", "post", "patch", "delete", "report"},
                 key : ReviewKeys \cup {"NONE"}, id : ReviewKeys \cup {"NONE"},
                 row : ReviewRows, counted : [ReviewKeys -> Nat], computed : BOOLEAN]
Reviewing == {r \in ReviewRequests : reviewTx[r].op # "idle"}

ReviewsTypeOK ==
    /\ review \in [ReviewKeys -> ReviewRows]
    /\ record \in SUBSET ReviewKeys
    /\ counted \in [ReviewKeys -> Nat]
    /\ reviewTx \in [ReviewRequests -> ReviewTxRows]
    /\ reviewsAlone \in BOOLEAN
    /\ posts \in [ReviewKeys -> Nat]
    /\ entity \in [Reviewers -> {"TRAVELLING", "COMPLETED", "CLOSED"}]

\* Whoever wrote it has travelled.
Travelled(a) == a # "NONE" => entity[a] # "TRAVELLING"

\* A review has a status and an author or neither, and was posted.
ReviewHolds(k) ==
    /\ review[k].status = "NONE" <=> review[k].by = "NONE"
    /\ review[k].by # "NONE" => k \in record
    /\ Travelled(review[k].by)
    /\ counted[k] > 0 => review[k].by # "NONE"

\* What a request in flight will write to a review that exists, or to a new one.
WriteHolds(t) ==
    /\ t.id \in ReviewKeys
    /\ Travelled(t.row.by)
    /\ t.row.status = "PUBLISHED" => t.row.by # "NONE" /\ t.id = t.key
    /\ t.row.status # "PUBLISHED" => review[t.id].by # "NONE"
    /\ t.computed => \A k \in ReviewKeys :
           t.counted[k] > 0 => k = t.id \/ review[k].by # "NONE"

\* Nothing has changed since the request read.
NothingChanged(t) ==
    /\ t.row.status = "PUBLISHED" => ReviewsOf(t.row.by) = {}
    /\ t.row.status # "PUBLISHED" /\ t.row.by # "NONE" => t.row.by = review[t.id].by
    /\ t.op = "report" => t.row.status = "UNDER_REVIEW"
    /\ t.computed => t.counted = CountedPublished([review EXCEPT ![t.id] = Written(t)])

ReviewsInv ==
    /\ ReviewsTypeOK
    /\ \A k \in ReviewKeys : posts[k] = (IF k \in record THEN 1 ELSE 0) /\ ReviewHolds(k)
    /\ \A r \in Reviewing : WriteHolds(reviewTx[r])
    /\ \A r \in ReviewRequests : reviewTx[r].computed => r \in Reviewing
    /\ reviewsAlone =>
           /\ \A r, q \in Reviewing : r = q
           /\ \A r \in Reviewing : NothingChanged(reviewTx[r])
    /\ RatingIsCurrent
    /\ OneReviewPerAuthor

\* A request that has not begun, and a review before it is written.
LEMMA IdleReview == /\ NoReview \in ReviewRows /\ NoReviewTx \in ReviewTxRows
                    /\ NoReviewTx.op = "idle" /\ NoReviewTx.computed = FALSE
                    /\ NoReview.status = "NONE" /\ NoReview.by = "NONE" /\ NoReview.rating = 0
                    /\ NoReview = [status |-> "NONE", by |-> "NONE", rating |-> 0]
  <1>1. /\ NoReview = [status |-> "NONE", by |-> "NONE", rating |-> 0]
        /\ NoReview \in ReviewRows
        /\ NoReview.status = "NONE" /\ NoReview.by = "NONE" /\ NoReview.rating = 0
    BY DEF NoReview, ReviewRows
  <1>2. [k \in ReviewKeys |-> 0] \in [ReviewKeys -> Nat]
    OBVIOUS
  <1> QED
    BY <1>1, <1>2 DEF NoReviewTx, ReviewTxRows

(* What a request writes is a review, by the author it had or the one that  *)
(* posts it now.                                                            *)
LEMMA WrittenRow ==
    ASSUME ReviewsTypeOK, NEW t \in ReviewTxRows, t.id \in ReviewKeys
    PROVE  /\ Written(t) \in ReviewRows
           /\ Written(t).status = IF t.row.status = "NONE" THEN review[t.id].status ELSE t.row.status
           /\ Written(t).by = IF t.row.by = "NONE" THEN review[t.id].by ELSE t.row.by
           /\ Written(t).rating = IF t.row.rating = 0 THEN review[t.id].rating ELSE t.row.rating
  <1>1. review[t.id] \in ReviewRows /\ t.row \in ReviewRows
    BY DEF ReviewsTypeOK, ReviewTxRows
  <1> QED
    BY <1>1 DEF Written, ReviewRows

(* The rating counts what is published, as it is in rows.                   *)
LEMMA CountedRatings ==
    ASSUME NEW rows \in [ReviewKeys -> ReviewRows]
    PROVE  /\ CountedPublished(rows) \in [ReviewKeys -> Nat]
           /\ \A k \in ReviewKeys : CountedPublished(rows)[k] =
                  IF rows[k].status = "PUBLISHED" THEN rows[k].rating ELSE 0
  <1>1. \A row \in ReviewRows : row.rating \in Nat
    <2>1. \A n \in Ratings : n \in Nat
      BY RatingsAssumption
    <2>2. \A row \in ReviewRows : row.rating \in Ratings \/ row.rating = 0
      BY DEF ReviewRows
    <2> QED BY <2>1, <2>2
  <1>2. \A k \in ReviewKeys : rows[k].rating \in Nat
    BY <1>1
  <1> QED
    BY <1>2 DEF CountedPublished

\* The invariant holds before a review is written.
LEMMA ReviewsStart == ReviewsInit => ReviewsInv
  <1> SUFFICES ASSUME ReviewsInit PROVE ReviewsInv
    OBVIOUS
  <1>1. ReviewsTypeOK
    BY IdleReview DEF ReviewsInit, ReviewsTypeOK
  <1>2. Reviewing = {}
    BY IdleReview DEF ReviewsInit, Reviewing
  <1>3. \A k \in ReviewKeys : review[k] = NoReview /\ counted[k] = 0 /\ posts[k] = 0
    BY DEF ReviewsInit
  <1>4. \A k \in ReviewKeys : posts[k] = (IF k \in record THEN 1 ELSE 0) /\ ReviewHolds(k)
    BY <1>3, IdleReview DEF ReviewsInit, ReviewHolds, Travelled
  <1>5. RatingIsCurrent /\ OneReviewPerAuthor
    BY <1>3, IdleReview DEF RatingIsCurrent, OneReviewPerAuthor
  <1>6. \A r \in ReviewRequests : ~reviewTx[r].computed
    BY IdleReview DEF ReviewsInit
  <1> QED
    BY <1>1, <1>2, <1>4, <1>5, <1>6 DEF ReviewsInv

\* Every step keeps it.
LEMMA ReviewsStep == ReviewsInv /\ [ReviewsNext]_reviewVars => ReviewsInv'
  <1> SUFFICES ASSUME ReviewsInv, [ReviewsNext]_reviewVars PROVE ReviewsInv'
    OBVIOUS
  <1> USE RatingsAssumption, ReviewNamesAssumption
  <1>type. ReviewsTypeOK
    BY DEF ReviewsInv
  \* A request reads: what it will write is about a review of someone who has travelled.
  <1>begin. ASSUME NEW r \in ReviewRequests, NEW op \in {"post", "patch", "delete", "report"},
                   NEW key \in ReviewKeys \cup {"NONE"}, NEW id \in ReviewKeys, NEW row \in ReviewRows,
                   BeginReview(r, op, key, id, row),
                   Travelled(row.by),
                   row.status = "PUBLISHED" => row.by # "NONE" /\ id = key /\ ReviewsOf(row.by) = {},
                   row.status # "PUBLISHED" => review[id].by # "NONE",
                   row.status # "PUBLISHED" /\ row.by # "NONE" => row.by = review[id].by,
                   op = "report" => row.status = "UNDER_REVIEW"
            PROVE  ReviewsInv'
    <2> DEFINE t == [NoReviewTx EXCEPT !.op = op, !.key = key, !.id = id, !.row = row]
    <2>1. /\ reviewTx' = [reviewTx EXCEPT ![r] = t] /\ reviewTx[r].op = "idle"
          /\ reviewsAlone => Reviewing = {}
          /\ UNCHANGED <<review, record, counted, reviewsAlone, posts, entity>>
      BY <1>begin DEF BeginReview, Reviewing
    <2>2. /\ t \in ReviewTxRows /\ t.op = op /\ t.key = key /\ t.id = id /\ t.row = row
          /\ t.computed = FALSE
      BY IdleReview DEF ReviewTxRows
    <2> HIDE DEF t
    <2>3. /\ \A q \in ReviewRequests : reviewTx'[q] = IF q = r THEN t ELSE reviewTx[q]
          /\ reviewTx' \in [ReviewRequests -> ReviewTxRows]
      BY <2>1, <2>2, <1>type DEF ReviewsTypeOK
    <2>4. ReviewsTypeOK'
      BY <2>1, <2>3, <1>type DEF ReviewsTypeOK
    <2>5. \A k \in ReviewKeys : posts'[k] = (IF k \in record' THEN 1 ELSE 0) /\ ReviewHolds(k)'
      BY <2>1 DEF ReviewsInv, ReviewHolds, Travelled
    <2>6. Reviewing' = Reviewing \cup {r}
      BY <2>2, <2>3 DEF Reviewing
    <2>7. WriteHolds(t) /\ NothingChanged(t)
      BY <2>2, <1>begin DEF WriteHolds, NothingChanged
    <2>8. ASSUME NEW q \in Reviewing' PROVE WriteHolds(reviewTx[q])'
      <3>1. WriteHolds(reviewTx'[q])
        BY <2>3, <2>6, <2>7 DEF ReviewsInv, Reviewing
      <3> QED BY <2>1, <3>1 DEF WriteHolds, Travelled
    <2>9. ASSUME reviewsAlone, NEW q \in Reviewing' PROVE q = r /\ NothingChanged(reviewTx[q])'
      <3>1. q = r /\ NothingChanged(reviewTx'[q])
        BY <2>1, <2>3, <2>6, <2>7, <2>9
      <3> QED BY <2>1, <3>1 DEF NothingChanged, ReviewsOf, Written, CountedPublished
    <2>10. RatingIsCurrent' /\ OneReviewPerAuthor'
      BY <2>1 DEF ReviewsInv, RatingIsCurrent, OneReviewPerAuthor
    <2>11. \A q \in ReviewRequests : reviewTx'[q].computed => q \in Reviewing'
      BY <2>2, <2>3, <2>6 DEF ReviewsInv
    <2> QED
      BY <2>1, <2>4, <2>5, <2>8, <2>9, <2>10, <2>11 DEF ReviewsInv
  <1>1. ASSUME NEW a \in Reviewers, EntityAdvances(a) PROVE ReviewsInv'
    <2>1. /\ UNCHANGED <<review, record, counted, reviewTx, reviewsAlone, posts>>
          /\ entity' = [entity EXCEPT ![a] = IF entity[a] = "TRAVELLING" THEN "COMPLETED" ELSE "CLOSED"]
      BY <1>1 DEF EntityAdvances
    <2>2. /\ entity' \in [Reviewers -> {"TRAVELLING", "COMPLETED", "CLOSED"}]
          /\ \A b \in Reviewers : entity[b] # "TRAVELLING" => entity'[b] # "TRAVELLING"
      BY <2>1, <1>type DEF ReviewsTypeOK
    <2>3. ReviewsTypeOK' /\ Reviewing' = Reviewing
      BY <2>1, <2>2, <1>type DEF ReviewsTypeOK, Reviewing
    <2>4. \A b \in Reviewers \cup {"NONE"} : Travelled(b) => Travelled(b)'
      BY <2>2 DEF Travelled
    <2>5. \A k \in ReviewKeys : posts'[k] = (IF k \in record' THEN 1 ELSE 0) /\ ReviewHolds(k)'
      <3> TAKE k \in ReviewKeys
      <3>1. review[k].by \in Reviewers \cup {"NONE"} /\ ReviewHolds(k)
            /\ posts[k] = (IF k \in record THEN 1 ELSE 0)
        BY <1>type DEF ReviewsInv, ReviewsTypeOK, ReviewRows
      <3>2. PICK b \in Reviewers \cup {"NONE"} : b = review[k].by
        BY <3>1
      <3>3. Travelled(b)'
        BY <2>4, <3>1, <3>2 DEF ReviewHolds
      <3> QED BY <2>1, <3>1, <3>2, <3>3 DEF ReviewHolds, Travelled
    <2>6. ASSUME NEW q \in Reviewing PROVE WriteHolds(reviewTx[q])'
      <3>1. WriteHolds(reviewTx[q]) /\ reviewTx[q] \in ReviewTxRows
        BY <1>type DEF ReviewsInv, ReviewsTypeOK, Reviewing
      <3>2. PICK b \in Reviewers \cup {"NONE"} : b = reviewTx[q].row.by
        BY <3>1 DEF ReviewTxRows, ReviewRows
      <3>3. Travelled(b)'
        BY <2>4, <3>1, <3>2 DEF WriteHolds
      <3> QED BY <2>1, <3>1, <3>2, <3>3 DEF WriteHolds, Travelled
    <2>7. ASSUME reviewsAlone, NEW q \in Reviewing PROVE NothingChanged(reviewTx[q])'
      BY <2>1, <2>7 DEF ReviewsInv, NothingChanged, ReviewsOf, Written, CountedPublished
    <2>8. RatingIsCurrent' /\ OneReviewPerAuthor'
      BY <2>1 DEF ReviewsInv, RatingIsCurrent, OneReviewPerAuthor
    <2> QED
      BY <2>1, <2>3, <2>5, <2>6, <2>7, <2>8 DEF ReviewsInv
  <1>2. ASSUME NEW r \in ReviewRequests, PostBegin(r) PROVE ReviewsInv'
    <2>1. PICK a \in Reviewers, k \in ReviewKeys, n \in Ratings :
              /\ \E type \in {"DRIVER_BY_CLIENT", "CLIENT_BY_DRIVER"} : Eligible(EligibilityContext(a, type))
              /\ IF ReviewsOf(a) = {}
                 THEN BeginReview(r, "post", k, k, [status |-> "PUBLISHED", by |-> a, rating |-> n])
                 ELSE \E id \in ReviewsOf(a) :
                          BeginReview(r, "post", k, id, [NoReview EXCEPT !.by = a, !.rating = n])
      BY <1>2 DEF PostBegin
    <2>2. Travelled(a)
      BY <2>1 DEF Eligible, EligibilityContext, Travelled
    <2>3. CASE ReviewsOf(a) = {}
      <3> DEFINE row == [status |-> "PUBLISHED", by |-> a, rating |-> n]
      <3>1. row \in ReviewRows /\ row.status = "PUBLISHED" /\ row.by = a
        BY DEF ReviewRows
      <3>2. BeginReview(r, "post", k, k, row)
        BY <2>1, <2>3
      <3> HIDE DEF row
      <3> QED BY <2>2, <2>3, <3>1, <3>2, <1>begin
    <2>4. CASE ReviewsOf(a) # {}
      <3> DEFINE row == [NoReview EXCEPT !.by = a, !.rating = n]
      <3>1. PICK id \in ReviewsOf(a) : BeginReview(r, "post", k, id, row)
        BY <2>1, <2>4
      <3>2. row \in ReviewRows /\ row.status = "NONE" /\ row.by = a
        BY IdleReview DEF ReviewRows
      <3>3. id \in ReviewKeys /\ review[id].by = a
        BY DEF ReviewsOf
      <3> HIDE DEF row
      <3> QED BY <2>2, <3>1, <3>2, <3>3, <1>begin
    <2> QED BY <2>3, <2>4
  <1>3. ASSUME NEW r \in ReviewRequests, PatchBegin(r) PROVE ReviewsInv'
    <2>1. PICK k \in ReviewKeys, n \in Ratings :
              /\ review[k].status = "PUBLISHED"
              /\ BeginReview(r, "patch", "NONE", k, [NoReview EXCEPT !.by = review[k].by, !.rating = n])
      BY <1>3 DEF PatchBegin
    <2>2. PICK a \in Reviewers \cup {"NONE"} : a = review[k].by
      BY <1>type DEF ReviewsTypeOK, ReviewRows
    <2>3. a # "NONE" /\ Travelled(a)
      BY <2>1, <2>2 DEF ReviewsInv, ReviewHolds
    <2> DEFINE row == [NoReview EXCEPT !.by = a, !.rating = n]
    <2>4. row \in ReviewRows /\ row.status = "NONE" /\ row.by = a
      BY IdleReview DEF ReviewRows
    <2>5. BeginReview(r, "patch", "NONE", k, row)
      BY <2>1, <2>2
    <2> HIDE DEF row
    <2> QED BY <2>2, <2>3, <2>4, <2>5, <1>begin
  <1>4. ASSUME NEW r \in ReviewRequests, NEW op \in {"delete", "report"},
               NEW given \in {"DELETED_BY_AUTHOR", "UNDER_REVIEW"}, NEW k \in ReviewKeys,
               op = "report" => given = "UNDER_REVIEW", review[k].status # "NONE",
               BeginReview(r, op, "NONE", k, [NoReview EXCEPT !.status = given])
        PROVE  ReviewsInv'
    <2> DEFINE row == [NoReview EXCEPT !.status = given]
    <2>1. row \in ReviewRows /\ row.status = given /\ row.by = "NONE"
      BY IdleReview DEF ReviewRows
    <2>2. review[k].by # "NONE"
      BY <1>4 DEF ReviewsInv, ReviewHolds
    <2>3. BeginReview(r, op, "NONE", k, row) /\ Travelled("NONE")
      BY <1>4 DEF Travelled
    <2> HIDE DEF row
    <2> QED BY <2>1, <2>2, <2>3, <1>4, <1>begin
  <1>5. ASSUME NEW r \in ReviewRequests, DeleteBegin(r) \/ ReportBegin(r) PROVE ReviewsInv'
    BY <1>4, <1>5 DEF DeleteBegin, ReportBegin
  <1>6. ASSUME NEW r \in ReviewRequests, Recompute(r) PROVE ReviewsInv'
    <2>1. PICK t \in ReviewTxRows : t = reviewTx[r]
      BY <1>type DEF ReviewsTypeOK
    <2> DEFINE c == CountedPublished([review EXCEPT ![t.id] = Written(t)])
               mid == [reviewTx EXCEPT ![r].computed = TRUE]
    <2>2. /\ r \in Reviewing /\ UNCHANGED <<review, record, counted, reviewsAlone, posts, entity>>
          /\ reviewTx' = [mid EXCEPT ![r].counted = c]
      BY <1>6, <2>1 DEF Recompute, Reviewing
    <2>3. WriteHolds(t)
      BY <2>1, <2>2 DEF ReviewsInv
    <2>4. t.id \in ReviewKeys
      BY <2>3 DEF WriteHolds
    <2>5. /\ [review EXCEPT ![t.id] = Written(t)] \in [ReviewKeys -> ReviewRows]
          /\ \A k \in ReviewKeys : [review EXCEPT ![t.id] = Written(t)][k] =
                                       IF k = t.id THEN Written(t) ELSE review[k]
      BY <2>4, <1>type, WrittenRow DEF ReviewsTypeOK
    <2>6. c \in [ReviewKeys -> Nat]
      BY <2>5, CountedRatings
    <2>7. \A k \in ReviewKeys : c[k] > 0 => k = t.id \/ review[k].by # "NONE"
      <3> SUFFICES ASSUME NEW k \in ReviewKeys, k # t.id, c[k] > 0 PROVE review[k].by # "NONE"
        OBVIOUS
      <3>1. PICK rows \in [ReviewKeys -> ReviewRows] : rows = [review EXCEPT ![t.id] = Written(t)]
        BY <2>5
      <3>a. c = CountedPublished(rows)
        BY <3>1
      <3>2. rows[k].status = "PUBLISHED"
        <4> HIDE DEF c
        <4>1. c[k] = IF rows[k].status = "PUBLISHED" THEN rows[k].rating ELSE 0
          BY <3>a, CountedRatings
        <4> QED BY <4>1
      <3> QED BY <2>5, <3>1, <3>2 DEF ReviewsInv, ReviewHolds
    <2> HIDE DEF c
    <2>8. /\ mid = [q \in ReviewRequests |-> mid[q]]
          /\ \A q \in ReviewRequests :
                 mid[q] = IF q = r THEN [reviewTx[q] EXCEPT !.computed = TRUE] ELSE reviewTx[q]
      BY <1>type DEF ReviewsTypeOK
    <2> HIDE DEF mid
    <2>9. \A q \in ReviewRequests :
              reviewTx'[q] = IF q = r THEN [mid[q] EXCEPT !.counted = c] ELSE mid[q]
      BY <2>2, <2>8
    <2>10. PICK m \in ReviewTxRows : /\ m = mid[r] /\ m.op = t.op /\ m.key = t.key /\ m.id = t.id
                                     /\ m.row = t.row /\ m.computed = TRUE
      <3>1. mid[r] = [t EXCEPT !.computed = TRUE]
        BY <2>1, <2>8
      <3> QED BY <3>1 DEF ReviewTxRows
    <2>11. PICK u \in ReviewTxRows : /\ u = reviewTx'[r] /\ u.op = t.op /\ u.key = t.key /\ u.id = t.id
                                     /\ u.row = t.row /\ u.computed = TRUE /\ u.counted = c
      <3>1. reviewTx'[r] = [m EXCEPT !.counted = c]
        BY <2>9, <2>10
      <3> QED BY <2>6, <2>10, <3>1 DEF ReviewTxRows
    <2>12. /\ \A q \in ReviewRequests : reviewTx'[q] = IF q = r THEN u ELSE reviewTx[q]
           /\ reviewTx' \in [ReviewRequests -> ReviewTxRows]
      <3>1. \A q \in ReviewRequests : reviewTx'[q] = IF q = r THEN u ELSE reviewTx[q]
        BY <2>8, <2>9, <2>11
      <3>2. reviewTx' = [q \in ReviewRequests |-> reviewTx'[q]]
        BY <2>2, <2>8
      <3> QED BY <3>1, <3>2, <1>type DEF ReviewsTypeOK
    <2>13. ReviewsTypeOK'
      BY <2>2, <2>12, <1>type DEF ReviewsTypeOK
    <2>14. Reviewing' = Reviewing
      BY <2>1, <2>11, <2>12 DEF Reviewing
    <2>15. \A k \in ReviewKeys : posts'[k] = (IF k \in record' THEN 1 ELSE 0) /\ ReviewHolds(k)'
      BY <2>2 DEF ReviewsInv, ReviewHolds, Travelled
    <2>16. ASSUME NEW q \in Reviewing PROVE WriteHolds(reviewTx[q])'
      <3>1. WriteHolds(u)
        BY <2>3, <2>7, <2>11 DEF WriteHolds
      <3>2. WriteHolds(reviewTx'[q])
        BY <2>12, <3>1 DEF ReviewsInv, Reviewing
      <3> QED BY <2>2, <3>2 DEF WriteHolds, Travelled
    <2>17. ASSUME reviewsAlone, NEW q \in Reviewing PROVE NothingChanged(reviewTx[q])'
      <3>1. q = r /\ NothingChanged(t)
        BY <2>1, <2>2, <2>17 DEF ReviewsInv
      <3>2. Written(u) = Written(t)
        BY <2>11 DEF Written
      <3>3. NothingChanged(u)
        BY <2>11, <3>1, <3>2 DEF NothingChanged, c
      <3>4. reviewTx'[q] = u
        BY <2>12, <3>1
      <3>5. NothingChanged(reviewTx'[q])
        BY <3>3, <3>4
      <3> QED BY <2>2, <3>5, SMTT(30) DEF NothingChanged, ReviewsOf, Written, CountedPublished
    <2>18. RatingIsCurrent' /\ OneReviewPerAuthor'
      BY <2>2 DEF ReviewsInv, RatingIsCurrent, OneReviewPerAuthor
    <2>19. \A q \in ReviewRequests : reviewTx'[q].computed => q \in Reviewing'
      BY <2>2, <2>12, <2>14 DEF ReviewsInv
    <2> QED
      BY <2>2, <2>13, <2>14, <2>15, <2>16, <2>17, <2>18, <2>19 DEF ReviewsInv
  <1> DEFINE Ended(r) ==
                 /\ reviewTx' \in [ReviewRequests -> ReviewTxRows]
                 /\ \A q \in Reviewing' : q \in Reviewing /\ q # r /\ reviewTx'[q] = reviewTx[q]
                 /\ \A q \in ReviewRequests : reviewTx'[q].computed => q \in Reviewing'
                 /\ reviewsAlone => Reviewing' = {}
  <1>end. ASSUME NEW r \in Reviewing, reviewTx' = [reviewTx EXCEPT ![r] = NoReviewTx]
          PROVE  Ended(r)
    <2>1. /\ reviewTx' \in [ReviewRequests -> ReviewTxRows]
          /\ \A q \in ReviewRequests : reviewTx'[q] = IF q = r THEN NoReviewTx ELSE reviewTx[q]
      BY <1>end, <1>type, IdleReview DEF ReviewsTypeOK, Reviewing
    <2>2. \A q \in Reviewing' : q \in Reviewing /\ q # r /\ reviewTx'[q] = reviewTx[q]
      BY <2>1, IdleReview DEF Reviewing
    <2>3. \A q \in ReviewRequests : reviewTx'[q].computed => q \in Reviewing'
      BY <2>1, IdleReview DEF ReviewsInv, Reviewing
    <2> QED
      BY <2>1, <2>2, <2>3, <1>end DEF ReviewsInv
  <1> HIDE DEF Ended
  <1>7. ASSUME NEW r \in ReviewRequests, ReviewCommit(r) PROVE ReviewsInv'
    <2>1. PICK t \in ReviewTxRows : t = reviewTx[r]
      BY <1>type DEF ReviewsTypeOK
    <2>2. /\ t.computed /\ t.key \notin record /\ r \in ReviewRequests
          /\ review' = [review EXCEPT ![t.id] = Written(t)]
          /\ counted' = IF t.op = "report" THEN counted ELSE t.counted
          /\ record' = record \cup ({t.key} \cap ReviewKeys)
          /\ posts' = [k \in ReviewKeys |-> IF k = t.key THEN posts[k] + 1 ELSE posts[k]]
          /\ reviewTx' = [reviewTx EXCEPT ![r] = NoReviewTx]
          /\ UNCHANGED <<reviewsAlone, entity>>
      BY <1>7, <2>1 DEF ReviewCommit, KeyUnused
    <2>3. r \in Reviewing /\ WriteHolds(t)
      BY <2>1, <2>2 DEF ReviewsInv
    <2>e. Ended(r)
      BY <2>2, <2>3, <1>end
    <2>4. PICK id \in ReviewKeys : id = t.id
      BY <2>3 DEF WriteHolds
    <2>5. PICK w \in ReviewRows :
              /\ w = Written(t)
              /\ w.status = IF t.row.status = "NONE" THEN review[id].status ELSE t.row.status
              /\ w.by = IF t.row.by = "NONE" THEN review[id].by ELSE t.row.by
              /\ w.rating = IF t.row.rating = 0 THEN review[id].rating ELSE t.row.rating
      BY <2>4, <1>type, WrittenRow
    <2>6. /\ review' \in [ReviewKeys -> ReviewRows]
          /\ \A k \in ReviewKeys : review'[k] = IF k = id THEN w ELSE review[k]
      BY <2>2, <2>4, <2>5, <1>type DEF ReviewsTypeOK
    <2>7. /\ posts' \in [ReviewKeys -> Nat] /\ record' \in SUBSET ReviewKeys
          /\ \A k \in ReviewKeys : posts'[k] = IF k \in record' THEN 1 ELSE 0
      BY <2>2, <1>type DEF ReviewsInv, ReviewsTypeOK
    <2>8. counted' \in [ReviewKeys -> Nat]
      BY <2>2, <1>type DEF ReviewsTypeOK, ReviewTxRows
    <2>9. ReviewsTypeOK'
      BY <2>2, <2>6, <2>7, <2>8, <2>e, <1>type DEF ReviewsTypeOK, Ended
    <2>10. /\ w.by # "NONE" /\ w.status # "NONE" /\ Travelled(w.by)
           /\ t.row.status = "PUBLISHED" => id \in record'
           /\ review[id].by # "NONE" => id \in record'
      <3>1. /\ Travelled(t.row.by)
            /\ t.row.status = "PUBLISHED" => t.row.by # "NONE" /\ t.id = t.key
            /\ t.row.status # "PUBLISHED" => review[id].by # "NONE"
        BY <2>3, <2>4 DEF WriteHolds
      <3>2. ReviewHolds(id)
        BY DEF ReviewsInv
      <3>3. w.by # "NONE" /\ w.status # "NONE"
        BY <2>5, <3>1, <3>2 DEF ReviewHolds
      <3>4. Travelled(w.by)
        BY <2>5, <3>1, <3>2 DEF ReviewHolds, Travelled
      <3>5. t.row.status = "PUBLISHED" => id \in record'
        BY <2>2, <2>4, <3>1
      <3>6. review[id].by # "NONE" => id \in record'
        BY <2>2, <3>2 DEF ReviewHolds
      <3> QED BY <3>3, <3>4, <3>5, <3>6
    <2>11. id \in record'
      BY <2>3, <2>4, <2>10 DEF WriteHolds
    <2>12. \A k \in ReviewKeys : review[k].by # "NONE" => review'[k].by # "NONE"
      BY <2>6, <2>10
    <2>13. ASSUME NEW k \in ReviewKeys PROVE ReviewHolds(k)'
      <3>1. counted'[k] > 0 => review'[k].by # "NONE"
        <4>1. counted[k] > 0 => review[k].by # "NONE"
          BY DEF ReviewsInv, ReviewHolds
        <4>2. t.counted[k] > 0 => k = id \/ review[k].by # "NONE"
          BY <2>2, <2>3, <2>4 DEF WriteHolds
        <4> QED BY <2>2, <2>6, <2>10, <2>12, <4>1, <4>2
      <3>2. CASE k = id
        BY <2>2, <2>6, <2>10, <2>11, <3>1, <3>2 DEF ReviewHolds, Travelled
      <3>3. CASE k # id
        <4>1. review'[k] = review[k] /\ ReviewHolds(k) /\ record \subseteq record'
          BY <2>2, <2>6, <3>3 DEF ReviewsInv
        <4> QED BY <2>2, <3>1, <4>1 DEF ReviewHolds, Travelled
      <3> QED BY <3>2, <3>3
    <2>14. ASSUME NEW q \in Reviewing' PROVE WriteHolds(reviewTx[q])'
      <3>1. q \in Reviewing /\ reviewTx'[q] = reviewTx[q] /\ WriteHolds(reviewTx[q])
        BY <2>e DEF Ended, ReviewsInv
      <3>2. PICK u : u = reviewTx[q]
        OBVIOUS
      <3>3. /\ u.id \in ReviewKeys /\ Travelled(u.row.by)'
            /\ u.row.status = "PUBLISHED" => u.row.by # "NONE" /\ u.id = u.key
            /\ u.row.status # "PUBLISHED" => review'[u.id].by # "NONE"
            /\ u.computed => \A k \in ReviewKeys : u.counted[k] > 0 => k = u.id \/ review'[k].by # "NONE"
        BY <2>2, <2>12, <3>1, <3>2 DEF WriteHolds, Travelled
      <3> QED BY <2>2, <3>1, <3>2, <3>3 DEF WriteHolds, Travelled
    <2>15. ASSUME reviewsAlone PROVE RatingIsCurrent' /\ OneReviewPerAuthor'
      <3>1. /\ NothingChanged(t)
            /\ t.counted = CountedPublished(review')
        BY <2>1, <2>2, <2>3, <2>15 DEF ReviewsInv, NothingChanged
      <3>2. ASSUME NEW k \in ReviewKeys
            PROVE  /\ review'[k].status = "PUBLISHED" => counted'[k] = review'[k].rating
                   /\ review'[k].status \in {"NONE", "DELETED_BY_AUTHOR"} => counted'[k] = 0
        <4>1. CASE t.op = "report"
          <5>1. t.row.status = "UNDER_REVIEW" /\ counted' = counted
            BY <2>2, <3>1, <4>1 DEF NothingChanged
          <5>2. k = id => review'[k].status = "UNDER_REVIEW"
            BY <2>5, <2>6, <5>1
          <5>3. k # id => review'[k] = review[k]
            BY <2>6
          <5> QED BY <2>15, <5>1, <5>2, <5>3 DEF ReviewsInv, RatingIsCurrent
        <4>2. CASE t.op # "report"
          <5> DEFINE c == CountedPublished(review')
          <5>a. c[k] = IF review'[k].status = "PUBLISHED" THEN review'[k].rating ELSE 0
            BY <2>6, CountedRatings
          <5>b. counted' = c
            BY <2>2, <3>1, <4>2
          <5> HIDE DEF c
          <5>1. counted'[k] = IF review'[k].status = "PUBLISHED" THEN review'[k].rating ELSE 0
            BY <5>a, <5>b
          <5> QED BY <5>1
        <4> QED BY <4>1, <4>2
      <3>3. ASSUME NEW k \in ReviewKeys, NEW l \in ReviewKeys,
                   review'[k].status # "NONE", review'[k].by = review'[l].by
            PROVE  k = l
        <4>1. \A i, j \in ReviewKeys : review[i].by # "NONE" /\ review[i].by = review[j].by => i = j
          BY <2>15 DEF ReviewsInv, OneReviewPerAuthor, ReviewHolds
        <4>2. review'[k].by # "NONE" /\ review'[l].by # "NONE"
          BY <2>13, <3>3 DEF ReviewHolds
        <4>3. CASE t.row.status = "PUBLISHED"
          <5>1. \A i \in ReviewKeys : review[i].by # w.by
            BY <2>3, <2>5, <3>1, <4>3 DEF NothingChanged, WriteHolds, ReviewsOf
          <5> QED BY <2>6, <3>3, <4>1, <4>2, <5>1
        <4>4. CASE t.row.status # "PUBLISHED"
          <5>1. w.by = review[id].by
            BY <2>4, <2>5, <3>1, <4>4 DEF NothingChanged
          <5> QED BY <2>6, <3>3, <4>1, <4>2, <5>1
        <4> QED BY <4>3, <4>4
      <3> QED
        BY <3>2, <3>3 DEF RatingIsCurrent, OneReviewPerAuthor
    <2>16. RatingIsCurrent' /\ OneReviewPerAuthor'
      BY <2>2, <2>15 DEF RatingIsCurrent, OneReviewPerAuthor
    <2> QED
      BY <2>2, <2>7, <2>9, <2>13, <2>14, <2>16, <2>e DEF ReviewsInv, Ended
  <1>8. ASSUME NEW r \in ReviewRequests, ReviewFails(r) PROVE ReviewsInv'
    <2>1. /\ r \in Reviewing /\ reviewTx' = [reviewTx EXCEPT ![r] = NoReviewTx]
          /\ UNCHANGED <<review, record, counted, reviewsAlone, posts, entity>>
      BY <1>8 DEF ReviewFails, Reviewing
    <2>e. Ended(r)
      BY <2>1, <1>end
    <2>2. ReviewsTypeOK'
      BY <2>1, <2>e, <1>type DEF ReviewsTypeOK, Ended
    <2>3. \A k \in ReviewKeys : posts'[k] = (IF k \in record' THEN 1 ELSE 0) /\ ReviewHolds(k)'
      BY <2>1 DEF ReviewsInv, ReviewHolds, Travelled
    <2>4. ASSUME NEW q \in Reviewing' PROVE WriteHolds(reviewTx[q])'
      <3>1. WriteHolds(reviewTx'[q])
        BY <2>e DEF Ended, ReviewsInv
      <3> QED BY <2>1, <3>1 DEF WriteHolds, Travelled
    <2>5. RatingIsCurrent' /\ OneReviewPerAuthor'
      BY <2>1 DEF ReviewsInv, RatingIsCurrent, OneReviewPerAuthor
    <2> QED
      BY <2>1, <2>2, <2>3, <2>4, <2>5, <2>e DEF ReviewsInv, Ended
  <1>9. CASE UNCHANGED reviewVars
    <2>1. UNCHANGED <<review, record, counted, reviewTx, reviewsAlone, posts, entity>>
      BY <1>9 DEF reviewVars
    <2>2. ReviewsTypeOK' /\ Reviewing' = Reviewing
      BY <2>1, <1>type DEF ReviewsTypeOK, Reviewing
    <2>3. \A k \in ReviewKeys : posts'[k] = (IF k \in record' THEN 1 ELSE 0) /\ ReviewHolds(k)'
      BY <2>1 DEF ReviewsInv, ReviewHolds, Travelled
    <2>4. ASSUME NEW q \in Reviewing PROVE WriteHolds(reviewTx[q])'
      BY <2>1 DEF WriteHolds, Travelled, ReviewsInv
    <2>5. ASSUME reviewsAlone, NEW q \in Reviewing PROVE NothingChanged(reviewTx[q])'
      BY <2>1, <2>5 DEF ReviewsInv, NothingChanged, ReviewsOf, Written, CountedPublished
    <2>6. RatingIsCurrent' /\ OneReviewPerAuthor'
      BY <2>1 DEF ReviewsInv, RatingIsCurrent, OneReviewPerAuthor
    <2> QED
      BY <2>1, <2>2, <2>3, <2>4, <2>5, <2>6 DEF ReviewsInv
  <1> QED
    BY <1>1, <1>2, <1>3, <1>5, <1>6, <1>7, <1>8, <1>9 DEF ReviewsNext

\* A rating is earned, current, and counted once.
LEMMA ReviewsEarned == ReviewsInv => RatingsAreEarned
  <1> SUFFICES ASSUME ReviewsInv PROVE RatingsAreEarned
    OBVIOUS
  <1>1. PostedOnce
    BY DEF ReviewsInv, PostedOnce
  <1>2. RatedAfterTravel
    BY DEF ReviewsInv, ReviewsTypeOK, ReviewRows, RatedAfterTravel, ReviewHolds, Travelled
  <1> QED
    BY <1>1, <1>2 DEF ReviewsInv, RatingsAreEarned

-----------------------------------------------------------------------------
(* Rewards. A reward exists exactly if it was granted once and was          *)
(* evaluated; a milestone that counts as reached has its bonus, or the      *)
(* transaction that reaches it will create it. The transaction that holds   *)
(* the milestone's definition is the only one, and what it will write is    *)
(* still missing.                                                           *)

RewardStatuses == {"NONE", "CONFIRMED", "PENDING_REVIEW", "REJECTED"}
Evaluations == {"NONE", "AUTO_APPROVED", "APPROVED", "PENDING_REVIEW", "REJECTED"}
Qualifying == {r \in RewardRequests : rewardTx[r] # NoRewardTx}

RewardsTypeOK ==
    /\ reward \in [RewardSources -> RewardStatuses]
    /\ evaluation \in [RewardSources -> Evaluations]
    /\ grants \in [RewardSources -> Nat]
    /\ rewardTx = [r \in RewardRequests |-> rewardTx[r]]

\* A source is rewarded once, and its evaluation agrees.
SourceAgrees(s) ==
    /\ grants[s] = IF reward[s] = "NONE" THEN 0 ELSE 1
    /\ reward[s] = "NONE" <=> evaluation[s] = "NONE"
    /\ reward[s] = "CONFIRMED" <=> evaluation[s] \in {"AUTO_APPROVED", "APPROVED"}
    /\ reward[s] = "REJECTED" <=> evaluation[s] = "REJECTED"

\* No ticket of a trip was reviewed.
Unreviewed == \A t \in RewardTrips : evaluation[t] \notin {"APPROVED", "REJECTED"}
ConfirmedNow == {t \in RewardTrips : reward[t] = "CONFIRMED"}

\* The bonus of a milestone that was reached exists, or x will create it.
Bonus(m, created) == /\ m.status = "REACHED" => m.linked
                     /\ m.linked => reward["milestone"] # "NONE" \/ "milestone" \in created

\* What holds of a transaction's writes, and of the one that holds the definition.
GrantsHold(x) ==
    /\ {"granted", "milestone"} \subseteq DOMAIN x
    /\ DOMAIN x.granted \subseteq RewardSources
    /\ \A s \in DOMAIN x.granted : x.granted[s] \in ReferralFraud
ProgressHolds(x) ==
    /\ Bonus(x.milestone, DOMAIN x.granted)
    /\ SourcesUnused(DOMAIN x.granted)
    /\ Unreviewed => x.milestone.count = Cardinality(ConfirmedTrips(x.granted))

RewardsInv ==
    /\ RewardsTypeOK
    /\ \A s \in RewardSources : SourceAgrees(s)
    /\ Bonus(milestone, {})
    /\ Unreviewed => milestone.count = Cardinality(ConfirmedNow)
    /\ \A r \in Qualifying : GrantsHold(rewardTx[r])
    /\ \A r \in Qualifying : rewardTx[r].milestone # NoProgress =>
           /\ ProgressHolds(rewardTx[r])
           /\ \A q \in Qualifying : rewardTx[q].milestone # NoProgress => q = r

\* The sources without a reward yet that x rewards.
SourceTypes ==
    /\ RewardTrips \subseteq RewardSources
    /\ "referral" \in RewardSources /\ "milestone" \in RewardSources
    /\ "referral" \notin RewardTrips /\ "milestone" \notin RewardTrips

\* The sources of rewards are apart.
LEMMA RewardSourcesTyped == SourceTypes
  BY RewardTripsAssumption DEF SourceTypes, RewardSources

\* The reward that an evaluation gives agrees with it.
LEMMA FraudStatusTyped ==
    ASSUME NEW f \in ReferralFraud
    PROVE  /\ rewardStatusForFraudStatus[f] \in {"CONFIRMED", "PENDING_REVIEW", "REJECTED"}
           /\ rewardStatusForFraudStatus[f] = "CONFIRMED" <=> f = "AUTO_APPROVED"
           /\ rewardStatusForFraudStatus[f] = "REJECTED" <=> f = "REJECTED"
           /\ f \in Evaluations \ {"NONE", "APPROVED"}
  BY DEF ReferralFraud, TripFraud, rewardStatusForFraudStatus, Evaluations

\* The invariant holds before a trip is completed.
LEMMA RewardsStart == RewardsInit => RewardsInv
  <1> SUFFICES ASSUME RewardsInit PROVE RewardsInv
    OBVIOUS
  <1>1. RewardsTypeOK
    BY DEF RewardsInit, RewardsTypeOK, RewardStatuses, Evaluations
  <1>2. \A s \in RewardSources : SourceAgrees(s)
    BY DEF RewardsInit, SourceAgrees
  <1>3. Bonus(milestone, {}) /\ milestone.count = 0
    BY DEF RewardsInit, Bonus
  <1>4. ConfirmedNow = {} /\ Qualifying = {}
    BY RewardSourcesTyped DEF SourceTypes, RewardsInit, ConfirmedNow, Qualifying
  <1> QED
    BY <1>1, <1>2, <1>3, <1>4, FS_EmptySet DEF RewardsInv

\* Every step keeps it.
LEMMA RewardsStep == RewardsInv /\ [RewardsNext]_rewardVars => RewardsInv'
  <1> SUFFICES ASSUME RewardsInv, [RewardsNext]_rewardVars PROVE RewardsInv'
    OBVIOUS
  <1>type. RewardsTypeOK
    BY DEF RewardsInv
  <1>src. SourceTypes
    BY RewardSourcesTyped
  <1> DEFINE Rows == <<reward, evaluation, grants, milestone>>
             \* What the tables say is the same again.
             TablesKept ==
                 /\ \A s \in RewardSources : SourceAgrees(s)'
                 /\ Bonus(milestone, {})'
                 /\ (Unreviewed => milestone.count = Cardinality(ConfirmedNow))'
  <1>same. ASSUME UNCHANGED Rows
           PROVE  /\ TablesKept
                  /\ \A x : GrantsHold(x) => GrantsHold(x)'
                  /\ \A x : ProgressHolds(x) => ProgressHolds(x)'
    <2>1. TablesKept
      BY <1>same DEF RewardsInv, SourceAgrees, Bonus, Unreviewed, ConfirmedNow
    <2>2. ASSUME NEW x, ProgressHolds(x) PROVE ProgressHolds(x)'
      BY <1>same, <2>2 DEF ProgressHolds, Bonus, SourcesUnused, Unreviewed, ConfirmedTrips
    <2> QED
      BY <2>1, <2>2 DEF GrantsHold
  <1> HIDE DEF Rows, TablesKept
  <1>1. ASSUME NEW r \in RewardRequests, NEW t \in RewardTrips, NEW checked \in TripFraud,
               NEW referred \in ReferralFraud \cup {"NONE"}, QualifyBegin(r, t, checked, referred)
        PROVE  RewardsInv'
    <2> DEFINE sources == {t} \cup (IF referred = "NONE" THEN {} ELSE {"referral"})
               new == {s \in sources : reward[s] = "NONE"}
               g == [s \in new |-> IF s = t THEN checked ELSE referred]
               x == [trip |-> t, granted |-> g,
                     referral |-> IF referred = "NONE" THEN "NONE"
                                  ELSE referralStatusFor[StatusOf("referral", referred)],
                     milestone |-> NoProgress]
    <2>1. /\ rewardTx[r] = NoRewardTx /\ rewardTx' = [rewardTx EXCEPT ![r] = x]
          /\ UNCHANGED <<reward, evaluation, grants, referral, milestone, rewardedTrips>>
      BY <1>1 DEF QualifyBegin
    <2>2. /\ x.granted = g /\ x.milestone = NoProgress
          /\ {"granted", "milestone"} \subseteq DOMAIN x
      OBVIOUS
    <2>3. new \subseteq RewardSources /\ DOMAIN g = new
      BY <1>src DEF SourceTypes
    <2>4. \A s \in new : g[s] \in ReferralFraud
      BY DEF ReferralFraud, TripFraud
    <2> HIDE DEF x, g, new
    <2>5. GrantsHold(x)
      BY <2>2, <2>3, <2>4 DEF GrantsHold
    <2>6. /\ \A q \in RewardRequests : rewardTx'[q] = IF q = r THEN x ELSE rewardTx[q]
          /\ RewardsTypeOK'
      BY <2>1, <1>type DEF RewardsTypeOK
    <2>7. UNCHANGED Rows
      BY <2>1 DEF Rows
    <2>8. Qualifying' \subseteq Qualifying \cup {r}
      BY <2>6 DEF Qualifying
    <2>9. ASSUME NEW q \in Qualifying' PROVE GrantsHold(rewardTx[q])'
      <3>1. GrantsHold(rewardTx'[q])
        BY <2>5, <2>6, <2>8 DEF RewardsInv, Qualifying
      <3> QED BY <3>1 DEF GrantsHold
    <2>10. ASSUME NEW q \in Qualifying', rewardTx'[q].milestone # NoProgress
           PROVE  q \in Qualifying /\ rewardTx'[q] = rewardTx[q]
      BY <2>2, <2>6, <2>8, <2>10 DEF Qualifying
    <2>11. ASSUME NEW q \in Qualifying', rewardTx'[q].milestone # NoProgress
           PROVE  ProgressHolds(rewardTx[q])'
      <3>1. PICK z : z = rewardTx[q] /\ z = rewardTx'[q]
        BY <2>10, <2>11
      <3>2. ProgressHolds(z)
        BY <2>10, <2>11, <3>1 DEF RewardsInv
      <3>3. ProgressHolds(z)'
        BY <2>7, <3>2, <1>same
      <3> QED BY <3>1, <3>3 DEF ProgressHolds, Bonus, SourcesUnused, ConfirmedTrips
    <2> QED
      BY <2>6, <2>7, <2>9, <2>10, <2>11, <1>same DEF RewardsInv, TablesKept
  <1>2. ASSUME NEW r \in RewardRequests, QualifyMilestone(r) PROVE RewardsInv'
    <2>1. PICK x : x = rewardTx[r]
      OBVIOUS
    <2> DEFINE count == Cardinality(ConfirmedTrips(x.granted))
               bonus == {s \in {"milestone"} : BonusDue(count) /\ reward[s] = "NONE"}
               new == DOMAIN x.granted \cup bonus
               g == [s \in new |-> IF s \in bonus THEN "AUTO_APPROVED" ELSE x.granted[s]]
               m == [count |-> count, status |-> IF Reached(count) THEN "REACHED" ELSE "IN_PROGRESS",
                     linked |-> milestone.linked \/ BonusDue(count)]
               y == [x EXCEPT !.granted = g, !.milestone = m]
    <2>2. /\ r \in Qualifying /\ x.milestone = NoProgress /\ DefinitionFree
          /\ SourcesUnused(DOMAIN x.granted)
          /\ rewardTx' = [rewardTx EXCEPT ![r] = y]
          /\ UNCHANGED <<reward, evaluation, grants, referral, milestone, rewardedTrips>>
      BY <1>2, <2>1 DEF QualifyMilestone, Qualifying
    <2>3. GrantsHold(x)
      BY <2>1, <2>2 DEF RewardsInv
    <2>4. DOMAIN g = new /\ new \subseteq RewardSources /\ \A s \in new : g[s] \in ReferralFraud
      BY <2>3, <1>src DEF GrantsHold, SourceTypes, ReferralFraud, TripFraud
    <2>5. SourcesUnused(new)
      BY <2>2 DEF SourcesUnused
    <2>6. Bonus(m, new)
      <3>1. BonusDue(count) => "milestone" \in new \/ reward["milestone"] # "NONE"
        OBVIOUS
      <3>2. m.linked <=> (milestone.linked \/ BonusDue(count))
        BY Zenon
      <3>3. m.status = "REACHED" => Reached(count)
        OBVIOUS
      <3>4. Reached(count) => milestone.linked \/ BonusDue(count)
        BY DEF BonusDue
      <3>5. milestone.linked => reward["milestone"] # "NONE"
        BY DEF RewardsInv, Bonus
      <3> HIDE DEF m, new
      <3> QED BY <3>1, <3>2, <3>3, <3>4, <3>5 DEF Bonus
    <2>7. ConfirmedTrips(g) = ConfirmedTrips(x.granted)
      <3>1. \A u \in RewardTrips : /\ u \in new <=> u \in DOMAIN x.granted
                                   /\ u \in new => g[u] = x.granted[u]
        BY <1>src DEF SourceTypes
      <3> HIDE DEF new, g
      <3> QED BY <2>4, <3>1 DEF ConfirmedTrips
    <2>8. m.count = count /\ m # NoProgress
      BY DEF NoProgress
    <2>9. /\ \A q \in RewardRequests : q # r => rewardTx'[q] = rewardTx[q]
          /\ rewardTx'[r] = y /\ RewardsTypeOK'
      <3> HIDE DEF y
      <3> QED BY <2>1, <2>2, <1>type DEF RewardsTypeOK, Qualifying
    <2>10. /\ y.granted = g /\ y.milestone = m
           /\ {"granted", "milestone"} \subseteq DOMAIN y
      <3> HIDE DEF g, m
      <3> QED BY <2>3 DEF GrantsHold
    <2> HIDE DEF y, m, g, new, bonus
    <2>11. GrantsHold(y)
      BY <2>4, <2>10 DEF GrantsHold
    <2>12. ProgressHolds(y)
      <3>1. y.milestone.count = Cardinality(ConfirmedTrips(y.granted))
        BY <2>7, <2>8, <2>10
      <3> QED BY <2>4, <2>5, <2>6, <2>10, <3>1 DEF ProgressHolds
    <2>13. UNCHANGED Rows
      BY <2>2 DEF Rows
    <2>14. Qualifying' \subseteq Qualifying
      BY <2>2, <2>9 DEF Qualifying
    <2>15. ASSUME NEW q \in Qualifying' PROVE GrantsHold(rewardTx[q])'
      <3>1. GrantsHold(rewardTx'[q])
        BY <2>9, <2>11, <2>14 DEF RewardsInv, Qualifying
      <3> QED BY <3>1 DEF GrantsHold
    <2>16. ASSUME NEW q \in Qualifying', rewardTx'[q].milestone # NoProgress
           PROVE  q = r
      BY <2>2, <2>9, <2>14, <2>16 DEF DefinitionFree, Qualifying
    <2>17. ProgressHolds(rewardTx[r])'
      <3>1. PICK z : z = y
        OBVIOUS
      <3>2. z = rewardTx'[r] /\ ProgressHolds(z)
        BY <2>9, <2>12, <3>1
      <3>3. ProgressHolds(z)'
        BY <2>13, <3>2, <1>same
      <3> QED BY <3>2, <3>3 DEF ProgressHolds, Bonus, SourcesUnused, ConfirmedTrips
    <2> QED
      BY <2>9, <2>13, <2>15, <2>16, <2>17, <1>same DEF RewardsInv, TablesKept
  <1> DEFINE Ended(r) ==
                 /\ rewardTx' = [q \in RewardRequests |-> rewardTx'[q]]
                 /\ \A q \in RewardRequests : rewardTx'[q] = IF q = r THEN NoRewardTx ELSE rewardTx[q]
                 /\ Qualifying' = Qualifying \ {r}
  <1>end. ASSUME NEW r \in Qualifying, rewardTx' = [rewardTx EXCEPT ![r] = NoRewardTx]
          PROVE  Ended(r)
    <2>1. /\ \A q \in RewardRequests : rewardTx'[q] = IF q = r THEN NoRewardTx ELSE rewardTx[q]
          /\ rewardTx' = [q \in RewardRequests |-> rewardTx'[q]]
      BY <1>end, <1>type DEF RewardsTypeOK, Qualifying
    <2>2. Qualifying' = Qualifying \ {r}
      BY <2>1 DEF Qualifying
    <2> QED
      BY <2>1, <2>2
  <1> HIDE DEF Ended
  <1>3. ASSUME NEW r \in RewardRequests, QualifyCommit(r) PROVE RewardsInv'
    <2>1. PICK x : x = rewardTx[r]
      OBVIOUS
    <2> DEFINE new == DOMAIN x.granted
    <2>2. /\ r \in Qualifying /\ x.milestone # NoProgress
          /\ rewardTx' = [rewardTx EXCEPT ![r] = NoRewardTx]
          /\ reward' = [s \in RewardSources |->
                 IF s \in new THEN rewardStatusForFraudStatus[x.granted[s]] ELSE reward[s]]
          /\ evaluation' = [s \in RewardSources |-> IF s \in new THEN x.granted[s] ELSE evaluation[s]]
          /\ grants' = [s \in RewardSources |-> IF s \in new THEN grants[s] + 1 ELSE grants[s]]
          /\ milestone' = x.milestone
      BY <1>3, <2>1 DEF QualifyCommit, Qualifying
    <2>e. Ended(r)
      BY <2>2, <1>end
    <2>3. GrantsHold(x) /\ ProgressHolds(x)
      BY <2>1, <2>2 DEF RewardsInv
    <2>4. /\ new \subseteq RewardSources /\ \A s \in new : x.granted[s] \in ReferralFraud
          /\ \A s \in new : reward[s] = "NONE"
      BY <2>3 DEF GrantsHold, ProgressHolds, SourcesUnused
    <2>5. \A s \in RewardSources :
              /\ s \in new => /\ reward'[s] = rewardStatusForFraudStatus[x.granted[s]]
                              /\ evaluation'[s] = x.granted[s]
                              /\ reward[s] = "NONE" /\ grants'[s] = grants[s] + 1
              /\ s \notin new => /\ reward'[s] = reward[s] /\ evaluation'[s] = evaluation[s]
                                 /\ grants'[s] = grants[s]
      BY <2>2, <2>4
    <2> HIDE DEF new
    <2>6. RewardsTypeOK'
      <3>1. reward' \in [RewardSources -> RewardStatuses]
        BY <2>2, <2>4, <1>type, FraudStatusTyped DEF RewardsTypeOK, RewardStatuses
      <3>2. evaluation' \in [RewardSources -> Evaluations]
        BY <2>2, <2>4, <1>type, FraudStatusTyped DEF RewardsTypeOK
      <3>3. grants' \in [RewardSources -> Nat]
        BY <2>2, <1>type DEF RewardsTypeOK
      <3> QED BY <2>2, <2>e, <3>1, <3>2, <3>3, <1>type DEF RewardsTypeOK, Ended
    <2>7. ASSUME NEW s \in RewardSources PROVE SourceAgrees(s)'
      <3>1. SourceAgrees(s) /\ grants[s] \in Nat
        BY <1>type DEF RewardsInv, RewardsTypeOK
      <3>2. CASE s \in new
        BY <2>4, <2>5, <3>1, <3>2, FraudStatusTyped DEF SourceAgrees, Evaluations
      <3>3. CASE s \notin new
        BY <2>5, <3>1, <3>3 DEF SourceAgrees
      <3> QED BY <3>2, <3>3
    <2>8. \A s \in RewardSources : reward[s] # "NONE" \/ s \in new => reward'[s] # "NONE"
      BY <2>4, <2>5, FraudStatusTyped
    <2>9. Bonus(milestone, {})'
      <3>1. Bonus(x.milestone, new)
        BY <2>3 DEF ProgressHolds, new
      <3> QED BY <2>2, <2>8, <3>1, <1>src DEF Bonus, SourceTypes
    <2>10. ASSUME NEW q \in Qualifying'
           PROVE  GrantsHold(rewardTx[q])' /\ rewardTx'[q].milestone = NoProgress
      <3>1. q \in Qualifying /\ q # r /\ rewardTx'[q] = rewardTx[q]
        BY <2>e DEF Ended, Qualifying
      <3>2. GrantsHold(rewardTx[q]) /\ rewardTx[q].milestone = NoProgress
        BY <2>1, <2>2, <3>1 DEF RewardsInv
      <3> QED BY <3>1, <3>2 DEF GrantsHold
    <2>11. ASSUME Unreviewed' PROVE milestone'.count = Cardinality(ConfirmedNow')
      <3>1. Unreviewed
        <4> SUFFICES ASSUME NEW t \in RewardTrips PROVE evaluation[t] \notin {"APPROVED", "REJECTED"}
          BY DEF Unreviewed
        <4>1. t \in RewardSources /\ evaluation'[t] \notin {"APPROVED", "REJECTED"}
          BY <2>11, <1>src DEF Unreviewed, SourceTypes
        <4>2. reward[t] = "NONE" <=> evaluation[t] = "NONE"
          BY <4>1 DEF RewardsInv, SourceAgrees
        <4> QED BY <2>5, <4>1, <4>2
      <3>2. x.milestone.count = Cardinality(ConfirmedTrips(x.granted))
        BY <2>3, <3>1 DEF ProgressHolds
      <3>3. ConfirmedNow' = ConfirmedTrips(x.granted)
        BY <2>5, <1>src DEF ConfirmedNow, ConfirmedTrips, SourceTypes, new
      <3> QED BY <2>2, <3>2, <3>3
    <2> QED
      BY <2>6, <2>7, <2>9, <2>10, <2>11 DEF RewardsInv
  <1>4. ASSUME NEW r \in RewardRequests, QualifyFails(r) PROVE RewardsInv'
    <2>1. /\ r \in Qualifying /\ rewardTx' = [rewardTx EXCEPT ![r] = NoRewardTx]
          /\ UNCHANGED <<reward, evaluation, grants, milestone>>
      BY <1>4 DEF QualifyFails, Qualifying
    <2>e. Ended(r)
      BY <2>1, <1>end
    <2>2. RewardsTypeOK' /\ UNCHANGED Rows
      BY <2>1, <2>e, <1>type DEF RewardsTypeOK, Ended, Rows
    <2>3. ASSUME NEW q \in Qualifying'
          PROVE  /\ q \in Qualifying /\ rewardTx'[q] = rewardTx[q]
                 /\ GrantsHold(rewardTx[q])'
                 /\ ProgressHolds(rewardTx[q]) => ProgressHolds(rewardTx[q])'
      <3>1. q \in Qualifying /\ rewardTx'[q] = rewardTx[q]
        BY <2>e DEF Ended, Qualifying
      <3>2. PICK z : z = rewardTx[q] /\ z = rewardTx'[q]
        BY <3>1
      <3>3. GrantsHold(rewardTx[q])'
        BY <3>1 DEF RewardsInv, GrantsHold
      <3>4. ASSUME ProgressHolds(rewardTx[q]) PROVE ProgressHolds(rewardTx[q])'
        <4>1. ProgressHolds(z)'
          BY <2>2, <3>2, <3>4, <1>same
        <4> QED BY <3>2, <4>1 DEF ProgressHolds, Bonus, SourcesUnused, ConfirmedTrips
      <3> QED BY <3>1, <3>3, <3>4
    <2> QED
      BY <2>2, <2>3, <1>same DEF RewardsInv, TablesKept
  <1>5. ASSUME NEW s \in RewardSources, NEW approve \in BOOLEAN, ReviewReward(s, approve)
        PROVE  RewardsInv'
    <2> DEFINE given == IF approve THEN "CONFIRMED" ELSE "REJECTED"
               decided == IF approve THEN "APPROVED" ELSE "REJECTED"
    <2>1. /\ reward[s] # "NONE" /\ reward' = [reward EXCEPT ![s] = given]
          /\ evaluation' = [evaluation EXCEPT ![s] = decided]
          /\ UNCHANGED <<grants, milestone, rewardTx>>
      BY <1>5 DEF ReviewReward, Reviewed
    <2>2. /\ given \in RewardStatuses \ {"NONE"} /\ decided \in Evaluations \ {"NONE"}
          /\ given = "CONFIRMED" <=> decided \in {"AUTO_APPROVED", "APPROVED"}
          /\ given = "REJECTED" <=> decided = "REJECTED"
          /\ decided \in {"APPROVED", "REJECTED"}
      BY DEF RewardStatuses, Evaluations
    <2> HIDE DEF given, decided
    <2>3. /\ \A u \in RewardSources : reward'[u] = IF u = s THEN given ELSE reward[u]
          /\ \A u \in RewardSources : evaluation'[u] = IF u = s THEN decided ELSE evaluation[u]
          /\ reward' \in [RewardSources -> RewardStatuses]
          /\ evaluation' \in [RewardSources -> Evaluations]
      BY <2>1, <2>2, <1>type DEF RewardsTypeOK
    <2>4. RewardsTypeOK'
      BY <2>1, <2>3, <1>type DEF RewardsTypeOK
    <2>5. \A u \in RewardSources : SourceAgrees(u)'
      BY <2>1, <2>2, <2>3 DEF RewardsInv, SourceAgrees
    <2>6. \A u \in RewardSources : reward[u] = "NONE" <=> reward'[u] = "NONE"
      BY <2>1, <2>2, <2>3
    <2>7. Bonus(milestone, {})' /\ Qualifying' = Qualifying
      BY <2>1, <2>6, <1>src DEF RewardsInv, Bonus, Qualifying, SourceTypes
    <2>8. ASSUME Unreviewed'
          PROVE  Unreviewed /\ \A t \in RewardTrips : reward'[t] = reward[t]
      <3>1. s \notin RewardTrips
        BY <2>2, <2>3, <2>8 DEF Unreviewed
      <3>2. \A t \in RewardTrips : reward'[t] = reward[t] /\ evaluation'[t] = evaluation[t]
        BY <2>3, <3>1, <1>src DEF SourceTypes
      <3> QED BY <2>8, <3>2 DEF Unreviewed
    <2>9. (Unreviewed => milestone.count = Cardinality(ConfirmedNow))'
      <3> SUFFICES ASSUME Unreviewed' PROVE milestone'.count = Cardinality(ConfirmedNow')
        OBVIOUS
      <3>1. Unreviewed /\ ConfirmedNow' = ConfirmedNow
        BY <2>8 DEF ConfirmedNow
      <3> QED BY <2>1, <3>1 DEF RewardsInv
    <2>10. ASSUME NEW q \in Qualifying PROVE GrantsHold(rewardTx[q])'
      BY <2>1 DEF RewardsInv, GrantsHold
    <2>11. ASSUME NEW q \in Qualifying, ProgressHolds(rewardTx[q])
           PROVE  ProgressHolds(rewardTx[q])'
      <3>1. PICK x : x = rewardTx[q] /\ x = rewardTx'[q]
        BY <2>1
      <3>2. DOMAIN x.granted \subseteq RewardSources
        BY <3>1 DEF RewardsInv, GrantsHold
      <3>3. Bonus(x.milestone, DOMAIN x.granted)'
        BY <2>6, <2>11, <3>1, <1>src DEF ProgressHolds, Bonus, SourceTypes
      <3>4. SourcesUnused(DOMAIN x.granted)'
        BY <2>6, <2>11, <3>1, <3>2 DEF ProgressHolds, SourcesUnused
      <3>5. ASSUME Unreviewed' PROVE x.milestone.count = Cardinality(ConfirmedTrips(x.granted)')
        <4>1. ConfirmedTrips(x.granted)' = ConfirmedTrips(x.granted)
          BY <2>8, <3>5 DEF ConfirmedTrips
        <4> QED BY <2>8, <2>11, <3>1, <3>5, <4>1 DEF ProgressHolds
      <3>6. ProgressHolds(x)'
        BY <3>3, <3>4, <3>5 DEF ProgressHolds
      <3> QED BY <3>1, <3>3, <3>4, <3>5 DEF ProgressHolds, Bonus, SourcesUnused, ConfirmedTrips
    <2> QED
      BY <2>1, <2>4, <2>5, <2>7, <2>9, <2>10, <2>11 DEF RewardsInv
  <1>6. CASE RegisterReferral \/ UNCHANGED rewardVars
    <2>1. UNCHANGED <<reward, evaluation, grants, milestone, rewardTx>>
      BY <1>6 DEF RegisterReferral, rewardVars
    <2>2. RewardsTypeOK' /\ UNCHANGED Rows /\ Qualifying' = Qualifying
      BY <2>1, <1>type DEF RewardsTypeOK, Rows, Qualifying
    <2>3. ASSUME NEW q \in Qualifying
          PROVE  /\ GrantsHold(rewardTx[q])'
                 /\ ProgressHolds(rewardTx[q]) => ProgressHolds(rewardTx[q])'
      BY <2>1 DEF RewardsInv, GrantsHold, ProgressHolds, Bonus, SourcesUnused, ConfirmedTrips, Unreviewed
    <2> QED
      BY <2>1, <2>2, <2>3, <1>same DEF RewardsInv, TablesKept
  <1> QED
    BY <1>1, <1>2, <1>3, <1>4, <1>5, <1>6 DEF RewardsNext

\* Rewards, evaluations and progress agree.
LEMMA RewardsAdded == RewardsInv => RewardsAddUp
  <1> SUFFICES ASSUME RewardsInv PROVE RewardsAddUp
    OBVIOUS
  <1>1. RewardedOnce /\ EvaluationAgrees
    BY DEF RewardsInv, RewardedOnce, EvaluationAgrees, SourceAgrees
  <1>2. MilestoneHasBonus
    <2>1. milestone.status = "REACHED" => reward["milestone"] # "NONE"
      BY DEF RewardsInv, Bonus
    <2> QED BY <2>1 DEF RewardsInv, MilestoneHasBonus, Unreviewed, ConfirmedNow
  <1> QED
    BY <1>1, <1>2 DEF RewardsAddUp

-----------------------------------------------------------------------------
(* Cities, routes and the trip between them. What holds of the trip holds   *)
(* of the one that the driver's request is about to write.                  *)

DraftRows == [status : {"NONE", "DRAFT", "PUBLISHED", "UNPUBLISHED"}, route : RouteIds \cup {"NONE"},
              from : CityIds \cup {"NONE"}, to : CityIds \cup {"NONE"}]
RouteRows == [from : CityIds \cup {"NONE"}, to : CityIds \cup {"NONE"}, isActive : BOOLEAN]

CatalogueTypeOK ==
    /\ city \in [CityIds -> {"NONE", "ACTIVE", "INACTIVE"}]
    /\ route \in [RouteIds -> RouteRows]
    /\ journeyTrip \in DraftRows
    /\ drafting \in [op : {"idle", "draft", "publish", "unpublish"}, trip : DraftRows]
    /\ closed \in BOOLEAN /\ rerouted \in BOOLEAN

\* The trip, also the one that the driver's request will write.
DraftHolds(t) ==
    /\ t.status = "PUBLISHED" =>
           /\ t.from \in CityIds /\ t.to \in CityIds /\ t.from # t.to /\ t.route \in RouteIds
           /\ ~closed => city[t.from] = "ACTIVE" /\ city[t.to] = "ACTIVE" /\ route[t.route].isActive
    /\ t.route # "NONE" /\ ~rerouted =>
           route[t.route] # NoRoute /\ route[t.route].from = t.from /\ route[t.route].to = t.to

CatalogueInv ==
    /\ CatalogueTypeOK
    /\ DraftHolds(journeyTrip) /\ DraftHolds(drafting.trip)

\* The invariant holds before there is a city.
LEMMA CatalogueStart == CatalogueInit => CatalogueInv
  <1> SUFFICES ASSUME CatalogueInit PROVE CatalogueInv
    OBVIOUS
  <1> USE DEF CatalogueInit
  <1>1. NoRoute \in RouteRows /\ Undrafted \in DraftRows
    BY DEF NoRoute, RouteRows, Undrafted, DraftRows
  <1>2. /\ city \in [CityIds -> {"NONE", "ACTIVE", "INACTIVE"}] /\ route \in [RouteIds -> RouteRows]
        /\ closed \in BOOLEAN /\ rerouted \in BOOLEAN
    BY <1>1
  <1>3. drafting \in [op : {"idle", "draft", "publish", "unpublish"}, trip : DraftRows]
        /\ drafting.trip = Undrafted /\ journeyTrip = Undrafted
    BY <1>1 DEF NoDraft
  <1>4. DraftHolds(Undrafted)
    BY DEF DraftHolds, Undrafted
  <1> QED
    BY <1>1, <1>2, <1>3, <1>4 DEF CatalogueInv, CatalogueTypeOK

\* Every step keeps it.
LEMMA CatalogueStep == CatalogueInv /\ [CatalogueNext]_catalogueVars => CatalogueInv'
  <1> SUFFICES ASSUME CatalogueInv, [CatalogueNext]_catalogueVars PROVE CatalogueInv'
    OBVIOUS
  <1> USE IdsAssumption
  <1>type. CatalogueTypeOK /\ DraftHolds(journeyTrip) /\ DraftHolds(drafting.trip)
    BY DEF CatalogueInv
  <1>rows. /\ journeyTrip \in DraftRows /\ drafting.trip \in DraftRows
           /\ \A t \in DraftRows : /\ t.route \in RouteIds \cup {"NONE"}
                                   /\ t.from \in CityIds \cup {"NONE"} /\ t.to \in CityIds \cup {"NONE"}
    BY <1>type DEF CatalogueTypeOK, DraftRows
  <1>1. ASSUME NEW c \in CityIds, CreateCity(c) PROVE CatalogueInv'
    <2>1. /\ city' \in [CityIds -> {"NONE", "ACTIVE", "INACTIVE"}]
          /\ \A d \in CityIds : city[d] = "ACTIVE" => city'[d] = "ACTIVE"
      BY <1>1, <1>type DEF CreateCity, CatalogueTypeOK
    <2> QED
      BY <1>1, <2>1, <1>type, <1>rows DEF CreateCity, CatalogueInv, CatalogueTypeOK, DraftHolds
  <1>2. ASSUME NEW c \in CityIds, SwitchCity(c) PROVE CatalogueInv'
    <2>1. /\ city' \in [CityIds -> {"NONE", "ACTIVE", "INACTIVE"}]
          /\ \A d \in CityIds : city[d] = "ACTIVE" /\ d # c => city'[d] = "ACTIVE"
          /\ UNCHANGED <<route, journeyTrip, drafting, rerouted>>
      BY <1>2, <1>type DEF SwitchCity, CatalogueTypeOK
    <2>2. closed' = (closed \/ city[c] = "ACTIVE")
      BY <1>2 DEF SwitchCity
    <2>3. closed' \in BOOLEAN /\ (~closed' => ~closed /\ city[c] # "ACTIVE")
      BY <2>2, <1>type DEF CatalogueTypeOK
    <2> QED
      BY <2>1, <2>3, <1>type, <1>rows DEF CatalogueInv, CatalogueTypeOK, DraftHolds
  <1>3. ASSUME NEW i \in RouteIds, CreateRoute(i) PROVE CatalogueInv'
    <2>1. PICK from \in CityIds, to \in CityIds :
              /\ route[i] = NoRoute
              /\ route' = [route EXCEPT ![i] = [from |-> from, to |-> to, isActive |-> TRUE]]
              /\ UNCHANGED <<city, journeyTrip, drafting, closed, rerouted>>
      BY <1>3 DEF CreateRoute, ExistingCities, ExistingRoutes
    <2>2. /\ route' \in [RouteIds -> RouteRows] /\ route'[i].isActive
          /\ \A j \in RouteIds \ {i} : route'[j] = route[j]
      BY <2>1, <1>type DEF CatalogueTypeOK, RouteRows
    <2> QED
      BY <2>1, <2>2, <1>type, <1>rows DEF CatalogueInv, CatalogueTypeOK, DraftHolds
  <1>4. ASSUME NEW i \in RouteIds, UpdateRoute(i) PROVE CatalogueInv'
    <2>1. PICK from \in CityIds, to \in CityIds, a \in BOOLEAN :
              /\ route' = [route EXCEPT ![i] = [from |-> from, to |-> to, isActive |-> a]]
              /\ closed' = (closed \/ (route[i].isActive /\ ~a))
              /\ rerouted' = (rerouted \/ (/\ <<from, to>> # <<route[i].from, route[i].to>>
                                           /\ i \in {journeyTrip.route, drafting.trip.route}))
              /\ UNCHANGED <<city, journeyTrip, drafting>>
      BY <1>4 DEF UpdateRoute, ExistingCities
    <2>2. /\ route' \in [RouteIds -> RouteRows]
          /\ route'[i].from = from /\ route'[i].to = to /\ route'[i].isActive = a /\ route'[i] # NoRoute
          /\ \A j \in RouteIds \ {i} : route'[j] = route[j]
      BY <2>1, <1>type DEF CatalogueTypeOK, RouteRows, NoRoute
    <2>3. closed' \in BOOLEAN /\ (~closed' => ~closed /\ (route[i].isActive => a))
      BY <2>1, <1>type, Zenon DEF CatalogueTypeOK
    <2>4. rerouted' \in BOOLEAN
          /\ (~rerouted' => ~rerouted /\ (i \in {journeyTrip.route, drafting.trip.route} =>
                                             from = route[i].from /\ to = route[i].to))
      BY <2>1, <1>type DEF CatalogueTypeOK
    <2>5. ASSUME NEW t \in DraftRows, t.route \in {journeyTrip.route, drafting.trip.route}, DraftHolds(t)
          PROVE  DraftHolds(t)'
      <3>1. CASE t.route = i
        BY <2>1, <2>2, <2>3, <2>4, <2>5, <3>1 DEF DraftHolds
      <3>2. CASE t.route # i
        BY <2>1, <2>2, <2>3, <2>4, <2>5, <3>2, <1>rows DEF DraftHolds
      <3> QED BY <3>1, <3>2
    <2> QED
      BY <2>1, <2>2, <2>3, <2>4, <2>5, <1>type, <1>rows, SMTT(30) DEF CatalogueInv, CatalogueTypeOK, DraftHolds
  <1>begin. ASSUME NEW op \in {"draft", "publish", "unpublish"}, NEW t \in DraftRows, BeginDraft(op, t),
                   DraftHolds(t)', DraftHolds(journeyTrip)',
                   UNCHANGED <<city, route, journeyTrip>>, closed' \in BOOLEAN, rerouted' \in BOOLEAN
            PROVE  CatalogueInv'
    <2>1. drafting' = [op |-> op, trip |-> t]
      BY <1>begin DEF BeginDraft
    <2>2. drafting'.trip = t /\ drafting' \in [op : {"idle", "draft", "publish", "unpublish"}, trip : DraftRows]
      BY <2>1
    <2>3. DraftHolds(drafting.trip)'
      BY <2>2, <1>begin DEF DraftHolds
    <2> QED
      BY <2>2, <2>3, <1>begin, <1>type DEF CatalogueInv, CatalogueTypeOK
  <1>5. CASE DraftBegin
    <2>1. PICK named \in ExistingRoutes \cup {"NONE"}, from \in CityIds \cup {"NONE"},
               to \in CityIds \cup {"NONE"} : \E i \in RouteOf(named, from, to) :
            /\ journeyTrip = Undrafted
            /\ BeginDraft("draft", [status |-> "DRAFT", route |-> i,
                   from |-> IF i = "NONE" THEN from ELSE route[i].from,
                   to |-> IF i = "NONE" THEN to ELSE route[i].to])
            /\ rerouted' = FALSE
            /\ UNCHANGED <<city, route, journeyTrip, closed>>
      BY <1>5 DEF DraftBegin, ExistingCities
    <2>2. RouteOf(named, from, to) \subseteq ExistingRoutes \cup {"NONE"}
      BY DEF RouteOf, Connecting
    <2>3. PICK i \in ExistingRoutes \cup {"NONE"} :
            /\ journeyTrip = Undrafted
            /\ BeginDraft("draft", [status |-> "DRAFT", route |-> i,
                   from |-> IF i = "NONE" THEN from ELSE route[i].from,
                   to |-> IF i = "NONE" THEN to ELSE route[i].to])
            /\ rerouted' = FALSE
            /\ UNCHANGED <<city, route, journeyTrip, closed>>
      BY <2>1, <2>2
    <2>4. PICK f, g :
            /\ f = (IF i = "NONE" THEN from ELSE route[i].from)
            /\ g = (IF i = "NONE" THEN to ELSE route[i].to)
            /\ BeginDraft("draft", [status |-> "DRAFT", route |-> i, from |-> f, to |-> g])
      BY <2>3
    <2>5. i # "NONE" => /\ i \in RouteIds /\ route[i] # NoRoute /\ route[i] \in RouteRows
                        /\ f = route[i].from /\ g = route[i].to
      BY <2>3, <2>4, <1>type DEF ExistingRoutes, CatalogueTypeOK
    <2>6. f \in CityIds \cup {"NONE"} /\ g \in CityIds \cup {"NONE"} /\ i \in RouteIds \cup {"NONE"}
      BY <2>4, <2>5 DEF RouteRows
    <2> DEFINE t == [status |-> "DRAFT", route |-> i, from |-> f, to |-> g]
    <2>7. t \in DraftRows
      BY <2>6 DEF DraftRows
    <2>8. DraftHolds(t)' /\ DraftHolds(journeyTrip)'
      BY <2>3, <2>5 DEF DraftHolds, Undrafted
    <2> HIDE DEF t
    <2> QED
      BY <2>3, <2>4, <2>7, <2>8, <1>begin, <1>type DEF CatalogueTypeOK, t
  <1>6. CASE PublishDraftBegin
    <2>1. PICK j \in DraftRows : j = journeyTrip
      BY <1>rows
    <2> DEFINE t == [j EXCEPT !.status = "PUBLISHED"]
    <2>2. /\ j.status \in {"DRAFT", "UNPUBLISHED"} /\ TripConnects(j) /\ BeginDraft("publish", t)
          /\ closed' = FALSE /\ UNCHANGED <<city, route, journeyTrip, rerouted>>
      BY <1>6, <2>1 DEF PublishDraftBegin
    <2>3. /\ t \in DraftRows /\ t.route = j.route /\ t.from = j.from /\ t.to = j.to
      BY DEF DraftRows
    <2> HIDE DEF t
    <2>4. DraftHolds(t)'
      BY <2>1, <2>2, <2>3, <1>type, <1>rows DEF DraftHolds, TripConnects
    <2>5. DraftHolds(journeyTrip)'
      BY <2>1, <2>2, <1>type DEF DraftHolds
    <2> QED
      BY <2>2, <2>3, <2>4, <2>5, <1>begin, <1>type DEF CatalogueTypeOK
  <1>7. CASE UnpublishTripBegin
    <2>1. PICK j \in DraftRows : j = journeyTrip
      BY <1>rows
    <2> DEFINE t == [j EXCEPT !.status = "UNPUBLISHED"]
    <2>2. /\ BeginDraft("unpublish", t) /\ UNCHANGED <<city, route, journeyTrip, closed, rerouted>>
      BY <1>7, <2>1 DEF UnpublishTripBegin
    <2>3. /\ t \in DraftRows /\ t.route = j.route /\ t.from = j.from /\ t.to = j.to
          /\ t.status = "UNPUBLISHED"
      BY DEF DraftRows
    <2> HIDE DEF t
    <2>4. DraftHolds(t)' /\ DraftHolds(journeyTrip)'
      BY <2>1, <2>2, <2>3, <1>type DEF DraftHolds
    <2> QED
      BY <2>2, <2>3, <2>4, <1>begin, <1>type DEF CatalogueTypeOK
  <1>8. CASE DraftCommit
    <2>1. /\ journeyTrip' = drafting.trip /\ drafting' = NoDraft
          /\ UNCHANGED <<city, route, closed, rerouted>>
      BY <1>8 DEF DraftCommit
    <2>2. /\ NoDraft \in [op : {"idle", "draft", "publish", "unpublish"}, trip : DraftRows]
          /\ NoDraft.trip.status = "NONE" /\ NoDraft.trip.route = "NONE"
      BY DEF NoDraft, DraftRows, Undrafted
    <2> QED
      BY <2>1, <2>2, <1>type, <1>rows DEF CatalogueInv, CatalogueTypeOK, DraftHolds
  <1>9. CASE UNCHANGED catalogueVars
    BY <1>9, <1>type DEF catalogueVars, CatalogueInv, CatalogueTypeOK, DraftHolds
  <1> QED
    BY <1>1, <1>2, <1>3, <1>4, <1>5, <1>6, <1>7, <1>8, <1>9 DEF CatalogueNext

\* A published trip connects cities that clients find.
LEMMA CatalogueConnects == CatalogueInv => TripsConnectCities
  <1> SUFFICES ASSUME CatalogueInv, journeyTrip.status = "PUBLISHED"
               PROVE  /\ journeyTrip.from # journeyTrip.to
                      /\ ~closed => {journeyTrip.from, journeyTrip.to} \subseteq ListedCities
                      /\ ~closed /\ ~rerouted =>
                             journeyTrip.route \in ListedRoutes(journeyTrip.from, journeyTrip.to)
    BY DEF TripsConnectCities, TripCanBeFound, RouteIsListed
  <1> QED
    BY IdsAssumption DEF CatalogueInv, DraftHolds, ListedCities, ListedRoutes, Connecting, ExistingRoutes

-----------------------------------------------------------------------------
(* The waitlist. While requests do not overlap, those that a request is     *)
(* about to match still wait, without a match.                              *)

MatchRows == [op : {"idle", "match", "publish"}, trips : SUBSET RouteTrips, entries : SUBSET Entries]

WaitlistTypeOK ==
    /\ entry \in [Entries -> {"NONE", "ACTIVE", "MATCHED", "BOOKED", "CANCELLED"}]
    /\ matches \in [Entries -> SUBSET RouteTrips]
    /\ waitAlerts \in [Entries -> SUBSET RouteTrips]
    /\ matchTx \in [MatchRequests -> MatchRows]
    /\ matchingAlone \in BOOLEAN /\ withdrawn \subseteq Entries

\* Who still waits has no match, and is who the matching has read.
EntriesWait ==
    /\ \A r, q \in MatchRequests : matchTx[r].op # "idle" /\ matchTx[q].op # "idle" => r = q
    /\ \A r \in MatchRequests : matchTx[r].op # "idle" =>
           \A e \in matchTx[r].entries : entry[e] = "ACTIVE"
    /\ \A e \in Entries : /\ entry[e] \in {"NONE", "ACTIVE"} => matches[e] = {}
                          /\ matches[e] = {} \/ \E t \in RouteTrips : matches[e] = {t}

WaitlistInv ==
    /\ WaitlistTypeOK
    /\ CancelledEntryStays /\ MatchesAreAnnounced
    /\ matchingAlone => EntriesWait

\* A matching that has not begun.
LEMMA IdleMatch == NoMatchTx \in MatchRows /\ NoMatchTx.op = "idle"
  BY DEF NoMatchTx, MatchRows

\* The invariant holds before anybody waits.
LEMMA WaitlistStart == WaitlistInit => WaitlistInv
  <1> SUFFICES ASSUME WaitlistInit PROVE WaitlistInv
    OBVIOUS
  <1> USE DEF WaitlistInit
  <1>1. WaitlistTypeOK
    BY IdleMatch DEF WaitlistTypeOK
  <1>2. EntriesWait
    BY IdleMatch DEF EntriesWait
  <1> QED
    BY <1>1, <1>2 DEF WaitlistInv, CancelledEntryStays, MatchesAreAnnounced

\* The status of entries that are not matched with more trips changes.
LEMMA EntriesMove ==
    ASSUME WaitlistInv, UNCHANGED <<matches, muted, waitAlerts, matchTx, matchingAlone>>,
           entry' \in [Entries -> {"NONE", "ACTIVE", "MATCHED", "BOOKED", "CANCELLED"}],
           \A e \in Entries : \/ entry'[e] = entry[e]
                              \/ entry[e] = "NONE" /\ entry'[e] = "ACTIVE"
                              \/ entry[e] = "MATCHED" /\ entry'[e] = "BOOKED"
                              \/ entry'[e] = "CANCELLED",
           matchingAlone => entry' = entry \/ \A q \in MatchRequests : matchTx[q].op = "idle",
           withdrawn' \subseteq withdrawn \cup {e \in Entries : entry'[e] = "CANCELLED"}
    PROVE  WaitlistInv'
  <1>1. WaitlistTypeOK'
    BY DEF WaitlistInv, WaitlistTypeOK
  <1>2. CancelledEntryStays' /\ MatchesAreAnnounced'
    BY DEF WaitlistInv, WaitlistTypeOK, CancelledEntryStays, MatchesAreAnnounced
  <1>3. matchingAlone => EntriesWait'
    BY DEF WaitlistInv, EntriesWait
  <1> QED
    BY <1>1, <1>2, <1>3 DEF WaitlistInv

\* Every step keeps it.
LEMMA WaitlistStep == WaitlistInv /\ [WaitlistNext]_waitVars => WaitlistInv'
  <1> SUFFICES ASSUME WaitlistInv, [WaitlistNext]_waitVars PROVE WaitlistInv'
    OBVIOUS
  <1>type. WaitlistTypeOK
    BY DEF WaitlistInv
  <1>begin. ASSUME NEW r \in MatchRequests, NEW op \in {"match", "publish"}, NEW trips \in SUBSET RouteTrips,
                   BeginMatching(r, op, trips), UNCHANGED entry
            PROVE  WaitlistInv'
    <2> DEFINE t == [op |-> op, trips |-> trips, entries |-> WaitingEntries]
    <2>1. /\ matchTx' = [matchTx EXCEPT ![r] = t] /\ matchTx[r].op = "idle"
          /\ matchingAlone => \A q \in MatchRequests : matchTx[q].op = "idle"
          /\ UNCHANGED <<matches, muted, waitAlerts, matchingAlone, withdrawn>>
      BY <1>begin DEF BeginMatching, MatchingAlone
    <2>2. /\ t \in MatchRows /\ t.entries = WaitingEntries
          /\ \A e \in WaitingEntries : entry[e] = "ACTIVE"
      BY DEF MatchRows, WaitingEntries
    <2> HIDE DEF t
    <2>3. \A q \in MatchRequests : matchTx'[q] = IF q = r THEN t ELSE matchTx[q]
      BY <2>1, <1>type DEF WaitlistTypeOK
    <2>4. matchTx' \in [MatchRequests -> MatchRows]
      BY <2>1, <2>2, <1>type DEF WaitlistTypeOK
    <2>5. matchingAlone => EntriesWait'
      BY <2>1, <2>2, <2>3, <1>begin DEF WaitlistInv, EntriesWait
    <2> QED
      BY <2>1, <2>4, <2>5, <1>begin DEF WaitlistInv, WaitlistTypeOK, CancelledEntryStays, MatchesAreAnnounced
  <1>1. ASSUME NEW r \in MatchRequests, MatchNewEntry(r) PROVE WaitlistInv'
    BY <1>1, <1>begin DEF MatchNewEntry, PublishedTrips
  <1>2. ASSUME NEW r \in MatchRequests, NEW t \in RouteTrips, PublishTrip(r, t) PROVE WaitlistInv'
    BY <1>2, <1>begin DEF PublishTrip
  <1>3. ASSUME NEW r \in MatchRequests, MatchCommit(r) PROVE WaitlistInv'
    <2> DEFINE t == matchTx[r]
    <2>1. t \in MatchRows /\ t = matchTx[r]
      BY <1>type DEF WaitlistTypeOK
    <2>2. PICK f \in Assignments(t) :
               LET served == {e \in t.entries : f[e] # "NONE"}
               IN  /\ matches' = [e \in Entries |->
                          IF e \in served THEN matches[e] \cup {f[e]} ELSE matches[e]]
                   /\ entry' = [e \in Entries |-> IF e \in served THEN Matched(e) ELSE entry[e]]
                   /\ waitAlerts' = [e \in Entries |->
                          IF e \in Notified(served) THEN waitAlerts[e] \cup {f[e]} ELSE waitAlerts[e]]
      BY <1>3 DEF MatchCommit
    <2> HIDE DEF t
    <2> DEFINE served == {e \in t.entries : f[e] # "NONE"}
    <2>3. /\ t.entries \subseteq Entries /\ t.trips \subseteq RouteTrips
          /\ \A e \in served : e \in Entries /\ f[e] \in RouteTrips
      BY <2>1 DEF Assignments, MatchRows
    <2>4. /\ matches' = [e \in Entries |-> IF e \in served THEN matches[e] \cup {f[e]} ELSE matches[e]]
          /\ entry' = [e \in Entries |-> IF e \in served THEN Matched(e) ELSE entry[e]]
          /\ waitAlerts' = [e \in Entries |->
                 IF e \in served \ muted THEN waitAlerts[e] \cup {f[e]} ELSE waitAlerts[e]]
      BY <2>2 DEF Notified
    <2> HIDE DEF served
    <2>5. /\ t.op # "idle" /\ matchTx' = [matchTx EXCEPT ![r] = NoMatchTx]
          /\ UNCHANGED <<muted, matchingAlone, withdrawn>>
      BY <1>3 DEF MatchCommit, t
    <2>6. \A e \in Entries : entry'[e] = IF e \in served /\ entry[e] = "ACTIVE" THEN "MATCHED" ELSE entry[e]
      BY <2>4 DEF Matched
    <2>7. WaitlistTypeOK'
      <3>1. entry' \in [Entries -> {"NONE", "ACTIVE", "MATCHED", "BOOKED", "CANCELLED"}]
        BY <2>4, <2>6, <1>type DEF WaitlistTypeOK
      <3>2. matches' \in [Entries -> SUBSET RouteTrips]
        BY <2>3, <2>4, <1>type DEF WaitlistTypeOK
      <3>3. waitAlerts' \in [Entries -> SUBSET RouteTrips]
        BY <2>3, <2>4, <1>type DEF WaitlistTypeOK
      <3>4. matchTx' \in [MatchRequests -> MatchRows]
        BY <2>5, <1>type, IdleMatch DEF WaitlistTypeOK
      <3> QED BY <2>5, <3>1, <3>2, <3>3, <3>4, <1>type DEF WaitlistTypeOK
    <2>8. CancelledEntryStays'
      BY <2>5, <2>6, <1>type DEF WaitlistInv, WaitlistTypeOK, CancelledEntryStays
    <2>9. MatchesAreAnnounced'
      BY <2>4, <2>5, <2>6 DEF WaitlistInv, MatchesAreAnnounced
    <2>10. ASSUME matchingAlone PROVE EntriesWait'
      <3>1. \A q \in MatchRequests : matchTx'[q].op = "idle"
        BY <2>1, <2>5, <2>10, <1>type, IdleMatch DEF WaitlistInv, EntriesWait, WaitlistTypeOK
      <3>2. \A e \in served : e \in t.entries
        BY DEF served
      <3>3. \A e \in served : entry[e] = "ACTIVE" /\ matches[e] = {}
        BY <2>1, <2>3, <2>5, <2>10, <3>2 DEF WaitlistInv, EntriesWait
      <3>4. \A e \in Entries : /\ entry'[e] \in {"NONE", "ACTIVE"} => matches'[e] = {}
                               /\ matches'[e] = {} \/ \E p \in RouteTrips : matches'[e] = {p}
        <4> TAKE e \in Entries
        <4>1. CASE e \in served
          <5>1. matches'[e] = {f[e]} /\ entry'[e] = "MATCHED"
            BY <2>4, <2>6, <3>3, <4>1
          <5> QED BY <5>1, <2>3, <4>1
        <4>2. CASE e \notin served
          BY <2>4, <2>6, <2>10, <4>2 DEF WaitlistInv, EntriesWait
        <4> QED BY <4>1, <4>2
      <3> QED BY <3>1, <3>4 DEF EntriesWait
    <2> QED
      BY <2>5, <2>7, <2>8, <2>9, <2>10 DEF WaitlistInv
  <1>4. ASSUME NEW r \in MatchRequests, MatchingFails(r) PROVE WaitlistInv'
    <2>1. /\ matchTx' \in [MatchRequests -> MatchRows]
          /\ \A q \in MatchRequests : matchTx'[q] = matchTx[q] \/ matchTx'[q].op = "idle"
      BY <1>4, <1>type, IdleMatch DEF MatchingFails, WaitlistTypeOK
    <2>2. matchingAlone => EntriesWait'
      BY <1>4, <2>1 DEF MatchingFails, WaitlistInv, EntriesWait
    <2> QED
      BY <1>4, <2>1, <2>2 DEF MatchingFails, WaitlistInv, WaitlistTypeOK, CancelledEntryStays,
             MatchesAreAnnounced
  <1>5. ASSUME NEW t \in RouteTrips, PublishUnmatched(t) \/ TripGone(t) PROVE WaitlistInv'
    BY <1>5, <1>type, EntriesMove DEF PublishUnmatched, TripGone, WaitlistTypeOK
  <1>6. ASSUME NEW e \in Entries, CreateEntry(e) \/ CancelEntry(e) PROVE WaitlistInv'
    <2>1. /\ UNCHANGED <<matches, muted, waitAlerts, matchTx, matchingAlone>>
          /\ matchingAlone => \A q \in MatchRequests : matchTx[q].op = "idle"
      BY <1>6 DEF CreateEntry, CancelEntry, MatchingAlone
    <2>2. /\ entry' \in [Entries -> {"NONE", "ACTIVE", "MATCHED", "BOOKED", "CANCELLED"}]
          /\ \A d \in Entries : \/ entry'[d] = entry[d]
                                \/ entry[d] = "NONE" /\ entry'[d] = "ACTIVE"
                                \/ entry'[d] = "CANCELLED"
          /\ withdrawn' \subseteq withdrawn \cup {d \in Entries : entry'[d] = "CANCELLED"}
      BY <1>6, <1>type DEF CreateEntry, CancelEntry, WaitlistTypeOK
    <2> QED
      BY <2>1, <2>2, EntriesMove
  <1>7. ASSUME NEW e \in Entries, NEW t \in RouteTrips, EntryBooked(e, t) PROVE WaitlistInv'
    <2>1. /\ UNCHANGED <<matches, muted, waitAlerts, matchTx, matchingAlone, withdrawn>>
          /\ matchingAlone => \A q \in MatchRequests : matchTx[q].op = "idle"
      BY <1>7 DEF EntryBooked, MatchingAlone
    <2>2. /\ entry' \in [Entries -> {"NONE", "ACTIVE", "MATCHED", "BOOKED", "CANCELLED"}]
          /\ \A d \in Entries : \/ entry'[d] = entry[d]
                                \/ entry[d] = "MATCHED" /\ entry'[d] = "BOOKED"
      BY <1>7, <1>type DEF EntryBooked, WaitlistTypeOK
    <2> QED
      BY <2>1, <2>2, EntriesMove
  <1>8. ASSUME NEW e \in Entries, EntryExpires(e) PROVE WaitlistInv'
    BY <1>8, <1>type, EntriesMove DEF EntryExpires, WaitlistTypeOK
  <1>9. CASE UNCHANGED waitVars
    BY <1>9, <1>type, EntriesMove DEF waitVars, WaitlistTypeOK
  <1> QED
    BY <1>1, <1>2, <1>3, <1>4, <1>5, <1>6, <1>7, <1>8, <1>9 DEF WaitlistNext

\* Who waits is served once, and told.
LEMMA WaitlistServed == WaitlistInv => WaitlistIsServed
  <1> SUFFICES ASSUME WaitlistInv PROVE OneMatchPerEntry
    BY DEF WaitlistInv, WaitlistIsServed
  <1>1. ASSUME matchingAlone, NEW e \in Entries PROVE Cardinality(matches[e]) <= 1
    <2>1. CASE matches[e] = {}
      BY <2>1, FS_EmptySet
    <2>2. ASSUME NEW t \in RouteTrips, matches[e] = {t} PROVE Cardinality(matches[e]) <= 1
      BY <2>2, FS_Singleton, SMTT(30)
    <2> QED
      BY <1>1, <2>1, <2>2 DEF WaitlistInv, EntriesWait
  <1> QED
    BY <1>1 DEF OneMatchPerEntry

-----------------------------------------------------------------------------
(* Favourites. While requests do not overlap, a publication that has        *)
(* locked its alerts has read wishes that are still the client's.           *)

PublishRows == [op : {"idle", "read", "locked"}, trip : Journeys \cup {"NONE"}, follows : BOOLEAN]

\* What a publication has read still holds while nothing overlaps.
FavouritesInv ==
    /\ tripAlerts \in [Journeys -> {0, 1}]
    /\ publishing \in [FollowRequests -> PublishRows]
    /\ followAlone \in BOOLEAN /\ unwanted \in BOOLEAN
    /\ followAlone => /\ ~unwanted
                      /\ \A r \in FollowRequests : publishing[r].op = "locked" /\ publishing[r].follows =>
                             favourite = "ON" /\ ~silenced

\* A publication that has not begun.
LEMMA IdlePublication ==
    /\ NotPublishing \in PublishRows /\ NotPublishing.op = "idle"
    /\ \A j \in Journeys : [op |-> "read", trip |-> j, follows |-> FALSE] \in PublishRows
  BY DEF NotPublishing, PublishRows

\* The invariant holds before a trip is published.
LEMMA FavouritesStart == FavouritesInit => FavouritesInv
  BY IdlePublication DEF FavouritesInit, FavouritesInv

\* Every step keeps it.
LEMMA FavouritesStep == FavouritesInv /\ [FavouritesNext]_followVars => FavouritesInv'
  <1> SUFFICES ASSUME FavouritesInv, [FavouritesNext]_followVars PROVE FavouritesInv'
    OBVIOUS
  <1>idle. ASSUME FollowAlone, UNCHANGED <<tripAlerts, publishing, followAlone, unwanted>>
           PROVE  FavouritesInv'
    BY <1>idle, IdlePublication DEF FollowAlone, FavouritesInv
  <1>1. ASSUME NEW on \in BOOLEAN, SetFavourite(on) \/ Silence(on) PROVE FavouritesInv'
    BY <1>1, <1>idle DEF SetFavourite, Silence
  <1>2. CASE DropFavourite
    BY <1>2, <1>idle DEF DropFavourite
  <1>3. ASSUME NEW d \in Directions, SaveRoute(d) \/ DropRoute(d) PROVE FavouritesInv'
    BY <1>3, <1>idle DEF SaveRoute, DropRoute
  <1>4. ASSUME NEW j \in Journeys, NewTrip(j) \/ ReturnDraft(j) \/ UnpublishTrip(j) PROVE FavouritesInv'
    BY <1>4, <1>idle DEF NewTrip, ReturnDraft, UnpublishTrip, DraftTrip
  <1>5. ASSUME NEW r \in FollowRequests, NEW j \in Journeys, ReadTrip(r, j) PROVE FavouritesInv'
    BY <1>5, IdlePublication DEF ReadTrip, FavouritesInv
  <1>6. ASSUME NEW r \in FollowRequests, ListFavourites(r) PROVE FavouritesInv'
    <2>1. PICK b \in BOOLEAN : b = (favourite = "ON" /\ ~silenced)
      OBVIOUS
    <2>2. /\ publishing' = [publishing EXCEPT ![r].op = "locked", ![r].follows = b]
          /\ UNCHANGED <<favourite, silenced, tripAlerts, followAlone, unwanted>>
      BY <1>6, <2>1, Zenon DEF ListFavourites
    <2> DEFINE l == [publishing EXCEPT ![r].op = "locked"]
    <2>3. l \in [FollowRequests -> PublishRows] /\ \A q \in FollowRequests \ {r} : l[q] = publishing[q]
      BY DEF FavouritesInv, PublishRows
    <2> HIDE DEF l
    <2>4. publishing' = [l EXCEPT ![r].follows = b]
      BY <2>2 DEF l
    <2>5. /\ publishing' \in [FollowRequests -> PublishRows] /\ publishing'[r].follows = b
          /\ \A q \in FollowRequests \ {r} : publishing'[q] = publishing[q]
      BY <2>3, <2>4 DEF PublishRows
    <2> QED
      BY <2>1, <2>2, <2>5 DEF FavouritesInv
  <1>7. ASSUME NEW r \in FollowRequests, PublishAndNotify(r) PROVE FavouritesInv'
    <2>1. PICK t \in PublishRows : t = publishing[r]
      BY DEF FavouritesInv
    <2>2. PICK notify \in BOOLEAN : notify = (t.follows /\ Interested(t.trip))
      BY Zenon
    <2>3. /\ t.op = "locked" /\ publishing' = [publishing EXCEPT ![r] = NotPublishing]
          /\ tripAlerts' = IF notify THEN [tripAlerts EXCEPT ![t.trip] = 1] ELSE tripAlerts
          /\ UNCHANGED <<favourite, silenced, followAlone>>
      BY <1>7, <2>1, <2>2 DEF PublishAndNotify, EnsureNotification
    <2>4. unwanted' = (unwanted \/ (notify /\ (silenced \/ favourite # "ON")))
      BY <1>7, <2>1, <2>2, Zenon DEF PublishAndNotify
    <2>5. notify => t.follows
      BY <2>2
    <2>6. unwanted' \in BOOLEAN /\ (followAlone => ~unwanted')
      BY <2>1, <2>3, <2>4, <2>5 DEF FavouritesInv
    <2>7. publishing' \in [FollowRequests -> PublishRows]
          /\ \A q \in FollowRequests : publishing'[q] = publishing[q] \/ publishing'[q].op = "idle"
      BY <2>3, IdlePublication DEF FavouritesInv
    <2>8. tripAlerts' \in [Journeys -> {0, 1}]
      BY <2>3 DEF FavouritesInv
    <2> QED
      BY <2>3, <2>6, <2>7, <2>8 DEF FavouritesInv
  <1>8. ASSUME NEW r \in FollowRequests, PublishingFails(r) PROVE FavouritesInv'
    BY <1>8, IdlePublication DEF PublishingFails, FavouritesInv
  <1>9. CASE UNCHANGED followVars
    BY <1>9 DEF followVars, FavouritesInv
  <1> QED
    BY <1>1, <1>2, <1>3, <1>4, <1>5, <1>6, <1>7, <1>8, <1>9 DEF FavouritesNext

\* Alerts are sent once, to those who want them.
LEMMA FavouritesWanted == FavouritesInv => FavouritesAreWanted
  BY DEF FavouritesInv, FavouritesAreWanted

-----------------------------------------------------------------------------
(* Shared trips. A view that has recorded its access is counted as if it    *)
(* had been shown.                                                          *)

ShareRows == {NoView} \cup [op : {"found", "recorded"}, share : Shares]
Recorded(s) == {r \in Viewers : shareTx[r] = [op |-> "recorded", share |-> s]}
Viewing == {r \in Viewers : shareTx[r] # NoView}

SharesTypeOK ==
    /\ accessEvents \in [Shares -> Nat]
    /\ views \in [Shares -> Nat]
    /\ shareTx \in [Viewers -> ShareRows]
    /\ shareAlone \in BOOLEAN

SharesInv ==
    /\ SharesTypeOK
    /\ \A s \in Shares : views[s] + Cardinality(Recorded(s)) <= accessEvents[s]
    /\ shareAlone =>
           /\ shownLate = {}
           /\ \A r, q \in Viewing : r = q
           /\ \A r \in Viewing : shareTx[r].share \notin revoked \cup shareLapsed

\* A view that has not begun.
LEMMA IdleView == NoView \in ShareRows /\ NoView.op = "idle"
  BY DEF NoView, ShareRows

\* The invariant holds before anything is shared.
LEMMA SharesStart == TripSharesInit => SharesInv
  <1> SUFFICES ASSUME TripSharesInit PROVE SharesInv
    OBVIOUS
  <1>1. SharesTypeOK
    BY IdleView DEF TripSharesInit, SharesTypeOK
  <1>2. Viewing = {} /\ \A s \in Shares : Recorded(s) = {}
    BY IdleView DEF TripSharesInit, Viewing, Recorded
  <1> QED
    BY <1>1, <1>2, FS_EmptySet DEF TripSharesInit, SharesInv

\* Every step keeps it.
LEMMA SharesStep == SharesInv /\ [TripSharesNext]_shareVars => SharesInv'
  <1> SUFFICES ASSUME SharesInv, [TripSharesNext]_shareVars PROVE SharesInv'
    OBVIOUS
  <1> USE ViewersAssumption
  <1>type. SharesTypeOK
    BY DEF SharesInv
  <1>sets. \A s \in Shares : Recorded(s) \in SUBSET Viewers /\ Cardinality(Recorded(s)) \in Nat
    BY AtMostAll DEF Recorded
  <1>1. CASE BecomesTraveller \/ UNCHANGED shareVars
    <2>1. UNCHANGED <<revoked, shareLapsed, accessEvents, shareTx, shareAlone, views, shownLate>>
      BY <1>1 DEF BecomesTraveller, shareVars
    <2>2. SharesTypeOK' /\ Viewing' = Viewing /\ \A s \in Shares : Recorded(s)' = Recorded(s)
      BY <2>1, <1>type DEF SharesTypeOK, Viewing, Recorded
    <2> QED
      BY <2>1, <2>2 DEF SharesInv
  <1>2. ASSUME NEW s \in Shares, CreateShare(s) \/ RevokeShare(s) \/ ShareLapses(s) PROVE SharesInv'
    <2>1. /\ UNCHANGED <<accessEvents, shareTx, shareAlone, views, shownLate>>
          /\ shareAlone => Viewing = {}
      BY <1>2 DEF CreateShare, RevokeShare, ShareLapses, SharesAlone, ShareIdle, Viewing
    <2>2. SharesTypeOK' /\ Viewing' = Viewing /\ \A u \in Shares : Recorded(u)' = Recorded(u)
      BY <2>1, <1>type DEF SharesTypeOK, Viewing, Recorded
    <2> QED
      BY <2>1, <2>2 DEF SharesInv
  <1>3. ASSUME NEW r \in Viewers, NEW s \in Shares, ViewBegin(r, s) PROVE SharesInv'
    <2> DEFINE t == [op |-> "found", share |-> s]
    <2>1. /\ UNCHANGED <<revoked, shareLapsed, accessEvents, shareAlone, views, shownLate>>
          /\ shareTx' = [shareTx EXCEPT ![r] = t] /\ shareTx[r] = NoView
          /\ shareAlone => Viewing = {}
          /\ s \notin revoked \cup shareLapsed
      BY <1>3 DEF ViewBegin, SharesAlone, ShareIdle, Viewing, Visible
    <2>2. t \in ShareRows /\ t.op = "found" /\ t.share = s
      BY DEF ShareRows
    <2> HIDE DEF t
    <2>3. /\ \A q \in Viewers : shareTx'[q] = IF q = r THEN t ELSE shareTx[q]
          /\ shareTx' \in [Viewers -> ShareRows]
      BY <2>1, <2>2, <1>type DEF SharesTypeOK
    <2>4. SharesTypeOK'
      BY <2>1, <2>3, <1>type DEF SharesTypeOK
    <2>5. \A u \in Shares : Recorded(u)' = Recorded(u)
      BY <2>1, <2>2, <2>3, IdleView DEF Recorded
    <2>6. Viewing' \subseteq Viewing \cup {r}
      BY <2>3 DEF Viewing
    <2> QED
      BY <2>1, <2>2, <2>3, <2>4, <2>5, <2>6 DEF SharesInv
  <1>4. ASSUME NEW r \in Viewers, RecordAccess(r) PROVE SharesInv'
    <2>1. PICK t \in ShareRows : t = shareTx[r]
      BY <1>type DEF SharesTypeOK
    <2> DEFINE s == t.share
               x == [op |-> "recorded", share |-> s]
    <2>2. /\ UNCHANGED <<revoked, shareLapsed, shareAlone, views, shownLate>>
          /\ t.op = "found" /\ accessEvents' = [accessEvents EXCEPT ![s] = @ + 1]
          /\ shareTx' = [shareTx EXCEPT ![r].op = "recorded"]
      BY <1>4, <2>1 DEF RecordAccess
    <2>3. s \in Shares /\ x \in ShareRows /\ x # NoView /\ t # NoView
      BY <2>1, <2>2, IdleView DEF ShareRows, NoView
    <2>4. [t EXCEPT !.op = "recorded"] = x
      BY <2>2, <2>1, IdleView DEF ShareRows
    <2>5. shareTx' = [shareTx EXCEPT ![r] = x]
      <3>1. shareTx' = [shareTx EXCEPT ![r] = [shareTx[r] EXCEPT !.op = "recorded"]]
        BY <2>2
      <3> QED BY <2>1, <2>4, <3>1
    <2>6. x.op = "recorded" /\ x.share = s
      OBVIOUS
    <2> HIDE DEF x, s
    <2>7. /\ \A q \in Viewers : shareTx'[q] = IF q = r THEN x ELSE shareTx[q]
          /\ shareTx' \in [Viewers -> ShareRows]
      BY <2>3, <2>5, <1>type DEF SharesTypeOK
    <2>8. /\ \A u \in Shares : accessEvents'[u] = IF u = s THEN accessEvents[u] + 1 ELSE accessEvents[u]
          /\ accessEvents' \in [Shares -> Nat]
      BY <2>2, <2>3, <1>type DEF SharesTypeOK, s
    <2>9. SharesTypeOK'
      BY <2>2, <2>7, <2>8, <1>type DEF SharesTypeOK
    <2>10. Viewing' = Viewing /\ r \in Viewing
      BY <2>1, <2>3, <2>7 DEF Viewing
    <2>11. /\ r \notin Recorded(s) /\ Recorded(s)' = Recorded(s) \cup {r}
           /\ \A u \in Shares : u # s => Recorded(u)' = Recorded(u)
      <3>1. \A u \in Shares : shareTx[r] # [op |-> "recorded", share |-> u]
        BY <2>1, <2>2
      <3>2. \A u \in Shares : x = [op |-> "recorded", share |-> u] <=> u = s
        BY DEF x
      <3> QED BY <2>3, <2>7, <3>1, <3>2 DEF Recorded
    <2>12. Cardinality(Recorded(s)') = Cardinality(Recorded(s)) + 1
      BY <2>3, <2>11, <1>sets, OneMore
    <2>13. \A u \in Shares : views'[u] + Cardinality(Recorded(u)') <= accessEvents'[u]
      <3> TAKE u \in Shares
      <3>1. /\ views[u] \in Nat /\ accessEvents[u] \in Nat /\ Cardinality(Recorded(u)) \in Nat
            /\ views'[u] = views[u] /\ views[u] + Cardinality(Recorded(u)) <= accessEvents[u]
        BY <2>2, <1>sets, <1>type DEF SharesInv, SharesTypeOK
      <3>2. \/ u # s /\ accessEvents'[u] = accessEvents[u] /\ Recorded(u)' = Recorded(u)
            \/ /\ u = s /\ accessEvents'[u] = accessEvents[u] + 1
               /\ Cardinality(Recorded(u)') = Cardinality(Recorded(u)) + 1
        BY <2>8, <2>11, <2>12
      <3> QED BY <3>1, <3>2
    <2>14. ASSUME shareAlone, NEW q \in Viewing PROVE shareTx'[q].share \notin revoked \cup shareLapsed
      <3>1. shareTx[q].share \notin revoked \cup shareLapsed /\ shareTx'[q].share = shareTx[q].share
        BY <2>1, <2>6, <2>7, <2>14 DEF SharesInv, s, Viewing
      <3> QED BY <3>1
    <2> QED
      BY <2>2, <2>9, <2>10, <2>13, <2>14 DEF SharesInv
  <1>5. ASSUME NEW r \in Viewers, ShowTrip(r) \/ ViewFails(r) PROVE SharesInv'
    <2>1. PICK t \in ShareRows : t = shareTx[r]
      BY <1>type DEF SharesTypeOK
    <2> DEFINE s == t.share
    <2>2. /\ UNCHANGED <<revoked, shareLapsed, shareAlone, accessEvents>>
          /\ shareTx' = [shareTx EXCEPT ![r] = NoView] /\ t # NoView
          /\ \/ UNCHANGED <<views, shownLate>>
             \/ /\ t.op = "recorded" /\ views' = [views EXCEPT ![s] = @ + 1]
                /\ shownLate' = shownLate \cup ({s} \cap (revoked \cup shareLapsed))
      BY <1>5, <2>1, IdleView DEF ShowTrip, ViewFails
    <2>3. s \in Shares
      BY <2>2 DEF ShareRows
    <2>4. /\ \A q \in Viewers : shareTx'[q] = IF q = r THEN NoView ELSE shareTx[q]
          /\ shareTx' \in [Viewers -> ShareRows]
      BY <2>2, <1>type, IdleView DEF SharesTypeOK
    <2>5. Viewing' = Viewing \ {r} /\ r \in Viewing
      BY <2>1, <2>2, <2>4 DEF Viewing
    <2>6. \A u \in Shares : Recorded(u)' = Recorded(u) \ {r}
      BY <2>4, IdleView DEF Recorded
    <2>7. \A u \in Shares :
              /\ Cardinality(Recorded(u)') \in Nat
              /\ Cardinality(Recorded(u)') <= Cardinality(Recorded(u))
              /\ r \in Recorded(u) => Cardinality(Recorded(u)') = Cardinality(Recorded(u)) - 1
      <3> TAKE u \in Shares
      <3>1. IsFiniteSet(Recorded(u)) /\ Recorded(u)' \in SUBSET Recorded(u)
        BY <2>6, <1>sets, AtMostAll
      <3> QED BY <2>6, <3>1, AtMostAll, OneLess
    <2>8. t.op = "recorded" => r \in Recorded(s)
      BY <2>1, <2>2 DEF ShareRows, Recorded
    <2>9. shareAlone => s \notin revoked \cup shareLapsed
      BY <2>1, <2>5 DEF SharesInv
    <2>10. views' \in [Shares -> Nat] /\ \A u \in Shares :
               views'[u] = views[u] \/ (r \in Recorded(u) /\ views'[u] = views[u] + 1)
      BY <2>2, <2>3, <2>8, <1>type DEF SharesTypeOK
    <2> HIDE DEF s
    <2>11. SharesTypeOK'
      BY <2>2, <2>4, <2>10, <1>type DEF SharesTypeOK
    <2>12. \A u \in Shares : views'[u] + Cardinality(Recorded(u)') <= accessEvents'[u]
      <3> TAKE u \in Shares
      <3>1. views[u] \in Nat /\ views'[u] \in Nat /\ accessEvents[u] \in Nat
            /\ Cardinality(Recorded(u)) \in Nat
        BY <2>10, <1>sets, <1>type DEF SharesTypeOK
      <3> QED BY <2>2, <2>7, <2>10, <3>1 DEF SharesInv
    <2>13. shareAlone => shownLate' = {}
      BY <2>2, <2>9 DEF SharesInv
    <2>14. \A q \in Viewing' : q \in Viewing /\ shareTx'[q] = shareTx[q]
      BY <2>4, <2>5 DEF Viewing
    <2> QED
      BY <2>2, <2>11, <2>12, <2>13, <2>14 DEF SharesInv
  <1> QED
    BY <1>1, <1>2, <1>3, <1>4, <1>5 DEF TripSharesNext

\* A share ends, and its views are on record.
LEMMA SharesEnded == SharesInv => SharesEnd
  <1> SUFFICES ASSUME SharesInv PROVE SharesEnd
    OBVIOUS
  <1>1. ASSUME NEW s \in Shares PROVE views[s] <= accessEvents[s]
    <2>1. Cardinality(Recorded(s)) \in Nat /\ views[s] \in Nat /\ accessEvents[s] \in Nat
      BY ViewersAssumption, AtMostAll DEF Recorded, SharesInv, SharesTypeOK
    <2> QED BY <2>1 DEF SharesInv
  <1> QED
    BY <1>1 DEF SharesInv, SharesEnd

-----------------------------------------------------------------------------
(* Locations. Each PERIODIC point that a request is about to store is       *)
(* counted as if it were there already; a request passes only if the        *)
(* newest point, hence every point, is before its interval.                 *)

LocationRows == [op : {"idle", "record", "latest"}, source : Sources \cup {"NONE"}, at : Nat]
PointRows == [at : Nat, nth : Nat]
Window(from) == from .. from + MinInterval - 1
PointsIn(from) == {p \in points : p.at \in Window(from)}
\* The requests that have passed the throttle and will add a point.
AddingPoints(from) == {r \in LocationRequests : /\ locationTx[r].op = "record"
                                          /\ locationTx[r].source = "PERIODIC"
                                          /\ locationTx[r].at \in Window(from)}
Sending == {r \in LocationRequests : locationTx[r].op # "idle"}
LocationsAtOnce == IF locationAlone THEN 1 ELSE Cardinality(LocationRequests)

LocationsTypeOK ==
    /\ points \in SUBSET PointRows
    /\ IsFiniteSet(points)
    /\ locationTx \in [LocationRequests -> LocationRows]
    /\ locationAlone \in BOOLEAN
    /\ strays \in BOOLEAN

LocationsInv ==
    /\ LocationsTypeOK
    /\ points # {} => \E p \in points : \A q \in points : q.at <= p.at
    /\ \A from \in Times : Cardinality(PointsIn(from)) + Cardinality(AddingPoints(from)) <= LocationsAtOnce
    /\ locationAlone =>
           /\ ~strays
           /\ \A r, q \in Sending : r = q
           /\ \A r \in Sending :
                  /\ locationTx[r].op = "record" => Underway(trackedTrip, locationTx[r].source)
                  /\ locationTx[r].op = "latest" => ShareRealtime

\* A request that has not begun.
LEMMA IdleLocation == NoLocationTx \in LocationRows /\ NoLocationTx.op = "idle"
  BY DEF NoLocationTx, LocationRows

\* The invariant holds before a point is stored.
LEMMA LocationsStart == TripLocationsInit => LocationsInv
  <1> SUFFICES ASSUME TripLocationsInit PROVE LocationsInv
    OBVIOUS
  <1>1. LocationsTypeOK
    BY IdleLocation, FS_EmptySet DEF TripLocationsInit, LocationsTypeOK
  <1>2. Sending = {} /\ \A from \in Times : AddingPoints(from) = {} /\ PointsIn(from) = {}
    BY IdleLocation DEF TripLocationsInit, Sending, AddingPoints, PointsIn
  <1>3. Cardinality({}) = 0 /\ LocationsAtOnce \in Nat
    BY FS_EmptySet, FS_CardinalityType, LocationAssumption DEF LocationsAtOnce
  <1> QED
    BY <1>1, <1>2, <1>3 DEF TripLocationsInit, LocationsInv

\* Every step keeps it.
LEMMA LocationsStep == LocationsInv /\ [TripLocationsNext]_locationVars => LocationsInv'
  <1> SUFFICES ASSUME LocationsInv, [TripLocationsNext]_locationVars PROVE LocationsInv'
    OBVIOUS
  <1> USE LocationAssumption
  <1>type. LocationsTypeOK
    BY DEF LocationsInv
  <1>sets. \A from \in Times : /\ AddingPoints(from) \in SUBSET LocationRequests
                               /\ IsFiniteSet(AddingPoints(from)) /\ Cardinality(AddingPoints(from)) \in Nat
                               /\ IsFiniteSet(PointsIn(from)) /\ Cardinality(PointsIn(from)) \in Nat
    <2> TAKE from \in Times
    <2>1. PointsIn(from) \in SUBSET points /\ AddingPoints(from) \in SUBSET LocationRequests
      BY DEF PointsIn, AddingPoints
    <2> QED BY <2>1, <1>type, AtMostAll DEF LocationsTypeOK
  <1>n. LocationsAtOnce \in Nat
    BY FS_CardinalityType DEF LocationsAtOnce
  \* A request reads: a new PERIODIC point is later than the newest one by the interval.
  <1>begin. ASSUME NEW r \in LocationRequests, NEW op \in {"record", "latest"}, NEW at \in Nat,
                   NEW source \in Sources \cup {"NONE"},
                   BeginLocation(r, [op |-> op, source |-> source, at |-> at]),
                   op = "record" /\ source = "PERIODIC" => at \in Times /\ ~Throttled(at),
                   op = "record" => Underway(trackedTrip, source), op = "latest" => ShareRealtime
            PROVE  LocationsInv'
    <2> DEFINE t == [op |-> op, source |-> source, at |-> at]
    <2>1. /\ locationTx' = [locationTx EXCEPT ![r] = t] /\ locationTx[r].op = "idle"
          /\ locationAlone => Sending = {}
          /\ UNCHANGED <<trackedTrip, points, locationAlone, strays>>
      BY <1>begin DEF BeginLocation, LocationIdle, Sending
    <2>2. t \in LocationRows /\ t.op = op /\ t.source = source /\ t.at = at
      BY DEF LocationRows
    <2> HIDE DEF t
    <2>3. /\ \A q \in LocationRequests : locationTx'[q] = IF q = r THEN t ELSE locationTx[q]
          /\ locationTx' \in [LocationRequests -> LocationRows]
      BY <2>1, <2>2, <1>type DEF LocationsTypeOK
    <2>4. LocationsTypeOK' /\ LocationsAtOnce' = LocationsAtOnce /\ ShareRealtime' = ShareRealtime
      BY <2>1, <2>3, <1>type DEF LocationsTypeOK, LocationsAtOnce, ShareRealtime
    <2>5. /\ Sending' = Sending \cup {r}
          /\ \A from \in Times : PointsIn(from)' = PointsIn(from) /\ r \notin AddingPoints(from)
      BY <2>1, <2>2, <2>3 DEF Sending, PointsIn, AddingPoints, Window
    <2>6. ASSUME NEW from \in Times
          PROVE  Cardinality(PointsIn(from)') + Cardinality(AddingPoints(from)') <= LocationsAtOnce
      <3>1. CASE op = "record" /\ source = "PERIODIC" /\ at \in Window(from)
        <4>1. PointsIn(from) = {}
          <5> SUFFICES ASSUME NEW p \in points, p.at \in Window(from) PROVE FALSE
            BY DEF PointsIn
          <5>1. PICK m \in points : \A q \in points : q.at <= m.at
            BY DEF LocationsInv
          <5>2. m.at \in Nat /\ p.at \in Nat /\ p.at <= m.at /\ from \in Nat /\ from <= p.at
                /\ at <= from + MinInterval - 1
            BY <5>1, <3>1, <1>type DEF LocationsTypeOK, PointRows, Window
          <5>3. at < m.at + MinInterval
            BY <5>2
          <5>4. m.at \in PeriodicTimes /\ \A q \in PeriodicTimes : q <= m.at
            BY <5>1 DEF PeriodicTimes
          <5>5. Throttled(at)
            BY <5>3, <5>4 DEF Throttled
          <5> QED BY <5>5, <3>1, <1>begin
        <4>2. AddingPoints(from)' = AddingPoints(from) \cup {r}
          BY <2>2, <2>3, <3>1 DEF AddingPoints, Window
        <4>3. /\ Cardinality(AddingPoints(from)') = Cardinality(AddingPoints(from)) + 1
              /\ Cardinality(AddingPoints(from)) + 1 <= Cardinality(LocationRequests)
              /\ Cardinality(AddingPoints(from)) \in Nat /\ Cardinality(LocationRequests) \in Nat
          BY <4>2, <2>5, <1>sets, OneMore
        <4>4. locationAlone => AddingPoints(from) = {}
          BY <2>1 DEF AddingPoints, Sending
        <4> QED BY <4>1, <4>3, <4>4, <2>5, FS_EmptySet DEF LocationsAtOnce
      <3>2. CASE ~(op = "record" /\ source = "PERIODIC" /\ at \in Window(from))
        <4>1. AddingPoints(from)' = AddingPoints(from)
          BY <2>2, <2>3, <2>5, <3>2 DEF AddingPoints, Window
        <4> QED BY <4>1, <2>5 DEF LocationsInv
      <3> QED BY <3>1, <3>2
    <2>7. ASSUME locationAlone, NEW q \in Sending'
          PROVE  /\ q = r
                 /\ locationTx'[q].op = "record" => Underway(trackedTrip', locationTx'[q].source)
                 /\ locationTx'[q].op = "latest" => ShareRealtime'
      <3>1. q = r /\ locationTx'[q].op = op /\ locationTx'[q].source = source
        BY <2>1, <2>2, <2>3, <2>5, <2>7
      <3> QED BY <2>1, <2>4, <3>1, <1>begin
    <2> QED
      BY <2>1, <2>4, <2>6, <2>7 DEF LocationsInv
  \* A request ends.
  <1> DEFINE Ended(r) ==
                 /\ locationTx' \in [LocationRequests -> LocationRows]
                 /\ Sending' = Sending \ {r}
                 /\ locationAlone => Sending' = {}
                 /\ \A from \in Times :
                        /\ Cardinality(AddingPoints(from)') \in Nat
                        /\ Cardinality(AddingPoints(from)') <= Cardinality(AddingPoints(from))
                        /\ r \in AddingPoints(from) => Cardinality(AddingPoints(from)') = Cardinality(AddingPoints(from)) - 1
  <1>end. ASSUME NEW r \in LocationRequests, locationTx[r].op # "idle",
                 locationTx' = [locationTx EXCEPT ![r] = NoLocationTx]
          PROVE  Ended(r)
    <2>1. /\ locationTx' \in [LocationRequests -> LocationRows]
          /\ \A q \in LocationRequests : locationTx'[q] = IF q = r THEN NoLocationTx ELSE locationTx[q]
      BY <1>end, <1>type, IdleLocation DEF LocationsTypeOK
    <2>2. Sending' = Sending \ {r}
      BY <2>1, IdleLocation DEF Sending
    <2>3. locationAlone => Sending' = {}
      BY <2>2, <1>end DEF LocationsInv, Sending
    <2>4. ASSUME NEW from \in Times
          PROVE  /\ Cardinality(AddingPoints(from)') \in Nat
                 /\ Cardinality(AddingPoints(from)') <= Cardinality(AddingPoints(from))
                 /\ r \in AddingPoints(from) => Cardinality(AddingPoints(from)') = Cardinality(AddingPoints(from)) - 1
      <3>1. AddingPoints(from)' = AddingPoints(from) \ {r}
        BY <2>1, IdleLocation DEF AddingPoints, Window
      <3>2. AddingPoints(from)' \in SUBSET AddingPoints(from)
        BY <3>1
      <3> QED BY <3>1, <3>2, <1>sets, AtMostAll, OneLess
    <2> QED BY <2>1, <2>2, <2>3, <2>4
  <1> HIDE DEF Ended
  \* No point is added, and nothing strays.
  <1>none. ASSUME NEW r \in LocationRequests, Ended(r), UNCHANGED <<points, locationAlone>>,
                  strays' \in BOOLEAN, locationAlone => ~strays'
           PROVE  LocationsInv'
    <2>1. LocationsTypeOK' /\ LocationsAtOnce' = LocationsAtOnce
      BY <1>none, <1>type DEF LocationsTypeOK, LocationsAtOnce, Ended
    <2>2. ASSUME NEW from \in Times
          PROVE  Cardinality(PointsIn(from)') + Cardinality(AddingPoints(from)') <= LocationsAtOnce
      <3>1. PointsIn(from)' = PointsIn(from)
        BY <1>none DEF PointsIn, Window
      <3>2. Cardinality(PointsIn(from)) + Cardinality(AddingPoints(from)) <= LocationsAtOnce
        BY DEF LocationsInv
      <3>3. Cardinality(AddingPoints(from)') \in Nat /\ Cardinality(AddingPoints(from)') <= Cardinality(AddingPoints(from))
        BY <1>none DEF Ended
      <3>4. Cardinality(PointsIn(from)) \in Nat /\ Cardinality(AddingPoints(from)) \in Nat
        BY <1>sets
      <3> QED BY <3>1, <3>2, <3>3, <3>4, <1>n
    <2> QED
      BY <2>1, <2>2, <1>none DEF LocationsInv, Ended
  <1>1. ASSUME NEW r \in LocationRequests, RecordBegin(r) PROVE LocationsInv'
    <2>1. PICK source \in Sources :
              /\ Underway(trackedTrip, source)
              /\ \E at \in (IF source = "PERIODIC" THEN {t \in Times : ~Throttled(t)} ELSE {0}) :
                     BeginLocation(r, [op |-> "record", source |-> source, at |-> at])
      BY <1>1 DEF RecordBegin
    <2>2. PICK at \in Nat : /\ source = "PERIODIC" => at \in Times /\ ~Throttled(at)
                            /\ BeginLocation(r, [op |-> "record", source |-> source, at |-> at])
      <3>1. PICK at \in (IF source = "PERIODIC" THEN {t \in Times : ~Throttled(t)} ELSE {0}) :
                     BeginLocation(r, [op |-> "record", source |-> source, at |-> at])
        BY <2>1
      <3>2. at \in Nat /\ (source = "PERIODIC" => at \in Times /\ ~Throttled(at))
        OBVIOUS
      <3> QED BY <3>1, <3>2
    <2> QED
      BY <2>1, <2>2, <1>begin
  <1>2. ASSUME NEW r \in LocationRequests, RecordCommit(r) PROVE LocationsInv'
    <2>1. PICK t \in LocationRows : t = locationTx[r]
      BY <1>type DEF LocationsTypeOK
    <2>2. /\ t.op = "record" /\ locationTx' = [locationTx EXCEPT ![r] = NoLocationTx]
          /\ UNCHANGED <<trackedTrip, aboard, locationAlone>>
          /\ strays' = (strays \/ ~Underway(trackedTrip, t.source))
      BY <1>2, <2>1 DEF RecordCommit
    <2>e. Ended(r)
      BY <2>1, <2>2, <1>end
    <2>3. locationAlone => ~strays'
      BY <2>1, <2>2 DEF LocationsInv, Sending
    <2>4. strays' \in BOOLEAN
      BY <2>2, Zenon
    <2>5. CASE UNCHANGED points
      BY <2>2, <2>3, <2>4, <2>5, <2>e, <1>none
    <2>6. CASE ~UNCHANGED points
      <3>1. /\ t.source = "PERIODIC"
            /\ points' = points \cup
                   {[at |-> t.at, nth |-> Cardinality({p \in points : p.at = t.at}) + 1]}
        BY <1>2, <2>1, <2>6 DEF RecordCommit
      <3>2. Cardinality({p \in points : p.at = t.at}) \in Nat
        BY <1>type, AtMostAll DEF LocationsTypeOK
      <3> DEFINE nth == Cardinality({p \in points : p.at = t.at}) + 1
      <3>a. nth \in Nat /\ t.at \in Nat
        BY <3>2 DEF LocationRows
      <3>b. points' = points \cup {[at |-> t.at, nth |-> nth]}
        BY <3>1
      <3> HIDE DEF nth
      <3>3. PICK x \in PointRows : x.at = t.at /\ points' = points \cup {x}
        BY <3>a, <3>b DEF PointRows
      <3>4. LocationsTypeOK' /\ LocationsAtOnce' = LocationsAtOnce
        <4>1. IsFiniteSet(points') /\ points' \in SUBSET PointRows
          BY <3>3, <1>type, FS_AddElement DEF LocationsTypeOK
        <4> QED BY <4>1, <2>2, <2>4, <2>e, <1>type DEF LocationsTypeOK, LocationsAtOnce, Ended
      <3>5. \E p \in points' : \A q \in points' : q.at <= p.at
        <4>1. \A q \in points' : q.at \in Nat
          BY <3>4 DEF LocationsTypeOK, PointRows
        <4>2. CASE points = {}
          BY <3>3, <4>1, <4>2
        <4>3. CASE points # {}
          <5>1. PICK m \in points : \A q \in points : q.at <= m.at
            BY <4>3 DEF LocationsInv
          <5>2. m \in points' /\ x \in points' /\ m.at \in Nat /\ x.at \in Nat
            BY <3>3, <4>1
          <5>3. CASE x.at <= m.at
            <6>1. \A q \in points' : q.at <= m.at
              BY <3>3, <5>1, <5>3
            <6> QED BY <5>2, <6>1
          <5>4. CASE m.at <= x.at
            <6>1. \A q \in points' : q.at <= x.at
              BY <3>3, <4>1, <5>1, <5>2, <5>4
            <6> QED BY <5>2, <6>1
          <5> QED BY <5>2, <5>3, <5>4
        <4> QED BY <4>2, <4>3
      <3>6. ASSUME NEW from \in Times
            PROVE  Cardinality(PointsIn(from)') + Cardinality(AddingPoints(from)') <= LocationsAtOnce
        <4>1. Cardinality(PointsIn(from)) + Cardinality(AddingPoints(from)) <= LocationsAtOnce
          BY DEF LocationsInv
        <4>2. /\ Cardinality(PointsIn(from)) \in Nat /\ IsFiniteSet(PointsIn(from))
              /\ Cardinality(AddingPoints(from)) \in Nat
              /\ Cardinality(AddingPoints(from)') \in Nat /\ Cardinality(AddingPoints(from)') <= Cardinality(AddingPoints(from))
          BY <2>e, <1>sets DEF Ended
        <4>3. CASE x.at \in Window(from)
          <5>1. PointsIn(from)' \in SUBSET (PointsIn(from) \cup {x})
            BY <3>3 DEF PointsIn, Window
          <5>2. Cardinality(PointsIn(from)') <= Cardinality(PointsIn(from)) + 1
                /\ Cardinality(PointsIn(from)') \in Nat
            BY <4>2, <5>1, OneBeyond
          <5>3. r \in AddingPoints(from)
            BY <2>1, <2>2, <3>1, <3>3, <4>3 DEF AddingPoints
          <5>4. Cardinality(AddingPoints(from)') = Cardinality(AddingPoints(from)) - 1
            BY <2>e, <5>3 DEF Ended
          <5> QED BY <4>1, <4>2, <5>2, <5>4, <1>n
        <4>4. CASE x.at \notin Window(from)
          <5>1. PointsIn(from)' = PointsIn(from)
            BY <3>3, <4>4 DEF PointsIn, Window
          <5> QED BY <4>1, <4>2, <5>1, <1>n
        <4> QED BY <4>3, <4>4
      <3> QED
        BY <2>2, <2>3, <2>e, <3>4, <3>5, <3>6 DEF LocationsInv, Ended
    <2> QED BY <2>5, <2>6
  <1>3. ASSUME NEW r \in LocationRequests, RecordFails(r) PROVE LocationsInv'
    <2>1. /\ locationTx[r].op # "idle" /\ locationTx' = [locationTx EXCEPT ![r] = NoLocationTx]
          /\ UNCHANGED <<points, locationAlone, strays>>
      BY <1>3 DEF RecordFails
    <2>e. Ended(r)
      BY <2>1, <1>end
    <2>2. strays' \in BOOLEAN /\ (locationAlone => ~strays')
      BY <2>1 DEF LocationsInv, LocationsTypeOK
    <2> QED BY <2>1, <2>2, <2>e, <1>none
  <1>4. ASSUME NEW r \in LocationRequests, LatestBegin(r) PROVE LocationsInv'
    BY <1>4, <1>begin DEF LatestBegin
  <1>5. ASSUME NEW r \in LocationRequests, LatestShown(r) PROVE LocationsInv'
    <2>1. /\ locationTx[r].op = "latest" /\ locationTx' = [locationTx EXCEPT ![r] = NoLocationTx]
          /\ UNCHANGED <<points, locationAlone>>
          /\ strays' = (strays \/ ((otherPoints \/ PeriodicTimes # {}) /\ ~ShareRealtime))
      BY <1>5 DEF LatestShown
    <2>e. Ended(r)
      BY <2>1, <1>end
    <2>2. locationAlone => ~strays'
      BY <2>1 DEF LocationsInv, Sending
    <2>3. strays' \in BOOLEAN
      BY <2>1, Zenon
    <2> QED BY <2>1, <2>2, <2>3, <2>e, <1>none
  <1>6. CASE TripMoves \/ PassengerLeaves \/ UNCHANGED locationVars
    <2>1. /\ UNCHANGED <<points, locationTx, locationAlone, strays>>
          /\ trackedTrip' = trackedTrip \/ (locationAlone => Sending = {})
      BY <1>6 DEF TripMoves, PassengerLeaves, locationVars, LocationIdle, Sending
    <2>2. LocationsTypeOK' /\ LocationsAtOnce' = LocationsAtOnce /\ Sending' = Sending
          /\ \A from \in Times : PointsIn(from)' = PointsIn(from) /\ AddingPoints(from)' = AddingPoints(from)
      BY <2>1, <1>type DEF LocationsTypeOK, LocationsAtOnce, Sending, PointsIn, AddingPoints, Window
    <2> QED
      BY <2>1, <2>2 DEF LocationsInv, ShareRealtime
  <1> QED
    BY <1>1, <1>2, <1>3, <1>4, <1>5, <1>6 DEF TripLocationsNext

\* Points are spaced, and only of the trip underway.
LEMMA LocationsBounded == LocationsInv => PositionsAreBounded
  <1> SUFFICES ASSUME LocationsInv PROVE PositionsAreBounded
    OBVIOUS
  <1>1. ASSUME NEW from \in Times PROVE Cardinality(PointsIn(from)) <= LocationsAtOnce
    <2>1. PointsIn(from) \in SUBSET points /\ AddingPoints(from) \in SUBSET LocationRequests
      BY DEF PointsIn, AddingPoints
    <2>2. Cardinality(PointsIn(from)) \in Nat /\ Cardinality(AddingPoints(from)) \in Nat /\ LocationsAtOnce \in Nat
      BY <2>1, LocationAssumption, AtMostAll, FS_CardinalityType
         DEF LocationsInv, LocationsTypeOK, LocationsAtOnce
    <2> QED BY <2>2 DEF LocationsInv
  <1> QED
    BY <1>1 DEF PositionsAreBounded, PointsAreSpaced, PointsIn, Window, LocationsAtOnce,
                TrackedWhileUnderway, LocationsInv

-----------------------------------------------------------------------------
(* Ticket desk: the types, who takes part, what requests have read.        *)
DeskPeople == People \cup {Unassigned}
DeskPages == [internal : BOOLEAN, assigned : DeskPeople, people : SUBSET People, notes : BOOLEAN]
DeskReads == [op : {"idle", "assign", "page", "shown"}, who : DeskPeople, at : Nat, page : DeskPages]

DeskTypeOK ==
    /\ deskTicket \in [opened : BOOLEAN, about : SUBSET {"booking", "trip", "parcel"}, assigned : DeskPeople]
    /\ takingPart \in SUBSET People /\ noted \in BOOLEAN
    /\ newestAssigned \in [at : Nat, who : DeskPeople] /\ clock \in Nat
    /\ deskTx \in [DeskRequests -> DeskReads]

\* An assignee is among the people.
AssigneeAmong(who, people) == who # Unassigned => who \in people

\* What a request has read is so still, and what it shows fits.
DeskReadHolds(t) ==
    /\ t.op = "page" => AssigneeAmong(t.page.assigned, takingPart)
    /\ t.op = "shown" => AssigneeAmong(t.page.assigned, t.page.people) /\ (t.page.notes => t.page.internal)
    /\ t.op = "assign" => t.at <= clock

\* While assignments do not overlap, the one in flight is newer than the rest.
DeskInOrder ==
    /\ newestAssigned.who = deskTicket.assigned
    /\ \A r, q \in DeskRequests : deskTx[r].op = "assign" /\ deskTx[q].op = "assign" => r = q
    /\ \A r \in DeskRequests : deskTx[r].op = "assign" => deskTx[r].at > newestAssigned.at

DeskInv ==
    /\ DeskTypeOK
    /\ deskTicket.opened => Requester \in takingPart
    /\ ~deskTicket.opened => \A r \in DeskRequests : deskTx[r].op = "idle"
    /\ ~deskTicket.opened => deskTicket.assigned = Unassigned
    /\ AssigneeAmong(deskTicket.assigned, takingPart)
    /\ newestAssigned.at <= clock
    /\ \A r \in DeskRequests : DeskReadHolds(deskTx[r])
    /\ deskAlone => DeskInOrder

\* A request that does nothing has read nothing.
LEMMA IdleDesk ==
    /\ NoDeskTx \in DeskReads /\ NoDeskTx.op = "idle" /\ NoDeskTx.at = 0
    /\ NoPage \in DeskPages /\ NoPage.notes = FALSE
    /\ DeskReadHolds(NoDeskTx)
  <1>1. NoPage \in DeskPages /\ NoPage.notes = FALSE
    BY DEF NoPage, DeskPages, DeskPeople
  <1>2. NoDeskTx \in DeskReads /\ NoDeskTx.op = "idle" /\ NoDeskTx.at = 0
    BY <1>1 DEF NoDeskTx, DeskReads, DeskPeople
  <1> QED
    BY <1>1, <1>2 DEF DeskReadHolds

\* At first there is no ticket.
LEMMA DeskStart == TicketDeskInit => DeskInv
  <1> SUFFICES ASSUME TicketDeskInit PROVE DeskInv
    OBVIOUS
  <1>1. DeskTypeOK
    BY IdleDesk DEF TicketDeskInit, DeskTypeOK, DeskPeople
  <1> QED
    BY <1>1, IdleDesk DEF TicketDeskInit, DeskInv, DeskInOrder, AssigneeAmong

\* A request that is not an assignment, or ends, disturbs nothing if what it has
\* read holds.
LEMMA DeskRequestStep ==
    ASSUME DeskInv, NEW r \in DeskRequests, NEW t \in DeskReads, DeskReadHolds(t), t.op # "assign",
           deskTicket.opened, deskTx' = [deskTx EXCEPT ![r] = t],
           UNCHANGED <<deskTicket, takingPart, noted, newestAssigned, clock, deskAlone>>
    PROVE  DeskInv'
  <1>1. /\ DeskTypeOK'
        /\ \A q \in DeskRequests : deskTx'[q] = IF q = r THEN t ELSE deskTx[q]
    BY DEF DeskInv, DeskTypeOK
  <1>2. \A q \in DeskRequests : DeskReadHolds(deskTx[q])'
    BY <1>1 DEF DeskInv, DeskReadHolds
  <1>3. (deskAlone => DeskInOrder)'
    BY <1>1 DEF DeskInv, DeskInOrder
  <1> QED
    BY <1>1, <1>2, <1>3 DEF DeskInv, AssigneeAmong

\* Every step keeps the desk's invariant.
LEMMA DeskStep == DeskInv /\ [TicketDeskNext]_deskVars => DeskInv'
  <1> SUFFICES ASSUME DeskInv, [TicketDeskNext]_deskVars PROVE DeskInv'
    OBVIOUS
  <1>type. DeskTypeOK
    BY DEF DeskInv
  <1>1. CASE OpenTicket
    <2>1. PICK about \in SUBSET {"booking", "trip", "parcel"} :
              deskTicket' = [deskTicket EXCEPT !.opened = TRUE, !.about = about]
      BY <1>1 DEF OpenTicket
    <2>2. /\ deskTicket' \in [opened : BOOLEAN, about : SUBSET {"booking", "trip", "parcel"}, assigned : DeskPeople]
          /\ deskTicket'.opened /\ deskTicket'.assigned = deskTicket.assigned
      BY <2>1, <1>type DEF DeskTypeOK
    <2>3. /\ takingPart' = {Requester} /\ ~deskTicket.opened
          /\ UNCHANGED <<noted, newestAssigned, clock, deskTx, deskAlone>>
      BY <1>1 DEF OpenTicket
    <2>4. DeskTypeOK'
      BY <2>2, <2>3, <1>type DEF DeskTypeOK, People
    <2>5. \A r \in DeskRequests : deskTx'[r].op = "idle"
      BY <2>3 DEF DeskInv
    <2>6. \A r \in DeskRequests : DeskReadHolds(deskTx[r])'
      BY <2>5 DEF DeskReadHolds
    <2> QED
      BY <2>2, <2>3, <2>4, <2>5, <2>6 DEF DeskInv, DeskInOrder, AssigneeAmong
  <1>2. CASE AddInternalNote
    <2>1. /\ noted' \in BOOLEAN /\ deskTx' = deskTx
          /\ UNCHANGED <<deskTicket, takingPart, newestAssigned, clock, deskAlone>>
      BY <1>2 DEF AddInternalNote
    <2> QED
      BY <2>1 DEF DeskInv, DeskTypeOK, DeskInOrder, DeskReadHolds, AssigneeAmong
  <1>3. ASSUME NEW r \in DeskRequests, NEW who \in DeskPeople, AssignBegin(r, who) PROVE DeskInv'
    <2>1. PICK t : t = [op |-> "assign", who |-> who, at |-> clock + 1, page |-> NoPage]
      OBVIOUS
    <2>2. t \in DeskReads /\ t.op = "assign" /\ t.at = clock + 1
      BY <2>1, IdleDesk, <1>type DEF DeskReads, DeskTypeOK
    <2>3. /\ deskTicket.opened /\ clock' = clock + 1 /\ deskTx' = [deskTx EXCEPT ![r] = t]
          /\ deskAlone => \A q \in DeskRequests : deskTx[q].op # "assign"
          /\ UNCHANGED <<deskTicket, takingPart, noted, newestAssigned, deskAlone>>
      BY <1>3, <2>1 DEF AssignBegin
    <2>4. /\ DeskTypeOK'
          /\ \A q \in DeskRequests : deskTx'[q] = IF q = r THEN t ELSE deskTx[q]
      BY <2>2, <2>3, <1>type DEF DeskTypeOK
    <2>5. ASSUME NEW q \in DeskRequests PROVE DeskReadHolds(deskTx[q])'
      <3>1. deskTx[q] \in DeskReads /\ DeskReadHolds(deskTx[q]) /\ clock \in Nat
        BY <1>type DEF DeskTypeOK, DeskInv
      <3> QED BY <3>1, <2>2, <2>3, <2>4 DEF DeskReadHolds, DeskReads
    <2>6. (deskAlone => DeskInOrder)'
      BY <2>2, <2>3, <2>4, <1>type DEF DeskInv, DeskInOrder, DeskTypeOK
    <2>7. newestAssigned'.at <= clock'
      BY <2>3, <1>type DEF DeskInv, DeskTypeOK
    <2> QED
      BY <2>3, <2>4, <2>5, <2>6, <2>7 DEF DeskInv, AssigneeAmong
  <1>4. ASSUME NEW r \in DeskRequests, AssignCommit(r) PROVE DeskInv'
    <2> DEFINE t == deskTx[r]
    <2>1. t \in DeskReads /\ t.op = "assign" /\ t.who \in DeskPeople /\ t.at \in Nat /\ t.at <= clock
      BY <1>4, <1>type DEF AssignCommit, EndDesk, DeskTypeOK, DeskReads, DeskInv, DeskReadHolds
    <2>2. deskTicket.opened
      BY <2>1 DEF DeskInv
    <2>3. /\ deskTicket' = [deskTicket EXCEPT !.assigned = t.who] /\ takingPart' = Joined(t.who)
          /\ newestAssigned' = IF t.at > newestAssigned.at THEN [at |-> t.at, who |-> t.who] ELSE newestAssigned
          /\ deskTx' = [deskTx EXCEPT ![r] = NoDeskTx]
          /\ UNCHANGED <<noted, clock, deskAlone>>
      BY <1>4 DEF AssignCommit, EndDesk
    <2>4. /\ deskTicket' \in [opened : BOOLEAN, about : SUBSET {"booking", "trip", "parcel"}, assigned : DeskPeople]
          /\ deskTicket'.opened /\ deskTicket'.assigned = t.who
      BY <2>1, <2>2, <2>3, <1>type DEF DeskTypeOK
    <2>5. takingPart' \in SUBSET People /\ takingPart \subseteq takingPart' /\ AssigneeAmong(t.who, takingPart')
      BY <2>1, <2>3, <1>type DEF DeskTypeOK, Joined, AssigneeAmong, DeskPeople
    <2>6. /\ newestAssigned' \in [at : Nat, who : DeskPeople] /\ newestAssigned'.at <= clock'
          /\ t.at > newestAssigned.at => newestAssigned'.who = t.who
      BY <2>1, <2>3, <1>type DEF DeskTypeOK, DeskInv
    <2>7. /\ DeskTypeOK'
          /\ \A q \in DeskRequests : deskTx'[q] = IF q = r THEN NoDeskTx ELSE deskTx[q]
      BY <2>3, <2>4, <2>5, <2>6, IdleDesk, <1>type DEF DeskTypeOK
    <2>8. ASSUME NEW q \in DeskRequests PROVE DeskReadHolds(deskTx[q])'
      BY <2>3, <2>5, <2>7, IdleDesk DEF DeskReadHolds, DeskInv, AssigneeAmong
    <2>9. (deskAlone => DeskInOrder)'
      BY <2>1, <2>3, <2>4, <2>6, <2>7, IdleDesk DEF DeskInv, DeskInOrder
    <2> QED
      BY <2>4, <2>5, <2>6, <2>2, <2>7, <2>8, <2>9 DEF DeskInv
  <1>5. ASSUME NEW r \in DeskRequests, NEW internal \in BOOLEAN, PageBegin(r, internal) PROVE DeskInv'
    <2>1. PICK p : p = [NoPage EXCEPT !.internal = internal, !.assigned = deskTicket.assigned]
      OBVIOUS
    <2>2. p \in DeskPages /\ p.assigned = deskTicket.assigned
      BY <2>1, IdleDesk, <1>type DEF DeskPages, DeskTypeOK
    <2>3. PICK t : t = [NoDeskTx EXCEPT !.op = "page", !.page = p]
      OBVIOUS
    <2>4. t \in DeskReads /\ t.op = "page" /\ t.page = p
      BY <2>2, <2>3, IdleDesk DEF DeskReads
    <2>5. /\ deskTicket.opened /\ deskTx' = [deskTx EXCEPT ![r] = t]
          /\ UNCHANGED <<deskTicket, takingPart, noted, newestAssigned, clock, deskAlone>>
      BY <1>5, <2>1, <2>3 DEF PageBegin
    <2>6. DeskReadHolds(t)
      BY <2>2, <2>4 DEF DeskReadHolds, DeskInv
    <2> QED
      BY <2>4, <2>5, <2>6, DeskRequestStep
  <1>6. ASSUME NEW r \in DeskRequests, ShowPage(r) PROVE DeskInv'
    <2> DEFINE old == deskTx[r].page
    <2>1. old \in DeskPages /\ deskTx[r].op = "page" /\ AssigneeAmong(old.assigned, takingPart)
      BY <1>6, <1>type DEF ShowPage, DeskTypeOK, DeskReads, DeskInv, DeskReadHolds
    <2>2. PICK p : p = [old EXCEPT !.people = takingPart, !.notes = noted /\ old.internal]
      OBVIOUS
    <2>3. p.people = takingPart /\ p.notes = (noted /\ old.internal) /\ p.internal = old.internal /\ p.assigned = old.assigned
      BY <2>1, <2>2 DEF DeskPages
    <2>4. p \in DeskPages
      BY <2>1, <2>2, <1>type DEF DeskPages, DeskTypeOK
    <2>5. PICK t : t = [NoDeskTx EXCEPT !.op = "shown", !.page = p]
      OBVIOUS
    <2>6. t \in DeskReads /\ t.op = "shown" /\ t.page = p
      BY <2>4, <2>5, IdleDesk DEF DeskReads
    <2>7. deskTx' = [deskTx EXCEPT ![r] = t]
      BY <1>6, <2>2, <2>5 DEF ShowPage
    <2>8. deskTicket.opened
      BY <2>1 DEF DeskInv
    <2>9. DeskReadHolds(t)
      BY <2>1, <2>3, <2>6 DEF DeskReadHolds
    <2> QED
      BY <1>6, <2>6, <2>7, <2>8, <2>9, DeskRequestStep DEF ShowPage
  <1>7. ASSUME NEW r \in DeskRequests, DeskCloses(r) PROVE DeskInv'
    BY <1>7, IdleDesk, DeskRequestStep DEF DeskCloses, EndDesk, DeskInv
  <1>8. CASE UNCHANGED deskVars
    BY <1>8 DEF deskVars, DeskInv, DeskTypeOK, DeskInOrder, DeskReadHolds, AssigneeAmong
  <1> QED
    BY <1>1, <1>2, <1>3, <1>4, <1>5, <1>6, <1>7, <1>8
       DEF TicketDeskNext, OpenPage, OpenAdminPage, DeskPeople

\* The desk keeps its promises.
LEMMA DeskHolds == DeskInv => TicketDeskHolds
  BY DEF DeskInv, TicketDeskHolds, AssigneeTakesPart, PageIsConsistent, DeskReadHolds, AssigneeAmong, DeskInOrder

-----------------------------------------------------------------------------
(* Bookings as they are seen: the types, how far the trip has come, and    *)
(* what requests have read.                                                *)
BookingPages ==
    [booking : DOMAIN BookingStage, trip : DOMAIN TripStage, by : SUBSET ActorRoles]
BookingReads ==
    [op : {"idle", "startsBoarding", "starts", "completes", "cancelsTrip", "boards", "misses", "cancel",
           "readsBooking", "showsBooking", "readsStatus", "showsStatus"},
     role : ActorRoles \cup {"NONE"}, page : BookingPages]

BookingTypeOK ==
    /\ bookingRow \in DOMAIN BookingStage /\ tripRow \in DOMAIN TripStage
    /\ cancelledAs \in [ActorRoles -> Nat] /\ tripCancelledAs \in SUBSET ActorRoles
    /\ bookingTx \in [BookingRequests -> BookingReads]

\* What a request has read, the trip and the cancellations still bear out.
BookingReadHolds(t) ==
    /\ t.op = "cancel" => t.role \in ActorRoles
    /\ t.op \in DOMAIN tripTransitionTargets =>
           /\ t.page.trip \in tripAllowedTransitions[t.op] \cup {tripTransitionTargets[t.op]}
           /\ TripStage[t.page.trip] <= TripStage[tripRow]
    /\ t.op = "cancelsTrip" => t.role \in ActorRoles
    /\ t.op = "boards" => TripStage["BOARDING"] <= TripStage[tripRow]
    /\ t.op = "readsStatus" => BookingStage[t.page.booking] <= TripStage[tripRow]
    /\ t.op = "showsStatus" => BookingStage[t.page.booking] <= TripStage[t.page.trip]
    /\ t.op = "readsBooking" => \A a \in ActorRoles : t.page.booking = targetStatus[a] => Explains(a)
    /\ t.op = "showsBooking" => \A a \in ActorRoles :
           t.page.booking = targetStatus[a] => a \in t.page.by \/ a \in tripCancelledAs

\* While the requests that write the booking do not overlap, it is cancelled once,
\* and no request has read it as it was before.
CancelledOnce ==
    /\ \A r, q \in BookingRequests : Writes(bookingTx[r]) /\ Writes(bookingTx[q]) => r = q
    /\ \A r \in BookingRequests, a \in ActorRoles : Writes(bookingTx[r]) => cancelledAs[a] = 0
    /\ \A a, b \in ActorRoles :
           /\ cancelledAs[a] > 0 => bookingRow \in CancelledAsStatuses
           /\ cancelledAs[a] <= 1 /\ (cancelledAs[a] > 0 /\ cancelledAs[b] > 0 => a = b)

BookingInv ==
    /\ BookingTypeOK
    /\ BookingStage[bookingRow] <= TripStage[tripRow]
    /\ \A a \in ActorRoles : bookingRow = targetStatus[a] => Explains(a)
    /\ \A r \in BookingRequests : BookingReadHolds(bookingTx[r])
    /\ bookingAlone => CancelledOnce

\* The statuses of a booking and of its trip, and how far each has come.
LEMMA BookingTable ==
    /\ DOMAIN TripStage = {"PUBLISHED", "BOARDING", "IN_PROGRESS", "COMPLETED", "CANCELLED", "EXPIRED"}
    /\ {"SEAT_HELD", "CONFIRMED", "EXPIRED", "BOARDING", "IN_PROGRESS", "COMPLETED", "NO_SHOW_CLIENT",
        "NO_SHOW_DRIVER"} \subseteq DOMAIN BookingStage
    /\ CancelledAsStatuses \subseteq DOMAIN BookingStage
    /\ TripStage["PUBLISHED"] = 0 /\ TripStage["BOARDING"] = 1 /\ TripStage["IN_PROGRESS"] = 2
    /\ TripStage["COMPLETED"] = 3 /\ TripStage["CANCELLED"] = 4 /\ TripStage["EXPIRED"] = 4
    /\ \A t \in DOMAIN TripStage : TripStage[t] \in 0..4
    /\ \A b \in DOMAIN BookingStage :
           BookingStage[b] \in 0..3 /\ (b \notin {"BOARDING", "IN_PROGRESS", "COMPLETED"} => BookingStage[b] = 0)
    /\ BookingStage["BOARDING"] = 1 /\ BookingStage["IN_PROGRESS"] = 2 /\ BookingStage["COMPLETED"] = 3
  BY DEF TripStage, BookingStage, CancelledAsStatuses, ActorRoles, targetStatus

\* Each role has its own status, which is none of the others.
LEMMA TargetTable ==
    /\ \A a, b \in ActorRoles : targetStatus[a] = targetStatus[b] => a = b
    /\ \A a \in ActorRoles : targetStatus[a] \in CancelledAsStatuses
    /\ \A b \in CancelledAsStatuses :
           /\ b \notin {"SEAT_HELD", "CONFIRMED", "EXPIRED", "BOARDING", "IN_PROGRESS", "COMPLETED",
                        "NO_SHOW_CLIENT", "NO_SHOW_DRIVER"}
           /\ BookingStage[b] = 0
  BY DEF CancelledAsStatuses, ActorRoles, targetStatus, BookingStage

\* The table of the trip operations: none leads back.
LEMMA OperationTable ==
    /\ DOMAIN tripTransitionTargets = {"startsBoarding", "starts", "completes", "cancelsTrip"}
    /\ DOMAIN tripAllowedTransitions = DOMAIN tripTransitionTargets
    /\ \A op \in DOMAIN tripTransitionTargets :
           /\ tripTransitionTargets[op] \in DOMAIN TripStage
           /\ tripAllowedTransitions[op] \subseteq DOMAIN TripStage
           /\ \A from \in tripAllowedTransitions[op] : TripStage[from] <= TripStage[tripTransitionTargets[op]]
    /\ tripTransitionTargets["startsBoarding"] = "BOARDING" /\ tripTransitionTargets["starts"] = "IN_PROGRESS"
    /\ tripTransitionTargets["completes"] = "COMPLETED" /\ tripTransitionTargets["cancelsTrip"] = "CANCELLED"
  BY DEF tripTransitionTargets, tripAllowedTransitions, TripStage

\* A request that does nothing has read nothing.
LEMMA IdleBooking ==
    /\ NoBookingPage \in BookingPages
    /\ NoBookingTx \in BookingReads /\ NoBookingTx.op = "idle"
    /\ BookingReadHolds(NoBookingTx) /\ ~Writes(NoBookingTx)
  <1>1. NoBookingPage \in BookingPages
    BY BookingTable DEF NoBookingPage, BookingPages
  <1>2. NoBookingTx \in BookingReads /\ NoBookingTx.op = "idle"
    BY <1>1 DEF NoBookingTx, BookingReads
  <1> QED
    BY <1>1, <1>2, OperationTable DEF BookingReadHolds, Writes

\* At first the seat is held, and nothing was cancelled.
LEMMA BookingsStart == BookingDeskInit => BookingInv
  <1> SUFFICES ASSUME BookingDeskInit PROVE BookingInv
    OBVIOUS
  <1>1. BookingTypeOK
    BY IdleBooking, BookingTable DEF BookingDeskInit, BookingTypeOK
  <1>2. \A r \in BookingRequests : BookingReadHolds(bookingTx[r]) /\ ~Writes(bookingTx[r])
    BY IdleBooking DEF BookingDeskInit
  <1>3. /\ BookingStage[bookingRow] <= TripStage[tripRow]
        /\ \A a \in ActorRoles : bookingRow # targetStatus[a] /\ cancelledAs[a] = 0
    BY BookingTable, TargetTable DEF BookingDeskInit
  <1> QED
    BY <1>1, <1>2, <1>3 DEF BookingInv, CancelledOnce

\* The trip goes on, with a request that ends or without: what others have read still
\* holds, if the trip comes no less far, and far enough for the booking; and a booking
\* that is cancelled stays so, or is written by id.
LEMMA TripGoesOn ==
    ASSUME BookingInv, NEW r \in BookingRequests, NEW trip \in DOMAIN TripStage,
           NEW booking \in DOMAIN BookingStage,
           bookingTx' \in {bookingTx, [bookingTx EXCEPT ![r] = NoBookingTx]},
           tripRow' = trip, bookingRow' = booking, UNCHANGED <<cancelledAs, bookingAlone>>,
           tripCancelledAs' \in SUBSET ActorRoles, tripCancelledAs \subseteq tripCancelledAs',
           TripStage[tripRow] <= TripStage[trip], BookingStage[booking] <= TripStage[trip],
           \/ booking = bookingRow
           \/ /\ bookingRow \notin CancelledAsStatuses
              /\ \A a \in ActorRoles : booking = targetStatus[a] => a \in tripCancelledAs'
           \/ /\ bookingTx' # bookingTx /\ Writes(bookingTx[r])
              /\ booking \notin CancelledAsStatuses
    PROVE  BookingInv'
  <1>type. /\ BookingTypeOK /\ tripRow \in DOMAIN TripStage /\ cancelledAs \in [ActorRoles -> Nat]
    BY DEF BookingInv, BookingTypeOK
  <1>1. /\ BookingTypeOK'
        /\ \A q \in BookingRequests : bookingTx'[q] \in {bookingTx[q], NoBookingTx}
        /\ bookingTx' # bookingTx => bookingTx'[r] = NoBookingTx
    BY IdleBooking, <1>type DEF BookingTypeOK
  <1>2. \A a \in ActorRoles : Explains(a) => Explains(a)'
    BY DEF Explains
  <1>3. \A n \in 0..4 : n <= TripStage[tripRow] => n <= TripStage[tripRow']
    BY BookingTable, <1>type
  <1>4. ASSUME NEW q \in BookingRequests PROVE BookingReadHolds(bookingTx[q])'
    <2>1. BookingReadHolds(bookingTx'[q]) /\ bookingTx'[q] \in BookingReads
      BY <1>1, <1>type, IdleBooking DEF BookingInv, BookingTypeOK
    <2>2. bookingTx'[q].page.booking \in DOMAIN BookingStage /\ bookingTx'[q].page.trip \in DOMAIN TripStage
      BY <2>1 DEF BookingReads, BookingPages
    <2>3. /\ BookingStage[bookingTx'[q].page.booking] \in 0..4 /\ TripStage[bookingTx'[q].page.trip] \in 0..4
          /\ TripStage["BOARDING"] \in 0..4
      BY <2>2, BookingTable
    <2> QED BY <1>2, <1>3, <2>1, <2>3 DEF BookingReadHolds
  <1>5. (bookingAlone => CancelledOnce)'
    <2>1. \A q \in BookingRequests : Writes(bookingTx[q])' => Writes(bookingTx[q])
      BY <1>1, IdleBooking DEF Writes
    <2>2. bookingAlone => \A a \in ActorRoles : cancelledAs[a] > 0 => bookingRow' \in CancelledAsStatuses
      BY <1>type DEF BookingInv, CancelledOnce
    <2> QED BY <2>1, <2>2 DEF BookingInv, CancelledOnce
  <1>6. \A a \in ActorRoles : bookingRow' = targetStatus[a] => Explains(a)'
    BY <1>2, TargetTable DEF BookingInv, Explains
  <1> QED
    BY <1>1, <1>4, <1>5, <1>6 DEF BookingInv

\* The booking and the trip move, and no request ends.
LEMMA JourneyGoesOn ==
    ASSUME BookingInv, NEW trip \in DOMAIN TripStage, NEW booking \in DOMAIN BookingStage,
           Journey(trip, booking),
           TripStage[tripRow] <= TripStage[trip], BookingStage[booking] <= TripStage[trip],
           booking = bookingRow \/ (bookingRow \notin CancelledAsStatuses /\ booking \notin CancelledAsStatuses)
    PROVE  BookingInv'
  <1>1. /\ tripRow' = trip /\ bookingRow' = booking
        /\ UNCHANGED <<cancelledAs, tripCancelledAs, bookingTx, bookingAlone>>
    BY DEF Journey
  <1>2. tripCancelledAs' \in SUBSET ActorRoles
    BY <1>1 DEF BookingInv, BookingTypeOK
  <1>3. CASE BookingRequests = {}
    BY <1>1, <1>3, TargetTable DEF BookingInv, BookingTypeOK, CancelledOnce, Explains
  <1>4. CASE BookingRequests # {}
    BY <1>1, <1>2, <1>4, TripGoesOn, TargetTable
  <1> QED
    BY <1>3, <1>4

\* A request that reads, shows or ends disturbs nothing, if what it has read holds
\* and it does not write a booking that has been cancelled.
LEMMA BookingRequestStep ==
    ASSUME BookingInv, NEW r \in BookingRequests, NEW t \in BookingReads, BookingReadHolds(t),
           Writes(t) /\ bookingAlone => /\ \A q \in BookingRequests : ~Writes(bookingTx[q])
                                        /\ bookingRow \notin CancelledAsStatuses,
           bookingTx' = [bookingTx EXCEPT ![r] = t],
           UNCHANGED <<bookingRow, tripRow, cancelledAs, tripCancelledAs, bookingAlone>>
    PROVE  BookingInv'
  <1>1. /\ BookingTypeOK'
        /\ \A q \in BookingRequests : bookingTx'[q] = IF q = r THEN t ELSE bookingTx[q]
    BY DEF BookingInv, BookingTypeOK
  <1>2. \A a \in ActorRoles : Explains(a)' <=> Explains(a)
    BY DEF Explains
  <1>3. \A q \in BookingRequests : BookingReadHolds(bookingTx[q])'
    BY <1>1, <1>2 DEF BookingInv, BookingReadHolds
  <1>4. (bookingAlone => CancelledOnce)'
    <2>1. bookingAlone /\ bookingRow \notin CancelledAsStatuses => \A a \in ActorRoles : cancelledAs[a] = 0
      BY DEF BookingInv, BookingTypeOK, CancelledOnce
    <2> QED BY <1>1, <2>1 DEF BookingInv, CancelledOnce
  <1> QED
    BY <1>1, <1>2, <1>3, <1>4 DEF BookingInv

\* A trip operation ends: it moves the trip, and the booking no further.
LEMMA OperationStep ==
    ASSUME BookingInv, NEW r \in BookingRequests, NEW op \in DOMAIN tripTransitionTargets, NEW booking,
           TripOperationCommit(r, op, booking),
           tripCancelledAs' \in SUBSET ActorRoles, tripCancelledAs \subseteq tripCancelledAs',
           \/ booking = bookingRow
           \/ /\ booking \in DOMAIN BookingStage
              /\ BookingStage[booking] <= TripStage[tripTransitionTargets[op]]
              /\ \/ /\ bookingRow \notin CancelledAsStatuses
                    /\ \A a \in ActorRoles : booking = targetStatus[a] => a \in tripCancelledAs'
                 \/ Writes(bookingTx[r]) /\ booking \notin CancelledAsStatuses
    PROVE  BookingInv'
  <1> DEFINE read == bookingTx[r].page.trip
             target == tripTransitionTargets[op]
  <1>1. /\ bookingTx[r].op = op /\ bookingTx' = [bookingTx EXCEPT ![r] = NoBookingTx]
        /\ read # target => tripRow = read
        /\ tripRow' = IF read = target THEN tripRow ELSE target
        /\ bookingRow' = booking /\ UNCHANGED <<cancelledAs, bookingAlone>>
    BY DEF TripOperationCommit, EndBooking
  <1>2. /\ read \in tripAllowedTransitions[op] \cup {target} /\ TripStage[read] <= TripStage[tripRow]
        /\ tripRow \in DOMAIN TripStage /\ bookingRow \in DOMAIN BookingStage
        /\ BookingStage[bookingRow] <= TripStage[tripRow]
    BY <1>1 DEF BookingInv, BookingTypeOK, BookingReadHolds
  <1>3. bookingTx' # bookingTx
    BY <1>1, IdleBooking, OperationTable DEF BookingInv, BookingTypeOK
  <1>4. /\ target \in DOMAIN TripStage
        /\ \A from \in tripAllowedTransitions[op] : TripStage[from] <= TripStage[target]
    BY OperationTable
  <1> HIDE DEF read, target
  <1>5. /\ tripRow' \in DOMAIN TripStage /\ TripStage[tripRow] <= TripStage[tripRow']
        /\ TripStage[target] <= TripStage[tripRow']
    BY <1>1, <1>2, <1>4, BookingTable
  <1>6. booking \in DOMAIN BookingStage /\ BookingStage[booking] <= TripStage[tripRow']
    BY <1>2, <1>4, <1>5, BookingTable DEF target
  <1> QED
    BY <1>1, <1>3, <1>5, <1>6, TripGoesOn

\* Every step keeps the invariant of the bookings.
LEMMA BookingsStep == BookingInv /\ [BookingDeskNext]_bookingVars => BookingInv'
  <1> SUFFICES ASSUME BookingInv, [BookingDeskNext]_bookingVars PROVE BookingInv'
    OBVIOUS
  <1>type. /\ BookingTypeOK /\ bookingRow \in DOMAIN BookingStage /\ tripRow \in DOMAIN TripStage
           /\ BookingStage[bookingRow] <= TripStage[tripRow]
           /\ tripCancelledAs \in SUBSET ActorRoles
    BY DEF BookingInv, BookingTypeOK
  <1>1. CASE HoldEnds
    <2>1. PICK booking \in {"CONFIRMED", "EXPIRED"} : bookingRow = "SEAT_HELD" /\ Journey(tripRow, booking)
      BY <1>1 DEF HoldEnds
    <2>2. BookingStage[booking] = 0 /\ booking \in DOMAIN BookingStage
      BY BookingTable
    <2> QED BY <2>1, <2>2, <1>type, JourneyGoesOn, BookingTable, TargetTable
  <1>2. CASE TripExpires
    <2>1. Journey("EXPIRED", bookingRow)
      BY <1>2 DEF TripExpires
    <2>2. /\ "EXPIRED" \in DOMAIN TripStage /\ TripStage[tripRow] <= TripStage["EXPIRED"]
          /\ BookingStage[bookingRow] <= TripStage["EXPIRED"]
      BY <1>type, BookingTable
    <2> QED BY <2>1, <2>2, <1>type, JourneyGoesOn
  <1>3. CASE DriverMissing
    <2> DEFINE booking == Moves(Travelling, "NO_SHOW_DRIVER")
    <2>1. Journey("CANCELLED", booking)
      BY <1>3 DEF DriverMissing
    <2>2. booking = bookingRow \/ (booking = "NO_SHOW_DRIVER" /\ bookingRow \in Travelling)
      BY DEF Moves
    <2>3. bookingRow \in Travelling => bookingRow \notin CancelledAsStatuses
      BY TargetTable DEF Travelling
    <2> HIDE DEF booking
    <2>4. booking \in DOMAIN BookingStage /\ BookingStage[booking] <= TripStage["CANCELLED"]
      BY <2>2, <1>type, BookingTable
    <2>5. TripStage[tripRow] <= TripStage["CANCELLED"] /\ "CANCELLED" \in DOMAIN TripStage
      BY <1>type, BookingTable
    <2> QED BY <2>1, <2>2, <2>3, <2>4, <2>5, <1>type, JourneyGoesOn, TargetTable
  <1>4. ASSUME NEW r \in BookingRequests, NEW op \in DOMAIN tripTransitionTargets \cup {"boards", "misses", "cancel"},
               NEW role \in ActorRoles, NEW page \in BookingPages, BeginWrite(r, op, role, page),
               op \in DOMAIN tripTransitionTargets =>
                   /\ page.trip \in tripAllowedTransitions[op] \cup {tripTransitionTargets[op]}
                   /\ page.trip = tripRow /\ page.booking = bookingRow,
               op = "boards" => tripRow = "BOARDING",
               op \notin DOMAIN tripTransitionTargets => bookingRow \notin CancelledAsStatuses
        PROVE  BookingInv'
    <2> DEFINE t == [op |-> op, role |-> role, page |-> page]
    <2>1. t \in BookingReads /\ t.op = op /\ t.page = page /\ t.role = role
      BY OperationTable DEF BookingReads
    <2>2. /\ bookingTx' = [bookingTx EXCEPT ![r] = t]
          /\ bookingAlone => \A q \in BookingRequests : ~Writes(bookingTx[q])
          /\ UNCHANGED <<bookingRow, tripRow, cancelledAs, tripCancelledAs, bookingAlone>>
      BY <1>4 DEF BeginWrite, BeginBooking
    <2> HIDE DEF t
    <2>3. BookingReadHolds(t)
      BY <1>4, <2>1, <1>type, BookingTable, OperationTable DEF BookingReadHolds
    <2>4. Writes(t) => bookingRow \notin CancelledAsStatuses
      BY <1>4, <2>1, TargetTable, OperationTable DEF Writes
    <2> QED BY <2>1, <2>2, <2>3, <2>4, BookingRequestStep
  <1>5. ASSUME NEW r \in BookingRequests, NEW op \in DOMAIN tripTransitionTargets, NEW role \in ActorRoles,
               TripOperationBegin(r, op, role)
        PROVE  BookingInv'
    <2>1. PICK page : page = [booking |-> bookingRow, trip |-> tripRow, by |-> {}]
      OBVIOUS
    <2>2. page \in BookingPages /\ page.trip = tripRow /\ page.booking = bookingRow
      BY <2>1, <1>type DEF BookingPages
    <2>3. BeginWrite(r, op, role, page) /\ tripRow \in tripAllowedTransitions[op] \cup {tripTransitionTargets[op]}
      BY <1>5, <2>1 DEF TripOperationBegin
    <2> QED BY <2>2, <2>3, <1>4, OperationTable
  <1>6. ASSUME NEW r \in BookingRequests, PassengerBegin(r) \/ MissingBegin(r) PROVE BookingInv'
    <2>1. \E op \in {"boards", "misses"} : BeginWrite(r, op, "DRIVER", NoBookingPage)
      BY <1>6 DEF PassengerBegin, MissingBegin
    <2>2. tripRow = "BOARDING" /\ bookingRow \in {"CONFIRMED", "BOARDING"}
      BY <1>6 DEF PassengerBegin, MissingBegin
    <2> QED BY <2>1, <2>2, <1>4, IdleBooking, TargetTable, OperationTable DEF ActorRoles
  <1>7. ASSUME NEW r \in BookingRequests, BoardingCommit(r) PROVE BookingInv'
    <2>1. PICK booking : booking = IF bookingTx[r].page.booking = "CONFIRMED" THEN "BOARDING" ELSE bookingRow
      OBVIOUS
    <2>2. TripOperationCommit(r, "startsBoarding", booking) /\ UNCHANGED tripCancelledAs
      BY <1>7, <2>1 DEF BoardingCommit
    <2>3. booking = bookingRow \/ (Writes(bookingTx[r]) /\ booking = "BOARDING")
      BY <2>1, <2>2 DEF Writes, TripOperationCommit, EndBooking
    <2>4. booking = bookingRow \/ BookingStage[booking] <= TripStage[tripTransitionTargets["startsBoarding"]]
      BY <2>3, BookingTable, OperationTable
    <2> QED BY <2>2, <2>3, <2>4, <1>type, OperationStep, OperationTable, BookingTable, TargetTable
  <1>8. ASSUME NEW r \in BookingRequests, StartCommit(r) PROVE BookingInv'
    <2>1. PICK booking \in {Moves({"BOARDING"}, "IN_PROGRESS"), bookingRow} :
              TripOperationCommit(r, "starts", booking) /\ UNCHANGED tripCancelledAs
      BY <1>8 DEF StartCommit
    <2>2. booking = bookingRow \/ (booking = "IN_PROGRESS" /\ bookingRow = "BOARDING")
      BY DEF Moves
    <2>3. booking = bookingRow \/ BookingStage[booking] <= TripStage[tripTransitionTargets["starts"]]
      BY <2>2, BookingTable, OperationTable
    <2> QED BY <2>1, <2>2, <2>3, <1>type, OperationStep, OperationTable, BookingTable, TargetTable
  <1>9. ASSUME NEW r \in BookingRequests, CompleteCommit(r) PROVE BookingInv'
    <2>1. PICK booking : booking = Moves({"IN_PROGRESS", "BOARDING"}, "COMPLETED")
      OBVIOUS
    <2>2. TripOperationCommit(r, "completes", booking) /\ UNCHANGED tripCancelledAs
      BY <1>9, <2>1 DEF CompleteCommit
    <2>3. booking = bookingRow \/ (booking = "COMPLETED" /\ bookingRow \in {"IN_PROGRESS", "BOARDING"})
      BY <2>1 DEF Moves
    <2>4. booking = bookingRow \/ BookingStage[booking] <= TripStage[tripTransitionTargets["completes"]]
      BY <2>3, BookingTable, OperationTable
    <2> QED BY <2>2, <2>3, <2>4, <1>type, OperationStep, OperationTable, BookingTable, TargetTable
  <1>10. ASSUME NEW r \in BookingRequests, CancelTripCommit(r) PROVE BookingInv'
    <2>1. PICK role : role = bookingTx[r].role
      OBVIOUS
    <2>2. PICK booking : booking = Moves(Travelling, targetStatus[role])
      OBVIOUS
    <2>3. TripOperationCommit(r, "cancelsTrip", booking) /\ tripCancelledAs' = tripCancelledAs \cup {role}
      BY <1>10, <2>1, <2>2 DEF CancelTripCommit
    <2>4. role \in ActorRoles
      BY <2>1, <2>3 DEF TripOperationCommit, EndBooking, BookingInv, BookingReadHolds
    <2>5. booking = bookingRow \/ (booking = targetStatus[role] /\ bookingRow \in Travelling)
      BY <2>2 DEF Moves
    <2>6. bookingRow \in Travelling => bookingRow \notin CancelledAsStatuses
      BY TargetTable DEF Travelling
    <2>7. booking # bookingRow => /\ booking \in DOMAIN BookingStage
                                  /\ BookingStage[booking] <= TripStage[tripTransitionTargets["cancelsTrip"]]
      BY <2>4, <2>5, BookingTable, TargetTable, OperationTable
    <2>8. \A a \in ActorRoles : booking = targetStatus[a] => booking = bookingRow \/ a \in tripCancelledAs'
      BY <2>3, <2>4, <2>5, TargetTable
    <2> QED BY <2>3, <2>4, <2>5, <2>6, <2>7, <2>8, <1>type, OperationStep, OperationTable
  <1>11. ASSUME NEW r \in BookingRequests, PassengerCommit(r) PROVE BookingInv'
    <2>1. PICK op \in {"boards", "misses"} :
              /\ EndBooking(r, op)
              /\ bookingRow' = IF op = "boards" THEN "BOARDING" ELSE "NO_SHOW_CLIENT"
              /\ UNCHANGED <<tripRow, cancelledAs, tripCancelledAs>>
      BY <1>11 DEF PassengerCommit
    <2>2. /\ bookingTx[r].op = op /\ bookingTx' = [bookingTx EXCEPT ![r] = NoBookingTx]
          /\ UNCHANGED <<tripRow, cancelledAs, tripCancelledAs, bookingAlone>>
      BY <2>1 DEF EndBooking
    <2>3. Writes(bookingTx[r]) /\ (op = "boards" => TripStage["BOARDING"] <= TripStage[tripRow])
      BY <2>2 DEF Writes, BookingInv, BookingReadHolds
    <2>4. BookingStage[bookingRow'] <= TripStage[tripRow'] /\ bookingRow' \in DOMAIN BookingStage
      BY <2>1, <2>2, <2>3, <1>type, BookingTable
    <2>5. TripStage[tripRow] <= TripStage[tripRow'] /\ bookingRow' \notin CancelledAsStatuses
      BY <2>1, <2>2, <1>type, BookingTable, TargetTable
    <2>6. bookingTx' # bookingTx
      BY <2>2, <1>type, IdleBooking DEF BookingTypeOK
    <2> QED BY <2>2, <2>3, <2>4, <2>5, <2>6, <1>type, TripGoesOn
  <1>12. ASSUME NEW r \in BookingRequests, NEW role \in ActorRoles, CancelBookingBegin(r, role) PROVE BookingInv'
    <2>1. BeginWrite(r, "cancel", role, NoBookingPage) /\ bookingRow \notin CancelledAsStatuses
      BY <1>12 DEF CancelBookingBegin
    <2> QED BY <2>1, <1>4, IdleBooking, OperationTable
  <1>13. ASSUME NEW r \in BookingRequests, CancelBookingCommit(r) PROVE BookingInv'
    <2> DEFINE role == bookingTx[r].role
    <2>1. bookingTx[r].op = "cancel" /\ role \in ActorRoles
      BY <1>13 DEF CancelBookingCommit, EndBooking, BookingInv, BookingReadHolds
    <2>2. /\ bookingTx' = [bookingTx EXCEPT ![r] = NoBookingTx]
          /\ bookingRow' = targetStatus[role] /\ cancelledAs' = [cancelledAs EXCEPT ![role] = @ + 1]
          /\ UNCHANGED <<tripRow, tripCancelledAs, bookingAlone>>
      BY <1>13 DEF CancelBookingCommit, EndBooking
    <2> HIDE DEF role
    <2>3. /\ \A q \in BookingRequests : bookingTx'[q] = IF q = r THEN NoBookingTx ELSE bookingTx[q]
          /\ cancelledAs \in [ActorRoles -> Nat] /\ cancelledAs' \in [ActorRoles -> Nat]
          /\ \A a \in ActorRoles : cancelledAs'[a] = IF a = role THEN cancelledAs[a] + 1 ELSE cancelledAs[a]
          /\ bookingRow' \in CancelledAsStatuses /\ BookingStage[bookingRow'] = 0
      BY <2>1, <2>2, <1>type, TargetTable DEF BookingTypeOK
    <2>4. BookingTypeOK'
      BY <2>2, <2>3, <1>type, IdleBooking, BookingTable DEF BookingTypeOK
    <2>5. \A a \in ActorRoles : (Explains(a) => Explains(a)') /\ (a = role => Explains(a)')
      BY <2>2, <2>3 DEF Explains
    <2>6. \A q \in BookingRequests : BookingReadHolds(bookingTx[q])'
      <3>1. ASSUME NEW q \in BookingRequests PROVE BookingReadHolds(bookingTx'[q])
        BY <2>3, IdleBooking DEF BookingInv
      <3> QED BY <3>1, <2>2, <2>5 DEF BookingReadHolds
    <2>7. (bookingAlone => CancelledOnce)'
      <3>1. \A q \in BookingRequests : Writes(bookingTx[q])' => q # r /\ Writes(bookingTx[q])
        BY <2>3, IdleBooking DEF Writes
      <3>2. Writes(bookingTx[r])
        BY <2>1 DEF Writes
      <3> QED BY <2>2, <2>3, <3>1, <3>2 DEF BookingInv, CancelledOnce
    <2>8. BookingStage[bookingRow'] <= TripStage[tripRow']
      BY <2>2, <2>3, <1>type, BookingTable
    <2>9. \A a \in ActorRoles : bookingRow' = targetStatus[a] => Explains(a)'
      BY <2>1, <2>2, <2>5, TargetTable
    <2> QED BY <2>3, <2>4, <2>6, <2>7, <2>8, <2>9 DEF BookingInv
  <1>14. ASSUME NEW r \in BookingRequests, NEW kind \in {"readsBooking", "readsStatus"},
                ReadsBooking(r, kind)
         PROVE  BookingInv'
    <2>1. PICK p : p = [NoBookingPage EXCEPT !.booking = bookingRow]
      OBVIOUS
    <2>2. p \in BookingPages /\ p.booking = bookingRow
      BY <2>1, <1>type, IdleBooking DEF BookingPages
    <2> DEFINE t == [op |-> kind, role |-> "NONE", page |-> p]
    <2>3. t \in BookingReads /\ t.op = kind /\ t.page.booking = bookingRow
      BY <2>2 DEF BookingReads
    <2>4. /\ bookingTx' = [bookingTx EXCEPT ![r] = t]
          /\ UNCHANGED <<bookingRow, tripRow, cancelledAs, tripCancelledAs, bookingAlone>>
      BY <1>14, <2>1 DEF ReadsBooking, BeginBooking
    <2> HIDE DEF t
    <2>5. BookingReadHolds(t) /\ ~Writes(t)
      BY <2>3, <1>type, OperationTable DEF BookingReadHolds, BookingInv, Writes
    <2> QED BY <2>3, <2>4, <2>5, BookingRequestStep
  <1>15. ASSUME NEW r \in BookingRequests, ShowBooking(r) PROVE BookingInv'
    <2> DEFINE old == bookingTx[r].page
    <2>1. /\ bookingTx[r].op = "readsBooking" /\ old \in BookingPages
          /\ \A a \in ActorRoles : old.booking = targetStatus[a] => Explains(a)
      BY <1>15, <1>type DEF ShowBooking, Shows, BookingTypeOK, BookingReads, BookingInv, BookingReadHolds
    <2> HIDE DEF old
    <2>2. PICK p : p = [old EXCEPT !.by = {a \in ActorRoles : cancelledAs[a] > 0}]
      OBVIOUS
    <2>3. p \in BookingPages /\ p.booking = old.booking /\ p.by = {a \in ActorRoles : cancelledAs[a] > 0}
      BY <2>1, <2>2 DEF BookingPages
    <2> DEFINE t == [NoBookingTx EXCEPT !.op = "showsBooking", !.page = p]
    <2>4. t \in BookingReads /\ t.op = "showsBooking" /\ t.page = p
      BY <2>3, IdleBooking DEF BookingReads
    <2>5. /\ bookingTx' = [bookingTx EXCEPT ![r] = t]
          /\ UNCHANGED <<bookingRow, tripRow, cancelledAs, tripCancelledAs, bookingAlone>>
      BY <1>15, <2>2 DEF ShowBooking, Shows, old
    <2> HIDE DEF t
    <2>6. BookingReadHolds(t) /\ ~Writes(t)
      BY <2>1, <2>3, <2>4, OperationTable DEF BookingReadHolds, Explains, Writes
    <2> QED BY <2>4, <2>5, <2>6, BookingRequestStep
  <1>16. ASSUME NEW r \in BookingRequests, ShowOperationStatus(r) PROVE BookingInv'
    <2> DEFINE old == bookingTx[r].page
    <2>1. /\ bookingTx[r].op = "readsStatus" /\ old \in BookingPages
          /\ BookingStage[old.booking] <= TripStage[tripRow]
      BY <1>16, <1>type DEF ShowOperationStatus, Shows, BookingTypeOK, BookingReads, BookingInv, BookingReadHolds
    <2> HIDE DEF old
    <2>2. PICK p : p = [old EXCEPT !.trip = tripRow]
      OBVIOUS
    <2>3. p \in BookingPages /\ p.booking = old.booking /\ p.trip = tripRow
      BY <2>1, <2>2, <1>type DEF BookingPages
    <2> DEFINE t == [NoBookingTx EXCEPT !.op = "showsStatus", !.page = p]
    <2>4. t \in BookingReads /\ t.op = "showsStatus" /\ t.page = p
      BY <2>3, IdleBooking DEF BookingReads
    <2>5. /\ bookingTx' = [bookingTx EXCEPT ![r] = t]
          /\ UNCHANGED <<bookingRow, tripRow, cancelledAs, tripCancelledAs, bookingAlone>>
      BY <1>16, <2>2 DEF ShowOperationStatus, Shows, old
    <2> HIDE DEF t
    <2>6. BookingReadHolds(t) /\ ~Writes(t)
      BY <2>1, <2>3, <2>4, OperationTable DEF BookingReadHolds, Writes
    <2> QED BY <2>4, <2>5, <2>6, BookingRequestStep
  <1>17. ASSUME NEW r \in BookingRequests, BookingCloses(r) PROVE BookingInv'
    BY <1>17, IdleBooking, BookingRequestStep DEF BookingCloses, EndBooking
  <1>18. CASE UNCHANGED bookingVars
    BY <1>18 DEF bookingVars, BookingInv, BookingTypeOK, CancelledOnce, BookingReadHolds, Explains
  <1>19. {"CLIENT", "DRIVER", "ADMIN"} = ActorRoles
    BY DEF ActorRoles
  <1> QED
    BY <1>1, <1>2, <1>3, <1>5, <1>6, <1>7, <1>8, <1>9, <1>10, <1>11, <1>12, <1>13, <1>14, <1>15, <1>16,
       <1>17, <1>18, <1>19, OperationTable
       DEF BookingDeskNext, ClientCancels, AdminCancels, DriverRejects, ClientOpensBooking, DriverOpensBookings,
           AdminOpensBooking, ClientOpensStatus, DriverApproves

\* What is shown of a booking has happened.
LEMMA BookingsShown == BookingInv => BookingDeskHolds
  BY DEF BookingInv, BookingDeskHolds, CancellationExplained, PagesKeepUp, BookingReadHolds, CancelledOnce

-----------------------------------------------------------------------------
(* Search.  A trip has a place: the number of matches before it.  A sorted *)
(* result has every trip at its place, so a page shows the trips of its    *)
(* places; a change of one trip moves each of the others by a place at     *)
(* most.  Hence at most one steady trip per change is missed or repeated.  *)
\* The trips on offer, and what is shown of a trip.
OfferRows == [open : BOOLEAN, price : Nat, seats : Nat, departs : Departures]
ShownRows == [id : Offers, departureAtUtc : Departures, availableSeatCount : Nat,
              pricePerSeatMinor : Nat]

SearchTypeOK ==
    /\ offers \in [Offers -> OfferRows]
    /\ query \in [sort : Sorts, departureWindow : {"none", "night"},
                  minPriceMinor : Int, maxPriceMinor : Int]
    /\ found \in Seq(ShownRows)
    /\ nextPage \in Nat \ {0} /\ hasMore \in BOOLEAN /\ changes \in Nat

\* Which trips come before a trip, and how many they are.
Precedes(s, t) == s # t /\ stableTripSort(s, t)
Earlier(t) == {s \in Matches : Precedes(s, t)}
Place(t) == Cardinality(Earlier(t))

\* What trips are sorted by are numbers.
LEMMA SortKeys ==
    ASSUME SearchTypeOK
    PROVE  \A t \in Offers : SortKey(offers[t]) \in Int /\ offers[t].departs \in Int /\ t \in Int
  <1> SUFFICES ASSUME NEW t \in Offers
               PROVE  SortKey(offers[t]) \in Int /\ offers[t].departs \in Int /\ t \in Int
    OBVIOUS
  <1>1. offers[t] \in OfferRows
    BY DEF SearchTypeOK
  <1>2. offers[t].price \in Nat /\ offers[t].seats \in Nat /\ offers[t].departs \in 19 .. 42 /\ t \in Nat
    <2>1. Offers \subseteq Nat /\ Departures \subseteq 19 .. 42
      BY SearchAssumption
    <2> QED BY <1>1, <2>1 DEF OfferRows
  <1>3. SortKey(offers[t]) \in Int
    BY <1>2 DEF SortKey
  <1> QED BY <1>2, <1>3

\* The order in which trips are shown is a strict and total one.
LEMMA OrderIsTotal ==
    ASSUME SearchTypeOK, NEW s \in Offers, NEW t \in Offers
    PROVE  /\ s # t => Precedes(s, t) \/ Precedes(t, s)
           /\ ~(Precedes(s, t) /\ Precedes(t, s))
           /\ Precedes(s, t) => SortKey(offers[s]) <= SortKey(offers[t])
           /\ \A u \in Offers : Precedes(s, t) /\ Precedes(t, u) => Precedes(s, u)
  BY SortKeys DEF Precedes, stableTripSort

\* Trips that match, and those before a trip, can be counted.
LEMMA MatchesFinite ==
    /\ Matches \subseteq Offers /\ IsFiniteSet(Matches) /\ Cardinality(Matches) \in Nat
    /\ \A t : Earlier(t) \subseteq Matches /\ IsFiniteSet(Earlier(t)) /\ Place(t) \in Nat
  <1>1. Matches \subseteq Offers
    BY DEF Matches
  <1>2. IsFiniteSet(Matches)
    BY <1>1, SearchAssumption, FS_Subset
  <1>3. ASSUME NEW t PROVE Earlier(t) \subseteq Matches
    BY DEF Earlier
  <1> QED BY <1>1, <1>2, <1>3, FS_Subset, FS_CardinalityType DEF Place

\* No two trips have one place.
LEMMA PlacesDiffer ==
    ASSUME SearchTypeOK, NEW s \in Matches, NEW t \in Matches, Precedes(s, t)
    PROVE  Place(s) + 1 <= Place(t)
  <1>1. s \in Offers /\ t \in Offers
    BY MatchesFinite
  <1>2. Earlier(s) \cup {s} \subseteq Earlier(t)
    <2>1. \A u \in Earlier(s) : u \in Matches /\ u \in Offers /\ Precedes(u, s)
      BY MatchesFinite DEF Earlier
    <2> QED BY <1>1, <2>1, OrderIsTotal DEF Earlier
  <1>3. s \notin Earlier(s)
    BY DEF Earlier, Precedes
  <1>4. Cardinality(Earlier(s) \cup {s}) = Cardinality(Earlier(s)) + 1
    BY <1>3, MatchesFinite, FS_AddElement
  <1>5. Cardinality(Earlier(s) \cup {s}) <= Cardinality(Earlier(t))
    BY <1>2, MatchesFinite, FS_Subset
  <1> QED BY <1>4, <1>5 DEF Place

\* Each place is that of one trip.
LEMMA PlaceOfOne ==
    ASSUME SearchTypeOK, NEW s \in Matches, NEW t \in Matches, Place(s) = Place(t)
    PROVE  s = t
  <1>1. s \in Offers /\ t \in Offers /\ Place(s) \in Nat /\ Place(t) \in Nat
    BY MatchesFinite
  <1>2. ~Precedes(s, t)
    BY <1>1, PlacesDiffer
  <1>3. ~Precedes(t, s)
    BY <1>1, PlacesDiffer
  <1> QED BY <1>1, <1>2, <1>3, OrderIsTotal

\* In a sorted result every trip stands at its place.
LEMMA SortedByPlace ==
    ASSUME SearchTypeOK, NEW sorted \in Sorted(Matches)
    PROVE  /\ sorted \in [1 .. Cardinality(Matches) -> Matches]
           /\ \A i \in 1 .. Cardinality(Matches) : Place(sorted[i]) = i - 1
           /\ \A t \in Matches : \E i \in 1 .. Cardinality(Matches) : sorted[i] = t
  <1> DEFINE N == Cardinality(Matches)
  <1>1. N \in Nat /\ IsFiniteSet(1 .. N) /\ Cardinality(1 .. N) = N
    BY MatchesFinite, FS_Interval
  <1>2. /\ sorted \in [1 .. N -> Matches]
        /\ \A i, j \in 1 .. N : i # j => sorted[i] # sorted[j]
        /\ \A i, j \in 1 .. N : i < j => stableTripSort(sorted[i], sorted[j])
    BY DEF Sorted, SetToSeqs
  <1> HIDE DEF N
  <1>3. sorted \in Injection(1 .. N, Matches)
    BY <1>2 DEF Injection, IsInjective
  <1>4. sorted \in Surjection(1 .. N, Matches)
    BY <1>1, <1>3, MatchesFinite, FS_Injection DEF N
  <1>5. \A t \in Matches : \E i \in 1 .. N : sorted[i] = t
    BY <1>4 DEF Surjection
  <1>6. ASSUME NEW i \in 1 .. N PROVE Place(sorted[i]) = i - 1
    <2> DEFINE g == [j \in 1 .. (i - 1) |-> sorted[j]]
    <2>1. i \in Nat /\ 1 .. (i - 1) \subseteq 1 .. N
      BY <1>1
    <2>2. ASSUME NEW j \in 1 .. N PROVE sorted[j] \in Earlier(sorted[i]) <=> j < i
      <3>1. CASE j < i
        BY <1>2, <3>1 DEF Earlier, Precedes
      <3>2. CASE j > i
        <4>1. Precedes(sorted[i], sorted[j])
          BY <1>2, <3>2 DEF Precedes
        <4>2. ~Precedes(sorted[j], sorted[i])
          BY <4>1, <1>2, MatchesFinite, OrderIsTotal
        <4> QED BY <3>2, <4>2 DEF Earlier
      <3>3. CASE j = i
        BY <3>3 DEF Earlier, Precedes
      <3> QED BY <3>1, <3>2, <3>3, <1>1
    <2>3. g \in [1 .. (i - 1) -> Earlier(sorted[i])]
      BY <1>1, <2>1, <2>2
    <2>4. g \in Injection(1 .. (i - 1), Earlier(sorted[i]))
      BY <1>2, <2>1, <2>3 DEF Injection, IsInjective
    <2>5. g \in Surjection(1 .. (i - 1), Earlier(sorted[i]))
      <3>1. ASSUME NEW t \in Earlier(sorted[i]) PROVE \E j \in 1 .. (i - 1) : g[j] = t
        <4>1. PICK j \in 1 .. N : sorted[j] = t
          BY <1>5, MatchesFinite
        <4>2. j < i
          BY <2>2, <4>1
        <4> QED BY <4>1, <4>2
      <3> QED BY <2>3, <3>1 DEF Surjection
    <2>6. ExistsBijection(1 .. (i - 1), Earlier(sorted[i]))
      <3> HIDE DEF g
      <3> QED BY <2>4, <2>5 DEF ExistsBijection, Bijection
    <2>7. IsFiniteSet(1 .. (i - 1)) /\ Cardinality(1 .. (i - 1)) = i - 1
      <3>1. i - 1 \in Int /\ 1 \in Int /\ (IF 1 > i - 1 THEN 0 ELSE (i - 1) - 1 + 1) = i - 1
        BY <1>1
      <3> QED BY <3>1, FS_Interval
    <2> QED BY <2>6, <2>7, FS_Bijection DEF Place
  <1> QED BY <1>2, <1>5, <1>6 DEF N

-----------------------------------------------------------------------------
\* The place up to which the pages have been read.
ReadTo == (nextPage - 1) * PageSize

\* Trips that were passed over, and trips that were shown twice or still may be.
Missed == {t \in steady : Shown(t) = {} /\ Place(t) < ReadTo}
Repeated == {t \in steady : \/ \E i, j \in Shown(t) : i # j
                            \/ Shown(t) # {} /\ Place(t) >= ReadTo}

\* Before anything changes, what was found is what stands at the places read.
AsPlaced ==
    /\ hasMore => Len(found) = ReadTo
    /\ \A i \in 1 .. Len(found) :
           /\ found[i].id \in Matches /\ Place(found[i].id) = i - 1
           /\ found[i] = publicTripDto(found[i].id)

\* A row within what was asked for.
RowAsAsked(row) ==
    /\ query.departureWindow = "night" => (row.departureAtUtc + 5) % 24 \in {22, 23} \cup (0 .. 4)
    /\ query.maxPriceMinor # Unset => row.pricePerSeatMinor <= query.maxPriceMinor

\* A change moves every other trip by a place at most: no more of the steady trips are
\* missed, nor repeated, than there were changes.
SearchInv ==
    /\ SearchTypeOK
    /\ steady \subseteq Matches
    /\ nextPage = 1 => found = <<>> /\ steady = {} /\ changes = 0 /\ hasMore
    /\ ~hasMore => \A t \in Matches : Place(t) < ReadTo
    /\ Cardinality(Missed) <= changes
    /\ Cardinality(Repeated) <= changes
    /\ changes = 0 => AsPlaced
    /\ \A i \in 1 .. Len(found) : RowAsAsked(found[i])

\* Places are counted from 0.
LEMMA ReadToIsNat == ASSUME SearchTypeOK PROVE ReadTo \in Nat /\ PageSize \in Nat \ {0}
  <1>1. PageSize \in Nat \ {0} /\ nextPage - 1 \in Nat
    BY SearchAssumption DEF SearchTypeOK
  <1>2. \A m, n \in Nat : m * n \in Nat
    OBVIOUS
  <1> QED BY <1>1, <1>2 DEF ReadTo

\* A change of one trip moves every other by a place at most.
LEMMA ChangeShifts ==
    ASSUME SearchTypeOK, NEW t \in Offers, NEW row \in OfferRows, ChangeOffer(t, row),
           NEW u \in Matches, u # t
    PROVE  u \in Matches' /\ Place(u) - 1 <= Place(u)' /\ Place(u)' <= Place(u) + 1
  <1>1. /\ offers' = [offers EXCEPT ![t] = row] /\ query' = query
        /\ \A s \in Offers : s # t => offers'[s] = offers[s]
    BY DEF ChangeOffer, SearchTypeOK
  <1>2. \A s \in Offers : s # t => (s \in Matches' <=> s \in Matches)
    BY <1>1 DEF Matches, PriceFits
  <1>3. u \in Offers /\ u \in Matches'
    BY <1>2, MatchesFinite
  <1>4. \A s \in Offers : s # t => (Precedes(s, u)' <=> Precedes(s, u))
    BY <1>1, <1>3 DEF Precedes, stableTripSort, SortKey
  <1>5. Earlier(u)' \ {t} = Earlier(u) \ {t}
    <2>1. Matches \subseteq Offers /\ Matches' \subseteq Offers
      BY DEF Matches
    <2> QED BY <1>2, <1>4, <2>1 DEF Earlier
  <1>6. /\ IsFiniteSet(Earlier(u)) /\ Cardinality(Earlier(u)) \in Nat
        /\ IsFiniteSet(Earlier(u)') /\ Cardinality(Earlier(u)') \in Nat
    <2>1. Earlier(u) \subseteq Offers /\ Earlier(u)' \subseteq Offers
      BY DEF Earlier, Matches
    <2> QED BY <2>1, SearchAssumption, FS_Subset, FS_CardinalityType
  <1>7. /\ Cardinality(Earlier(u) \ {t}) \in {Cardinality(Earlier(u)), Cardinality(Earlier(u)) - 1}
        /\ Cardinality(Earlier(u)' \ {t}) \in {Cardinality(Earlier(u)'), Cardinality(Earlier(u)') - 1}
    BY <1>6, FS_RemoveElement
  <1>8. Place(u) = Cardinality(Earlier(u)) /\ Place(u)' = Cardinality(Earlier(u)')
    BY DEF Place
  <1>9. \A m, n \in Nat : \A k : k \in {m, m - 1} /\ k \in {n, n - 1} => m - 1 <= n /\ n <= m + 1
    OBVIOUS
  <1>10. /\ Cardinality(Earlier(u)) - 1 <= Cardinality(Earlier(u)')
         /\ Cardinality(Earlier(u)') <= Cardinality(Earlier(u)) + 1
    BY <1>5, <1>6, <1>7, <1>9
  <1> QED BY <1>3, <1>8, <1>10

\* At most one trip has a given place, so a set grows by one with those of a place.
LEMMA GrowsByPlace ==
    ASSUME SearchTypeOK, NEW A \in SUBSET Matches, NEW B, NEW n,
           \A u \in B : u \in A \/ (u \in Matches /\ Place(u) = n)
    PROVE  /\ IsFiniteSet(A) /\ IsFiniteSet(B) /\ Cardinality(A) \in Nat /\ Cardinality(B) \in Nat
           /\ Cardinality(B) <= Cardinality(A) + 1
  <1> DEFINE C == {u \in Matches : Place(u) = n}
  <1>1. \A u, v \in C : u = v
    BY PlaceOfOne
  <1>2. IsFiniteSet(A) /\ IsFiniteSet(C) /\ Cardinality(A) \in Nat
    BY MatchesFinite, FS_Subset, FS_CardinalityType
  <1>3. B \subseteq A \cup C
    OBVIOUS
  <1> HIDE DEF C
  <1>4. \E c : A \cup C \subseteq A \cup {c}
    BY <1>1
  <1>5. PICK c : B \subseteq A \cup {c}
    BY <1>3, <1>4
  <1>6. IsFiniteSet(A \cup {c}) /\ Cardinality(A \cup {c}) <= Cardinality(A) + 1
    <2>1. /\ IsFiniteSet(A \cup {c})
          /\ Cardinality(A \cup {c}) = IF c \in A THEN Cardinality(A) ELSE Cardinality(A) + 1
      BY <1>2, FS_AddElement, Zenon
    <2> QED BY <1>2, <2>1
  <1>7. Cardinality(A \cup {c}) \in Nat
    BY <1>6, FS_CardinalityType
  <1>8. IsFiniteSet(B) /\ Cardinality(B) <= Cardinality(A \cup {c}) /\ Cardinality(B) \in Nat
    BY <1>5, <1>6, FS_Subset, FS_CardinalityType
  <1> QED BY <1>2, <1>6, <1>7, <1>8

LEMMA ChangeKeeps ==
    ASSUME SearchInv, NEW t \in Offers, NEW row \in OfferRows, ChangeOffer(t, row)
    PROVE  SearchInv'
  <1>1. /\ offers' = [offers EXCEPT ![t] = row] /\ changes' = changes + 1
        /\ steady' = steady \ {t} /\ hasMore /\ nextPage > 1
        /\ UNCHANGED <<query, found, nextPage, hasMore>>
    BY DEF ChangeOffer
  <1>2. SearchTypeOK /\ steady \subseteq Matches
    BY DEF SearchInv
  <1>3. SearchTypeOK'
    BY <1>1, <1>2 DEF SearchTypeOK
  <1>4. \A u \in steady' : /\ u \in Matches /\ u \in Matches'
                           /\ Place(u) - 1 <= Place(u)' /\ Place(u)' <= Place(u) + 1
                           /\ Place(u) \in Nat /\ Place(u)' \in Nat
    <2>1. \A u \in steady' : u \in Matches /\ u # t /\ Place(u) \in Nat
      BY <1>1, <1>2, MatchesFinite
    <2>2. \A u \in steady' : u \in Matches' /\ Place(u) - 1 <= Place(u)' /\ Place(u)' <= Place(u) + 1
      BY <1>2, <2>1, ChangeShifts
    <2>3. \A u : Place(u)' \in Nat
      <3>1. \A u : Earlier(u)' \subseteq Offers
        BY DEF Earlier, Matches
      <3> QED BY <3>1, SearchAssumption, FS_Subset, FS_CardinalityType DEF Place
    <2> QED BY <2>1, <2>2, <2>3
  <1>5. ReadTo' = ReadTo /\ ReadTo \in Nat /\ changes \in Nat
    BY <1>1, <1>2, ReadToIsNat DEF ReadTo, SearchTypeOK
  <1>6. \A u : Shown(u)' = Shown(u)
    BY <1>1 DEF Shown
  <1>7. (Cardinality(Missed) <= changes)'
    <2>1. \A u \in Missed' : u \in Missed \/ (u \in Matches /\ Place(u) = ReadTo)
      BY <1>1, <1>4, <1>5, <1>6 DEF Missed
    <2>2. Missed \in SUBSET Matches
      BY <1>2 DEF Missed
    <2>3. /\ Cardinality(Missed') <= Cardinality(Missed) + 1
          /\ Cardinality(Missed') \in Nat /\ Cardinality(Missed) \in Nat
      BY <1>2, <2>1, <2>2, GrowsByPlace
    <2> QED BY <1>1, <1>5, <2>3 DEF SearchInv
  <1>8. (Cardinality(Repeated) <= changes)'
    <2>1. \A u \in Repeated' : u \in Repeated \/ (u \in Matches /\ Place(u) = ReadTo - 1)
      BY <1>1, <1>4, <1>5, <1>6 DEF Repeated
    <2>2. Repeated \in SUBSET Matches
      BY <1>2 DEF Repeated
    <2>3. /\ Cardinality(Repeated') <= Cardinality(Repeated) + 1
          /\ Cardinality(Repeated') \in Nat /\ Cardinality(Repeated) \in Nat
      BY <1>2, <2>1, <2>2, GrowsByPlace
    <2> QED BY <1>1, <1>5, <2>3 DEF SearchInv
  <1>9. changes' # 0
    BY <1>1, <1>5
  <1>10. (\A i \in 1 .. Len(found) : RowAsAsked(found[i]))'
    BY <1>1 DEF SearchInv, RowAsAsked
  <1>11. nextPage' # 1 /\ hasMore'
    BY <1>1, <1>2 DEF SearchTypeOK
  <1>12. (steady \subseteq Matches)'
    BY <1>4
  <1> QED BY <1>3, <1>7, <1>8, <1>9, <1>10, <1>11, <1>12 DEF SearchInv

\* The least of two numbers.
LEMMA MinOfTwo == \A a, b \in Int : Min({a, b}) = IF a <= b THEN a ELSE b
  <1> SUFFICES ASSUME NEW a \in Int, NEW b \in Int PROVE Min({a, b}) = IF a <= b THEN a ELSE b
    OBVIOUS
  <1>1. \E x \in {a, b} : \A y \in {a, b} : x <= y
    OBVIOUS
  <1>2. Min({a, b}) \in {a, b} /\ \A y \in {a, b} : Min({a, b}) <= y
    BY <1>1 DEF Min
  <1> QED BY <1>2

\* What a page is: the trips of the next places, as many as there are.
OnPage(n, from) == IF from + PageSize <= n THEN PageSize ELSE IF from <= n THEN n - from ELSE 0

LEMMA PageOfPlaces ==
    ASSUME NEW N \in Nat, NEW S, NEW sorted \in [1 .. N -> S], NEW from \in Nat,
           PageSize \in Nat \ {0}, NEW p, p = Page(sorted, from)
    PROVE  /\ p \in Seq(S)
           /\ Len(p) = OnPage(N, from)
           /\ \A i \in 1 .. Len(p) : from + i \in 1 .. N /\ p[i] = sorted[from + i]
  <1>1. sorted \in Seq(S) /\ Len(sorted) = N
    OBVIOUS
  <1> DEFINE to == IF from + PageSize <= N THEN from + PageSize ELSE N
  <1>2. p = SubSeq(sorted, from + 1, to)
    <2>1. Min({from + PageSize, N}) = to
      BY MinOfTwo
    <2> QED BY <1>1, <2>1 DEF Page
  <1>3. to \in Nat /\ to <= N /\ (to < from + 1 \/ from + 1 <= to)
    OBVIOUS
  <1>4. to = IF from + PageSize <= N THEN from + PageSize ELSE N
    OBVIOUS
  <1> HIDE DEF to
  <1>5. CASE from + 1 <= to
    <2>1. /\ SubSeq(sorted, from + 1, to) \in Seq(S)
          /\ Len(SubSeq(sorted, from + 1, to)) = to - from
          /\ \A i \in 1 .. (to - from) : SubSeq(sorted, from + 1, to)[i] = sorted[from + i]
      BY <1>1, <1>3, <1>5
    <2>2. to - from = OnPage(N, from)
      BY <1>3, <1>4, <1>5 DEF OnPage
    <2>3. \A i \in 1 .. (to - from) : from + i \in 1 .. N
      BY <1>3, <1>5
    <2> QED BY <1>2, <2>1, <2>2, <2>3
  <1>6. CASE to < from + 1
    <2>1. SubSeq(sorted, from + 1, to) = <<>>
      BY <1>1, <1>3, <1>6
    <2>2. 0 = OnPage(N, from)
      BY <1>3, <1>4, <1>6 DEF OnPage
    <2>3. <<>> \in Seq(S) /\ Len(<<>>) = 0 /\ 1 .. 0 = {}
      OBVIOUS
    <2> QED BY <1>2, <2>1, <2>2, <2>3, Zenon
  <1> QED BY <1>3, <1>5, <1>6

\* What concatenation holds, and where.
LEMMA RowsAdded ==
    ASSUME NEW S, NEW a \in Seq(S), NEW b \in Seq(S), NEW c, c = a \o b
    PROVE  /\ c \in Seq(S) /\ Len(c) = Len(a) + Len(b)
           /\ \A i \in 1 .. Len(a) : c[i] = a[i]
           /\ \A i \in 1 .. Len(b) : c[Len(a) + i] = b[i]
  OBVIOUS

\* A trip is shown under its own id.
LEMMA OfferShown ==
    ASSUME SearchTypeOK, NEW t \in Offers
    PROVE  publicTripDto(t) \in ShownRows /\ publicTripDto(t).id = t
  <1>1. offers[t] \in OfferRows
    BY DEF SearchTypeOK
  <1> QED BY <1>1 DEF publicTripDto, ShownRows, OfferRows

\* What a page adds to what was found.
NewRows == {i \in 1 .. Len(found') : i > Len(found)}

LEMMA PageAdds ==
    ASSUME SearchTypeOK, NextPage
    PROVE  /\ found' \in Seq(ShownRows) /\ Len(found') >= Len(found)
           /\ \A i \in 1 .. Len(found) : found'[i] = found[i]
           /\ \A i \in NewRows :
                  /\ found'[i].id \in Matches /\ found'[i] = publicTripDto(found'[i].id)
                  /\ Place(found'[i].id) = ReadTo + (i - Len(found) - 1)
                  /\ Place(found'[i].id) < ReadTo + PageSize
           /\ \A t \in Matches : ReadTo <= Place(t) /\ Place(t) < ReadTo + PageSize
                  => \E i \in NewRows : found'[i].id = t
           /\ hasMore' \in BOOLEAN
           /\ hasMore' => Len(found') = Len(found) + PageSize
           /\ ~hasMore' => \A t \in Matches : Place(t) < ReadTo + PageSize
  <1>0. PICK sorted \in Sorted(Matches) :
            /\ found' = found \o [i \in DOMAIN Page(sorted, ReadTo) |->
                                      publicTripDto(Page(sorted, ReadTo)[i])]
            /\ hasMore' = (ReadTo + PageSize < Len(sorted))
    BY DEF NextPage, searchPublicTrips, ReadTo
  <1>1. PICK p, rows, m, l :
            /\ p = Page(sorted, ReadTo) /\ m = Len(p) /\ l = Len(found)
            /\ rows = [i \in DOMAIN p |-> publicTripDto(p[i])]
            /\ found' = found \o rows
            /\ hasMore' = (ReadTo + PageSize < Len(sorted))
    BY <1>0
  <1> DEFINE N == Cardinality(Matches)
  <1>2. /\ sorted \in [1 .. N -> Matches]
        /\ \A i \in 1 .. N : Place(sorted[i]) = i - 1
        /\ \A t \in Matches : \E i \in 1 .. N : sorted[i] = t
    BY <1>1, SortedByPlace
  <1>3. N \in Nat /\ ReadTo \in Nat /\ PageSize \in Nat \ {0} /\ l \in Nat
    BY <1>1, MatchesFinite, ReadToIsNat DEF SearchTypeOK
  <1>4. Len(sorted) = N
    BY <1>2, <1>3
  <1> HIDE DEF N
  <1>5. /\ p \in Seq(Matches)
        /\ m = OnPage(N, ReadTo)
        /\ \A i \in 1 .. m : ReadTo + i \in 1 .. N /\ p[i] = sorted[ReadTo + i]
    <2>1. sorted \in [1 .. N -> Matches]
      BY <1>2
    <2>2. p = Page(sorted, ReadTo) /\ m = Len(p)
      BY <1>1
    <2>3. /\ p \in Seq(Matches)
          /\ Len(p) = OnPage(N, ReadTo)
          /\ \A i \in 1 .. Len(p) : ReadTo + i \in 1 .. N /\ p[i] = sorted[ReadTo + i]
      <3>1. p = Page(sorted, ReadTo)
        BY <2>2
      <3>2. N \in Nat /\ ReadTo \in Nat /\ PageSize \in Nat \ {0}
        BY <1>3
      <3>3. PICK n, from : n = N /\ from = ReadTo
        OBVIOUS
      <3>4. /\ n \in Nat /\ from \in Nat /\ sorted \in [1 .. n -> Matches] /\ p = Page(sorted, from)
        BY <2>1, <3>1, <3>2, <3>3
      <3>5. /\ p \in Seq(Matches) /\ Len(p) = OnPage(n, from)
            /\ \A i \in 1 .. Len(p) : from + i \in 1 .. n /\ p[i] = sorted[from + i]
        BY <3>2, <3>4, PageOfPlaces
      <3> QED BY <3>3, <3>5
    <2> QED BY <2>2, <2>3
  <1>6. m \in Nat /\ DOMAIN p = 1 .. m /\ \A i \in 1 .. m : p[i] \in Matches /\ p[i] \in Offers
    <2>1. m \in Nat /\ DOMAIN p = 1 .. m /\ \A i \in 1 .. m : p[i] \in Matches
      <3>1. m \in Nat /\ m = Len(p) /\ p \in Seq(Matches)
        BY <1>1, <1>3, <1>5 DEF OnPage
      <3> QED BY <3>1
    <2> QED BY <2>1, MatchesFinite
  <1>7. /\ rows \in Seq(ShownRows) /\ Len(rows) = m
        /\ \A i \in 1 .. m : rows[i] = publicTripDto(p[i]) /\ rows[i].id = p[i]
    <2>1. \A i \in 1 .. m : publicTripDto(p[i]) \in ShownRows /\ publicTripDto(p[i]).id = p[i]
      BY <1>6, OfferShown
    <2>2. rows \in [1 .. m -> ShownRows]
      BY <1>1, <1>6, <2>1
    <2> QED BY <1>1, <1>6, <2>1, <2>2
  <1>8. found' = found \o rows /\ found \in Seq(ShownRows) /\ l = Len(found)
    BY <1>1 DEF SearchTypeOK
  <1>9. /\ found' \in Seq(ShownRows) /\ Len(found') = l + m
        /\ \A i \in 1 .. l : found'[i] = found[i]
        /\ \A i \in 1 .. m : found'[l + i] = rows[i]
    <2>1. rows \in Seq(ShownRows)
      BY <1>7
    <2>2. /\ found' \in Seq(ShownRows) /\ Len(found') = Len(found) + Len(rows)
          /\ \A i \in 1 .. Len(found) : found'[i] = found[i]
          /\ \A i \in 1 .. Len(rows) : found'[Len(found) + i] = rows[i]
      BY <1>8, <2>1, RowsAdded
    <2> QED BY <1>7, <1>8, <2>2
  <1>10. \A i : i \in NewRows <=> \E j \in 1 .. m : i = l + j
    <2>1. NewRows = (l + 1) .. (l + m)
      BY <1>1, <1>3, <1>6, <1>9 DEF NewRows
    <2>2. \A i \in (l + 1) .. (l + m) : i - l \in 1 .. m /\ i = l + (i - l)
      BY <1>3, <1>6
    <2>3. \A j \in 1 .. m : l + j \in (l + 1) .. (l + m)
      BY <1>3, <1>6
    <2> QED BY <2>1, <2>2, <2>3
  <1>11. \A j \in 1 .. m : j \in Nat /\ Place(p[j]) = ReadTo + (j - 1) /\ j - 1 < PageSize
    <2> SUFFICES ASSUME NEW j \in 1 .. m
                 PROVE  j \in Nat /\ Place(p[j]) = ReadTo + (j - 1) /\ j - 1 < PageSize
      OBVIOUS
    <2>1. ReadTo + j \in 1 .. N /\ p[j] = sorted[ReadTo + j]
      BY <1>5, Zenon
    <2>2. j \in Nat /\ j <= PageSize
      BY <1>3, <1>5, <1>6 DEF OnPage
    <2>3. PICK k \in 1 .. N : k = ReadTo + j
      BY <2>1
    <2>4. Place(sorted[k]) = k - 1 /\ sorted[k] = p[j]
      BY <1>2, <2>1, <2>3
    <2>5. Place(p[j]) = k - 1
      BY <2>4, Zenon
    <2>6. k - 1 = ReadTo + (j - 1) /\ j - 1 < PageSize
      BY <1>3, <2>2, <2>3
    <2> QED BY <2>2, <2>5, <2>6, Zenon
  <1>12. ASSUME NEW i \in NewRows
         PROVE  /\ found'[i].id \in Matches /\ found'[i] = publicTripDto(found'[i].id)
                /\ Place(found'[i].id) = ReadTo + (i - l - 1)
                /\ Place(found'[i].id) < ReadTo + PageSize
    <2>1. PICK j \in 1 .. m : i = l + j
      BY <1>10
    <2>2. found'[i] = publicTripDto(p[j]) /\ found'[i].id = p[j] /\ p[j] \in Matches
      BY <1>6, <1>7, <1>9, <2>1
    <2>3. j - 1 = i - l - 1
      BY <1>3, <1>11, <2>1
    <2>4. Place(p[j]) = ReadTo + (j - 1) /\ ReadTo + (j - 1) < ReadTo + PageSize
      BY <1>3, <1>11
    <2> QED BY <2>2, <2>3, <2>4
  <1>13. ASSUME NEW t \in Matches, ReadTo <= Place(t), Place(t) < ReadTo + PageSize
         PROVE  \E i \in NewRows : found'[i].id = t
    <2>1. PICK k \in 1 .. N : sorted[k] = t
      BY <1>2
    <2>2. k \in Nat /\ ReadTo <= k - 1 /\ k - 1 < ReadTo + PageSize /\ k <= N
      BY <1>2, <1>3, <1>13, <2>1
    <2>3. k - ReadTo \in 1 .. m /\ ReadTo + (k - ReadTo) = k
      BY <1>3, <1>5, <2>2 DEF OnPage
    <2>4. p[k - ReadTo] = t
      BY <1>5, <2>1, <2>3
    <2>5. l + (k - ReadTo) \in NewRows /\ found'[l + (k - ReadTo)].id = t
      BY <1>7, <1>9, <1>10, <2>3, <2>4
    <2> QED BY <2>5
  <1>14. hasMore' \in BOOLEAN /\ (hasMore' <=> ReadTo + PageSize < N)
    <2>1. hasMore' = (ReadTo + PageSize < N)
      BY <1>1, <1>4
    <2>2. (ReadTo + PageSize < N) \in BOOLEAN
      BY <1>3
    <2> QED BY <2>1, <2>2, Zenon
  <1>15. ~hasMore' => \A t \in Matches : Place(t) < ReadTo + PageSize
    <2> SUFFICES ASSUME ~hasMore', NEW t \in Matches PROVE Place(t) < ReadTo + PageSize
      OBVIOUS
    <2>1. PICK k \in 1 .. N : sorted[k] = t
      BY <1>2
    <2> QED BY <1>2, <1>3, <1>14, <2>1
  <1>16. hasMore' => Len(found') = l + PageSize
    BY <1>3, <1>5, <1>9, <1>14 DEF OnPage
  <1>17. Len(found') >= l
    BY <1>3, <1>6, <1>9
  <1> QED BY <1>1, <1>9, <1>12, <1>13, <1>14, <1>15, <1>16, <1>17

\* The window of the night is the hours 22 to 4 of Tashkent.
LEMMA HoursOfNight ==
    ASSUME NEW departs \in 19 .. 42, InWindow("night", departs)
    PROVE  (departs + 5) % 24 \in {22, 23} \cup (0 .. 4)
  <1> DEFINE hour == ((departs % 24) + 5) % 24
             late == hour + (IF hour < 22 THEN 24 ELSE 0)
  <1>1. 22 <= late /\ late < 29
    BY DEF InWindow, departureWindowRange, localHour
  <1>2. hour \in 0 .. 23 /\ hour = (departs + 5) % 24
    OBVIOUS
  <1> HIDE DEF hour
  <1>3. hour \in {22, 23} \cup (0 .. 4)
    BY <1>1, <1>2
  <1> QED BY <1>2, <1>3

\* A trip that matches is within what was asked for.
LEMMA MatchIsAsAsked ==
    ASSUME SearchTypeOK, NEW t \in Matches
    PROVE  RowAsAsked(publicTripDto(t))
  <1>1. t \in Offers /\ offers[t] \in OfferRows /\ PriceFits(offers[t].price)
        /\ InWindow(query.departureWindow, offers[t].departs)
    BY DEF Matches, SearchTypeOK
  <1>2. publicTripDto(t).departureAtUtc = offers[t].departs
        /\ publicTripDto(t).pricePerSeatMinor = offers[t].price
    BY DEF publicTripDto
  <1>3. offers[t].departs \in 19 .. 42
    BY <1>1, SearchAssumption DEF OfferRows
  <1>4. query.departureWindow = "night" => (offers[t].departs + 5) % 24 \in {22, 23} \cup (0 .. 4)
    BY <1>1, <1>3, HoursOfNight
  <1>5. query.maxPriceMinor # Unset => offers[t].price <= query.maxPriceMinor
    BY <1>1 DEF PriceFits
  <1> QED BY <1>2, <1>4, <1>5 DEF RowAsAsked

\* Reading the next page keeps the invariant.
LEMMA PageKeeps ==
    ASSUME SearchInv, NextPage
    PROVE  SearchInv'
  <1>1. /\ hasMore /\ nextPage' = nextPage + 1
        /\ steady' = IF nextPage = 1 THEN Matches ELSE steady
        /\ UNCHANGED <<offers, query, changes>>
    BY DEF NextPage
  <1>2. SearchTypeOK /\ steady \subseteq Matches
    BY DEF SearchInv
  <1>3. /\ Matches' = Matches
        /\ \A t : Place(t)' = Place(t) /\ publicTripDto(t)' = publicTripDto(t)
    <2>1. Matches' = Matches
      BY <1>1 DEF Matches, PriceFits
    <2>2. \A s, t : Precedes(s, t)' <=> Precedes(s, t)
      BY <1>1 DEF Precedes, stableTripSort, SortKey
    <2>3. \A t : Earlier(t)' = Earlier(t)
      BY <2>1, <2>2 DEF Earlier
    <2> QED BY <1>1, <2>1, <2>3 DEF Place, publicTripDto
  <1>4. /\ found' \in Seq(ShownRows) /\ Len(found') >= Len(found)
        /\ Len(found) \in Nat /\ Len(found') \in Nat
        /\ \A i \in 1 .. Len(found) : found'[i] = found[i]
        /\ \A i \in NewRows :
               /\ found'[i].id \in Matches /\ found'[i] = publicTripDto(found'[i].id)
               /\ Place(found'[i].id) = ReadTo + (i - Len(found) - 1)
               /\ Place(found'[i].id) < ReadTo + PageSize
        /\ hasMore' \in BOOLEAN
        /\ hasMore' => Len(found') = Len(found) + PageSize
        /\ ~hasMore' => \A t \in Matches : Place(t) < ReadTo + PageSize
    BY <1>2, PageAdds DEF SearchTypeOK
  <1>5. \A t \in Matches : ReadTo <= Place(t) /\ Place(t) < ReadTo + PageSize
                  => \E i \in NewRows : found'[i].id = t
    BY <1>2, PageAdds
  <1>6. ReadTo \in Nat /\ PageSize \in Nat \ {0} /\ ReadTo' = ReadTo + PageSize
        /\ changes \in Nat /\ (nextPage = 1 => ReadTo = 0)
    <2>1. nextPage \in Nat \ {0} /\ changes \in Nat
      BY <1>2 DEF SearchTypeOK
    <2>2. PageSize \in Nat \ {0} /\ ReadTo \in Nat
      BY <1>2, ReadToIsNat
    <2>3. ((nextPage + 1) - 1) * PageSize = (nextPage - 1) * PageSize + PageSize
      <3>1. \A m, n \in Nat : ((m + 1) - 1) * n = (m - 1) * n + n
        OBVIOUS
      <3> QED BY <2>1, <2>2, <3>1
    <2>4. nextPage = 1 => (nextPage - 1) * PageSize = 0
      BY <2>2
    <2> QED BY <1>1, <2>1, <2>2, <2>3, <2>4 DEF ReadTo
  <1>7. SearchTypeOK'
    BY <1>1, <1>2, <1>4 DEF SearchTypeOK
  <1>8. (steady \subseteq Matches)' /\ nextPage' # 1
    BY <1>1, <1>2, <1>3 DEF SearchTypeOK
  <1>9. DOMAIN found = 1 .. Len(found) /\ DOMAIN found' = 1 .. Len(found')
    BY <1>2, <1>4 DEF SearchTypeOK
  <1>10. \A t, i : i \in Shown(t)' <=> \/ i \in Shown(t)
                                       \/ i \in NewRows /\ found'[i].id = t
    BY <1>4, <1>9 DEF Shown, NewRows
  <1>11. nextPage = 1 => \A t : Shown(t) = {}
    BY <1>9 DEF SearchInv, Shown
  <1>12. \A t \in Matches : Place(t) \in Nat
    BY MatchesFinite
  <1>13. IsFiniteSet(Missed) /\ IsFiniteSet(Repeated)
    <2>1. Missed \subseteq Matches /\ Repeated \subseteq Matches
      BY <1>2 DEF Missed, Repeated
    <2> QED BY <2>1, MatchesFinite, FS_Subset
  <1>14. (Cardinality(Missed) <= changes)'
    <2>1. ASSUME NEW t \in Missed' PROVE t \in Missed
      <3>1. t \in steady' /\ Shown(t)' = {} /\ Place(t) < ReadTo + PageSize
        BY <1>3, <1>6 DEF Missed
      <3>2. t \in Matches /\ Place(t) \in Nat
        BY <1>3, <1>8, <1>12, <3>1
      <3>3. Place(t) < ReadTo
        BY <1>5, <1>6, <1>10, <3>1, <3>2
      <3>4. nextPage # 1
        BY <1>6, <3>2, <3>3
      <3> QED BY <1>1, <1>10, <3>1, <3>3, <3>4 DEF Missed
    <2>2. IsFiniteSet(Missed') /\ Cardinality(Missed') <= Cardinality(Missed)
      BY <1>13, <2>1, FS_Subset
    <2>3. Cardinality(Missed) \in Nat /\ Cardinality(Missed') \in Nat
      BY <1>13, <2>2, FS_CardinalityType
    <2> QED BY <1>1, <1>6, <2>2, <2>3 DEF SearchInv
  <1>15. (Cardinality(Repeated) <= changes)'
    <2>1. ASSUME NEW t \in Repeated' PROVE t \in Repeated
      <3>1. t \in Matches /\ Place(t) \in Nat /\ t \in steady'
        BY <1>3, <1>8, <1>12 DEF Repeated
      <3>2. ASSUME NEW i \in NewRows, found'[i].id = t
            PROVE  /\ ReadTo <= Place(t) /\ Place(t) < ReadTo + PageSize
                   /\ i = Place(t) - ReadTo + Len(found) + 1
        BY <1>4, <1>6, <3>1, <3>2 DEF NewRows
      <3>3. /\ Shown(t) # {}
            /\ \/ \E i, j \in Shown(t) : i # j
               \/ Place(t) >= ReadTo
        <4>1. CASE \E i, j \in Shown(t)' : i # j
          <5>1. PICK i \in Shown(t)', j \in Shown(t)' : i # j
            BY <4>1
          <5>2. CASE i \in Shown(t) /\ j \in Shown(t)
            BY <5>1, <5>2
          <5>3. CASE i \notin Shown(t) /\ j \notin Shown(t)
            BY <1>10, <3>2, <5>1, <5>3
          <5>4. CASE ~(i \in Shown(t) <=> j \in Shown(t))
            <6>1. \E k \in NewRows : found'[k].id = t
              BY <1>10, <5>1, <5>4
            <6>2. Place(t) >= ReadTo
              BY <1>6, <3>1, <3>2, <6>1
            <6> QED BY <5>4, <6>2
          <5> QED BY <5>2, <5>3, <5>4
        <4>2. CASE Shown(t)' # {} /\ Place(t) >= ReadTo + PageSize
          <5>1. ~\E k \in NewRows : found'[k].id = t
            BY <1>6, <3>1, <3>2, <4>2
          <5>2. Place(t) >= ReadTo
            BY <1>6, <3>1, <4>2
          <5> QED BY <1>10, <4>2, <5>1, <5>2
        <4> QED BY <1>3, <1>6, <4>1, <4>2 DEF Repeated
      <3>4. nextPage # 1
        BY <1>11, <3>3
      <3> QED BY <1>1, <3>1, <3>3, <3>4 DEF Repeated
    <2>2. IsFiniteSet(Repeated') /\ Cardinality(Repeated') <= Cardinality(Repeated)
      BY <1>13, <2>1, FS_Subset
    <2>3. Cardinality(Repeated) \in Nat /\ Cardinality(Repeated') \in Nat
      BY <1>13, <2>2, FS_CardinalityType
    <2> QED BY <1>1, <1>6, <2>2, <2>3 DEF SearchInv
  <1>16. (~hasMore => \A t \in Matches : Place(t) < ReadTo)'
    BY <1>3, <1>4, <1>6
  <1>17. (changes = 0 => AsPlaced)'
    <2> SUFFICES ASSUME changes' = 0 PROVE AsPlaced'
      OBVIOUS
    <2>1. AsPlaced /\ Len(found) = ReadTo
      BY <1>1 DEF SearchInv, AsPlaced
    <2>2. ASSUME NEW i \in 1 .. Len(found')
          PROVE  /\ found'[i].id \in Matches /\ Place(found'[i].id) = i - 1
                 /\ found'[i] = publicTripDto(found'[i].id)
      <3>1. CASE i \in NewRows
        <4>1. ReadTo + (i - Len(found) - 1) = i - 1
          BY <1>6, <2>1
        <4> QED BY <1>4, <3>1, <4>1
      <3>2. CASE i \notin NewRows
        <4>1. i \in 1 .. Len(found) /\ found'[i] = found[i]
          BY <1>4, <3>2 DEF NewRows
        <4> QED BY <2>1, <4>1 DEF AsPlaced
      <3> QED BY <3>1, <3>2
    <2>3. hasMore' => Len(found') = ReadTo'
      BY <1>4, <1>6, <2>1
    <2> QED BY <1>3, <2>2, <2>3 DEF AsPlaced
  <1>18. (\A i \in 1 .. Len(found) : RowAsAsked(found[i]))'
    <2> SUFFICES ASSUME NEW i \in 1 .. Len(found') PROVE RowAsAsked(found'[i])
      BY <1>1 DEF RowAsAsked
    <2>1. CASE i \in NewRows
      BY <1>2, <1>4, <2>1, MatchIsAsAsked
    <2>2. CASE i \notin NewRows
      <3>1. i \in 1 .. Len(found) /\ found'[i] = found[i]
        BY <1>4, <2>2 DEF NewRows
      <3> QED BY <3>1 DEF SearchInv
    <2> QED BY <2>1, <2>2
  <1> QED BY <1>7, <1>8, <1>14, <1>15, <1>16, <1>17, <1>18 DEF SearchInv

\* At first nothing has been read.
LEMMA SearchStarts == SearchInit => SearchInv
  <1> SUFFICES ASSUME SearchInit PROVE SearchInv
    OBVIOUS
  <1>1. PICK price \in [Offers -> Prices], departs \in [Offers -> Departures] :
            offers = [t \in Offers |-> [open |-> TRUE, price |-> price[t], seats |-> 1,
                                        departs |-> departs[t]]]
    BY DEF SearchInit
  <1>2. \E sort \in Sorts, w \in {"none", "night"}, lo, hi \in {Unset} \cup PriceLimits :
            query = [sort |-> sort, departureWindow |-> w, minPriceMinor |-> lo,
                     maxPriceMinor |-> hi]
    BY DEF SearchInit
  <1>3. found = <<>> /\ nextPage = 1 /\ hasMore = TRUE /\ changes = 0 /\ steady = {}
    BY DEF SearchInit
  <1>4. SearchTypeOK
    <2>1. Prices \subseteq Nat /\ PriceLimits \subseteq Nat
      BY SearchAssumption
    <2>2. offers \in [Offers -> OfferRows]
      BY <1>1, <2>1 DEF OfferRows
    <2>3. query \in [sort : Sorts, departureWindow : {"none", "night"}, minPriceMinor : Int,
                     maxPriceMinor : Int]
      BY <1>2, <2>1 DEF Unset
    <2> QED BY <1>3, <2>2, <2>3 DEF SearchTypeOK
  <1>5. Missed = {} /\ Repeated = {}
    BY <1>3 DEF Missed, Repeated
  <1>6. AsPlaced
    <2>1. Len(found) = 0 /\ 1 .. 0 = {}
      BY <1>3
    <2>2. ReadTo = 0
      BY <1>3, SearchAssumption DEF ReadTo
    <2> QED BY <2>1, <2>2 DEF AsPlaced
  <1>7. Len(found) = 0
    BY <1>3
  <1> QED BY <1>3, <1>4, <1>5, <1>6, <1>7, FS_EmptySet DEF SearchInv

\* Every step keeps the invariant of the search.
LEMMA SearchNextKeeps == SearchInv /\ [SearchNext]_searchVars => SearchInv'
  <1>1. ASSUME SearchInv, NextPage PROVE SearchInv'
    BY <1>1, PageKeeps
  <1>2. ASSUME SearchInv, NEW t \in Offers, ListOrWithdraw(t) \/ BookOrFreeSeat(t) \/ EditOffer(t)
        PROVE  SearchInv'
    <2>1. offers[t] \in OfferRows /\ Prices \subseteq Nat
      BY <1>2, SearchAssumption DEF SearchInv, SearchTypeOK
    <2>2. \E row \in OfferRows : ChangeOffer(t, row)
      <3>1. CASE ListOrWithdraw(t)
        BY <2>1, <3>1 DEF ListOrWithdraw, OfferRows
      <3>2. CASE BookOrFreeSeat(t)
        BY <2>1, <3>2 DEF BookOrFreeSeat, OfferRows
      <3>3. CASE EditOffer(t)
        BY <2>1, <3>3 DEF EditOffer, OfferRows
      <3> QED BY <1>2, <3>1, <3>2, <3>3
    <2> QED BY <1>2, <2>2, ChangeKeeps
  <1>3. ASSUME SearchInv, UNCHANGED searchVars PROVE SearchInv'
    <2>1. UNCHANGED <<offers, query, found, nextPage, hasMore, changes, steady>>
      BY <1>3 DEF searchVars
    <2>2. Matches' = Matches /\ ReadTo' = ReadTo
      BY <2>1 DEF Matches, PriceFits, ReadTo
    <2>3. \A t : Earlier(t)' = Earlier(t)
      BY <2>1, <2>2 DEF Earlier, Precedes, stableTripSort, SortKey
    <2>4. \A t : Place(t)' = Place(t) /\ Shown(t)' = Shown(t) /\ publicTripDto(t)' = publicTripDto(t)
      BY <2>1, <2>3 DEF Place, Shown, publicTripDto
    <2>5. Missed' = Missed /\ Repeated' = Repeated
      BY <2>1, <2>2, <2>4 DEF Missed, Repeated
    <2>6. AsPlaced' <=> AsPlaced
      BY <2>1, <2>2, <2>4 DEF AsPlaced
    <2>7. (\A i \in 1 .. Len(found) : RowAsAsked(found[i]))'
      BY <1>3, <2>1 DEF SearchInv, RowAsAsked
    <2>8. SearchTypeOK' <=> SearchTypeOK
      BY <2>1 DEF SearchTypeOK
    <2> QED BY <1>3, <2>1, <2>2, <2>4, <2>5, <2>6, <2>7, <2>8 DEF SearchInv
  <1> QED BY <1>1, <1>2, <1>3 DEF SearchNext

\* From it, pages cover what was steady, in order and as asked.
LEMMA SearchIsKept == SearchInv => SearchHolds
  <1> SUFFICES ASSUME SearchInv PROVE PagesCover /\ PagesAreOrdered
    BY DEF SearchHolds
  <1>1. SearchTypeOK /\ steady \subseteq Matches /\ changes \in Nat /\ Len(found) \in Nat
    BY DEF SearchInv, SearchTypeOK
  <1>2. DOMAIN found = 1 .. Len(found)
    BY <1>1 DEF SearchTypeOK
  <1>3. IsFiniteSet(Missed) /\ IsFiniteSet(Repeated)
    <2>1. Missed \subseteq Matches /\ Repeated \subseteq Matches
      BY <1>1 DEF Missed, Repeated
    <2> QED BY <2>1, MatchesFinite, FS_Subset
  <1>4. /\ Cardinality(Missed) \in Nat /\ Cardinality(Missed) <= changes
        /\ Cardinality(Repeated) \in Nat /\ Cardinality(Repeated) <= changes
    BY <1>3, FS_CardinalityType DEF SearchInv
  <1>5. ~hasMore => Cardinality({t \in steady : Shown(t) = {}}) <= changes
    <2> SUFFICES ASSUME ~hasMore PROVE Cardinality({t \in steady : Shown(t) = {}}) <= changes
      OBVIOUS
    <2>1. {t \in steady : Shown(t) = {}} = Missed
      BY <1>1 DEF SearchInv, Missed
    <2> QED BY <1>4, <2>1
  <1>6. Cardinality({t \in steady : Cardinality(Shown(t)) > 1}) <= changes
    <2> DEFINE Twice == {t \in steady : Cardinality(Shown(t)) > 1}
    <2>1. ASSUME NEW t, \A i, j \in Shown(t) : i = j PROVE ~(Cardinality(Shown(t)) > 1)
      <3>1. CASE Shown(t) = {}
        BY <3>1, FS_EmptySet
      <3>2. CASE Shown(t) # {}
        <4>1. PICK i : Shown(t) = {i}
          BY <2>1, <3>2
        <4> QED BY <4>1, FS_Singleton
      <3> QED BY <3>1, <3>2
    <2>2. Twice \subseteq Repeated
      BY <2>1 DEF Repeated
    <2> HIDE DEF Twice
    <2>3. IsFiniteSet(Twice) /\ Cardinality(Twice) <= Cardinality(Repeated)
      BY <1>3, <2>2, FS_Subset
    <2>4. Cardinality(Twice) \in Nat
      BY <2>3, FS_CardinalityType
    <2>5. Cardinality(Twice) <= changes
      BY <1>1, <1>4, <2>3, <2>4
    <2> QED BY <2>5 DEF Twice
  <1>7. ASSUME changes = 0, NEW i \in DOMAIN found, NEW j \in DOMAIN found, i < j
        PROVE  CASE query.sort = "price_asc" -> found[i].pricePerSeatMinor <= found[j].pricePerSeatMinor
                 [] query.sort = "price_desc" -> found[i].pricePerSeatMinor >= found[j].pricePerSeatMinor
                 [] query.sort = "available_seats_desc" ->
                        found[i].availableSeatCount >= found[j].availableSeatCount
                 [] OTHER -> found[i].departureAtUtc <= found[j].departureAtUtc
    <2> DEFINE s == found[i].id
               t == found[j].id
    <2>1. /\ s \in Matches /\ t \in Matches /\ Place(s) = i - 1 /\ Place(t) = j - 1
          /\ found[i] = publicTripDto(s) /\ found[j] = publicTripDto(t)
      BY <1>2, <1>7 DEF SearchInv, AsPlaced
    <2> HIDE DEF s, t
    <2>2. s \in Offers /\ t \in Offers /\ s # t
      BY <1>2, <1>7, <2>1, MatchesFinite
    <2>3. ~Precedes(t, s)
      <3>1. Place(t) + 1 > Place(s)
        BY <1>2, <1>7, <2>1
      <3>2. Place(s) \in Nat /\ Place(t) \in Nat
        BY MatchesFinite
      <3> QED BY <1>1, <2>1, <3>1, <3>2, PlacesDiffer
    <2>4. SortKey(offers[s]) <= SortKey(offers[t])
      BY <1>1, <2>2, <2>3, OrderIsTotal
    <2>5. /\ offers[s].price \in Nat /\ offers[t].price \in Nat
          /\ offers[s].seats \in Nat /\ offers[t].seats \in Nat
      BY <1>1, <2>2 DEF SearchTypeOK, OfferRows
    <2>6. /\ found[i].pricePerSeatMinor = offers[s].price /\ found[j].pricePerSeatMinor = offers[t].price
          /\ found[i].availableSeatCount = offers[s].seats /\ found[j].availableSeatCount = offers[t].seats
          /\ found[i].departureAtUtc = offers[s].departs /\ found[j].departureAtUtc = offers[t].departs
      BY <2>1 DEF publicTripDto
    <2>7. CASE query.sort = "price_asc"
      BY <2>4, <2>6, <2>7 DEF SortKey
    <2>8. CASE query.sort = "price_desc"
      <3>1. -offers[s].price <= -offers[t].price
        BY <2>4, <2>8 DEF SortKey
      <3>2. offers[s].price >= offers[t].price
        BY <2>5, <3>1
      <3> QED BY <2>6, <2>8, <3>2
    <2>9. CASE query.sort = "available_seats_desc"
      <3>1. -offers[s].seats <= -offers[t].seats
        BY <2>4, <2>9 DEF SortKey
      <3>2. offers[s].seats >= offers[t].seats
        BY <2>5, <3>1
      <3> QED BY <2>6, <2>9, <3>2
    <2>10. CASE query.sort = "departure_asc"
      BY <2>4, <2>6, <2>10 DEF SortKey
    <2> QED BY <1>1, <2>7, <2>8, <2>9, <2>10 DEF SearchTypeOK, Sorts
  <1>8. \A i \in DOMAIN found : RowAsAsked(found[i])
    BY <1>2 DEF SearchInv
  <1>9. PagesCover
    BY <1>5, <1>6 DEF PagesCover
  <1>10. PagesAreOrdered
    BY <1>7, <1>8 DEF PagesAreOrdered, RowAsAsked
  <1> QED BY <1>9, <1>10

-----------------------------------------------------------------------------
(* The booking page.  Whatever filter leaves of seats that differ are seats *)
(* that differ; so the seats on sale and the seats chosen do, and the page *)
(* asks for free seats only, as many as there are passengers.              *)
\* Induction over the natural numbers, for a set in place of a predicate.
LEMMA NatSetInduction ==
    ASSUME NEW G, 0 \in G, \A n \in Nat : n \in G => n + 1 \in G
    PROVE  Nat \subseteq G
  <1> DEFINE less == {ss \in Nat \X Nat : ss[1] < ss[2]}
  <1>1. IsWellFoundedOn(less, Nat)
    BY NatLessThanWellFounded, Zenon DEF OpToRel
  <1>2. SUFFICES ASSUME Nat \ G # {} PROVE FALSE
    OBVIOUS
  <1>3. PICK m \in Nat \ G : \A n \in Nat \ G : <<n, m>> \notin less
    <2> HIDE DEF less
    <2>1. Nat \ G \subseteq Nat
      OBVIOUS
    <2> QED BY <1>1, <1>2, <2>1, WFMin, Zenon
  <1>4. m # 0 /\ m - 1 \in Nat /\ m - 1 < m /\ (m - 1) + 1 = m
    BY <1>3
  <1>5. m - 1 \in G
    BY <1>3, <1>4
  <1> QED BY <1>3, <1>4, <1>5

\* filter goes through the keys one after another.
FilterStep(keys, kept, f) ==
    f = [n \in 0 .. Len(keys) |->
            IF n = 0 THEN <<>>
            ELSE IF keys[n] \in kept THEN Append(f[n - 1], keys[n]) ELSE f[n - 1]]
FilterTo(keys, kept) == CHOOSE f : FilterStep(keys, kept, f)

LEMMA FilterIsStep == \A keys, kept : filter(keys, kept) = FilterTo(keys, kept)[Len(keys)]
  BY DEF filter, FilterTo, FilterStep

\* The recursion has a solution: one for the first n keys, longer by one each time.
LEMMA FilterStepExists ==
    ASSUME NEW keys, NEW kept, Len(keys) \in Nat
    PROVE  \E f : FilterStep(keys, kept, f)
  <1> DEFINE Next1(f, m) == IF m = 0 THEN <<>>
                            ELSE IF keys[m] \in kept THEN Append(f[m - 1], keys[m]) ELSE f[m - 1]
             Part(f, n) == \A m \in 0 .. Len(keys) : m <= n => f[m] = Next1(f, m)
             Longer(f) == [m \in 0 .. Len(keys) |-> Next1(f, m)]
             Upto == {n \in Nat : \E f : Part(f, n)}
  <1>1. 0 \in Upto
    <2>1. Part([m \in 0 .. Len(keys) |-> <<>>], 0)
      OBVIOUS
    <2>2. \E f : Part(f, 0)
      <3> HIDE DEF Part
      <3> QED BY <2>1
    <2> QED BY <2>2
  <1>2. ASSUME NEW n \in Nat, n \in Upto PROVE n + 1 \in Upto
    <2>1. PICK f : Part(f, n)
      BY <1>2
    <2>2. ASSUME NEW m \in 0 .. Len(keys), m <= n PROVE Longer(f)[m] = f[m]
      BY <2>1, <2>2
    <2>3. ASSUME NEW m \in 0 .. Len(keys), m <= n + 1, m # 0
          PROVE  Longer(f)[m - 1] = f[m - 1]
      <3>1. m - 1 \in 0 .. Len(keys) /\ m - 1 <= n
        BY <2>3
      <3> HIDE DEF Longer
      <3> QED BY <3>1, <2>2
    <2>4. Part(Longer(f), n + 1)
      BY <2>3
    <2>5. \E g : Part(g, n + 1)
      <3> HIDE DEF Part, Longer
      <3> QED BY <2>4
    <2>6. n + 1 \in Nat
      OBVIOUS
    <2> HIDE DEF Part
    <2> QED BY <2>5, <2>6
  <1>3. Nat \subseteq Upto
    <2> HIDE DEF Upto
    <2> QED BY <1>1, <1>2, NatSetInduction
  <1>4. PICK f : Part(f, Len(keys))
    BY <1>3
  <1>5. FilterStep(keys, kept, Longer(f))
    <2>1. ASSUME NEW m \in 0 .. Len(keys), m # 0 PROVE Longer(f)[m - 1] = f[m - 1]
      <3>1. m - 1 \in 0 .. Len(keys) /\ m - 1 <= Len(keys)
        BY <2>1
      <3> QED BY <1>4, <3>1
    <2> QED BY <2>1 DEF FilterStep
  <1> QED BY <1>5

\* So what the first n + 1 keys leave follows from what the first n leave.
LEMMA FilterUnfolds ==
    ASSUME NEW keys, NEW kept, Len(keys) \in Nat
    PROVE  /\ FilterTo(keys, kept)[0] = <<>>
           /\ \A n \in Nat : n + 1 <= Len(keys) =>
                  FilterTo(keys, kept)[n + 1] =
                      IF keys[n + 1] \in kept THEN Append(FilterTo(keys, kept)[n], keys[n + 1])
                      ELSE FilterTo(keys, kept)[n]
  <1>1. FilterStep(keys, kept, FilterTo(keys, kept))
    BY FilterStepExists DEF FilterTo
  <1> DEFINE f == FilterTo(keys, kept)
  <1>2. \A m \in 0 .. Len(keys) : f[m] = IF m = 0 THEN <<>>
            ELSE IF keys[m] \in kept THEN Append(f[m - 1], keys[m]) ELSE f[m - 1]
    <2> HIDE DEF f
    <2>1. f = [n \in 0 .. Len(keys) |->
            IF n = 0 THEN <<>>
            ELSE IF keys[n] \in kept THEN Append(f[n - 1], keys[n]) ELSE f[n - 1]]
      BY <1>1 DEF FilterStep, f
    <2> QED BY <2>1
  <1> HIDE DEF f
  <1>3. f[0] = <<>>
    BY <1>2
  <1>4. ASSUME NEW n \in Nat, n + 1 <= Len(keys)
        PROVE  f[n + 1] = IF keys[n + 1] \in kept THEN Append(f[n], keys[n + 1]) ELSE f[n]
    <2>1. n + 1 \in 0 .. Len(keys) /\ n + 1 # 0 /\ (n + 1) - 1 = n
      BY <1>4
    <2> QED BY <1>2, <2>1
  <1> QED BY <1>3, <1>4 DEF f

\* What the first n keys leave.
FilteredSoFar(S, keys, kept, left, n) ==
    /\ left \in Seq(S) /\ Len(left) <= n
    /\ \A x : (\E i \in 1 .. Len(left) : left[i] = x)
                 <=> x \in kept /\ \E i \in 1 .. n : keys[i] = x
    /\ \A i, j \in 1 .. Len(left) : left[i] = left[j] => i = j

\* What is left are the keys to keep, each once if each was there once.
LEMMA FilterKeeps ==
    ASSUME NEW S, NEW keys \in Seq(S), NEW kept, IsInjective(keys)
    PROVE  /\ filter(keys, kept) \in Seq(S) /\ IsInjective(filter(keys, kept))
           /\ Len(filter(keys, kept)) <= Len(keys)
           /\ Range(filter(keys, kept)) = Range(keys) \cap kept
  <1> DEFINE f == FilterTo(keys, kept)
             Good(n) == FilteredSoFar(S, keys, kept, f[n], n)
             G == {n \in Nat : n <= Len(keys) => Good(n)}
  <1>1. Len(keys) \in Nat /\ DOMAIN keys = 1 .. Len(keys)
    OBVIOUS
  <1>2. /\ f[0] = <<>>
        /\ \A n \in Nat : n + 1 <= Len(keys) =>
               f[n + 1] = IF keys[n + 1] \in kept THEN Append(f[n], keys[n + 1]) ELSE f[n]
    BY <1>1, FilterUnfolds
  <1> HIDE DEF f
  <1>3. 0 \in G
    <2>1. Len(<<>>) = 0 /\ 1 .. 0 = {} /\ <<>> \in Seq(S)
      OBVIOUS
    <2>2. FilteredSoFar(S, keys, kept, <<>>, 0)
      BY <2>1 DEF FilteredSoFar
    <2>3. Good(0)
      BY <1>2, <2>2, Zenon
    <2> HIDE DEF Good
    <2> QED BY <2>3
  <1>4. ASSUME NEW n \in Nat, n \in G PROVE n + 1 \in G
    <2> SUFFICES ASSUME n + 1 <= Len(keys) PROVE Good(n + 1)
      <3> HIDE DEF Good
      <3> QED OBVIOUS
    <2>0. Good(n)
      <3> HIDE DEF Good
      <3> QED BY <1>1, <1>4
    <2>1. /\ f[n] \in Seq(S) /\ Len(f[n]) <= n
          /\ \A x : (\E i \in 1 .. Len(f[n]) : f[n][i] = x)
                       <=> x \in kept /\ \E i \in 1 .. n : keys[i] = x
          /\ \A i, j \in 1 .. Len(f[n]) : f[n][i] = f[n][j] => i = j
      BY <2>0 DEF FilteredSoFar
    <2>2. n + 1 \in 1 .. Len(keys) /\ keys[n + 1] \in S
      BY <1>1
    <2>3. \A i \in 1 .. n : keys[i] # keys[n + 1]
      <3>1. \A i \in 1 .. n : i \in DOMAIN keys /\ n + 1 \in DOMAIN keys /\ i # n + 1
        BY <1>1, <2>2
      <3> QED BY <3>1 DEF IsInjective
    <2>4. \A x : (\E i \in 1 .. (n + 1) : keys[i] = x)
                     <=> (\E i \in 1 .. n : keys[i] = x) \/ x = keys[n + 1]
      <3>1. 1 .. (n + 1) = (1 .. n) \cup {n + 1}
        OBVIOUS
      <3> QED BY <3>1
    <2>5. CASE keys[n + 1] \notin kept
      <3>1. f[n + 1] = f[n]
        BY <1>2, <2>5
      <3>2. Len(f[n]) <= n + 1
        BY <2>1
      <3> QED BY <2>1, <2>4, <2>5, <3>1, <3>2 DEF FilteredSoFar
    <2>6. CASE keys[n + 1] \in kept
      <3> DEFINE a == f[n]
                 e == keys[n + 1]
      <3>1. f[n + 1] = Append(a, e)
        BY <1>2, <2>6
      <3>2. a \in Seq(S) /\ e \in S /\ Len(a) \in Nat /\ Len(a) <= n
        BY <2>1, <2>2
      <3>3. \A i \in 1 .. Len(a) : a[i] # e
        BY <2>1, <2>3
      <3>4. \A i, j \in 1 .. Len(a) : a[i] = a[j] => i = j
        BY <2>1
      <3>5. \A x : (\E i \in 1 .. Len(a) : a[i] = x) <=> x \in kept /\ \E i \in 1 .. n : keys[i] = x
        BY <2>1
      <3>6. e \in kept
        BY <2>6
      <3>7. \A x : (\E i \in 1 .. (n + 1) : keys[i] = x) <=> (\E i \in 1 .. n : keys[i] = x) \/ x = e
        BY <2>4
      <3> HIDE DEF a, e
      <3>8. /\ Append(a, e) \in Seq(S) /\ Len(Append(a, e)) = Len(a) + 1
            /\ \A i \in 1 .. Len(a) : Append(a, e)[i] = a[i]
            /\ Append(a, e)[Len(a) + 1] = e
        BY <3>2
      <3>9. 1 .. (Len(a) + 1) = (1 .. Len(a)) \cup {Len(a) + 1}
        BY <3>2
      <3>10. \A x : (\E i \in 1 .. (Len(a) + 1) : Append(a, e)[i] = x)
                       <=> (\E i \in 1 .. Len(a) : a[i] = x) \/ x = e
        BY <3>8, <3>9
      <3>11. \A i, j \in 1 .. (Len(a) + 1) : Append(a, e)[i] = Append(a, e)[j] => i = j
        BY <3>3, <3>4, <3>8, <3>9
      <3>12. Len(a) + 1 <= n + 1
        BY <3>2
      <3>13. \A x : (\E i \in 1 .. (Len(a) + 1) : Append(a, e)[i] = x)
                       <=> x \in kept /\ \E i \in 1 .. (n + 1) : keys[i] = x
        BY <3>5, <3>6, <3>7, <3>10
      <3>14. FilteredSoFar(S, keys, kept, Append(a, e), n + 1)
        BY <3>8, <3>11, <3>12, <3>13 DEF FilteredSoFar
      <3> QED BY <3>1, <3>14, Zenon
    <2> QED BY <2>5, <2>6
  <1>5. Nat \subseteq G
    <2> HIDE DEF G
    <2> QED BY <1>3, <1>4, NatSetInduction
  <1>6. Good(Len(keys))
    <2> HIDE DEF Good
    <2> QED BY <1>1, <1>5
  <1>7. filter(keys, kept) = f[Len(keys)]
    BY FilterIsStep DEF f
  <1> DEFINE r == f[Len(keys)]
  <1>r. FilteredSoFar(S, keys, kept, r, Len(keys))
    BY <1>6
  <1> HIDE DEF r
  <1>8. r \in Seq(S) /\ DOMAIN r = 1 .. Len(r) /\ Len(r) <= Len(keys)
    BY <1>r DEF FilteredSoFar
  <1>9. IsInjective(r)
    BY <1>r, <1>8 DEF IsInjective, FilteredSoFar
  <1>10. ASSUME NEW x PROVE x \in Range(r) <=> x \in Range(keys) /\ x \in kept
    <2>1. x \in Range(r) <=> \E i \in 1 .. Len(r) : r[i] = x
      BY <1>8 DEF Range
    <2>2. x \in Range(keys) <=> \E i \in 1 .. Len(keys) : keys[i] = x
      BY <1>1 DEF Range
    <2> QED BY <1>r, <2>1, <2>2 DEF FilteredSoFar
  <1>11. Range(r) = Range(keys) \cap kept
    BY <1>10
  <1>12. filter(keys, kept) = r
    BY <1>7 DEF r
  <1> QED BY <1>8, <1>9, <1>11, <1>12

\* The seats of the list, and those that are free.
SeatKeys == {"DRIVER", "FRONT_RIGHT", "ROW_1_LEFT", "ROW_1_CENTER", "ROW_1_RIGHT",
             "ROW_2_LEFT", "ROW_2_CENTER", "ROW_2_RIGHT"}
FreeSeats == {key \in DOMAIN visibleSeats : visibleSeats[key] = "available"}

\* The seats shown are those of the list, in one of four states.
LEMMA SeatsShown ==
    /\ DOMAIN visibleSeats \subseteq SeatKeys
    /\ \A key \in DOMAIN visibleSeats :
           visibleSeats[key] \in {"driver", "unavailable", "occupied", "available"}
    /\ {"FRONT_RIGHT", "ROW_1_LEFT"} \subseteq FreeSeats
    /\ FreeSeats \subseteq {"FRONT_RIGHT", "ROW_1_LEFT"}
                               \cup IF previewSevenSeat THEN {"ROW_2_LEFT", "ROW_2_RIGHT"} ELSE {}
  <1>1. CASE previewSevenSeat
    <2>1. DOMAIN sevenSeatPreview = SeatKeys \ {"ROW_1_CENTER"}
      BY DEF sevenSeatPreview, cabinSeats, SeatKeys
    <2>2. /\ sevenSeatPreview["DRIVER"] = "driver"
          /\ sevenSeatPreview["FRONT_RIGHT"] = "available"
          /\ sevenSeatPreview["ROW_1_LEFT"] = "available"
          /\ sevenSeatPreview["ROW_1_RIGHT"] = "occupied"
          /\ sevenSeatPreview["ROW_2_LEFT"] = "available"
          /\ sevenSeatPreview["ROW_2_CENTER"] = "unavailable"
          /\ sevenSeatPreview["ROW_2_RIGHT"] = "available"
      BY DEF sevenSeatPreview, cabinSeats
    <2> QED BY <1>1, <2>1, <2>2 DEF visibleSeats, FreeSeats, SeatKeys
  <1>2. CASE ~previewSevenSeat
    BY <1>2 DEF visibleSeats, cabinSeats, FreeSeats, SeatKeys
  <1> QED BY <1>1, <1>2

\* Every layout has a place for each free seat.
LEMMA LayoutHasFreeSeats == FreeSeats \subseteq layout
  <1> DEFINE outer == {"FRONT_RIGHT", "ROW_1_LEFT", "ROW_1_RIGHT"}
             third == {"ROW_2_LEFT", "ROW_2_CENTER", "ROW_2_RIGHT"}
  <1>1. /\ outer \subseteq SEAT_MAP_LAYOUTS.sedan_comfort_no_middle
        /\ outer \cup third \subseteq SEAT_MAP_LAYOUTS.minivan_6p
        /\ outer \cup third \subseteq SEAT_MAP_LAYOUTS.minivan_7p
    BY DEF SEAT_MAP_LAYOUTS
  <1>2. CASE previewSevenSeat
    BY <1>1, <1>2, SeatsShown DEF layout, seatMapLayoutIdForVehicle
  <1>3. CASE ~previewSevenSeat
    BY <1>1, <1>3, SeatsShown DEF layout, seatMapLayoutIdForVehicle
  <1> QED BY <1>2, <1>3

\* The free seats in the order of the list, each once: two of them at least.
LEMMA AvailableSeats ==
    /\ availableSeatKeys \in Seq(FreeSeats) /\ IsInjective(availableSeatKeys)
    /\ Range(availableSeatKeys) = FreeSeats
    /\ Len(availableSeatKeys) \in Nat
    /\ 2 <= Len(availableSeatKeys) /\ Len(availableSeatKeys) <= 8
  <1>1. /\ SeatOrder \in Seq(SeatKeys) /\ Len(SeatOrder) = 8 /\ IsInjective(SeatOrder)
        /\ Range(SeatOrder) = SeatKeys
    <2>1. SeatOrder \in Seq(SeatKeys) /\ Len(SeatOrder) = 8 /\ DOMAIN SeatOrder = 1 .. 8
      BY DEF SeatOrder, SeatKeys
    <2>2. 1 .. 8 = {1, 2, 3, 4, 5, 6, 7, 8}
      OBVIOUS
    <2>3. /\ SeatOrder[1] = "DRIVER" /\ SeatOrder[2] = "FRONT_RIGHT"
          /\ SeatOrder[3] = "ROW_1_LEFT" /\ SeatOrder[4] = "ROW_1_CENTER"
          /\ SeatOrder[5] = "ROW_1_RIGHT" /\ SeatOrder[6] = "ROW_2_LEFT"
          /\ SeatOrder[7] = "ROW_2_CENTER" /\ SeatOrder[8] = "ROW_2_RIGHT"
      BY DEF SeatOrder
    <2>4. IsInjective(SeatOrder)
      BY <2>1, <2>2, <2>3 DEF IsInjective
    <2>5. Range(SeatOrder) = SeatKeys
      BY <2>1, <2>2, <2>3 DEF Range, SeatKeys
    <2> QED BY <2>1, <2>4, <2>5
  <1> DEFINE list == filter(SeatOrder, FreeSeats)
  <1>2. /\ list \in Seq(SeatKeys) /\ IsInjective(list)
        /\ Len(list) <= 8 /\ Range(list) = SeatKeys \cap FreeSeats
    <2> DEFINE K == SeatKeys
               O == SeatOrder
               F == FreeSeats
    <2>1. O \in Seq(K) /\ Len(O) = 8 /\ IsInjective(O) /\ Range(O) = K
      BY <1>1
    <2> HIDE DEF K, O, F
    <2>2. /\ filter(O, F) \in Seq(K) /\ IsInjective(filter(O, F))
          /\ Len(filter(O, F)) <= Len(O) /\ Range(filter(O, F)) = Range(O) \cap F
      BY <2>1, FilterKeeps
    <2> QED BY <2>1, <2>2 DEF K, O, F
  <1>3. availableSeatKeys = list
    BY DEF availableSeatKeys, selectableSeatKeys, FreeSeats
  <1> HIDE DEF list
  <1>4. Range(list) = FreeSeats
    BY <1>2, SeatsShown DEF FreeSeats
  <1>5. DOMAIN list = 1 .. Len(list) /\ Len(list) \in Nat
    BY <1>2
  <1>6. list \in Seq(FreeSeats)
    <2>1. \A i \in 1 .. Len(list) : list[i] \in FreeSeats
      BY <1>4, <1>5 DEF Range
    <2> QED BY <1>2, <2>1
  <1>7. Len(list) >= 2
    <2>1. PICK i \in 1 .. Len(list) : list[i] = "FRONT_RIGHT"
      BY <1>4, <1>5, SeatsShown DEF Range
    <2>2. PICK j \in 1 .. Len(list) : list[j] = "ROW_1_LEFT"
      BY <1>4, <1>5, SeatsShown DEF Range
    <2>3. i # j
      BY <2>1, <2>2
    <2> QED BY <1>5, <2>3
  <1> QED BY <1>2, <1>3, <1>4, <1>5, <1>6, <1>7

\* Whatever is chosen is free, and chosen once.
PageInv ==
    /\ previewSevenSeat \in BOOLEAN /\ bookingType \in {"SEAT", "MULTI_SEAT", "WHOLE_CAR"}
    /\ selectedSeats \in Seq(FreeSeats) /\ IsInjective(selectedSeats)
    /\ passengerCount \in Nat
    /\ 1 <= passengerCount /\ passengerCount <= Len(availableSeatKeys)
    /\ baggage \in [type : {"NONE", "SUITCASE"}, quantity : Nat]

\* At first no seat, or a free one, is chosen.
LEMMA PageStarts == BookingPageInit => PageInv
  <1> SUFFICES ASSUME BookingPageInit PROVE PageInv
    OBVIOUS
  <1> USE DEF BookingPageInit
  <1>1. /\ passengerCount \in Nat
        /\ 1 <= passengerCount /\ passengerCount <= Len(availableSeatKeys)
    BY AvailableSeats
  <1>2. /\ <<>> \in Seq(FreeSeats) /\ IsInjective(<<>>)
        /\ <<"FRONT_RIGHT">> \in Seq(FreeSeats) /\ IsInjective(<<"FRONT_RIGHT">>)
    BY SeatsShown DEF IsInjective
  <1> QED BY <1>1, <1>2 DEF PageInv

\* A click on a free seat leaves free seats chosen, each once.
LEMMA ToggledStaysFree ==
    ASSUME PageInv, NEW seat, Contains(availableSeatKeys, seat)
    PROVE  Toggled(seat) \in Seq(FreeSeats) /\ IsInjective(Toggled(seat))
  <1>1. seat \in FreeSeats
    BY AvailableSeats DEF Contains
  <1>2. CASE bookingType = "SEAT"
    BY <1>1, <1>2 DEF Toggled, IsInjective
  <1>3. CASE bookingType # "SEAT" /\ Contains(selectedSeats, seat)
    <2> DEFINE left == filter(selectedSeats, Range(selectedSeats) \ {seat})
               F == FreeSeats
    <2>1. selectedSeats \in Seq(F) /\ IsInjective(selectedSeats)
      BY DEF PageInv
    <2> HIDE DEF F
    <2>2. left \in Seq(F) /\ IsInjective(left)
      BY <2>1, FilterKeeps
    <2> QED BY <1>3, <2>2 DEF Toggled, F
  <1>4. CASE bookingType # "SEAT" /\ ~Contains(selectedSeats, seat)
    <2> DEFINE F == FreeSeats
    <2>1. /\ selectedSeats \in Seq(F) /\ seat \in F
          /\ \A i, j \in 1 .. Len(selectedSeats) :
                 selectedSeats[i] = selectedSeats[j] => i = j
      BY <1>1 DEF PageInv, IsInjective
    <2>2. \A i \in 1 .. Len(selectedSeats) : selectedSeats[i] # seat
      BY <1>4, <2>1 DEF Contains
    <2>3. passengerCount \in Nat /\ passengerCount >= 1
      BY AvailableSeats DEF PageInv
    <2> HIDE DEF F
    <2>4. ASSUME NEW s \in Seq(F), \A i, j \in 1 .. Len(s) : s[i] = s[j] => i = j,
                 \A i \in 1 .. Len(s) : s[i] # seat
          PROVE  Append(s, seat) \in Seq(F) /\ IsInjective(Append(s, seat))
      BY <2>1, <2>4 DEF IsInjective
    <2>5. CASE Len(selectedSeats) < passengerCount
      BY <1>4, <2>1, <2>2, <2>3, <2>4, <2>5 DEF Toggled, F
    <2>6. CASE Len(selectedSeats) >= passengerCount
      <3> DEFINE t == Tail(selectedSeats)
      <3>1. /\ t \in Seq(F) /\ Len(t) = Len(selectedSeats) - 1
            /\ \A i \in 1 .. Len(t) : t[i] = selectedSeats[i + 1] /\ i + 1 \in 1 .. Len(selectedSeats)
        BY <2>1, <2>3, <2>6
      <3>2. \A i \in 1 .. Len(t) : t[i] # seat
        BY <2>2, <3>1
      <3>3. \A i, j \in 1 .. Len(t) : t[i] = t[j] => i = j
        BY <2>1, <3>1
      <3>4. Append(t, seat) \in Seq(F) /\ IsInjective(Append(t, seat))
        BY <2>4, <3>1, <3>2, <3>3
      <3> QED BY <1>4, <2>6, <2>3, <3>4 DEF Toggled, F
    <2> QED BY <2>1, <2>3, <2>5, <2>6
  <1> QED BY <1>2, <1>3, <1>4

\* Only the layout decides which seats are free, and no step changes it.
LEMMA SameLayoutSameSeats ==
    previewSevenSeat' = previewSevenSeat
        => FreeSeats' = FreeSeats /\ availableSeatKeys' = availableSeatKeys
  BY DEF FreeSeats, availableSeatKeys, visibleSeats

\* Every step keeps the invariant of the page.
LEMMA PageNextKeeps == PageInv /\ [BookingPageNext]_pageVars => PageInv'
  <1> SUFFICES ASSUME PageInv, [BookingPageNext]_pageVars PROVE PageInv'
    OBVIOUS
  <1>0. ASSUME previewSevenSeat' = previewSevenSeat
        PROVE  FreeSeats' = FreeSeats /\ availableSeatKeys' = availableSeatKeys
    BY <1>0, SameLayoutSameSeats
  <1>1. CASE UNCHANGED pageVars
    BY <1>1, <1>0 DEF PageInv, pageVars
  <1>2. CASE requestSeatHold \/ ConfirmPassengers
    BY <1>2, <1>0 DEF PageInv, requestSeatHold, ConfirmPassengers
  <1>3. ASSUME NEW seat \in layout, toggleSeat(seat) PROVE PageInv'
    <2>1. selectedSeats' \in Seq(FreeSeats) /\ IsInjective(selectedSeats')
      <3>1. CASE Contains(availableSeatKeys, seat)
        BY <1>3, <3>1, ToggledStaysFree DEF toggleSeat
      <3>2. CASE ~Contains(availableSeatKeys, seat)
        BY <1>3, <3>2 DEF toggleSeat, PageInv
      <3> QED BY <3>1, <3>2
    <2> QED BY <1>0, <1>3, <2>1 DEF PageInv, toggleSeat
  <1>4. ASSUME NEW next \in {"SEAT", "MULTI_SEAT", "WHOLE_CAR"}, changeType(next)
        PROVE  PageInv'
    <2> DEFINE F == FreeSeats
               a == availableSeatKeys
    <2>1. /\ a \in Seq(F) /\ Len(a) \in Nat /\ 2 <= Len(a)
          /\ \A i, j \in 1 .. Len(a) : a[i] = a[j] => i = j
      BY AvailableSeats DEF IsInjective
    <2>2. /\ previewSevenSeat' = previewSevenSeat /\ baggage' = baggage
          /\ bookingType' = next /\ availableSeatKeys' = a /\ FreeSeats' = F
      BY <1>0, <1>4 DEF changeType
    <2> HIDE DEF F, a
    <2>3. a \in Seq(F) /\ IsInjective(a)
      BY <2>1 DEF IsInjective
    <2>4. SubSeq(a, 1, 2) \in Seq(F) /\ IsInjective(SubSeq(a, 1, 2))
      <3>1. /\ SubSeq(a, 1, 2) \in Seq(F) /\ Len(SubSeq(a, 1, 2)) = 2
            /\ \A i \in 1 .. 2 : SubSeq(a, 1, 2)[i] = a[i]
        BY <2>1
      <3>2. 1 \in 1 .. Len(a) /\ 2 \in 1 .. Len(a) /\ 1 .. 2 = {1, 2}
        BY <2>1
      <3>3. DOMAIN SubSeq(a, 1, 2) = 1 .. 2
        BY <3>1
      <3> QED BY <2>1, <3>1, <3>2, <3>3 DEF IsInjective
    <2>5. <<Head(a)>> \in Seq(F) /\ IsInjective(<<Head(a)>>)
      BY <2>1 DEF IsInjective
    <2>7. /\ selectedSeats' \in Seq(F) /\ IsInjective(selectedSeats')
          /\ passengerCount' \in Nat /\ 1 <= passengerCount' /\ passengerCount' <= Len(a)
      <3>1. \/ passengerCount' = Len(a) /\ selectedSeats' = a
            \/ passengerCount' = 2 /\ selectedSeats' = SubSeq(a, 1, 2)
            \/ passengerCount' = 1 /\ selectedSeats' = <<Head(a)>>
        BY <1>4 DEF changeType, a
      <3>2. CASE passengerCount' = Len(a) /\ selectedSeats' = a
        BY <2>1, <2>3, <3>2
      <3>3. CASE passengerCount' = 2 /\ selectedSeats' = SubSeq(a, 1, 2)
        <4>1. 2 \in Nat /\ 1 <= 2
          OBVIOUS
        <4> QED BY <2>1, <2>4, <3>3, <4>1
      <3>4. CASE passengerCount' = 1 /\ selectedSeats' = <<Head(a)>>
        <4>1. 1 \in Nat /\ 1 <= 1 /\ 1 <= Len(a)
          BY <2>1
        <4> QED BY <2>5, <3>4, <4>1
      <3> QED BY <3>1, <3>2, <3>3, <3>4
    <2> QED BY <2>2, <2>7 DEF PageInv, a
  <1>5. CASE ChangePassengerCount
    <2>1. /\ passengerCount' \in Nat
          /\ 1 <= passengerCount' /\ passengerCount' <= Len(availableSeatKeys)
      BY <1>5, AvailableSeats DEF ChangePassengerCount, PageInv
    <2> QED BY <1>0, <1>5, <2>1 DEF PageInv, ChangePassengerCount
  <1>6. CASE ChooseBaggage
    <2>1. baggage' \in [type : {"NONE", "SUITCASE"}, quantity : Nat]
      BY <1>6 DEF ChooseBaggage, PageInv
    <2> QED BY <1>0, <1>6, <2>1 DEF PageInv, ChooseBaggage
  <1> QED BY <1>1, <1>2, <1>3, <1>4, <1>5, <1>6 DEF BookingPageNext

\* The seats that may be clicked on and those that are shown as selected.
LEMMA WhatIsShown ==
    ASSUME PageInv
    PROVE  /\ bookingType # "WHOLE_CAR" => EnabledSeats = FreeSeats
           /\ {key \in layout : resolveVisualStatus(key) = "selected"}
                  = IF bookingType = "WHOLE_CAR" THEN FreeSeats ELSE Range(selectedSeats)
  <1> DEFINE taken(key) == Contains(selectedSeats, key) \/ bookingType = "WHOLE_CAR"
  <1>1. ASSUME NEW key
        PROVE  /\ resolveVisualStatus(key) = "selected" <=> key \in FreeSeats /\ taken(key)
               /\ resolveVisualStatus(key) \in {"free", "selected"} <=> key \in FreeSeats
    <2>1. CASE key \notin DOMAIN visibleSeats
      BY <2>1 DEF resolveVisualStatus, FreeSeats
    <2>2. CASE key \in FreeSeats
      BY <2>2 DEF resolveVisualStatus, FreeSeats
    <2>3. CASE key \in DOMAIN visibleSeats /\ key \notin FreeSeats
      BY <2>3, SeatsShown DEF resolveVisualStatus, FreeSeats
    <2> QED BY <2>1, <2>2, <2>3
  <1>2. \A key : Contains(selectedSeats, key) <=> key \in Range(selectedSeats)
    BY DEF PageInv, Contains, Range
  <1>3. Range(selectedSeats) \subseteq FreeSeats
    BY DEF PageInv, Range
  <1>4. bookingType # "WHOLE_CAR" => EnabledSeats = FreeSeats
    BY <1>1, LayoutHasFreeSeats DEF EnabledSeats
  <1>5. ASSUME NEW key
        PROVE  key \in layout /\ resolveVisualStatus(key) = "selected"
                   <=> IF bookingType = "WHOLE_CAR" THEN key \in FreeSeats
                       ELSE key \in Range(selectedSeats)
    BY <1>1, <1>2, <1>3, LayoutHasFreeSeats
  <1> HIDE DEF taken
  <1> QED BY <1>4, <1>5

\* From it, what the page asks for is accepted, and what is free is drawn.
LEMMA PageIsKept == PageInv => RequestIsAccepted /\ FreeSeatsAreDrawn
  <1> SUFFICES ASSUME PageInv PROVE RequestIsAccepted /\ FreeSeatsAreDrawn
    OBVIOUS
  <1>1. FreeSeatsAreDrawn
    BY WhatIsShown, AvailableSeats DEF FreeSeatsAreDrawn
  <1>2. ASSUME requestReady PROVE RequestIsAccepted
    <2> DEFINE hold == buildBookingCorePayload
               asked == IF bookingType = "WHOLE_CAR" THEN availableSeatKeys ELSE selectedSeats
    <2>1. /\ hold.type = bookingType /\ hold.seatKeys = asked
          /\ hold.baggage = baggageItemsForChoice
          /\ hold.passengerCount = IF bookingType = "WHOLE_CAR" THEN Len(asked) ELSE requiredSeats
      BY DEF buildBookingCorePayload
    <2>2. \A item \in Range(hold.baggage) : item.quantity \in 1..20
      <3>1. baggage.quantity \in Nat
        BY DEF PageInv
      <3> DEFINE q == IF baggage.quantity < 1 THEN 1 ELSE IF baggage.quantity > 20 THEN 20
                      ELSE baggage.quantity
      <3>2. q \in 1 .. 20
        BY <3>1
      <3>3. baggageItemsForChoice \in {<<>>, <<[type |-> baggage.type, quantity |-> q]>>}
        BY DEF baggageItemsForChoice
      <3> HIDE DEF q
      <3>4. \A item \in Range(baggageItemsForChoice) : item.quantity = q
        BY <3>3 DEF Range
      <3>5. \A item \in Range(baggageItemsForChoice) : item.quantity \in 1 .. 20
        BY <3>2, <3>4
      <3> HIDE DEF hold
      <3> QED BY <2>1, <3>5
    <2>3. /\ asked \in Seq(FreeSeats) /\ IsInjective(asked)
          /\ Range(asked) \subseteq Range(availableSeatKeys)
          /\ Range(asked) = {key \in layout : resolveVisualStatus(key) = "selected"}
      BY AvailableSeats, WhatIsShown DEF PageInv, Range
    <2>4. /\ Len(asked) = hold.passengerCount
          /\ Len(asked) \in Nat /\ 1 <= Len(asked) /\ Len(asked) <= 16
          /\ bookingType = "SEAT" => Len(asked) = 1
      <3>1. CASE bookingType = "WHOLE_CAR"
        BY <2>1, <3>1, AvailableSeats
      <3>2. CASE bookingType # "WHOLE_CAR"
        <4>1. asked = selectedSeats /\ hold.passengerCount = requiredSeats
          BY <2>1, <3>2
        <4>2. Len(selectedSeats) = requiredSeats
          BY <1>2, <3>2 DEF requestReady
        <4>3. CASE bookingType = "MULTI_SEAT"
          <5>1. requiredSeats = passengerCount
            BY <4>3 DEF requiredSeats
          <5>2. /\ passengerCount \in Nat /\ 1 <= passengerCount /\ passengerCount <= 16
            BY AvailableSeats DEF PageInv
          <5> HIDE DEF hold, asked
          <5> QED BY <4>1, <4>2, <4>3, <5>1, <5>2
        <4>4. CASE bookingType # "MULTI_SEAT"
          <5>1. requiredSeats = 1
            BY <4>4 DEF requiredSeats
          <5>2. 1 \in Nat /\ 1 <= 1 /\ 1 <= 16
            OBVIOUS
          <5> HIDE DEF hold, asked
          <5> QED BY <4>1, <4>2, <5>1, <5>2
        <4> QED BY <4>3, <4>4
      <3> QED BY <3>1, <3>2
    <2>5. AcceptedByApi(hold)
      <3> HIDE DEF hold, asked
      <3>1. Len(asked) \in 1 .. 16
        BY <2>4
      <3>2. hold.type = "MULTI_SEAT" => Len(hold.seatKeys) = hold.passengerCount
        BY <2>1, <2>4
      <3>3. hold.type = "SEAT" => Len(hold.seatKeys) = 1
        BY <2>1, <2>4
      <3>4. Len(hold.seatKeys) \in 1 .. 16 /\ hold.passengerCount \in 1 .. 16
        BY <2>1, <2>4, <3>1
      <3> QED BY <2>2, <3>2, <3>3, <3>4 DEF AcceptedByApi
    <2> HIDE DEF asked
    <2> QED BY <2>1, <2>3, <2>4, <2>5 DEF RequestIsAccepted
  <1>3. ASSUME ~requestReady PROVE RequestIsAccepted
    BY <1>3 DEF RequestIsAccepted
  <1> QED BY <1>1, <1>2, <1>3

-----------------------------------------------------------------------------
(* The part that is there keeps its invariant.  Codes do so where their    *)
(* update is versioned.                                                    *)
ServicesInv ==
    /\ part = "driver" => DriverInv
    /\ part = "vehicles" => VehicleInv
    /\ part = "reviews" => ReviewsInv
    /\ part = "chat" => ConversationsInv
    /\ part = "support" => TicketInv
    /\ part = "sessions" => SessionsInv
    /\ part = "waitlist" => WaitlistInv
    /\ part = "rewards" => RewardsInv
    /\ part = "safety" => SafetyInv
    /\ part = "codes" /\ Versioned => CodesInv
    /\ part = "locations" => LocationsInv
    /\ part = "shares" => SharesInv
    /\ part = "profiles" => ProfilesInv
    /\ part = "favourites" => FavouritesInv
    /\ part = "uploads" => UploadsInv
    /\ part = "catalogue" => CatalogueInv
    /\ part = "users" => UsersInv
    /\ part = "desk" => DeskInv
    /\ part = "bookings" => BookingInv
    /\ part = "search" => SearchInv
    /\ part = "booking" => PageInv

\* The invariant of each part holds at first.
LEMMA ServicesStart == ServicesInit => ServicesInv
  <1> SUFFICES ASSUME ServicesInit PROVE ServicesInv
    OBVIOUS
  <1>1. part = "driver" => DriverInv
    BY DriverInit DEF ServicesInit
  <1>2. part = "vehicles" => VehicleInv
    BY VehicleInit DEF ServicesInit
  <1>3. part = "reviews" => ReviewsInv
    BY ReviewsStart DEF ServicesInit
  <1>4. part = "chat" => ConversationsInv
    BY ConversationsStart DEF ServicesInit
  <1>5. part = "support" => TicketInv
    BY TicketsStart DEF ServicesInit
  <1>6. part = "sessions" => SessionsInv
    BY SessionsStart DEF ServicesInit
  <1>7. part = "waitlist" => WaitlistInv
    BY WaitlistStart DEF ServicesInit
  <1>8. part = "rewards" => RewardsInv
    BY RewardsStart DEF ServicesInit
  <1>9. part = "safety" => SafetyInv
    BY SafetyStart DEF ServicesInit
  <1>10. part = "codes" => CodesInv
    BY CodesStart DEF ServicesInit
  <1>11. part = "locations" => LocationsInv
    BY LocationsStart DEF ServicesInit
  <1>12. part = "shares" => SharesInv
    BY SharesStart DEF ServicesInit
  <1>13. part = "profiles" => ProfilesInv
    BY ProfilesStart DEF ServicesInit
  <1>14. part = "favourites" => FavouritesInv
    BY FavouritesStart DEF ServicesInit
  <1>15. part = "uploads" => UploadsInv
    BY UploadsStart DEF ServicesInit
  <1>16. part = "catalogue" => CatalogueInv
    BY CatalogueStart DEF ServicesInit
  <1>17. part = "users" => UsersInv
    BY UsersStart DEF ServicesInit
  <1>18. part = "desk" => DeskInv
    BY DeskStart DEF ServicesInit
  <1>19. part = "bookings" => BookingInv
    BY BookingsStart DEF ServicesInit
  <1>20. part = "search" => SearchInv
    BY SearchStarts DEF ServicesInit
  <1>21. part = "booking" => PageInv
    BY PageStarts DEF ServicesInit
  <1> QED
    BY <1>1, <1>2, <1>3, <1>4, <1>5, <1>6, <1>7, <1>8, <1>9, <1>10, <1>11, <1>12, <1>13, <1>14, <1>15, <1>16, <1>17,
       <1>18, <1>19, <1>20, <1>21
       DEF ServicesInv

\* A step is one of the part that is there, and keeps its invariant.
LEMMA ServicesStep == ServicesInv /\ [ServicesNext]_servicesVars => ServicesInv'
  <1> SUFFICES ASSUME ServicesInv, [ServicesNext]_servicesVars PROVE ServicesInv'
    OBVIOUS
  <1>part. part' = part
    BY DEF ServicesNext, servicesVars
  <1>1. ASSUME part = "driver" PROVE DriverInv'
    <2>1. [DriverVerificationNext]_verificationVars
      BY <1>1 DEF ServicesNext, servicesVars
    <2> QED BY <1>1, <2>1, DriverNext DEF ServicesInv
  <1>2. ASSUME part = "vehicles" PROVE VehicleInv'
    <2>1. [VehiclesNext]_vehicleVars
      BY <1>2 DEF ServicesNext, servicesVars
    <2> QED BY <1>2, <2>1, VehicleNext DEF ServicesInv
  <1>3. ASSUME part = "reviews" PROVE ReviewsInv'
    <2>1. [ReviewsNext]_reviewVars
      BY <1>3 DEF ServicesNext, servicesVars
    <2> QED BY <1>3, <2>1, ReviewsStep DEF ServicesInv
  <1>4. ASSUME part = "chat" PROVE ConversationsInv'
    <2>1. [ConversationsNext]_chatVars
      BY <1>4 DEF ServicesNext, servicesVars
    <2> QED BY <1>4, <2>1, ConversationsStep DEF ServicesInv
  <1>5. ASSUME part = "support" PROVE TicketInv'
    <2>1. [SupportTicketsNext]_ticketVars
      BY <1>5 DEF ServicesNext, servicesVars
    <2> QED BY <1>5, <2>1, TicketsStep DEF ServicesInv
  <1>6. ASSUME part = "sessions" PROVE SessionsInv'
    <2>1. [SessionsNext]_sessionVars
      BY <1>6 DEF ServicesNext, servicesVars
    <2> QED BY <1>6, <2>1, SessionsStep DEF ServicesInv
  <1>7. ASSUME part = "waitlist" PROVE WaitlistInv'
    <2>1. [WaitlistNext]_waitVars
      BY <1>7 DEF ServicesNext, servicesVars
    <2> QED BY <1>7, <2>1, WaitlistStep DEF ServicesInv
  <1>8. ASSUME part = "rewards" PROVE RewardsInv'
    <2>1. [RewardsNext]_rewardVars
      BY <1>8 DEF ServicesNext, servicesVars
    <2> QED BY <1>8, <2>1, RewardsStep DEF ServicesInv
  <1>9. ASSUME part = "safety" PROVE SafetyInv'
    <2>1. [SafetyNext]_safetyVars
      BY <1>9 DEF ServicesNext, servicesVars
    <2> QED BY <1>9, <2>1, SafetyKept DEF ServicesInv
  <1>10. ASSUME part = "codes", Versioned PROVE CodesInv'
    <2>1. [CodesNext]_codeVars
      BY <1>10 DEF ServicesNext, servicesVars
    <2> QED BY <1>10, <2>1, CodesStep DEF ServicesInv
  <1>11. ASSUME part = "locations" PROVE LocationsInv'
    <2>1. [TripLocationsNext]_locationVars
      BY <1>11 DEF ServicesNext, servicesVars
    <2> QED BY <1>11, <2>1, LocationsStep DEF ServicesInv
  <1>12. ASSUME part = "shares" PROVE SharesInv'
    <2>1. [TripSharesNext]_shareVars
      BY <1>12 DEF ServicesNext, servicesVars
    <2> QED BY <1>12, <2>1, SharesStep DEF ServicesInv
  <1>13. ASSUME part = "profiles" PROVE ProfilesInv'
    <2>1. [ProfilesNext]_profileVars
      BY <1>13 DEF ServicesNext, servicesVars
    <2> QED BY <1>13, <2>1, ProfilesStep DEF ServicesInv
  <1>14. ASSUME part = "favourites" PROVE FavouritesInv'
    <2>1. [FavouritesNext]_followVars
      BY <1>14 DEF ServicesNext, servicesVars
    <2> QED BY <1>14, <2>1, FavouritesStep DEF ServicesInv
  <1>15. ASSUME part = "uploads" PROVE UploadsInv'
    <2>1. [UploadsNext]_uploadVars
      BY <1>15 DEF ServicesNext, servicesVars
    <2> QED BY <1>15, <2>1, UploadsStep DEF ServicesInv
  <1>16. ASSUME part = "catalogue" PROVE CatalogueInv'
    <2>1. [CatalogueNext]_catalogueVars
      BY <1>16 DEF ServicesNext, servicesVars
    <2> QED BY <1>16, <2>1, CatalogueStep DEF ServicesInv
  <1>17. ASSUME part = "users" PROVE UsersInv'
    <2>1. [UsersPanelNext]_usersVars
      BY <1>17 DEF ServicesNext, servicesVars
    <2> QED BY <1>17, <2>1, UsersStep DEF ServicesInv
  <1>18. ASSUME part = "desk" PROVE DeskInv'
    <2>1. [TicketDeskNext]_deskVars
      BY <1>18 DEF ServicesNext, servicesVars
    <2> QED BY <1>18, <2>1, DeskStep DEF ServicesInv
  <1>19. ASSUME part = "bookings" PROVE BookingInv'
    <2>1. [BookingDeskNext]_bookingVars
      BY <1>19 DEF ServicesNext, servicesVars
    <2> QED BY <1>19, <2>1, BookingsStep DEF ServicesInv
  <1>20. ASSUME part = "search" PROVE SearchInv'
    <2>1. [SearchNext]_searchVars
      BY <1>20 DEF ServicesNext, servicesVars
    <2> QED BY <1>20, <2>1, SearchNextKeeps DEF ServicesInv
  <1>21. ASSUME part = "booking" PROVE PageInv'
    <2>1. [BookingPageNext]_pageVars
      BY <1>21 DEF ServicesNext, servicesVars
    <2> QED BY <1>21, <2>1, PageNextKeeps DEF ServicesInv
  <1> QED
    BY <1>part, <1>1, <1>2, <1>3, <1>4, <1>5, <1>6, <1>7, <1>8, <1>9, <1>10, <1>11, <1>12, <1>13, <1>14, <1>15, <1>16, <1>17,
       <1>18, <1>19, <1>20, <1>21
       DEF ServicesInv

(* Every reachable state of the composition satisfies the invariant of the *)
(* part that is there.                                                     *)
THEOREM ServicesKeepInvariants == ServicesSpec => []ServicesInv
  <1>1. ServicesInit => ServicesInv
    BY ServicesStart
  <1>2. ServicesInv /\ [ServicesNext]_servicesVars => ServicesInv'
    BY ServicesStep
  <1> QED
    BY <1>1, <1>2, PTL DEF ServicesSpec

(* A driver drives only after an admin has approved what the driver sent,  *)
(* and saw it, for any number of requests and of sections.                 *)
THEOREM DriversAreVetted == ServicesSpec => []DriversHold
  <1>1. ServicesInv => DriversHold
    BY DEF DriversHold, ServicesInv, DriverInv
  <1> QED
    BY <1>1, ServicesKeepInvariants, PTL

(* Vehicles on the road were reviewed and are one of a kind, for any       *)
(* number of vehicles, plates and requests.                                *)
THEOREM VehiclesAreReviewed == ServicesSpec => []VehiclesHold
  <1>1. ServicesInv => VehiclesHold
    BY VehiclesVetted DEF VehiclesHold, ServicesInv
  <1> QED
    BY <1>1, ServicesKeepInvariants, PTL

(* Ratings are earned, current and counted once, for any number of         *)
(* authors, keys and requests.                                             *)
THEOREM RatingsAreTrue == ServicesSpec => []RatingsHold
  <1>1. ServicesInv => RatingsHold
    BY ReviewsEarned DEF RatingsHold, ServicesInv
  <1> QED
    BY <1>1, ServicesKeepInvariants, PTL

(* Messages, receipts, alerts and the counts of unread messages agree, for *)
(* any number of participants, messages and requests.                      *)
THEOREM MessagesAreAccounted == ServicesSpec => []MessagesHold
  <1>1. ServicesInv => MessagesHold
    BY ConversationsAccounted DEF MessagesHold, ServicesInv
  <1> QED
    BY <1>1, ServicesKeepInvariants, PTL

(* The history of a ticket leads to its status, whoever it is assigned to  *)
(* takes part in it, and what is shown of a booking has happened, for any  *)
(* number of agents and of requests.                                       *)
THEOREM TicketsAreConsistent == ServicesSpec => []TicketsHold
  <1>1. ServicesInv => TicketsHold
    BY DeskHolds, BookingsShown DEF TicketsHold, ServicesInv, TicketInv
  <1> QED
    BY <1>1, ServicesKeepInvariants, PTL

(* The client is signed in as it shows, what was chosen is stored, and     *)
(* admins see whom they asked for, for any number of sessions, accounts    *)
(* and requests.                                                           *)
THEOREM UsersAreKnown == ServicesSpec => []UserIsKnown
  <1>1. ServicesInv => UserIsKnown
    BY SessionsKnown, ProfilesKept, UsersListed DEF UserIsKnown, ServicesInv
  <1> QED
    BY <1>1, ServicesKeepInvariants, PTL

(* A published trip connects cities that clients find, serves those who    *)
(* wait, and is told to those who follow, for any number of cities,        *)
(* routes, entries and requests.                                           *)
THEOREM PublicationsReach == ServicesSpec => []PublicationReaches
  <1>1. ServicesInv => PublicationReaches
    BY CatalogueConnects, WaitlistServed, FavouritesWanted DEF PublicationReaches, ServicesInv
  <1> QED
    BY <1>1, ServicesKeepInvariants, PTL

(* Each source is rewarded once, as its evaluation says, and sums leave    *)
(* none out, for any number of trips and of completions in flight.         *)
THEOREM RewardsAreConsistent == ServicesSpec => []RewardsHold
  <1>1. ServicesInv => RewardsHold
    BY RewardsAdded DEF RewardsHold, ServicesInv
  <1> QED
    BY <1>1, ServicesKeepInvariants, PTL

(* Reports, blocks and contacts hold, positions are spaced, and shares     *)
(* end, for any number of requests, points and views.                      *)
THEOREM TravellersStaySafe == ServicesSpec => []TravellersAreSafe
  <1>1. ServicesInv => TravellersAreSafe
    BY SafetyHolds, LocationsBounded, SharesEnded DEF TravellersAreSafe, ServicesInv
  <1> QED
    BY <1>1, ServicesKeepInvariants, PTL

(* Files and photos stay within their limits and with what was submitted,  *)
(* for any number of files and requests.                                   *)
THEOREM FilesAreKept == ServicesSpec => []FilesHold
  <1>1. ServicesInv => FilesHold
    BY UploadsHeld DEF FilesHold, ServicesInv
  <1> QED
    BY <1>1, ServicesKeepInvariants, PTL

(* A code that is versioned moves its parcel once, and only while it       *)
(* counts, for any number of codes, attempts and requests.                 *)
THEOREM CodesMoveOnce == Versioned => (ServicesSpec => []CodesHold)
  <1> SUFFICES ASSUME Versioned PROVE ServicesSpec => []CodesHold
    OBVIOUS
  <1>1. ServicesInv => CodesHold
    BY CodesUsed DEF CodesHold, ServicesInv
  <1> QED
    BY <1>1, ServicesKeepInvariants, PTL

(* Pages of a search show each trip that stays once, in order and as asked *)
(* for, and miss or repeat one per change at most; the page of a booking   *)
(* asks for as many free and different seats as there are passengers; for  *)
(* any number of trips and of changes, and any size of the pages.          *)
THEOREM ClientsFindSeats == ServicesSpec => []ClientFindsSeats
  <1>1. ServicesInv => ClientFindsSeats
    BY SearchIsKept, PageIsKept DEF ClientFindsSeats, ServicesInv
  <1> QED
    BY <1>1, ServicesKeepInvariants, PTL
=============================================================================
