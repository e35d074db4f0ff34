---------------------------- MODULE Conversations ----------------------------
(***************************************************************************)
(* The chat of a booking between its client and its driver                 *)
(* (apps/api/src/main.ts): the conversation, its messages with the ids the *)
(* senders chose, their receipts and the notifications they cause.  The    *)
(* chat of a parcel is the same with another eligible status.              *)
(***************************************************************************)
EXTENDS Naturals

CONSTANTS
    ClientMessageIds,   \* clientMessageId, unique in a conversation
    ChatRequests        \* requests that may be in flight together

VARIABLES
    chatBooking,        \* the booking: not yet "eligible", "eligible", or "over"
    conversations,      \* Conversation rows of the booking
    message,            \* the ChatMessage with each clientMessageId
    receipt,            \* ChatMessageReceipt.status of the other participant
    alerts,             \* notifications sent for each message
    lastRead,           \* messages up to ConversationParticipant.lastReadMessageId
    withheld,           \* history: messages that were deleted once
    chatTx,             \* what each request has read
    chatAlone           \* assumption: no two requests overlap

chatVars == <<chatBooking, conversations, message, receipt, alerts, lastRead, withheld, chatTx,
              chatAlone>>

Participants == {"CLIENT", "DRIVER"}
NoMessage == [status |-> "NONE", by |-> "NONE", edited |-> FALSE, deleted |-> FALSE]
NoChatTx == [op |-> "idle", by |-> "NONE", id |-> "NONE", seen |-> {}]

ConversationsInit ==
    /\ chatBooking = "pending"
    /\ conversations = 0
    /\ message = [m \in ClientMessageIds |-> NoMessage]
    /\ receipt = [m \in ClientMessageIds |-> "NONE"]
    /\ alerts = [m \in ClientMessageIds |-> 0]
    /\ lastRead = [p \in Participants |-> {}]
    /\ withheld = {}
    /\ chatTx = [r \in ChatRequests |-> NoChatTx]
    /\ chatAlone \in BOOLEAN

Sent == {m \in ClientMessageIds : message[m].status # "NONE"}

BeginChat(r, op, by, id) ==
    /\ chatTx[r].op = "idle"
    /\ chatAlone => \A q \in ChatRequests : chatTx[q].op = "idle"
    /\ chatTx' = [chatTx EXCEPT ![r] = [op |-> op, by |-> by, id |-> id,
           seen |-> IF op = "read" THEN Sent ELSE {}]]
    /\ UNCHANGED <<chatBooking, conversations, message, receipt, alerts, lastRead, withheld,
                   chatAlone>>

EndChat(r, op) ==
    /\ chatTx[r].op = op
    /\ chatTx' = [chatTx EXCEPT ![r] = NoChatTx]
    /\ UNCHANGED <<withheld, chatAlone>>

-----------------------------------------------------------------------------
\* bookingChatEligible: confirmed, under way, or completed; retentionUntil is
\* computed anew and never past.
BookingMovesOn ==
    /\ chatBooking # "over"
    /\ chatBooking' = IF chatBooking = "pending" THEN "eligible" ELSE "over"
    /\ UNCHANGED <<conversations, message, receipt, alerts, lastRead, withheld, chatTx,
                   chatAlone>>

\* createOrGetConversation, by POST /conversations or GET
\* /bookings/:bookingId/conversation.
OpenBegin(r) ==
    chatBooking = "eligible" /\ BeginChat(r, "open", "CLIENT", "NONE")

\* The upsert finds the row by its unique booking.  (mutant) it is created anew
CreatedAgain == conversations + 1
Created == IF conversations = 0 THEN 1 ELSE conversations

OpenConversation(r) ==
    /\ EndChat(r, "open")
    /\ conversations' = Created
    /\ UNCHANGED <<chatBooking, message, receipt, alerts, lastRead>>

\* POST .../messages: an id that exists is answered with its message.
SendBegin(r, by, m) ==
    /\ conversations > 0 /\ message[m].status = "NONE"
    /\ BeginChat(r, "send", by, m)

\* The unique index on conversation and clientMessageId.
IdUnused(m) == message[m].status = "NONE"

SendMessage(r) ==
    LET t == chatTx[r]
    IN  /\ EndChat(r, "send") /\ IdUnused(t.id)
        /\ message' = [message EXCEPT ![t.id] = [NoMessage EXCEPT !.status = "SENT", !.by = t.by]]
        /\ receipt' = [receipt EXCEPT ![t.id] = "SENT"]
        /\ alerts' = [alerts EXCEPT ![t.id] = @ + 1]
        /\ UNCHANGED <<chatBooking, conversations, lastRead>>

\* The messages whose receipts are by's.  (mutant) deleted ones are skipped
ReceivedAndShown(by) == {m \in Sent : message[m].by # by /\ message[m].status = "SENT"}
Received(by) == {m \in Sent : message[m].by # by}

\* POST .../read looks up the latest message, and then marks every receipt.
ReadBegin(r, by) ==
    conversations > 0 /\ BeginChat(r, "read", by, "NONE")

ReadMessages(r) ==
    LET t == chatTx[r]
    IN  /\ EndChat(r, "read")
        /\ receipt' = [m \in ClientMessageIds |->
               IF m \in Received(t.by) THEN "READ" ELSE receipt[m]]
        /\ lastRead' = [lastRead EXCEPT ![t.by] = t.seen]
        /\ UNCHANGED <<chatBooking, conversations, message, alerts>>

\* PATCH, DELETE and report look up the message and update it by id, whatever
\* its status is; a report makes a deleted one REPORTED.
EditMessage(m) ==
    /\ message[m].status # "NONE"
    /\ message' = [message EXCEPT ![m].edited = TRUE]
    /\ UNCHANGED <<chatBooking, conversations, receipt, alerts, lastRead, withheld, chatTx,
                   chatAlone>>

DeleteMessage(m) ==
    /\ message[m].status # "NONE"
    /\ message' = [message EXCEPT ![m].status = "DELETED", ![m].deleted = TRUE]
    /\ withheld' = withheld \cup {m}
    /\ UNCHANGED <<chatBooking, conversations, receipt, alerts, lastRead, chatTx, chatAlone>>

ReportMessage(m) ==
    /\ message[m].status # "NONE"
    /\ message' = [message EXCEPT ![m].status = "REPORTED"]
    /\ UNCHANGED <<chatBooking, conversations, receipt, alerts, lastRead, withheld, chatTx,
                   chatAlone>>

ChatFails(r) ==
    /\ chatTx[r].op # "idle"
    /\ chatTx' = [chatTx EXCEPT ![r] = NoChatTx]
    /\ UNCHANGED <<chatBooking, conversations, message, receipt, alerts, lastRead, withheld,
                   chatAlone>>

ConversationsNext ==
    \/ BookingMovesOn
    \/ \E r \in ChatRequests :
           \/ OpenBegin(r) \/ OpenConversation(r) \/ SendMessage(r) \/ ReadMessages(r)
           \/ ChatFails(r)
           \/ \E by \in Participants :
                  ReadBegin(r, by) \/ \E m \in ClientMessageIds : SendBegin(r, by, m)
    \/ \E m \in ClientMessageIds : EditMessage(m) \/ DeleteMessage(m) \/ ReportMessage(m)

ConversationsSpec == ConversationsInit /\ [][ConversationsNext]_chatVars

-----------------------------------------------------------------------------
\* serializeMessage: the text that both sides are shown, now and after an edit.
Text(row) == IF row.deleted THEN "NONE" ELSE IF row.edited THEN "EDITED" ELSE "FIRST"

\* serializeConversation: what the list of conversations shows of the
\* latest message.
LastMessage(row) == IF row.deleted THEN "NONE" ELSE IF row.edited THEN "EDITED" ELSE "FIRST"

(* A message is sent once, with one notification, and a booking has one    *)
(* conversation, although requests are repeated while the first is in      *)
(* flight (docs/api/chat-notifications-support.md:15).                     *)
SentOnce == conversations <= 1 /\ \A m \in ClientMessageIds : alerts[m] <= 1

(* While requests do not overlap, receipts and lastReadMessageId agree:    *)
(* what the other side sent is READ if it was there at the last reading.   *)
ReceiptsFollowReading == chatAlone => \A m \in Sent, p \in Participants :
    message[m].by # p => (receipt[m] = "READ" <=> m \in lastRead[p])

(* The text of a message that was deleted is never shown again, although   *)
(* it can still be edited and reported, and is REPORTED instead of DELETED *)
(* then.                                                                   *)
DeletedStaysHidden == \A m \in withheld :
    Text(message[m]) = "NONE" /\ LastMessage(message[m]) = "NONE"

(* What one side sends reaches the other once, is shown as read exactly if *)
(* it was, and is withdrawn for good.                                      *)
MessagesAccounted == SentOnce /\ ReceiptsFollowReading /\ DeletedStaysHidden
=============================================================================
