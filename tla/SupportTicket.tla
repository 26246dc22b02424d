----------------------------- MODULE SupportTicket -----------------------------
(***************************************************************************)
(* A support ticket: its status and its messages, one JSON array in the    *)
(* row.  A reply reads the row, appends to the array it has read, and      *)
(* writes array and status back, in a READ COMMITTED transaction: the read *)
(* takes no lock, and a write that waits for another's row goes on once    *)
(* that one has ended.  Support's reply also stores a notification in its  *)
(* transaction, and tells the user's browsers of it before the commit.     *)
(***************************************************************************)
EXTENDS Naturals, Sequences, SequencesExt, Functions

CONSTANTS
    Calls,          \* request handlers that may run at the same time
    MaxMessages     \* bound on the replies sent

ASSUME MessagesAssumption == MaxMessages \in Nat \ {0}

VARIABLES
    status, messages,       \* the row; messages are numbered as they are sent
    call,                   \* the handlers
    fromAdmin,              \* messages that support sent
    accepted,               \* messages whose request succeeded
    sent,                   \* number of messages so far
    stored, read,           \* notifications in the table, by reply; those with readAt
    pushed                  \* notifications sent to the browsers

row == <<status, messages>>
notifications == <<stored, read, pushed>>
vars == <<row, call, fromAdmin, accepted, sent, notifications>>

Status == {"OPEN", "PENDING", "RESOLVED", "CLOSED"}
NoCall == [stage |-> "idle", entry |-> 0, status |-> "OPEN", messages |-> <<>>]

-----------------------------------------------------------------------------
\* What findUnique returns, kept by the handler, for the message it will add.
readTicket(c) ==
    /\ call[c] = NoCall /\ sent < MaxMessages
    /\ sent' = sent + 1
    /\ call' = [call EXCEPT ![c] = [stage |-> "read", entry |-> sent',
                                    status |-> status, messages |-> messages]]
    /\ UNCHANGED <<row, accepted, notifications>>

addMessage(c) == status # "CLOSED" /\ readTicket(c) /\ UNCHANGED fromAdmin
addTicketMessage(c) == readTicket(c) /\ fromAdmin' = fromAdmin \cup {sent'}

\* Of the status the handler has read: a change made since is overwritten.
nextStatus(entry, old) ==
    IF entry \in fromAdmin
    THEN IF old = "OPEN" THEN "PENDING" ELSE old
    ELSE IF old = "RESOLVED" THEN "OPEN" ELSE old

\* The row is locked from the update to the end of the transaction.
locked == \E c \in Calls : call[c].stage \in {"updated", "notified"}

updateReply(c) ==
    /\ call[c].stage = "read" /\ ~locked
    /\ call' = [call EXCEPT ![c].stage = "updated"]
    /\ UNCHANGED <<row, fromAdmin, accepted, sent, notifications>>

\* Mutant: the row is written outside the transaction.
createNotification_ownConnection(c) ==
    /\ call[c].stage = "updated" /\ call[c].entry \in fromAdmin
    /\ call' = [call EXCEPT ![c].stage = "notified"]
    /\ stored' = stored \cup {call[c].entry} /\ pushed' = pushed \cup {call[c].entry}
    /\ UNCHANGED <<row, fromAdmin, accepted, sent, read>>

\* The insert, seen by others when it commits, and the event.
createNotification(c) ==
    /\ call[c].stage = "updated" /\ call[c].entry \in fromAdmin
    /\ call' = [call EXCEPT ![c].stage = "notified"]
    /\ pushed' = pushed \cup {call[c].entry}
    /\ UNCHANGED <<row, fromAdmin, accepted, sent, stored, read>>

commitReply(c) ==
    /\ call[c].stage = IF call[c].entry \in fromAdmin THEN "notified" ELSE "updated"
    /\ messages' = Append(call[c].messages, call[c].entry)
    /\ status' = nextStatus(call[c].entry, call[c].status)
    /\ accepted' = accepted \cup {call[c].entry}
    /\ stored' = stored \cup ({call[c].entry} \cap fromAdmin)
    /\ call' = [call EXCEPT ![c] = NoCall]
    /\ UNCHANGED <<fromAdmin, sent, read, pushed>>

\* An error or a time-out: nothing of the transaction remains.
rollBack(c) ==
    /\ call[c] # NoCall
    /\ call' = [call EXCEPT ![c] = NoCall]
    /\ UNCHANGED <<row, fromAdmin, accepted, sent, notifications>>

\* One UPDATE that reads nothing before.
updateTicketStatus ==
    /\ ~locked /\ status' \in Status
    /\ UNCHANGED <<messages, call, fromAdmin, accepted, sent, notifications>>

-----------------------------------------------------------------------------
\* Of a row that is there, which it is once the reply has committed.
markRead(e) ==
    /\ e \in stored /\ read' = read \cup {e}
    /\ UNCHANGED <<row, call, fromAdmin, accepted, sent, stored, pushed>>

markAllRead ==
    /\ read' = stored
    /\ UNCHANGED <<row, call, fromAdmin, accepted, sent, stored, pushed>>

-----------------------------------------------------------------------------
\* Mutant: the ticket begins with the default of the column, an empty array.
create_empty == status = "OPEN" /\ messages = <<>>
create == status = "OPEN" /\ messages = <<1>>

Init ==
    /\ create
    /\ call = [c \in Calls |-> NoCall]
    /\ fromAdmin = {} /\ accepted = {1} /\ sent = 1
    /\ stored = {} /\ read = {} /\ pushed = {}

Next ==
    \/ \E c \in Calls : \/ addMessage(c) \/ addTicketMessage(c)
                        \/ updateReply(c) \/ createNotification(c)
                        \/ commitReply(c) \/ rollBack(c)
    \/ updateTicketStatus
    \/ markAllRead \/ \E e \in stored : markRead(e)

Spec == Init /\ [][Next]_vars

-----------------------------------------------------------------------------
(* Properties *)

Numbers == 1 .. MaxMessages

\* Types of the variables; the array begins with the user's first message and
\* keeps the order in which the messages were sent.
TypeOK ==
    /\ status \in Status
    /\ messages \in Seq(Numbers) /\ messages # <<>> /\ Head(messages) = 1
    /\ \A i, j \in DOMAIN messages : i < j => messages[i] < messages[j]
    /\ call \in [Calls -> [stage : {"idle", "read", "updated", "notified"}, entry : 0 .. MaxMessages,
                           status : Status, messages : Seq(Numbers)]]
    /\ fromAdmin \subseteq Numbers /\ accepted \subseteq Numbers
    /\ sent \in Numbers
    /\ stored \subseteq Numbers /\ read \subseteq stored /\ pushed \subseteq Numbers

\* A reply that was accepted is in the ticket from then on.
AcceptedIsKept == accepted = Range(messages)

\* The user has a notification of each of support's accepted replies and of no
\* other, whatever handler failed where, and his browsers were told of all of them.
RepliesAreNotified == stored = accepted \cap fromAdmin /\ stored \subseteq pushed
=============================================================================
