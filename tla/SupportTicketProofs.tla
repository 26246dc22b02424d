--------------------------- MODULE SupportTicketProofs ---------------------------
(***************************************************************************)
(* Proofs about SupportTicket, for any handlers and any number of replies: *)
(* its types with the order of the messages, and RepliesAreNotified.       *)
(***************************************************************************)
EXTENDS SupportTicket, TLAPS

\* What is in a copy of the ticket's array: the first message first, the rest in
\* the order in which they were sent.
Thread(s) ==
    /\ s \in Seq(Numbers) /\ s # <<>> /\ s[1] = 1
    /\ \A i, j \in DOMAIN s : i < j => s[i] < s[j]

CallType == [stage : {"idle", "read", "updated", "notified"}, entry : 0 .. MaxMessages,
             status : Status, messages : Seq(Numbers)]

Running(c) == call[c].stage # "idle"

\* What a handler that runs holds: its message is newer than those it has read, is
\* not accepted yet, and is nobody else's.
HandlerOK(c) == Running(c) =>
    /\ call[c].entry \in 2 .. sent /\ call[c].entry \notin accepted
    /\ Thread(call[c].messages)
    /\ \A i \in DOMAIN call[c].messages : call[c].messages[i] < call[c].entry
    /\ call[c].stage = "notified" => call[c].entry \in pushed

OneMessageEach == \A c, d \in Calls :
    c # d /\ Running(c) /\ Running(d) => call[c].entry # call[d].entry

RowOK ==
    /\ status \in Status /\ Thread(messages)
    /\ \A i \in DOMAIN messages : messages[i] <= sent
    /\ sent \in Numbers

SetsOK ==
    /\ fromAdmin \subseteq 1 .. sent /\ accepted \subseteq 1 .. sent
    /\ pushed \subseteq 1 .. sent /\ read \subseteq stored
    /\ stored = accepted \cap fromAdmin /\ stored \subseteq pushed

\* The inductive invariant.
IInv ==
    /\ RowOK /\ SetsOK /\ call \in [Calls -> CallType]
    /\ \A c \in Calls : HandlerOK(c)
    /\ OneMessageEach

LEMMA AppendThread ==
    ASSUME NEW s, Thread(s), NEW e \in Numbers, \A i \in DOMAIN s : s[i] < e
    PROVE  Thread(Append(s, e)) /\ \A i \in DOMAIN Append(s, e) : Append(s, e)[i] <= e
<1>1. s \in Seq(Numbers) /\ Len(s) \in Nat \ {0} /\ DOMAIN s = 1 .. Len(s)
  BY DEF Thread
<1>2. \A i \in 1 .. Len(s) : s[i] \in Numbers /\ Append(s, e)[i] = s[i]
  BY <1>1
<1>3. /\ Append(s, e) \in Seq(Numbers) /\ DOMAIN Append(s, e) = 1 .. Len(s) + 1
      /\ Append(s, e)[Len(s) + 1] = e /\ Append(s, e) # <<>>
  BY <1>1
<1>4. \A i \in 1 .. Len(s) + 1 : Append(s, e)[i] <= e
  BY <1>1, <1>2, <1>3 DEF Numbers
<1>5. ASSUME NEW i \in 1 .. Len(s) + 1, NEW j \in 1 .. Len(s) + 1, i < j
      PROVE  Append(s, e)[i] < Append(s, e)[j]
  <2>1. i \in 1 .. Len(s)
    BY <1>1, <1>5
  <2>2. CASE j = Len(s) + 1
    BY <1>1, <1>2, <1>3, <2>1, <2>2
  <2>3. CASE j # Len(s) + 1
    <3>1. j \in 1 .. Len(s)
      BY <1>1, <2>3
    <3>. QED  BY <1>1, <1>2, <1>5, <2>1, <3>1 DEF Thread
  <2>. QED  BY <2>2, <2>3
<1>6. Append(s, e)[1] = 1
  BY <1>1, <1>2 DEF Thread
<1>. QED  BY <1>3, <1>4, <1>5, <1>6 DEF Thread

LEMMA NoCallOK == NoCall \in CallType
BY MessagesAssumption DEF NoCall, CallType, Status

LEMMA InitIInv == Init => IInv
<1>. SUFFICES ASSUME Init PROVE IInv
  OBVIOUS
<1>. USE MessagesAssumption DEF Init, create, NoCall, Status, Numbers
<1>1. RowOK
  BY DEF RowOK, Thread
<1>2. SetsOK
  BY DEF SetsOK
<1>3. call \in [Calls -> CallType] /\ \A c \in Calls : ~Running(c)
  BY DEF CallType, Running
<1>. QED  BY <1>1, <1>2, <1>3 DEF IInv, HandlerOK, OneMessageEach

LEMMA NextStatusOK ==
    ASSUME NEW e, NEW old \in Status
    PROVE  nextStatus(e, old) \in Status
BY DEF nextStatus, Status

\* A handler reads the ticket, for the next message.
LEMMA ReadKeepsIInv ==
    ASSUME IInv, NEW c \in Calls, readTicket(c),
           fromAdmin' = fromAdmin \/ fromAdmin' = fromAdmin \cup {sent'}
    PROVE  IInv'
<1>. USE MessagesAssumption DEF IInv, Numbers
<1>1. /\ sent \in Nat \ {0} /\ sent' = sent + 1 /\ sent' \in Numbers
      /\ UNCHANGED <<status, messages, accepted, stored, read, pushed>>
  BY DEF readTicket, RowOK, row, notifications
<1>2. /\ call' \in [Calls -> CallType]
      /\ call'[c] = [stage |-> "read", entry |-> sent + 1, status |-> status, messages |-> messages]
      /\ \A d \in Calls \ {c} : call'[d] = call[d]
  BY <1>1 DEF readTicket, CallType, RowOK, Thread
<1>3. RowOK'
  BY <1>1 DEF RowOK, Thread
<1>4. SetsOK'
  <2>1. sent + 1 \notin accepted /\ 1 .. sent \subseteq 1 .. sent'
    BY <1>1 DEF SetsOK
  <2>2. fromAdmin' = fromAdmin \/ fromAdmin' = fromAdmin \cup {sent + 1}
    BY <1>1
  <2>3. fromAdmin' \subseteq 1 .. sent'
    <3>1. fromAdmin \subseteq 1 .. sent /\ sent + 1 \in 1 .. sent'
      BY <1>1 DEF SetsOK
    <3>. QED  BY <2>1, <2>2, <3>1
  <2>4. accepted \cap fromAdmin' = accepted \cap fromAdmin
    BY <2>1, <2>2
  <2>. QED  BY <1>1, <2>1, <2>3, <2>4 DEF SetsOK
<1>5. HandlerOK(c)'
  <2>1. \A i \in DOMAIN messages : messages[i] < sent + 1
    BY <1>1 DEF RowOK, Thread
  <2>2. sent + 1 \notin accepted /\ sent + 1 \in 2 .. sent'
    BY <1>1 DEF SetsOK
  <2>. QED  BY <1>1, <1>2, <2>1, <2>2 DEF HandlerOK, RowOK, Thread
<1>6. ASSUME NEW d \in Calls \ {c} PROVE HandlerOK(d)'
  BY <1>1, <1>2 DEF HandlerOK, Running, Thread
<1>7. OneMessageEach'
  BY <1>1, <1>2 DEF OneMessageEach, HandlerOK, Running
<1>. QED  BY <1>2, <1>3, <1>4, <1>5, <1>6, <1>7

\* A step of one handler that keeps its message and goes to another stage.
LEMMA StageKeepsIInv ==
    ASSUME IInv, NEW c \in Calls, Running(c), NEW s \in {"updated", "notified"},
           call' = [call EXCEPT ![c].stage = s],
           \/ s = "updated" /\ pushed' = pushed
           \/ s = "notified" /\ call[c].entry \in fromAdmin /\ pushed' = pushed \cup {call[c].entry},
           UNCHANGED <<row, fromAdmin, accepted, sent, stored, read>>
    PROVE  IInv'
<1>. USE DEF IInv, row
<1>1. /\ call' \in [Calls -> CallType] /\ call'[c].stage = s
      /\ call'[c].entry = call[c].entry /\ call'[c].status = call[c].status
      /\ call'[c].messages = call[c].messages
      /\ \A d \in Calls \ {c} : call'[d] = call[d]
  BY DEF CallType
<1>2. RowOK'
  BY DEF RowOK, Thread
<1>3. SetsOK'
  BY DEF SetsOK, HandlerOK
<1>4. \A d \in Calls : HandlerOK(d)'
  BY <1>1 DEF HandlerOK, Running, Thread
<1>5. OneMessageEach'
  BY <1>1 DEF OneMessageEach, Running
<1>. QED  BY <1>1, <1>2, <1>3, <1>4, <1>5

LEMMA CommitKeepsIInv ==
    ASSUME IInv, NEW c \in Calls, commitReply(c)
    PROVE  IInv'
<1>. USE DEF IInv
<1>1. /\ Running(c) /\ call[c] \in CallType
      /\ call[c].entry \in 2 .. sent /\ call[c].entry \notin accepted
      /\ call[c].entry \in fromAdmin => call[c].entry \in pushed
  BY DEF commitReply, Running, HandlerOK, CallType
<1>2. /\ call' \in [Calls -> CallType] /\ call'[c] = NoCall
      /\ \A d \in Calls \ {c} : call'[d] = call[d]
  BY NoCallOK DEF commitReply
<1>3. UNCHANGED <<fromAdmin, sent, read, pushed>>
  BY DEF commitReply
<1>4. RowOK'
  <2>1. sent \in Numbers /\ call[c].entry \in Numbers
    BY <1>1, MessagesAssumption DEF RowOK, Numbers
  <2>2. Thread(messages') /\ \A i \in DOMAIN messages' : messages'[i] <= call[c].entry
    BY <1>1, <2>1, AppendThread DEF commitReply, HandlerOK
  <2>3. \A i \in DOMAIN messages' : messages'[i] <= sent
    <3>1. \A i \in DOMAIN messages' : messages'[i] \in Numbers
      BY <2>2 DEF Thread
    <3>. QED  BY <1>1, <2>1, <2>2, <3>1 DEF Numbers
  <2>4. status' \in Status
    BY <1>1, NextStatusOK DEF commitReply, HandlerOK, CallType
  <2>. QED  BY <1>3, <2>1, <2>2, <2>3, <2>4 DEF RowOK, Thread
<1>5. SetsOK'
  <2>1. accepted' \subseteq 1 .. sent
    <3>1. sent \in Nat
      BY MessagesAssumption DEF RowOK, Numbers
    <3>2. call[c].entry \in 1 .. sent
      BY <1>1, <3>1
    <3>. QED  BY <3>2 DEF commitReply, SetsOK
  <2>2. /\ accepted' = accepted \cup {call[c].entry}
        /\ stored' = stored \cup ({call[c].entry} \cap fromAdmin)
    BY DEF commitReply
  <2>3. stored' = accepted' \cap fromAdmin /\ read \subseteq stored'
    BY <2>2 DEF SetsOK
  <2>4. stored' \subseteq pushed
    BY <1>1, <2>2 DEF SetsOK
  <2>. QED  BY <1>3, <2>1, <2>3, <2>4 DEF SetsOK
<1>6. ASSUME NEW d \in Calls PROVE HandlerOK(d)'
  <2>1. CASE d = c
    BY <1>2, <2>1 DEF HandlerOK, Running, NoCall
  <2>2. CASE d # c
    <3>1. Running(d) => call[d].entry # call[c].entry
      BY <1>1, <2>2 DEF OneMessageEach
    <3>. QED  BY <1>2, <1>3, <2>2, <3>1 DEF HandlerOK, Running, commitReply, Thread
  <2>. QED  BY <2>1, <2>2
<1>7. OneMessageEach'
  BY <1>2 DEF OneMessageEach, Running, NoCall
<1>. QED  BY <1>2, <1>4, <1>5, <1>6, <1>7

LEMMA RollBackKeepsIInv ==
    ASSUME IInv, NEW c \in Calls, rollBack(c)
    PROVE  IInv'
<1>. USE DEF IInv, rollBack, row, notifications
<1>1. /\ call' \in [Calls -> CallType] /\ call'[c] = NoCall
      /\ \A d \in Calls \ {c} : call'[d] = call[d]
  BY NoCallOK
<1>2. RowOK' /\ SetsOK'
  BY DEF RowOK, SetsOK, Thread
<1>3. \A d \in Calls : HandlerOK(d)'
  BY <1>1 DEF HandlerOK, Running, NoCall, Thread
<1>4. OneMessageEach'
  BY <1>1 DEF OneMessageEach, Running, NoCall
<1>. QED  BY <1>1, <1>2, <1>3, <1>4

\* The steps that leave the handlers alone, and stuttering.
LEMMA OthersKeepIInv ==
    ASSUME IInv, status' \in Status, read' \subseteq stored,
           UNCHANGED <<messages, call, fromAdmin, accepted, sent, stored, pushed>>
    PROVE  IInv'
<1>. USE DEF IInv
<1>1. RowOK' /\ SetsOK'
  BY DEF RowOK, SetsOK, Thread
<1>2. \A d \in Calls : HandlerOK(d)'
  BY DEF HandlerOK, Running, Thread
<1>. QED  BY <1>1, <1>2 DEF OneMessageEach, Running

LEMMA NextKeepsIInv == IInv /\ [Next]_vars => IInv'
<1>. SUFFICES ASSUME IInv, [Next]_vars PROVE IInv'
  OBVIOUS
<1>1. ASSUME NEW c \in Calls, addMessage(c) \/ addTicketMessage(c) PROVE IInv'
  BY <1>1, ReadKeepsIInv DEF addMessage, addTicketMessage
<1>2. ASSUME NEW c \in Calls, updateReply(c) PROVE IInv'
  BY <1>2, StageKeepsIInv DEF updateReply, Running, notifications
<1>3. ASSUME NEW c \in Calls, createNotification(c) PROVE IInv'
  BY <1>3, StageKeepsIInv DEF createNotification, Running
<1>4. ASSUME NEW c \in Calls, commitReply(c) \/ rollBack(c) PROVE IInv'
  BY <1>4, CommitKeepsIInv, RollBackKeepsIInv
<1>5. CASE updateTicketStatus
  BY <1>5, OthersKeepIInv DEF updateTicketStatus, notifications, IInv, SetsOK
<1>6. CASE markAllRead
  BY <1>6, OthersKeepIInv DEF markAllRead, row, IInv, RowOK
<1>7. ASSUME NEW e \in stored, markRead(e) PROVE IInv'
  BY <1>7, OthersKeepIInv DEF markRead, row, IInv, RowOK, SetsOK
<1>8. CASE UNCHANGED vars
  BY <1>8, OthersKeepIInv DEF vars, row, notifications, IInv, RowOK, SetsOK
<1>. QED  BY <1>1, <1>2, <1>3, <1>4, <1>5, <1>6, <1>7, <1>8 DEF Next

\* The inductive invariant holds always.
THEOREM Invariance == Spec => []IInv
<1>. QED  BY InitIInv, NextKeepsIInv, PTL DEF Spec

\* Types: the array of the row is a thread in every state (addMessage and
\* addTicketMessage, tickets.service.ts and admin.service.ts).
THEOREM TypeCorrect == Spec => []TypeOK
<1>1. IInv => TypeOK
  <2>. SUFFICES ASSUME IInv PROVE TypeOK
    OBVIOUS
  <2>1. sent \in Numbers /\ 1 .. sent \subseteq Numbers
    BY MessagesAssumption DEF IInv, RowOK, Numbers
  <2>2. messages \in Seq(Numbers) /\ messages # <<>> /\ Head(messages) = 1
    BY DEF IInv, RowOK, Thread
  <2>. QED  BY <2>1, <2>2 DEF TypeOK, IInv, RowOK, SetsOK, Thread, CallType
<1>. QED  BY <1>1, Invariance, PTL

\* A notification is stored for each of support's accepted replies, and for no
\* reply whose transaction was rolled back (notification.service.ts create with tx).
THEOREM Notified == Spec => []RepliesAreNotified
<1>1. IInv => RepliesAreNotified
  BY DEF IInv, SetsOK, RepliesAreNotified
<1>. QED  BY <1>1, Invariance, PTL
=============================================================================
