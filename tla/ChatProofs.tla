----------------------------- MODULE ChatProofs -----------------------------
(***************************************************************************)
(* The chat system.  For any clients, roles, usernames, rooms and bounds,  *)
(* the server keeps its types, a receiver hears its own room only, the     *)
(* room pointer that a receiver never set is never used, the rooms agree   *)
(* with the users, and texts keep their order (ChatServer).                *)
(*                                                                         *)
(* The server with the two programs on the other end of its connections    *)
(* takes no step that ChatServer does not, so what is shown of any clients *)
(* holds of these.  Programs and workers keep in step, and a receiver      *)
(* prints what was queued for it, in order (Session).                      *)
(***************************************************************************)
EXTENDS Session, SequenceTheorems, FiniteSetTheorems, TLAPS

-----------------------------------------------------------------------------
(***************************************************************************)
(* The server, with any clients.                                           *)
(***************************************************************************)
\* What follows from the assumptions about roles and special values.
LEMMA Distinct ==
  /\ Senders \subseteq Clients /\ Receivers \subseteq Clients
  /\ Senders \cap Receivers = {}
  /\ NoRoom \notin RoomNames /\ Uninit \notin RoomNames
  /\ Nothing \notin Message /\ MaxLines \in Nat
BY ClientAssumption, BoundAssumption, RoomAssumption, NothingAssumption DEF Senders, Receivers

LEMMA InitIInv == Init => IInv
<1> SUFFICES ASSUME Init PROVE IInv
  OBVIOUS
<1> USE Distinct
<1>1. ConnTypeOK
  BY DEF Init, ConnTypeOK
<1>2. PcTypeOK
  BY DEF Init, PcTypeOK, SharedPc, SenderPc, ReceiverPc
<1>3. ChatTypeOK
  BY DEF Init, ChatTypeOK
<1>4. \A c \in Receivers : ReceiverInv(c)
  BY DEF Init, ReceiverInv, Unassigned
<1>5. \A c \in Senders : SenderInv(c)
  BY DEF Init, SenderInv
<1> QED BY <1>1, <1>2, <1>3, <1>4, <1>5 DEF IInv, TypeOK

-----------------------------------------------------------------------------
(***************************************************************************)
(* Connections, logins, requests and departures touch no room, no queue    *)
(* and no message.                                                         *)
(***************************************************************************)
\* What such a step may do to d: nothing but a departure of its client, a move
\* before a room variable is assigned or past it without a room, or a request
\* of a sender.
QuietMove(d) ==
  \/ /\ pc'[d] = pc[d] /\ arg'[d] = arg[d]
     /\ peer'[d] = "open" => peer[d] = "open"
  \/ pc[d] \in Unassigned /\ pc'[d] \in Unassigned \cup {"loop"}
  \/ /\ d \in Senders
     /\ pc[d] \in {"login", "request"} /\ pc'[d] \in SenderPc \cup {"find"}
     /\ pc'[d] \in {"broadcast", "leave"} => userRoom[d] # NoRoom

LEMMA QuietStep ==
  ASSUME IInv, UNCHANGED chat, ConnTypeOK', PcTypeOK',
         \A d \in Clients : QuietMove(d)
  PROVE  IInv'
<1>1. UNCHANGED <<userRoom, roomVar, m_rooms, members, mqueue, temp, inbox>>
  BY DEF chat
<1>2. ChatTypeOK'
  BY <1>1 DEF IInv, TypeOK, ChatTypeOK, PcTypeOK, QuietMove, Unassigned, SenderPc
<1>3. ASSUME NEW d \in Receivers PROVE ReceiverInv(d)'
  <2>1. Hearable(d)' = Hearable(d)
    BY <1>1 DEF Hearable
  <2>2. d \in Clients /\ d \notin Senders
    BY Distinct
  <2>3. QuietMove(d) /\ ReceiverInv(d)
    BY <2>2 DEF IInv
  <2> QED BY <1>1, <2>1, <2>2, <2>3 DEF ReceiverInv, Unassigned, QuietMove
<1>4. ASSUME NEW d \in Senders PROVE SenderInv(d)'
  <2>1. QuietMove(d) /\ SenderInv(d)
    BY Distinct DEF IInv
  <2> QED BY <1>1, <2>1 DEF SenderInv, Unassigned, QuietMove, SenderPc
<1> QED BY <1>2, <1>3, <1>4 DEF IInv, TypeOK

LEMMA ControlPreserves ==
  ASSUME IInv, NEW c \in Clients,
         \/ Accept(c) \/ UndefinedAbort(c) \/ Request(c) \/ DeleteUser(c) \/ Client(c)
  PROVE  IInv'
<1> USE Distinct
<1>1. ASSUME Accept(c) PROVE IInv'
  <2> USE <1>1 DEF Accept, Step, Running, Goto, conn, input, chat
  <2>1. ConnTypeOK'
    BY DEF IInv, TypeOK, ConnTypeOK
  <2>2. PcTypeOK'
    BY DEF IInv, TypeOK, ConnTypeOK, PcTypeOK, SharedPc, SenderPc, ReceiverPc,
           Senders, Receivers
  <2>3. \A d \in Clients : QuietMove(d)
    BY DEF IInv, TypeOK, ConnTypeOK, PcTypeOK, SenderPc, Unassigned, QuietMove, Senders
  <2> QED BY <2>1, <2>2, <2>3, QuietStep
<1>2. ASSUME UndefinedAbort(c) PROVE IInv'
  <2> USE <1>2 DEF UndefinedAbort, GetsEof, Step, Running, Goto, conn, input, chat
  <2>1. ConnTypeOK'
    BY DEF IInv, TypeOK, ConnTypeOK
  <2>2. PcTypeOK'
    BY DEF IInv, TypeOK, ConnTypeOK, PcTypeOK, SharedPc, SenderPc, ReceiverPc,
           Senders, Receivers
  <2>3. \A d \in Clients : QuietMove(d)
    BY DEF IInv, TypeOK, ConnTypeOK, PcTypeOK, SenderPc, Unassigned, QuietMove, Senders
  <2> QED BY <2>1, <2>2, <2>3, QuietStep
<1>3. ASSUME LoginSender(c) PROVE IInv'
  <2> USE <1>3
      DEF LoginSender, LoginAs, Reply, SendOk, SendFails, Step, Running, Goto, input, chat
  <2>1. ConnTypeOK'
    BY DEF IInv, TypeOK, ConnTypeOK
  <2>2. PcTypeOK'
    BY DEF IInv, TypeOK, ConnTypeOK, PcTypeOK, SharedPc, SenderPc, ReceiverPc,
           Senders, Receivers
  <2>3. \A d \in Clients : QuietMove(d)
    BY DEF IInv, TypeOK, ConnTypeOK, PcTypeOK, SenderPc, Unassigned, QuietMove, Senders
  <2> QED BY <2>1, <2>2, <2>3, QuietStep
<1>4. ASSUME LoginReceiver(c) PROVE IInv'
  <2> USE <1>4
      DEF LoginReceiver, LoginAs, Reply, SendOk, SendFails, Step, Running, Goto, input, chat
  <2>1. ConnTypeOK'
    BY DEF IInv, TypeOK, ConnTypeOK
  <2>2. PcTypeOK'
    BY DEF IInv, TypeOK, ConnTypeOK, PcTypeOK, SharedPc, SenderPc, ReceiverPc,
           Senders, Receivers
  <2>3. \A d \in Clients : QuietMove(d)
    BY DEF IInv, TypeOK, ConnTypeOK, PcTypeOK, SenderPc, Unassigned, QuietMove, Senders
  <2> QED BY <2>1, <2>2, <2>3, QuietStep
<1>5. ASSUME LoginRejected(c) PROVE IInv'
  <2> USE <1>5
      DEF LoginRejected, GetsGarbage, GetsEof, Reply, SendOk, SendFails, Step, Running,
          Goto, conn, input, chat
  <2>1. ConnTypeOK'
    BY DEF IInv, TypeOK, ConnTypeOK
  <2>2. PcTypeOK'
    BY DEF IInv, TypeOK, ConnTypeOK, PcTypeOK, SharedPc, SenderPc, ReceiverPc,
           Senders, Receivers
  <2>3. \A d \in Clients : QuietMove(d)
    BY DEF IInv, TypeOK, ConnTypeOK, PcTypeOK, SenderPc, Unassigned, QuietMove, Senders
  <2> QED BY <2>1, <2>2, <2>3, QuietStep
<1>6. ASSUME DeleteUser(c) PROVE IInv'
  <2> USE <1>6 DEF DeleteUser, Step, Running, Goto, conn, input, chat
  <2>1. ConnTypeOK'
    BY DEF IInv, TypeOK, ConnTypeOK
  <2>2. PcTypeOK'
    BY DEF IInv, TypeOK, ConnTypeOK, PcTypeOK, SharedPc, SenderPc, ReceiverPc,
           Senders, Receivers
  <2>3. \A d \in Clients : QuietMove(d)
    BY DEF IInv, TypeOK, ConnTypeOK, PcTypeOK, SenderPc, Unassigned, QuietMove, Senders
  <2> QED BY <2>1, <2>2, <2>3, QuietStep
<1>7. ASSUME JoinRequest(c) PROVE IInv'
  <2> USE <1>7
      DEF JoinRequest, GetsCommand, GetsLine, ReadsLine, GetsResidue, Step, Running, Goto,
          input, chat
  <2>1. ConnTypeOK'
    BY DEF IInv, TypeOK, ConnTypeOK
  <2>2. PcTypeOK'
    BY DEF IInv, TypeOK, ConnTypeOK, PcTypeOK, SharedPc, SenderPc, ReceiverPc,
           Senders, Receivers
  <2>3. \A d \in Clients : QuietMove(d)
    BY DEF IInv, TypeOK, ConnTypeOK, PcTypeOK, SenderPc, Unassigned, QuietMove, Senders
  <2> QED BY <2>1, <2>2, <2>3, QuietStep
<1>8. ASSUME SendAllRequest(c) PROVE IInv'
  <2> USE <1>8
      DEF SendAllRequest, GetsCommand, RepliesToCommand, RepliesToLine, GetsLine, ReadsLine,
          GetsResidue, Reply, SendOk, SendFails, Running, Goto, input, chat
  <2>1. ConnTypeOK'
    BY DEF IInv, TypeOK, ConnTypeOK
  <2>2. PcTypeOK'
    BY DEF IInv, TypeOK, ConnTypeOK, PcTypeOK, SharedPc, SenderPc, ReceiverPc,
           Senders, Receivers
  <2>3. \A d \in Clients : QuietMove(d)
    BY DEF IInv, TypeOK, ConnTypeOK, PcTypeOK, SenderPc, Unassigned, QuietMove, Senders
  <2> QED BY <2>1, <2>2, <2>3, QuietStep
<1>9. ASSUME LeaveRequest(c) PROVE IInv'
  <2> USE <1>9
      DEF LeaveRequest, GetsCommand, RepliesToCommand, RepliesToLine, GetsLine, ReadsLine,
          GetsResidue, Reply, SendOk, SendFails, Running, Goto, input, chat
  <2>1. ConnTypeOK'
    BY DEF IInv, TypeOK, ConnTypeOK
  <2>2. PcTypeOK'
    BY DEF IInv, TypeOK, ConnTypeOK, PcTypeOK, SharedPc, SenderPc, ReceiverPc,
           Senders, Receivers
  <2>3. \A d \in Clients : QuietMove(d)
    BY DEF IInv, TypeOK, ConnTypeOK, PcTypeOK, SenderPc, Unassigned, QuietMove, Senders
  <2> QED BY <2>1, <2>2, <2>3, QuietStep
<1>10. ASSUME QuitRequest(c) PROVE IInv'
  <2> USE <1>10
      DEF QuitRequest, GetsCommand, GetsLine, ReadsLine, GetsResidue, Step, Running, Goto,
          input, chat
  <2>1. ConnTypeOK'
    BY DEF IInv, TypeOK, ConnTypeOK
  <2>2. PcTypeOK'
    BY DEF IInv, TypeOK, ConnTypeOK, PcTypeOK, SharedPc, SenderPc, ReceiverPc,
           Senders, Receivers
  <2>3. \A d \in Clients : QuietMove(d)
    BY DEF IInv, TypeOK, ConnTypeOK, PcTypeOK, SenderPc, Unassigned, QuietMove, Senders
  <2> QED BY <2>1, <2>2, <2>3, QuietStep
<1>11. ASSUME InvalidRequest(c) PROVE IInv'
  <2> USE <1>11
      DEF InvalidRequest, RepliesToLine, ReadsLine, GetsGarbage, GetsEof, Reply, SendOk,
          SendFails, Running, Goto, input, chat
  <2>1. ConnTypeOK'
    BY DEF IInv, TypeOK, ConnTypeOK
  <2>2. PcTypeOK'
    BY DEF IInv, TypeOK, ConnTypeOK, PcTypeOK, SharedPc, SenderPc, ReceiverPc,
           Senders, Receivers
  <2>3. \A d \in Clients : QuietMove(d)
    BY DEF IInv, TypeOK, ConnTypeOK, PcTypeOK, SenderPc, Unassigned, QuietMove, Senders
  <2> QED BY <2>1, <2>2, <2>3, QuietStep
<1>12. ASSUME ReceiverJoin(c) PROVE IInv'
  <2> USE <1>12
      DEF ReceiverJoin, GetsCommand, GetsLine, ReadsLine, GetsResidue, Step, Running, Goto,
          input, chat
  <2>1. ConnTypeOK'
    BY DEF IInv, TypeOK, ConnTypeOK
  <2>2. PcTypeOK'
    BY DEF IInv, TypeOK, ConnTypeOK, PcTypeOK, SharedPc, SenderPc, ReceiverPc,
           Senders, Receivers
  <2>3. \A d \in Clients : QuietMove(d)
    BY DEF IInv, TypeOK, ConnTypeOK, PcTypeOK, SenderPc, Unassigned, QuietMove, Senders
  <2> QED BY <2>1, <2>2, <2>3, QuietStep
<1>13. ASSUME ReceiverNoJoin(c) PROVE IInv'
  <2> USE <1>13
      DEF ReceiverNoJoin, RepliesToLine, ReadsLine, GetsGarbage, GetsEof, Reply, SendOk,
          SendFails, Step, Running, Goto, input, chat
  <2>1. ConnTypeOK'
    BY DEF IInv, TypeOK, ConnTypeOK
  <2>2. PcTypeOK'
    BY DEF IInv, TypeOK, ConnTypeOK, PcTypeOK, SharedPc, SenderPc, ReceiverPc,
           Senders, Receivers
  <2>3. \A d \in Clients : QuietMove(d)
    BY DEF IInv, TypeOK, ConnTypeOK, PcTypeOK, SenderPc, Unassigned, QuietMove, Senders
  <2> QED BY <2>1, <2>2, <2>3, QuietStep
<1>14. ASSUME ClientCloses(c) PROVE IInv'
  <2> USE <1>14 DEF ClientCloses, Leaves, Step, Running, Goto, conn, input, chat
  <2>1. ConnTypeOK'
    BY DEF IInv, TypeOK, ConnTypeOK
  <2>2. PcTypeOK'
    BY DEF IInv, TypeOK, ConnTypeOK, PcTypeOK, SharedPc, SenderPc, ReceiverPc,
           Senders, Receivers
  <2>3. \A d \in Clients : QuietMove(d)
    BY DEF IInv, TypeOK, ConnTypeOK, PcTypeOK, SenderPc, Unassigned, QuietMove, Senders
  <2> QED BY <2>1, <2>2, <2>3, QuietStep
<1>15. ASSUME ClientResets(c) PROVE IInv'
  <2> USE <1>15 DEF ClientResets, Leaves, Step, Running, Goto, conn, input, chat
  <2>1. ConnTypeOK'
    BY DEF IInv, TypeOK, ConnTypeOK
  <2>2. PcTypeOK'
    BY DEF IInv, TypeOK, ConnTypeOK, PcTypeOK, SharedPc, SenderPc, ReceiverPc,
           Senders, Receivers
  <2>3. \A d \in Clients : QuietMove(d)
    BY DEF IInv, TypeOK, ConnTypeOK, PcTypeOK, SenderPc, Unassigned, QuietMove, Senders
  <2> QED BY <2>1, <2>2, <2>3, QuietStep
<1> QED BY <1>1, <1>2, <1>3, <1>4, <1>5, <1>6, <1>7, <1>8,
           <1>9, <1>10, <1>11, <1>12, <1>13, <1>14, <1>15
    DEF Request, Client

-----------------------------------------------------------------------------
(***************************************************************************)
(* What workers do to rooms and queues.                                    *)
(***************************************************************************)
\* A step of c that moves its worker and changes no argument, no line and no
\* descriptor of others keeps the types of the connections.
LEMMA ReplyTypes ==
  ASSUME IInv, NEW c \in Clients, UNCHANGED <<up, lines, texts>>,
         fds' \subseteq fds, UNCHANGED peer \/ Reply(c)
  PROVE  ConnTypeOK' /\ \A d \in Clients : peer'[d] = "open" => peer[d] = "open"
BY DEF IInv, TypeOK, ConnTypeOK, Reply, SendOk, SendFails

LEMMA FindPreserves == ASSUME IInv, NEW c \in Clients, Find(c) PROVE IInv'
<1> USE DEF Find, Step, Running, Goto, conn, input
<1>1. ConnTypeOK' /\ pc[c] = "find" /\ arg[c] \in RoomNames
  BY DEF IInv, TypeOK, ConnTypeOK, PcTypeOK
<1>2. PcTypeOK'
  BY DEF IInv, TypeOK, PcTypeOK, SharedPc, SenderPc, ReceiverPc
<1>3. ChatTypeOK'
  BY <1>1 DEF IInv, TypeOK, PcTypeOK, ChatTypeOK
<1>4. ASSUME NEW d \in Receivers PROVE ReceiverInv(d)'
  <2>1. d \in Clients /\ ReceiverInv(d)
    BY Distinct DEF IInv
  <2>2. CASE d # c
    <3>1. roomVar'[d] = roomVar[d] /\ pc'[d] = pc[d]
      BY <2>1, <2>2 DEF IInv, TypeOK, PcTypeOK, ChatTypeOK
    <3>2. Hearable(d)' = Hearable(d)
      BY <3>1 DEF Hearable
    <3> QED BY <2>1, <3>1, <3>2 DEF ReceiverInv
  <2>3. CASE d = c
    <3>1. roomVar[d] = Uninit /\ mqueue[d] = <<>> /\ inbox[d] = <<>>
      BY <1>1, <2>1, <2>3 DEF ReceiverInv, Unassigned
    <3>2. roomVar'[d] = arg[d] /\ pc'[d] = "add" /\ arg[d] # Uninit /\ temp[d] = Nothing
      BY <1>1, <2>1, <2>3, Distinct DEF IInv, TypeOK, PcTypeOK, ChatTypeOK
    <3>3. \A r \in RoomNames : d \notin members[r]
      BY <2>1, <3>1, Distinct DEF ReceiverInv
    <3>4. <<>> \in Seq(Hearable(d)')
      BY EmptySeq
    <3> QED BY <1>1, <2>3, <3>1, <3>2, <3>3, <3>4 DEF ReceiverInv, Unassigned
  <2> QED BY <2>2, <2>3
<1>5. ASSUME NEW d \in Senders PROVE SenderInv(d)'
  BY <1>1, Distinct DEF IInv, TypeOK, PcTypeOK, SenderInv
<1> QED BY <1>1, <1>2, <1>3, <1>4, <1>5 DEF IInv, TypeOK

LEMMA AddMemberPreserves == ASSUME IInv, NEW c \in Clients, AddMember(c) PROVE IInv'
<1> USE DEF AddMember, Step, Running, Goto, input
<1>1. /\ ConnTypeOK' /\ \A d \in Clients : peer'[d] = "open" => peer[d] = "open"
      /\ pc[c] = "add" /\ arg[c] \in RoomNames
  BY ReplyTypes DEF IInv, TypeOK, PcTypeOK
<1>2. PcTypeOK'
  BY Distinct DEF IInv, TypeOK, PcTypeOK, SharedPc, SenderPc, ReceiverPc
<1>3. ChatTypeOK'
  BY <1>1 DEF IInv, TypeOK, PcTypeOK, ChatTypeOK
<1>4. ASSUME NEW d \in Receivers PROVE ReceiverInv(d)'
  <2>1. d \in Clients /\ ReceiverInv(d) /\ Hearable(d)' = Hearable(d)
    BY Distinct DEF IInv, Hearable
  <2>2. CASE d # c
    <3>1. /\ pc'[d] = pc[d]
          /\ \A r \in RoomNames : d \in members'[r] <=> d \in members[r]
          /\ roomVar[d] \in RoomNames \cup {Uninit}
      BY <2>1, <2>2 DEF IInv, TypeOK, PcTypeOK, ChatTypeOK
    <3> QED BY <1>1, <2>1, <3>1 DEF ReceiverInv
  <2>3. CASE d = c
    <3>1. roomVar[d] = arg[c] /\ arg[c] \in m_rooms /\ arg[c] # Uninit
      BY <1>1, <2>1, <2>3, Distinct DEF ReceiverInv
    <3>2. /\ d \in members'[arg[c]] /\ pc'[d] = "loop"
          /\ \A r \in RoomNames : r # arg[c] => members'[r] = members[r]
      BY <1>1, <2>1, <2>3 DEF IInv, TypeOK, PcTypeOK, ChatTypeOK
    <3> QED BY <1>1, <2>1, <3>1, <3>2 DEF ReceiverInv, Unassigned
  <2> QED BY <2>2, <2>3
<1>5. ASSUME NEW d \in Senders PROVE SenderInv(d)'
  <2>1. d \in Clients /\ SenderInv(d)
    BY Distinct DEF IInv
  <2>2. CASE d # c
    BY <1>1, <2>1, <2>2 DEF IInv, TypeOK, PcTypeOK, ChatTypeOK, SenderInv
  <2>3. CASE d = c
    <3>1. arg[c] \in m_rooms /\ userRoom'[c] = arg[c] /\ c \in members'[arg[c]]
      BY <1>1, <2>1, <2>3 DEF IInv, TypeOK, ChatTypeOK, SenderInv
    <3>2. pc'[c] = "request"
      BY <2>3, Distinct DEF IInv, TypeOK, PcTypeOK
    <3> QED BY <2>3, <3>1, <3>2 DEF SenderInv
  <2> QED BY <2>2, <2>3
<1> QED BY <1>1, <1>2, <1>3, <1>4, <1>5 DEF IInv, TypeOK

\* A broadcast reaches members of the sender's room whose names differ: what is
\* appended to a receiver's queue is hearable there.
LEMMA BroadcastPreserves == ASSUME IInv, NEW c \in Clients, Broadcast(c) PROVE IInv'
<1> DEFINE m == [room |-> userRoom[c], from |-> c, text |-> arg[c]]
<1> USE DEF Broadcast, Step, Running, Goto, input
<1>1. /\ ConnTypeOK' /\ \A d \in Clients : peer'[d] = "open" => peer[d] = "open"
      /\ pc[c] = "broadcast" /\ c \in Senders /\ arg[c] \in 1..MaxLines
  BY ReplyTypes DEF IInv, TypeOK, PcTypeOK, SenderPc
<1>2. userRoom[c] \in RoomNames /\ m \in Message
  BY <1>1 DEF IInv, TypeOK, ChatTypeOK, SenderInv, Message
<1>3. PcTypeOK'
  BY <1>1 DEF IInv, TypeOK, PcTypeOK, SharedPc, SenderPc, ReceiverPc
<1>4. ASSUME NEW d \in Clients
      PROVE  mqueue'[d] = IF d \in members[userRoom[c]] /\ Name[d] # Name[c]
                          THEN Append(mqueue[d], m) ELSE mqueue[d]
  BY DEF Deliver
<1>5. ChatTypeOK'
  <2>1. ASSUME NEW d \in Clients PROVE mqueue'[d] \in Seq(Message)
    <3>1. mqueue[d] \in Seq(Message) /\ Append(mqueue[d], m) \in Seq(Message)
      BY <1>2, AppendProperties DEF IInv, TypeOK, ChatTypeOK
    <3> HIDE DEF m
    <3> QED BY <1>4, <3>1
  <2>2. mqueue' = [d \in Clients |-> mqueue'[d]]
    BY DEF Deliver
  <2>3. mqueue' \in [Clients -> Seq(Message)]
    BY <2>1, <2>2
  <2> QED BY <1>1, <2>3 DEF IInv, TypeOK, PcTypeOK, ChatTypeOK
<1>6. ASSUME NEW d \in Receivers PROVE ReceiverInv(d)'
  <2>1. d \in Clients /\ d # c /\ ReceiverInv(d) /\ Hearable(d)' = Hearable(d)
    BY <1>1, Distinct DEF IInv, Hearable
  <2>2. pc'[d] = pc[d]
    BY <2>1 DEF IInv, TypeOK, PcTypeOK
  <2>3. CASE d \in members[userRoom[c]] /\ Name[d] # Name[c]
    <3>1. userRoom[c] = roomVar[d] /\ m \in Hearable(d)
      BY <1>2, <2>1, <2>3 DEF ReceiverInv, Hearable
    <3>2. mqueue'[d] = Append(mqueue[d], m)
      BY <1>4, <2>1, <2>3
    <3>3. mqueue'[d] \in Seq(Hearable(d))
      <4>1. mqueue[d] \in Seq(Hearable(d))
        BY <2>1 DEF ReceiverInv
      <4> HIDE DEF m, Broadcast
      <4> QED BY <3>1, <3>2, <4>1, AppendProperties
    <3>4. roomVar[d] # Uninit
      BY <1>2, <3>1, Distinct
    <3> HIDE DEF m
    <3> QED BY <1>1, <2>1, <2>2, <3>3, <3>4 DEF ReceiverInv, Unassigned
  <2>4. CASE ~(d \in members[userRoom[c]] /\ Name[d] # Name[c])
    <3>1. mqueue'[d] = mqueue[d]
      BY <1>4, <2>1, <2>4
    <3> QED BY <1>1, <2>1, <2>2, <3>1 DEF ReceiverInv
  <2> QED BY <2>3, <2>4
<1>7. ASSUME NEW d \in Senders PROVE SenderInv(d)'
  BY Distinct DEF IInv, TypeOK, PcTypeOK, SenderInv
<1> QED BY <1>1, <1>3, <1>5, <1>6, <1>7 DEF IInv, TypeOK

\* leave, and quit, which also ends the worker.
LEMMA LeavePreserves ==
  ASSUME IInv, NEW c \in Clients, LeaveRoom(c) \/ Quit(c)
  PROVE  IInv'
<1>1. /\ UNCHANGED <<up, lines, texts, arg, roomVar, m_rooms, mqueue, temp, inbox>>
      /\ fds' \subseteq fds /\ Reply(c)
      /\ c \in Senders /\ pc[c] \in {"leave", "quit"}
      /\ pc' = [pc EXCEPT ![c] = pc'[c]] /\ pc'[c] \in {"request", "ended"}
  BY DEF IInv, TypeOK, PcTypeOK, SenderPc, LeaveRoom, Quit, Step, Running, Goto, input
<1>2. ConnTypeOK' /\ \A d \in Clients : peer'[d] = "open" => peer[d] = "open"
  BY <1>1, ReplyTypes
<1>3. PcTypeOK'
  BY <1>1 DEF IInv, TypeOK, PcTypeOK, SharedPc, SenderPc, ReceiverPc
<1>4. /\ members' = [r \in RoomNames |-> IF r = userRoom[c] THEN members[r] \ {c} ELSE members[r]]
      /\ userRoom' = [userRoom EXCEPT ![c] = NoRoom]
  BY DEF LeaveRoom, Quit, RemoveFromUsersRoom
<1>5. ChatTypeOK'
  <2>1. members' \in [RoomNames -> SUBSET Clients]
    BY <1>4 DEF IInv, TypeOK, ChatTypeOK
  <2>2. userRoom' \in [Clients -> RoomNames \cup {NoRoom}]
    BY <1>4 DEF IInv, TypeOK, ChatTypeOK
  <2>3. \A d \in Clients : (temp'[d] # Nothing) <=> (pc'[d] = "deliver")
    BY <1>1 DEF IInv, TypeOK, PcTypeOK, ChatTypeOK
  <2> QED BY <1>1, <2>1, <2>2, <2>3 DEF IInv, TypeOK, ChatTypeOK
<1>6. ASSUME NEW d \in Clients, d # c
      PROVE  /\ pc'[d] = pc[d] /\ userRoom'[d] = userRoom[d]
             /\ \A r \in RoomNames : d \in members'[r] <=> d \in members[r]
  <2>1. pc'[d] = pc[d] /\ userRoom'[d] = userRoom[d]
    BY <1>1, <1>4, <1>6 DEF IInv, TypeOK, PcTypeOK, ChatTypeOK
  <2>2. \A r \in RoomNames : d \in members'[r] <=> d \in members[r]
    BY <1>4, <1>6
  <2> QED BY <2>1, <2>2
<1>7. ASSUME NEW d \in Receivers PROVE ReceiverInv(d)'
  <2>1. d \in Clients /\ d # c /\ ReceiverInv(d) /\ Hearable(d)' = Hearable(d)
    BY <1>1, Distinct DEF IInv, Hearable
  <2>2. roomVar[d] \in RoomNames \cup {Uninit}
    BY <2>1 DEF IInv, TypeOK, ChatTypeOK
  <2> QED BY <1>1, <1>2, <1>6, <2>1, <2>2 DEF ReceiverInv
<1>8. ASSUME NEW d \in Senders PROVE SenderInv(d)'
  <2>1. d \in Clients /\ SenderInv(d) /\ userRoom[d] \in RoomNames \cup {NoRoom}
    BY Distinct DEF IInv, TypeOK, ChatTypeOK
  <2>2. CASE d # c
    BY <1>1, <1>6, <2>1, <2>2 DEF SenderInv
  <2>3. CASE d = c
    <3>1. userRoom'[d] = NoRoom
      BY <1>4, <2>1, <2>3 DEF IInv, TypeOK, ChatTypeOK
    <3> QED BY <1>1, <2>3, <3>1 DEF SenderInv
  <2> QED BY <2>2, <2>3
<1> QED BY <1>2, <1>3, <1>5, <1>7, <1>8 DEF IInv, TypeOK

\* A receiver's loop: a message passes from the queue to the client, or is
\* dropped with the connection, and the worker may take itself out of its room.
LEMMA LoopPreserves ==
  ASSUME IInv, NEW c \in Clients,
         \/ Dequeue(c) \/ DeliverOk(c) \/ DeliverFails(c) \/ RemoveSelf(c)
  PROVE  IInv'
<1>1. /\ c \in Receivers /\ c \notin Senders
      /\ UNCHANGED <<up, fds, lines, texts, arg, userRoom, roomVar, m_rooms>>
      /\ UNCHANGED peer \/ Reply(c)
      /\ pc' = [pc EXCEPT ![c] = pc'[c]] /\ pc'[c] \in {"loop", "deliver", "remove"}
  BY Distinct DEF IInv, TypeOK, PcTypeOK, ReceiverPc, Dequeue, DeliverOk, DeliverFails,
                  RemoveSelf, Step, Running, Goto, conn, input, Reply
<1>2. ConnTypeOK' /\ \A d \in Clients : peer'[d] = "open" => peer[d] = "open"
  BY <1>1, ReplyTypes
<1>3. PcTypeOK'
  BY <1>1 DEF IInv, TypeOK, PcTypeOK, SharedPc, SenderPc, ReceiverPc
<1>4. \A d \in Clients : d # c => pc'[d] = pc[d]
  BY <1>1 DEF IInv, TypeOK, PcTypeOK
<1>5. /\ mqueue[c] \in Seq(Hearable(c)) /\ inbox[c] \in Seq(Hearable(c))
      /\ temp[c] # Nothing => temp[c] \in Hearable(c)
      /\ ReceiverInv(c) /\ Hearable(c) \subseteq Message /\ Hearable(c)' = Hearable(c)
  BY <1>1 DEF IInv, ReceiverInv, Hearable
<1> DEFINE Others == {d \in Clients : d # c}
           Same(d) == /\ mqueue'[d] = mqueue[d] /\ temp'[d] = temp[d] /\ inbox'[d] = inbox[d]
                      /\ \A r \in RoomNames : d \in members'[r] <=> d \in members[r]
\* Everyone else's invariant, and what is left to show of c.
<1>6. ASSUME ChatTypeOK', ReceiverInv(c)', \A d \in Others : Same(d)
      PROVE  IInv'
  <2>1. ASSUME NEW d \in Receivers PROVE ReceiverInv(d)'
    <3>1. CASE d = c
      BY <1>6, <3>1
    <3>2. CASE d # c
      <4>1. d \in Clients /\ Same(d) /\ ReceiverInv(d) /\ Hearable(d)' = Hearable(d)
        BY <1>1, <1>6, <3>2, Distinct DEF IInv, Hearable
      <4>2. roomVar[d] \in RoomNames \cup {Uninit}
        BY <4>1 DEF IInv, TypeOK, ChatTypeOK
      <4> QED BY <1>1, <1>2, <1>4, <3>2, <4>1, <4>2 DEF ReceiverInv
    <3> QED BY <3>1, <3>2
  <2>2. ASSUME NEW d \in Senders PROVE SenderInv(d)'
    <3>1. d \in Clients /\ d # c /\ Same(d) /\ SenderInv(d)
      BY <1>1, <1>6, Distinct DEF IInv
    <3>2. userRoom[d] \in RoomNames \cup {NoRoom}
      BY <3>1 DEF IInv, TypeOK, ChatTypeOK
    <3> QED BY <1>1, <1>4, <3>1, <3>2 DEF SenderInv
  <2> QED BY <1>2, <1>3, <1>6, <2>1, <2>2 DEF IInv, TypeOK
<1>7. CASE Dequeue(c)
  <2>1. /\ pc[c] = "loop" /\ pc'[c] = "deliver" /\ mqueue[c] # <<>> /\ temp[c] = Nothing
        /\ mqueue' = [mqueue EXCEPT ![c] = Tail(mqueue[c])]
        /\ temp' = [temp EXCEPT ![c] = Head(mqueue[c])]
        /\ UNCHANGED <<peer, members, inbox>>
    BY <1>7 DEF IInv, TypeOK, PcTypeOK, ChatTypeOK, Dequeue, Step, Running, Goto, conn
  <2>2. Head(mqueue[c]) \in Hearable(c) /\ Tail(mqueue[c]) \in Seq(Hearable(c))
    BY <1>5, <2>1, HeadTailProperties
  <2>3. /\ Head(mqueue[c]) \in Message
        /\ Tail(mqueue[c]) \in Seq(Message) /\ mqueue[c] \in Seq(Message)
    <3>1. mqueue[c] \in Seq(Message)
      BY DEF IInv, TypeOK, ChatTypeOK
    <3> QED BY <2>1, <3>1, HeadTailProperties
  <2>4. ChatTypeOK'
    <3>1. mqueue' \in [Clients -> Seq(Message)] /\ temp' \in [Clients -> Message \cup {Nothing}]
      BY <2>1, <2>3 DEF IInv, TypeOK, ChatTypeOK
    <3>2. \A d \in Clients : (temp'[d] # Nothing) <=> (pc'[d] = "deliver")
      BY <1>4, <2>1, <2>3, Distinct DEF IInv, TypeOK, ChatTypeOK
    <3> QED BY <1>1, <2>1, <3>1, <3>2 DEF IInv, TypeOK, ChatTypeOK
  <2>5. mqueue'[c] = Tail(mqueue[c]) /\ temp'[c] = Head(mqueue[c]) /\ inbox'[c] = inbox[c]
    BY <2>1 DEF IInv, TypeOK, ChatTypeOK
  <2>6. ReceiverInv(c)'
    BY <1>1, <1>5, <2>1, <2>2, <2>5 DEF ReceiverInv, Unassigned
  <2>7. \A d \in Others : Same(d)
    BY <2>1 DEF IInv, TypeOK, ChatTypeOK
  <2> QED BY <1>6, <2>4, <2>6, <2>7
<1>8. CASE DeliverOk(c) \/ DeliverFails(c)
  <2>1. /\ pc[c] = "deliver" /\ pc'[c] \in {"loop", "remove"} /\ temp[c] # Nothing
        /\ temp' = [temp EXCEPT ![c] = Nothing]
        /\ inbox' = [inbox EXCEPT ![c] = inbox'[c]]
        /\ inbox'[c] \in {inbox[c], Append(inbox[c], temp[c])}
        /\ UNCHANGED <<members, mqueue>>
    <3>1. CASE DeliverOk(c)
      <4>1. \/ inbox' = [inbox EXCEPT ![c] = Append(inbox[c], temp[c])]
            \/ inbox' = [inbox EXCEPT ![c] = inbox[c]]
        BY <3>1 DEF DeliverOk
      <4>2. inbox \in [Clients -> Seq(Message)] /\ pc[c] = "deliver" /\ temp[c] # Nothing
        BY <3>1 DEF IInv, TypeOK, ChatTypeOK, DeliverOk, Step, Running
      <4>3. pc'[c] = "loop"
        BY <3>1 DEF IInv, TypeOK, PcTypeOK, DeliverOk, Step, Goto
      <4>4. temp' = [temp EXCEPT ![c] = Nothing] /\ UNCHANGED <<members, mqueue>>
        BY <3>1 DEF DeliverOk
      <4> QED BY <4>1, <4>2, <4>3, <4>4
    <3>2. CASE DeliverFails(c)
      <4>1. inbox' = inbox /\ inbox \in [Clients -> Seq(Message)]
        BY <3>2 DEF IInv, TypeOK, ChatTypeOK, DeliverFails
      <4>2. inbox' = [inbox EXCEPT ![c] = inbox'[c]]
        BY <4>1
      <4> QED BY <3>2, <4>1, <4>2
              DEF IInv, TypeOK, PcTypeOK, ChatTypeOK, DeliverFails, Step, Running, Goto
    <3> QED BY <1>8, <3>1, <3>2
  <2>2. pc'[c] = "remove" => peer'[c] # "open"
    BY <1>8 DEF IInv, TypeOK, ConnTypeOK, PcTypeOK, DeliverOk, DeliverFails, SendFails,
                Step, Running, Goto
  <2>3. inbox'[c] \in Seq(Hearable(c)) /\ inbox'[c] \in Seq(Message)
    <3>1. inbox[c] \in Seq(Message) /\ temp[c] \in Hearable(c) /\ temp[c] \in Message
      BY <1>5, <2>1 DEF IInv, TypeOK, ChatTypeOK
    <3>2. Append(inbox[c], temp[c]) \in Seq(Hearable(c))
      BY <1>5, <3>1, AppendProperties
    <3>3. Append(inbox[c], temp[c]) \in Seq(Message)
      BY <3>1, AppendProperties
    <3> QED BY <1>5, <2>1, <3>1, <3>2, <3>3
  <2>4. ChatTypeOK'
    <3>1. inbox' \in [Clients -> Seq(Message)] /\ temp' \in [Clients -> Message \cup {Nothing}]
      BY <2>1, <2>3 DEF IInv, TypeOK, ChatTypeOK
    <3>2. \A d \in Clients : (temp'[d] # Nothing) <=> (pc'[d] = "deliver")
      BY <1>4, <2>1 DEF IInv, TypeOK, ChatTypeOK
    <3> QED BY <1>1, <2>1, <3>1, <3>2 DEF IInv, TypeOK, ChatTypeOK
  <2>5. temp'[c] = Nothing /\ mqueue'[c] = mqueue[c]
    BY <2>1 DEF IInv, TypeOK, ChatTypeOK
  <2>6. roomVar[c] # Uninit
    BY <1>5, <2>1 DEF ReceiverInv
  <2>7. ReceiverInv(c)'
    BY <1>1, <1>2, <1>5, <2>1, <2>2, <2>3, <2>5, <2>6 DEF ReceiverInv, Unassigned
  <2>8. \A d \in Others : Same(d)
    BY <2>1 DEF IInv, TypeOK, ChatTypeOK
  <2> QED BY <1>6, <2>4, <2>7, <2>8
<1>9. CASE RemoveSelf(c)
  <2>1. /\ pc[c] = "remove" /\ pc'[c] = "loop"
        /\ members' = [r \in RoomNames |-> IF r = roomVar[c] THEN members[r] \ {c} ELSE members[r]]
        /\ UNCHANGED <<peer, mqueue, temp, inbox>>
    BY <1>9 DEF IInv, TypeOK, PcTypeOK, RemoveSelf, Step, Running, Goto, conn
  <2>2. \A r \in RoomNames : members'[r] \subseteq members[r]
    BY <2>1
  <2>3. ChatTypeOK'
    <3>1. members' \in [RoomNames -> SUBSET Clients]
      BY <2>1 DEF IInv, TypeOK, ChatTypeOK
    <3>2. \A d \in Clients : (temp'[d] # Nothing) <=> (pc'[d] = "deliver")
      BY <1>4, <2>1 DEF IInv, TypeOK, ChatTypeOK
    <3> QED BY <1>1, <2>1, <3>1, <3>2 DEF IInv, TypeOK, ChatTypeOK
  <2>4. ReceiverInv(c)'
    BY <1>1, <1>5, <2>1, <2>2 DEF ReceiverInv, Unassigned
  <2>5. \A d \in Others : Same(d)
    BY <2>1
  <2> QED BY <1>6, <2>3, <2>4, <2>5
<1> QED BY <1>7, <1>8, <1>9

-----------------------------------------------------------------------------
LEMMA NextPreserves == IInv /\ [Next]_vars => IInv'
<1> SUFFICES ASSUME IInv, [Next]_vars PROVE IInv'
  OBVIOUS
<1>1. CASE UNCHANGED vars
  <2>1. ConnTypeOK' /\ PcTypeOK' /\ UNCHANGED chat
    BY <1>1 DEF vars, chat, IInv, TypeOK, ConnTypeOK, PcTypeOK
  <2>2. \A d \in Clients : QuietMove(d)
    BY <1>1 DEF vars, QuietMove
  <2> QED BY <2>1, <2>2, QuietStep
<1>2. CASE AcceptFails
  <2>1. ConnTypeOK' /\ PcTypeOK' /\ UNCHANGED chat
    BY <1>2 DEF AcceptFails, input, IInv, TypeOK, ConnTypeOK, PcTypeOK
  <2>2. \A d \in Clients : QuietMove(d)
    BY <1>2 DEF AcceptFails, input, QuietMove
  <2> QED BY <2>1, <2>2, QuietStep
<1>3. ASSUME NEW c \in Clients, Handler(c) PROVE IInv'
  BY <1>3, ControlPreserves, FindPreserves, AddMemberPreserves, BroadcastPreserves,
     LeavePreserves, LoopPreserves DEF Handler
<1>4. CASE \E c \in Clients : Accept(c) \/ UndefinedAbort(c) \/ Request(c) \/ Client(c)
  BY <1>4, ControlPreserves
<1> QED BY <1>1, <1>2, <1>3, <1>4 DEF Next

\* Whatever clients connect, join, send, close or reset, and however their
\* workers interleave, the strengthened invariant holds.
THEOREM ServerInvariant == Spec => []IInv
<1>1. Init => IInv
  BY InitIInv
<1>2. IInv /\ [Next]_vars => IInv'
  BY NextPreserves
<1> QED BY <1>1, <1>2, PTL DEF Spec

\* All that is on its way to a receiver, or has arrived, is hearable there.
LEMMA ArrivalsHearable ==
  ASSUME IInv, NEW c \in Receivers PROVE Arrivals(c) \in Seq(Hearable(c))
<1>1. mqueue[c] \in Seq(Hearable(c)) /\ inbox[c] \in Seq(Hearable(c))
  BY DEF IInv, ReceiverInv
<1> DEFINE hand == IF temp[c] = Nothing THEN <<>> ELSE <<temp[c]>>
<1>2. hand \in Seq(Hearable(c))
  BY DEF IInv, ReceiverInv
<1>3. Arrivals(c) = (inbox[c] \o hand) \o mqueue[c]
  BY DEF Arrivals
<1> HIDE DEF hand
<1>4. inbox[c] \o hand \in Seq(Hearable(c))
  BY <1>1, <1>2, ConcatProperties
<1> QED BY <1>1, <1>3, <1>4, ConcatProperties

\* The server's type correctness (server.cpp).
THEOREM ServerTypeOK == Spec => []TypeOK
<1>1. IInv => TypeOK
  BY DEF IInv
<1> QED BY <1>1, ServerInvariant, PTL

\* A receiver hears only its own room and nothing sent under its own name, and
\* chat_with_receiver never uses the room pointer that it did not set
\* (server.cpp:159, 182).
THEOREM ServerRightRoom == Spec => []RightRoom
<1>1. ASSUME IInv PROVE RightRoom
  <2>1. NoUninitRoom
    BY <1>1 DEF IInv, ReceiverInv, NoUninitRoom
  <2> SUFFICES ASSUME NEW c \in Receivers
               PROVE  /\ \A r \in RoomNames : c \in members[r] => r = roomVar[c] /\ r \in m_rooms
                      /\ \A i \in 1..Len(Arrivals(c)) :
                           /\ Arrivals(c)[i].room = roomVar[c]
                           /\ Name[Arrivals(c)[i].from] # Name[c]
    BY <2>1 DEF RightRoom
  <2>2. \A r \in RoomNames : c \in members[r] => r = roomVar[c] /\ r \in m_rooms
    BY <1>1 DEF IInv, ReceiverInv
  <2>3. Arrivals(c) \in Seq(Hearable(c))
    BY <1>1, ArrivalsHearable
  <2>4. \A i \in 1..Len(Arrivals(c)) : Arrivals(c)[i] \in Hearable(c)
    BY <2>3, ElementOfSeq
  <2> QED BY <2>2, <2>4 DEF Hearable
<1> QED BY <1>1, ServerInvariant, PTL

\* The rooms' members agree with users_room, and a receiver whose client stays
\* stays a member.
THEOREM ServerMembership == Spec => []Membership
<1>1. ASSUME IInv PROVE Membership
  BY <1>1 DEF IInv, ReceiverInv, SenderInv, Membership
<1> QED BY <1>1, ServerInvariant, PTL

-----------------------------------------------------------------------------
(***************************************************************************)
(* The order of the messages.  What a step does to a client's texts, and   *)
(* to what its worker has handed over, comes first.                        *)
(***************************************************************************)
\* A client's next text is one more; nothing else gives it a text to broadcast.
TextsKept(d) == /\ texts'[d] = texts[d]
                /\ pc'[d] = "broadcast" => pc[d] = "broadcast" /\ arg'[d] = arg[d]
NextText(d) == /\ texts'[d] = texts[d] + 1 /\ arg'[d] = texts'[d]
               /\ pc[d] = "request"

LEMMA TextsStep ==
  ASSUME IInv, [Next]_vars, NEW d \in Clients
  PROVE  TextsKept(d) \/ NextText(d)
<1>0. /\ pc \in [Clients -> SharedPc \cup SenderPc \cup ReceiverPc]
      /\ texts \in [Clients -> 0..MaxLines]
      /\ DOMAIN arg = Clients
  BY DEF IInv, TypeOK, ConnTypeOK, PcTypeOK
<1> USE <1>0 DEF TextsKept, NextText, Step, Running, Goto, input, conn
<1>1. CASE UNCHANGED vars \/ AcceptFails
  BY <1>1 DEF vars, AcceptFails
<1>2. ASSUME NEW c \in Clients, Accept(c) \/ UndefinedAbort(c) \/ Client(c)
      PROVE  TextsKept(d)
  BY <1>2 DEF Accept, UndefinedAbort, Client, ClientCloses, ClientResets, Leaves
<1>3. ASSUME NEW c \in Clients, SendAllRequest(c)
      PROVE  TextsKept(d) \/ NextText(d)
  BY <1>3 DEF SendAllRequest
<1>4. ASSUME NEW c \in Clients, Request(c), ~SendAllRequest(c)
      PROVE  TextsKept(d)
  <2>1. CASE LoginSender(c) \/ LoginReceiver(c) \/ LoginRejected(c)
    BY <2>1 DEF LoginSender, LoginReceiver, LoginRejected, LoginAs
  <2>2. CASE JoinRequest(c) \/ ReceiverJoin(c)
    BY <2>2 DEF JoinRequest, ReceiverJoin
  <2>3. CASE LeaveRequest(c) \/ QuitRequest(c) \/ InvalidRequest(c) \/ ReceiverNoJoin(c)
    BY <2>3 DEF LeaveRequest, QuitRequest, InvalidRequest, ReceiverNoJoin
  <2> QED BY <1>4, <2>1, <2>2, <2>3 DEF Request
<1>5. ASSUME NEW c \in Clients, Handler(c)
      PROVE  TextsKept(d)
  <2>1. CASE DeleteUser(c) \/ Find(c) \/ AddMember(c) \/ Broadcast(c)
    BY <2>1 DEF DeleteUser, Find, AddMember, Broadcast
  <2>2. CASE LeaveRoom(c) \/ Quit(c)
    BY <2>2 DEF LeaveRoom, Quit
  <2>3. CASE Dequeue(c) \/ DeliverOk(c) \/ DeliverFails(c) \/ RemoveSelf(c)
    BY <2>3 DEF Dequeue, DeliverOk, DeliverFails, RemoveSelf
  <2> QED BY <1>5, <2>1, <2>2, <2>3 DEF Handler
<1> QED BY <1>1, <1>2, <1>3, <1>4, <1>5 DEF Next

\* The four things that can happen to what d's worker was handed.
KeepsAll(d) == mqueue'[d] = mqueue[d] /\ temp'[d] = temp[d] /\ inbox'[d] = inbox[d]
GetsOne(d)  == /\ temp'[d] = temp[d] /\ inbox'[d] = inbox[d]
               /\ \E m \in Message : /\ mqueue'[d] = Append(mqueue[d], m)
                                     /\ pc[m.from] = "broadcast" /\ m.text = arg[m.from]
                                     /\ pc'[m.from] = "request"
TakesOne(d) == /\ temp[d] = Nothing /\ inbox'[d] = inbox[d] /\ mqueue[d] # <<>>
               /\ temp'[d] = Head(mqueue[d]) /\ mqueue'[d] = Tail(mqueue[d])
HandsOn(d)  == /\ temp[d] # Nothing /\ temp'[d] = Nothing /\ mqueue'[d] = mqueue[d]
               /\ inbox'[d] \in {inbox[d], Append(inbox[d], temp[d])}

LEMMA QueueStep ==
  ASSUME IInv, [Next]_vars, NEW d \in Receivers
  PROVE  KeepsAll(d) \/ GetsOne(d) \/ TakesOne(d) \/ HandsOn(d)
<1>0. /\ DOMAIN mqueue = Clients /\ DOMAIN temp = Clients /\ DOMAIN inbox = Clients
      /\ d \in Clients /\ DOMAIN pc = Clients
      /\ \A c \in Clients : (temp[c] # Nothing) <=> (pc[c] = "deliver")
  BY Distinct DEF IInv, TypeOK, PcTypeOK, ChatTypeOK
<1>1. CASE UNCHANGED vars \/ AcceptFails
  BY <1>1 DEF vars, chat, AcceptFails, KeepsAll
<1>2. ASSUME NEW c \in Clients, Accept(c) \/ UndefinedAbort(c) \/ Client(c) \/ Request(c)
      PROVE  KeepsAll(d)
  BY <1>2 DEF Accept, UndefinedAbort, Client, ClientCloses, ClientResets, Leaves, Request,
              LoginSender, LoginReceiver, LoginRejected, LoginAs, JoinRequest, SendAllRequest,
              LeaveRequest, QuitRequest, InvalidRequest, ReceiverJoin, ReceiverNoJoin, chat, KeepsAll
<1>3. ASSUME NEW c \in Clients, Handler(c)
      PROVE  KeepsAll(d) \/ GetsOne(d) \/ TakesOne(d) \/ HandsOn(d)
  <2>1. CASE DeleteUser(c) \/ Find(c) \/ AddMember(c) \/ LeaveRoom(c) \/ Quit(c) \/ RemoveSelf(c)
    BY <2>1 DEF DeleteUser, Find, AddMember, LeaveRoom, Quit, RemoveSelf, chat, KeepsAll
  <2>2. CASE Broadcast(c)
    <3> DEFINE m == [room |-> userRoom[c], from |-> c, text |-> arg[c]]
    <3>1. /\ pc[c] = "broadcast" /\ pc'[c] = "request" /\ UNCHANGED <<temp, inbox>>
          /\ mqueue' = Deliver(mqueue, members[userRoom[c]], c, m)
      BY <1>0, <2>2 DEF Broadcast, Step, Running, Goto
    <3>2. m \in Message
      BY <3>1 DEF IInv, TypeOK, PcTypeOK, ChatTypeOK, SenderInv, SenderPc, Message
    <3>3. m.from = c /\ m.text = arg[c]
      OBVIOUS
    <3> HIDE DEF m
    <3>4. mqueue'[d] = mqueue[d] \/ mqueue'[d] = Append(mqueue[d], m)
      BY <1>0, <3>1 DEF Deliver
    <3> QED BY <3>1, <3>2, <3>3, <3>4 DEF KeepsAll, GetsOne
  <2>3. CASE Dequeue(c)
    BY <1>0, <2>3 DEF Dequeue, Step, Running, KeepsAll, TakesOne
  <2>4. CASE DeliverOk(c) \/ DeliverFails(c)
    BY <1>0, <2>4 DEF DeliverOk, DeliverFails, Step, Running, KeepsAll, HandsOn
  <2> QED BY <1>3, <2>1, <2>2, <2>3, <2>4 DEF Handler
<1> QED BY <1>1, <1>2, <1>3 DEF Next

\* What a step of each kind does to the series.
LEMMA SeriesGrows ==
  ASSUME NEW arrived \in Seq(Message), NEW queue \in Seq(Message), NEW hand, NEW m \in Message,
         InSeries(arrived, hand, queue),
         \A i \in 1..Len(arrived) : Before(arrived[i], m),
         \A j \in 1..Len(queue) : Before(queue[j], m),
         hand # Nothing => Before(hand, m)
  PROVE  InSeries(arrived, hand, Append(queue, m))
<1>1. /\ Len(Append(queue, m)) = Len(queue) + 1 /\ Len(queue) \in Nat
      /\ \A j \in 1..(Len(queue) + 1) :
           Append(queue, m)[j] = IF j <= Len(queue) THEN queue[j] ELSE m
  OBVIOUS
<1>2. Ascending(Append(queue, m))
  BY <1>1 DEF InSeries, Ascending
<1> QED BY <1>1, <1>2 DEF InSeries

LEMMA SeriesTaken ==
  ASSUME NEW arrived \in Seq(Message), NEW queue \in Seq(Message), queue # <<>>,
         InSeries(arrived, Nothing, queue)
  PROVE  InSeries(arrived, Head(queue), Tail(queue))
<1>1. /\ Head(queue) = queue[1] /\ Len(queue) \in Nat /\ Len(queue) >= 1
      /\ Len(Tail(queue)) = Len(queue) - 1
      /\ \A j \in 1..(Len(queue) - 1) : Tail(queue)[j] = queue[j + 1]
  OBVIOUS
<1>2. Ascending(Tail(queue))
  BY <1>1 DEF InSeries, Ascending
<1> QED BY <1>1, <1>2 DEF InSeries, Ascending

LEMMA SeriesHanded ==
  ASSUME NEW arrived \in Seq(Message), NEW queue \in Seq(Message), NEW hand \in Message,
         hand # Nothing, InSeries(arrived, hand, queue)
  PROVE  InSeries(arrived, Nothing, queue) /\ InSeries(Append(arrived, hand), Nothing, queue)
<1>1. /\ Len(Append(arrived, hand)) = Len(arrived) + 1 /\ Len(arrived) \in Nat
      /\ \A i \in 1..(Len(arrived) + 1) :
           Append(arrived, hand)[i] = IF i <= Len(arrived) THEN arrived[i] ELSE hand
  OBVIOUS
<1>2. Ascending(Append(arrived, hand))
  BY <1>1 DEF InSeries, Ascending
<1> QED BY <1>1, <1>2 DEF InSeries

\* A message stays issued, whatever its sender does next.
StillIssued(m) == /\ m.text <= texts'[m.from]
                  /\ pc'[m.from] = "broadcast" => m.text < arg'[m.from]

LEMMA IssuedStays ==
  ASSUME IInv, OrderInv, [Next]_vars, NEW m \in Message, Issued(m)
  PROVE  StillIssued(m)
<1>1. /\ m.from \in Clients /\ m.text \in Nat
      /\ texts[m.from] \in Nat
  BY Distinct DEF Message, IInv, TypeOK, ConnTypeOK
<1>2. TextsKept(m.from) \/ NextText(m.from)
  BY <1>1, TextsStep
<1> QED BY <1>1, <1>2 DEF Issued, StillIssued, TextsKept, NextText

LEMMA OrderPreserved == IInv /\ OrderInv /\ [Next]_vars => OrderInv'
<1> SUFFICES ASSUME IInv, OrderInv, [Next]_vars PROVE OrderInv'
  OBVIOUS
<1>1. ASSUME NEW c \in Clients, pc'[c] = "broadcast" PROVE arg'[c] <= texts'[c]
  <2>1. TextsKept(c) \/ NextText(c)
    BY TextsStep
  <2>2. texts[c] \in Nat
    BY Distinct DEF IInv, TypeOK, ConnTypeOK
  <2> QED BY <1>1, <2>1, <2>2 DEF TextsKept, NextText, OrderInv
<1>2. ASSUME NEW d \in Receivers PROVE OrderOf(d)'
  <2>1. /\ mqueue[d] \in Seq(Message) /\ inbox[d] \in Seq(Message)
        /\ temp[d] # Nothing => temp[d] \in Message
    BY Distinct DEF IInv, TypeOK, ChatTypeOK
  <2>2. InSeries(inbox[d], temp[d], mqueue[d]) /\ \A m \in Handed(d) : Issued(m)
    BY DEF OrderInv, OrderOf
  <2>3. Handed(d) \subseteq Message
    BY <2>1, ElementOfSeq DEF Handed
  <2>4. \A m \in Handed(d) : StillIssued(m)
    BY <2>2, <2>3, IssuedStays
  <2>5. SUFFICES /\ InSeries(inbox'[d], temp'[d], mqueue'[d])
                 /\ \A m \in Handed(d)' : StillIssued(m)
    BY DEF OrderOf, InSeries, Issued, StillIssued
  <2>6. CASE KeepsAll(d)
    BY <2>2, <2>4, <2>6 DEF KeepsAll, Handed
  <2>7. CASE GetsOne(d)
    <3>1. PICK m \in Message : /\ mqueue'[d] = Append(mqueue[d], m)
                               /\ pc[m.from] = "broadcast" /\ m.text = arg[m.from]
                               /\ pc'[m.from] = "request"
      BY <2>7 DEF GetsOne
    <3>2. StillIssued(m)
      <4>1. m.from \in Clients /\ TextsKept(m.from)
        BY <3>1, Distinct, TextsStep DEF Message, NextText
      <4> QED BY <3>1, <4>1 DEF OrderInv, StillIssued, TextsKept
    <3>3. \A n \in Handed(d) : Before(n, m)
      BY <2>2, <3>1 DEF Issued, Before
    <3>4. /\ \A i \in 1..Len(inbox[d]) : Before(inbox[d][i], m)
          /\ \A j \in 1..Len(mqueue[d]) : Before(mqueue[d][j], m)
          /\ temp[d] # Nothing => Before(temp[d], m)
      BY <3>3 DEF Handed
    <3>5. InSeries(inbox[d], temp[d], mqueue'[d])
      BY <2>1, <2>2, <3>1, <3>4, SeriesGrows
    <3>6. \A j \in 1..Len(mqueue'[d]) :
            mqueue'[d][j] = m \/ \E l \in 1..Len(mqueue[d]) : mqueue'[d][j] = mqueue[d][l]
      BY <2>1, <3>1
    <3>7. Handed(d)' \subseteq Handed(d) \cup {m}
      BY <2>7, <3>6 DEF GetsOne, Handed
    <3> QED BY <2>4, <2>7, <3>2, <3>5, <3>7 DEF GetsOne
  <2>8. CASE TakesOne(d)
    <3>1. InSeries(inbox'[d], temp'[d], mqueue'[d])
      BY <2>1, <2>2, <2>8, SeriesTaken DEF TakesOne
    <3>2. /\ temp'[d] = mqueue[d][1] /\ 1 \in 1..Len(mqueue[d])
          /\ \A j \in 1..Len(mqueue'[d]) :
               \E l \in 1..Len(mqueue[d]) : mqueue'[d][j] = mqueue[d][l]
      BY <2>1, <2>8 DEF TakesOne
    <3>3. Handed(d)' \subseteq Handed(d)
      BY <2>8, <3>2 DEF TakesOne, Handed
    <3> QED BY <2>4, <3>1, <3>3
  <2>9. CASE HandsOn(d)
    <3>1. InSeries(inbox'[d], temp'[d], mqueue'[d])
      BY <2>1, <2>2, <2>9, SeriesHanded DEF HandsOn
    <3>2. \A i \in 1..Len(inbox'[d]) :
            \/ inbox'[d][i] = temp[d]
            \/ \E l \in 1..Len(inbox[d]) : inbox'[d][i] = inbox[d][l]
      <4>1. CASE inbox'[d] = inbox[d]
        BY <4>1
      <4>2. CASE inbox'[d] = Append(inbox[d], temp[d])
        <5>1. ASSUME NEW i \in 1..Len(inbox'[d])
              PROVE  inbox'[d][i] = temp[d] \/ (i \in 1..Len(inbox[d]) /\ inbox'[d][i] = inbox[d][i])
          BY <2>1, <4>2
        <5> QED BY <5>1
      <4> QED BY <2>9, <4>1, <4>2 DEF HandsOn
    <3>3. Handed(d)' \subseteq Handed(d)
      BY <2>9, <3>2 DEF HandsOn, Handed
    <3> QED BY <2>4, <3>1, <3>3
  <2> QED BY <2>6, <2>7, <2>8, <2>9, QueueStep
<1> QED BY <1>1, <1>2 DEF OrderInv

\* An element of three sequences in a row is one of theirs.
LEMMA ThreeParts ==
  ASSUME NEW S, NEW a \in Seq(S), NEW b \in Seq(S), NEW q \in Seq(S),
         NEW x \in 1..Len((a \o b) \o q)
  PROVE  /\ x \in Int
         /\ \/ x \in 1..Len(a) /\ ((a \o b) \o q)[x] = a[x]
            \/ x - Len(a) \in 1..Len(b) /\ ((a \o b) \o q)[x] = b[x - Len(a)]
            \/ /\ x - Len(a) - Len(b) \in 1..Len(q)
               /\ ((a \o b) \o q)[x] = q[x - Len(a) - Len(b)]
               /\ x > Len(a) + Len(b)
<1>1. /\ Len(a) \in Nat /\ Len(b) \in Nat /\ Len(q) \in Nat
      /\ a \o b \in Seq(S) /\ Len(a \o b) = Len(a) + Len(b)
      /\ \A y \in 1..(Len(a) + Len(b)) :
           (a \o b)[y] = IF y <= Len(a) THEN a[y] ELSE b[y - Len(a)]
  BY ConcatProperties
<1>2. /\ Len((a \o b) \o q) = Len(a) + Len(b) + Len(q)
      /\ \A y \in 1..(Len(a) + Len(b) + Len(q)) :
           ((a \o b) \o q)[y] = IF y <= Len(a) + Len(b) THEN (a \o b)[y]
                                                      ELSE q[y - (Len(a) + Len(b))]
  <2> DEFINE both == a \o b
  <2>1. both \in Seq(S) /\ Len(both) = Len(a) + Len(b)
    BY <1>1
  <2> HIDE DEF both
  <2>2. /\ Len(both \o q) = Len(both) + Len(q)
        /\ \A y \in 1..(Len(both) + Len(q)) :
             (both \o q)[y] = IF y <= Len(both) THEN both[y] ELSE q[y - Len(both)]
    BY <2>1, ConcatProperties
  <2>3. /\ Len(both \o q) = Len(a) + Len(b) + Len(q)
        /\ \A y \in 1..(Len(a) + Len(b) + Len(q)) :
             (both \o q)[y] = IF y <= Len(a) + Len(b) THEN both[y] ELSE q[y - (Len(a) + Len(b))]
    BY <2>1, <2>2
  <2> USE DEF both
  <2> QED BY <2>3
<1>3. x \in Int /\ x >= 1 /\ x <= Len(a) + Len(b) + Len(q)
  BY <1>1, <1>2
<1>4. CASE x <= Len(a)
  BY <1>1, <1>2, <1>3, <1>4
<1>5. CASE Len(a) < x /\ x <= Len(a) + Len(b)
  BY <1>1, <1>2, <1>3, <1>5
<1>6. CASE x > Len(a) + Len(b)
  <2>1. x - (Len(a) + Len(b)) = x - Len(a) - Len(b)
    BY <1>1, <1>3
  <2> QED BY <1>1, <1>2, <1>3, <1>6, <2>1
<1> QED BY <1>1, <1>3, <1>4, <1>5, <1>6

\* A sender's texts reach each receiver in the order they were sent and at most
\* once, whatever joins, leaves and losses there are between them.
THEOREM ServerInOrder == Spec => []InOrder
<1>1. Init => IInv /\ OrderInv
  <2>1. Init => OrderInv
    BY Distinct DEF Init, OrderInv, OrderOf, InSeries, Handed, Ascending
  <2> QED BY <2>1, InitIInv
<1>2. IInv /\ OrderInv /\ [Next]_vars => (IInv /\ OrderInv)'
  BY NextPreserves, OrderPreserved
<1>3. IInv /\ OrderInv => InOrder
  <2> SUFFICES ASSUME IInv, OrderInv, NEW c \in Receivers,
                      NEW i \in 1..Len(Arrivals(c)), NEW j \in 1..Len(Arrivals(c)), i < j
               PROVE  Before(Arrivals(c)[i], Arrivals(c)[j])
    BY DEF InOrder, Before
  <2> DEFINE hand == IF temp[c] = Nothing THEN <<>> ELSE <<temp[c]>>
             n == Len(inbox[c])
             k == Len(hand)
  <2>1. mqueue[c] \in Seq(Message) /\ inbox[c] \in Seq(Message) /\ hand \in Seq(Message)
    BY Distinct DEF IInv, TypeOK, ChatTypeOK
  <2>2. OrderOf(c)
    BY DEF OrderInv
  <2>3. Arrivals(c) = (inbox[c] \o hand) \o mqueue[c]
    BY DEF Arrivals
  <2>4. \A x \in 1..k : k = 1 /\ x = 1 /\ temp[c] # Nothing /\ hand[x] = temp[c]
    OBVIOUS
  <2>5. k \in Nat /\ n \in Nat
    BY <2>1
  <2> HIDE DEF hand
  <2>6. \A x \in 1..Len(Arrivals(c)) :
          \/ x \in 1..n /\ Arrivals(c)[x] = inbox[c][x]
          \/ x - n \in 1..k /\ Arrivals(c)[x] = temp[c] /\ temp[c] # Nothing /\ x = n + 1
          \/ /\ x - n - k \in 1..Len(mqueue[c]) /\ Arrivals(c)[x] = mqueue[c][x - n - k]
             /\ x > n + k
    <3> HIDE DEF n, k
    <3>1. ASSUME NEW x \in 1..Len(Arrivals(c))
          PROVE  \/ x \in 1..n /\ Arrivals(c)[x] = inbox[c][x]
                 \/ x - n \in 1..k /\ Arrivals(c)[x] = hand[x - n]
                 \/ /\ x - n - k \in 1..Len(mqueue[c]) /\ Arrivals(c)[x] = mqueue[c][x - n - k]
                    /\ x > n + k
      <4> DEFINE all == (inbox[c] \o hand) \o mqueue[c]
      <4>1. x \in 1..Len(all)
        BY <2>3
      <4>2. \/ x \in 1..Len(inbox[c]) /\ all[x] = inbox[c][x]
            \/ x - Len(inbox[c]) \in 1..Len(hand) /\ all[x] = hand[x - Len(inbox[c])]
            \/ /\ x - Len(inbox[c]) - Len(hand) \in 1..Len(mqueue[c])
               /\ all[x] = mqueue[c][x - Len(inbox[c]) - Len(hand)]
               /\ x > Len(inbox[c]) + Len(hand)
        BY <2>1, <4>1, ThreeParts
      <4>3. Arrivals(c) = all
        BY <2>3
      <4> HIDE DEF all
      <4> QED BY <4>2, <4>3 DEF n, k
    <3>2. ASSUME NEW x \in 1..Len(Arrivals(c)), x - n \in 1..k
          PROVE  temp[c] # Nothing /\ hand[x - n] = temp[c] /\ x = n + 1
      <4>1. x \in Int
        BY <2>1, <2>3, ThreeParts
      <4>2. k = 1 /\ x - n = 1 /\ temp[c] # Nothing /\ hand[x - n] = temp[c]
        BY <2>4, <3>2
      <4> QED BY <2>5, <4>1, <4>2
    <3> QED BY <3>1, <3>2
  <2> HIDE DEF n, k
  <2>7. /\ n = Len(inbox[c]) /\ n \in Nat /\ k \in Nat /\ (temp[c] # Nothing => k = 1)
    BY <2>5 DEF n, k, hand
  <2> DEFINE all == Arrivals(c)
             Inboxed(x) == x \in 1..n /\ all[x] = inbox[c][x]
             Held(x)   == x = n + 1 /\ k = 1 /\ all[x] = temp[c] /\ temp[c] # Nothing
             Queued(x)  == /\ x - n - k \in 1..Len(mqueue[c]) /\ x > n + k
                           /\ all[x] = mqueue[c][x - n - k]
  <2>8. /\ Inboxed(i) \/ Held(i) \/ Queued(i)
        /\ Inboxed(j) \/ Held(j) \/ Queued(j)
    BY <2>6, <2>7
  <2>9. i \in Int /\ j \in Int
    BY DEF Arrivals
  <2>10. InSeries(inbox[c], temp[c], mqueue[c])
    BY <2>2 DEF OrderOf
  <2> SUFFICES Before(all[i], all[j])
    OBVIOUS
  <2> HIDE DEF all
  <2>11. CASE Inboxed(i)
    <3>1. CASE Inboxed(j)
      BY <2>7, <2>9, <2>10, <2>11, <3>1 DEF InSeries, Ascending
    <3>2. CASE Held(j) \/ Queued(j)
      BY <2>7, <2>9, <2>10, <2>11, <3>2 DEF InSeries
    <3> QED BY <2>8, <3>1, <3>2
  <2>12. CASE Held(i)
    <3>1. Queued(j)
      BY <2>7, <2>8, <2>9, <2>12
    <3> QED BY <2>7, <2>10, <2>12, <3>1 DEF InSeries
  <2>13. CASE Queued(i)
    <3>1. Queued(j)
      BY <2>7, <2>8, <2>9, <2>13
    <3>2. i - n - k < j - n - k
      BY <2>7, <2>9
    <3> QED BY <2>10, <2>13, <3>1, <3>2 DEF InSeries, Ascending
  <2> QED BY <2>8, <2>11, <2>12, <2>13
<1> QED BY <1>1, <1>2, <1>3, PTL DEF Spec

-----------------------------------------------------------------------------
(***************************************************************************)
(* The server with its client programs.                                    *)
(***************************************************************************)
\* A program that ends closes or resets its connection, or had none.
LEMMA HangsUpIsClient ==
  ASSUME NEW c \in Clients, NEW unread, HangsUp(c, unread)
  PROVE  Client(c) \/ UNCHANGED vars
BY DEF HangsUp, Client

\* The steps of the programs and their users.
LEMMA ProgramStep ==
  ASSUME NEW c \in Clients, Program(c) \/ User(c) \/ Connect(c)
  PROVE  Client(c) \/ UNCHANGED vars
<1>1. CASE Connect(c) BY <1>1 DEF Connect
<1>2. CASE Program(c)
  <2>1. CASE Login(c) \/ Join(c) BY <2>1 DEF Login, Join, Asks
  <2>2. CASE Greeted(c) \/ Joined(c) \/ TakeReply(c)
    <3>1. Takes(c) BY <2>2 DEF Greeted, Joined, TakeReply
    <3>. QED BY <3>1, HangsUpIsClient DEF Takes
  <2>3. CASE Listen(c) BY <2>3 DEF Listen
  <2>4. CASE ReceiveFails(c) BY <2>4, HangsUpIsClient DEF ReceiveFails
  <2>. QED BY <1>2, <2>1, <2>2, <2>3, <2>4 DEF Program
<1>3. CASE User(c)
  <2>1. CASE \E line \in Sendable : Type(c, line) BY <2>1 DEF Type
  <2>2. CASE TypeNothing(c) BY <2>2, HangsUpIsClient DEF TypeNothing
  <2>3. CASE Killed(c) BY <2>3, HangsUpIsClient DEF Killed
  <2>. QED BY <1>3, <2>1, <2>2, <2>3 DEF User
<1>. QED BY <1>1, <1>2, <1>3

\* The steps of the workers.
LEMMA WorkerStep ==
  ASSUME NEW c \in Clients, Worker(c)
  PROVE  Request(c) \/ Handler(c)
<1>1. CASE Serves(c)
  BY <1>1 DEF Serves, WorkerLogin, ServeJoin, ServeText, ServeLeave, ServeQuit, ServeOther, Request
<1>2. CASE Works(c)
  BY <1>2 DEF Works, CarriesOut, WorkerQuits, Delivers, Silent, Handler
<1>. QED BY <1>1, <1>2 DEF Worker

\* Every step of the whole system is a step of the server or leaves it alone.
LEMMA SessionStep ==
  ASSUME [SessionNext]_svars
  PROVE  [Next]_vars
<1>1. CASE ServerStarts BY <1>1 DEF ServerStarts
<1>2. CASE ServerDies BY <1>2 DEF ServerDies, Next
<1>3. ASSUME NEW c \in Clients, Connect(c) \/ Program(c) \/ User(c)
      PROVE  [Next]_vars
  BY <1>3, ProgramStep DEF Next
<1>4. ASSUME NEW c \in Clients, Accepts(c)
      PROVE  [Next]_vars
  BY <1>4 DEF Accepts, Next
<1>5. ASSUME NEW c \in Clients, Worker(c)
      PROVE  [Next]_vars
  BY <1>5, WorkerStep DEF Next
<1>6. CASE UNCHANGED svars BY <1>6 DEF svars
<1>. QED BY <1>1, <1>2, <1>3, <1>4, <1>5, <1>6 DEF SessionNext

\* sender.cpp and receiver.cpp over any connections use the server only as
\* ChatServer says it can be used.
THEOREM SessionImplementsServer == SessionSpec => Init /\ [][Next]_vars
<1>1. SessionInit => Init BY DEF SessionInit
<1>2. [SessionNext]_svars => [Next]_vars BY SessionStep
<1>. QED BY <1>1, <1>2, PTL DEF SessionSpec

-----------------------------------------------------------------------------
(***************************************************************************)
(* Sequences.                                                              *)
(***************************************************************************)
LEMMA Popped ==
  ASSUME NEW S, NEW s \in Seq(S), s # <<>>
  PROVE  /\ Len(s) \in Nat \ {0} /\ Head(s) \in S /\ Head(s) = s[1]
         /\ Tail(s) \in Seq(S) /\ Len(Tail(s)) = Len(s) - 1
         /\ \A i \in 1..Len(Tail(s)) : Tail(s)[i] = s[i + 1]
BY HeadTailProperties, LenProperties, EmptySeq

\* A sequence without elements.
LEMMA EmptyByLength == ASSUME NEW S, NEW s \in Seq(S), Len(s) = 0 PROVE s = <<>>
<1> SUFFICES ASSUME s # <<>> PROVE FALSE
  OBVIOUS
<1>1. Len(s) \in Nat \ {0}
  BY Popped
<1> QED BY <1>1

\* A sequence and what comes after it.
LEMMA Pushed ==
  ASSUME NEW S, NEW s \in Seq(S), NEW t \in Seq(S)
  PROVE  /\ s \o t \in Seq(S) /\ Len(s) \in Nat /\ Len(t) \in Nat /\ Len(s \o t) = Len(s) + Len(t)
         /\ \A i \in 1..Len(s) : (s \o t)[i] = s[i]
         /\ \A i \in (Len(s) + 1)..Len(s \o t) : (s \o t)[i] = t[i - Len(s)]
BY ConcatProperties, LenProperties

-----------------------------------------------------------------------------
(***************************************************************************)
(* Types.                                                                  *)
(***************************************************************************)
LEMMA Facts ==
  /\ Senders \subseteq Clients /\ Receivers \subseteq Clients
  /\ Clients = Senders \cup Receivers /\ Senders \cap Receivers = {}
  /\ Nothing \notin Message /\ MaxLines \in Nat /\ MaxTyped \in Nat
  /\ RoomArg \in [Receivers -> RoomNames]
BY Distinct, SessionAssumption

\* The lines and the replies there are.
LEMMA Words ==
  /\ \A kind \in Texts \cup {"login", "leave", "quit", "rest"} : Plain(kind) \in Asked
  /\ \A r \in RoomNames : Line("join", r) \in Asked
  /\ Sendable \subseteq Asked
  /\ Ok \in Seq(Sent) /\ Err \in Seq(Sent)
  /\ Len(Ok) = 1 /\ Ok[1] = Tagged("ok") /\ Len(Err) = 1 /\ Err[1] = Tagged("err")
  /\ Tagged("ok").tag = "ok" /\ Tagged("err").tag = "err"
<1>1. /\ \A kind \in Texts \cup {"login", "leave", "quit", "rest"} : Plain(kind) \in Asked
      /\ \A r \in RoomNames : Line("join", r) \in Asked
  BY DEF Plain, Line, Asked
<1>2. Sendable \subseteq Asked
  BY <1>1 DEF Sendable
<1>3. Tagged("ok") \in Sent /\ Tagged("err") \in Sent
      /\ Tagged("ok").tag = "ok" /\ Tagged("err").tag = "err"
  BY DEF Tagged, Sent
<1> QED BY <1>1, <1>2, <1>3 DEF Ok, Err

\* What follows a line that was cut is no login.
LEMMA TailLines ==
  \A tail \in Tails : tail \in Asked /\ tail.kind # "login"
<1>1. Plain("rest").kind = "rest"
  BY DEF Plain, Line
<1>2. \A line \in Sendable : line.kind # "login"
  BY DEF Sendable, Plain, Line, Texts
<1> QED BY <1>1, <1>2, Words DEF Tails

\* A typed line as it arrives: itself, and if it is a text perhaps one line more.
LEMMA RequestArriving ==
  ASSUME NEW line \in Sendable, NEW sent \in AsRequest(line)
  PROVE  /\ sent \in Seq(Asked) /\ sent[1] = line
         /\ \A i \in 1..Len(sent) : sent[i].kind # "login"
         /\ \/ Len(sent) = 1
            \/ Len(sent) = 2 /\ line.kind \in Texts
         /\ line.kind = "quit" => line = Plain("quit")
<1>1. line \in Asked /\ line.kind # "login" /\ (line.kind = "quit" => line = Plain("quit"))
  BY Words DEF Sendable, Plain, Line, Texts
<1>2. CASE line.kind = "long"
  <2>1. PICK tail \in Tails : sent = <<line, tail>>
    BY <1>2 DEF AsRequest
  <2>2. tail \in Asked /\ tail.kind # "login"
    BY TailLines
  <2> QED BY <1>1, <1>2, <2>1, <2>2 DEF Texts
<1>3. CASE line.kind # "long"
  <2>1. sent = <<line>>
    BY <1>3 DEF AsRequest
  <2> QED BY <1>1, <2>1
<1> QED BY <1>2, <1>3

\* A delivery as it arrives: itself, and perhaps one line that nobody sent.
LEMMA DeliveryArriving ==
  ASSUME NEW m \in Message, NEW sent \in AsDelivery(m)
  PROVE  /\ sent \in Seq(Sent) /\ Deliveries(sent)
         /\ sent[1].of = m
         /\ \A i \in 2..Len(sent) : sent[i].of = Nothing /\ CutText(m)
         /\ Len(sent) \in {1, 2}
<1>1. PICK d : d = [tag |-> "delivery", of |-> m]
  OBVIOUS
<1>2. d \in Sent /\ d.tag = "delivery" /\ d.of = m
  BY <1>1 DEF Sent
<1>3. CASE CutText(m)
  <2>1. PICK tag \in {"rest", "delivery"} : sent = <<d, Tagged(tag)>>
    BY <1>1, <1>3 DEF AsDelivery
  <2>2. PICK r : r = Tagged(tag)
    OBVIOUS
  <2>3. r \in Sent /\ r.tag \in {"delivery", "rest"} /\ r.of = Nothing
    BY <2>2 DEF Sent, Tagged
  <2>4. sent = <<d, r>>
    BY <2>1, <2>2
  <2> QED BY <1>2, <1>3, <2>3, <2>4 DEF Deliveries
<1>4. CASE ~CutText(m)
  <2>1. sent = <<d>>
    BY <1>1, <1>4 DEF AsDelivery
  <2> QED BY <1>2, <2>1 DEF Deliveries
<1> QED BY <1>3, <1>4

Places == {"connect", "login", "prompt", "join", "listen"} \cup Awaiting \cup Over

\* What a program writes keeps the lines under way well formed.
LEMMA SendTypes ==
  ASSUME SessionTypeOK, NEW c \in Clients, NEW sent \in Seq(Asked), Send(c, sent)
  PROVE  requests' \in [Clients -> Seq(Asked)]
<1>1. requests[c] \o sent \in Seq(Asked)
  BY Pushed DEF SessionTypeOK
<1> QED BY <1>1 DEF Send, SessionTypeOK

\* And what a worker writes.
LEMMA SaysTypes ==
  ASSUME SessionTypeOK, NEW c \in Clients, NEW sent \in Seq(Sent), Says(c, sent)
  PROVE  replies' \in [Clients -> Seq(Sent)]
<1>1. replies[c] \o sent \in Seq(Sent)
  BY Pushed DEF SessionTypeOK
<1> QED BY <1>1 DEF Says, SessionTypeOK

\* And a program that ends.
LEMMA HangsUpTypes ==
  ASSUME SessionTypeOK, NEW c \in Clients, NEW unread, HangsUp(c, unread)
  PROVE  requests' \in [Clients -> Seq(Asked)] /\ replies' \in [Clients -> Seq(Sent)]
<1>1. requests' \in {requests, [requests EXCEPT ![c] = <<>>]}
  BY DEF HangsUp
<1>2. [requests EXCEPT ![c] = <<>>] \in [Clients -> Seq(Asked)]
  BY DEF SessionTypeOK
<1>3. requests' \in [Clients -> Seq(Asked)]
  BY <1>1, <1>2 DEF SessionTypeOK
<1>4. replies' \in [Clients -> Seq(Sent)]
  BY DEF HangsUp, SessionTypeOK
<1> QED BY <1>3, <1>4

\* And a worker that reads.
LEMMA ReadsTypes ==
  ASSUME SessionTypeOK, NEW c \in Clients, NEW kinds,
         Reads(c, kinds) \/ ReadsNothing(c) \/ ReadsResidue(c)
  PROVE  requests' \in [Clients -> Seq(Asked)]
<1>1. CASE Reads(c, kinds)
  <2>1. Tail(requests[c]) \in Seq(Asked)
    BY <1>1, Popped DEF Reads, SessionTypeOK
  <2> QED BY <1>1, <2>1 DEF Reads, SessionTypeOK
<1>2. CASE ReadsNothing(c) \/ ReadsResidue(c)
  BY <1>2 DEF ReadsNothing, ReadsResidue, SessionTypeOK
<1> QED BY <1>1, <1>2

\* And so every step of a program.
LEMMA ProgramTypes ==
  ASSUME SessionTypeOK, NEW c \in Clients, StartInv(c), Program(c) \/ User(c) \/ Connect(c)
  PROVE  SessionTypeOK'
<1> USE Facts
<1>1. CASE Connect(c)
  BY <1>1 DEF Connect, Goes, SessionTypeOK, counts, Over
<1>2. CASE Login(c)
  <2>1. requests' \in [Clients -> Seq(Asked)]
    <3>1. <<Plain("login")>> \in Seq(Asked)
      BY Words
    <3> QED BY <1>2, <3>1, SendTypes DEF Login, Asks
  <2> QED BY <1>2, <2>1 DEF Login, Asks, Goes, SessionTypeOK, counts, Awaiting
<1>3. CASE Join(c)
  <2>1. c \in Receivers
    BY <1>3 DEF Join, Goes, StartInv
  <2>2. <<Line("join", RoomArg[c])>> \in Seq(Asked)
    BY <2>1, Words
  <2>3. requests' \in [Clients -> Seq(Asked)]
    BY <1>3, <2>2, SendTypes DEF Join, Asks
  <2> QED BY <1>3, <2>3 DEF Join, Asks, Goes, SessionTypeOK, counts, Awaiting
<1>4. CASE Greeted(c) \/ Joined(c) \/ TakeReply(c)
  <2>1. replies[c] # <<>> /\ Takes(c)
    BY <1>4 DEF Greeted, Joined, TakeReply
  <2>2. prog' \in [Clients -> Places]
    BY <1>4 DEF Greeted, Joined, TakeReply, Goes, UnlessErr, SessionTypeOK, Places, Over, Awaiting
  <2>3. Tail(replies[c]) \in Seq(Sent)
    BY <2>1, Popped DEF SessionTypeOK
  <2>4. requests' \in [Clients -> Seq(Asked)] /\ replies' \in [Clients -> Seq(Sent)]
    <3>1. CASE prog'[c] \in Over
      BY <2>1, <3>1, HangsUpTypes DEF Takes
    <3>2. CASE prog'[c] \notin Over
      BY <2>1, <2>3, <3>2 DEF Takes, SessionTypeOK
    <3> QED BY <3>1, <3>2
  <2> QED BY <2>1, <2>2, <2>4 DEF Takes, SessionTypeOK, counts, Places
<1>5. CASE Listen(c)
  <2>1. Tail(replies[c]) \in Seq(Sent) /\ Head(replies[c]) \in Sent
    BY <1>5, Popped DEF Listen, SessionTypeOK
  <2>2. Head(replies[c]).tag = "delivery" => Head(replies[c]).of \in Message \cup {Nothing}
    BY <2>1 DEF Sent
  <2>3. printed' \in [Clients -> Seq(Message \cup {Nothing})]
    BY <1>5, <2>2 DEF Listen, SessionTypeOK
  <2>4. replies' \in [Clients -> Seq(Sent)]
    BY <1>5, <2>1 DEF Listen, SessionTypeOK
  <2> QED BY <1>5, <2>3, <2>4 DEF Listen, SessionTypeOK, counts
<1>6. CASE ReceiveFails(c)
  <2>1. prog' \in [Clients -> Places]
    BY <1>6 DEF ReceiveFails, Goes, SessionTypeOK, Places, Over, Awaiting
  <2>2. requests' \in [Clients -> Seq(Asked)] /\ replies' \in [Clients -> Seq(Sent)]
    BY <1>6, HangsUpTypes DEF ReceiveFails, SessionTypeOK
  <2> QED BY <1>6, <2>1, <2>2 DEF ReceiveFails, SessionTypeOK, counts, Places
<1>7. ASSUME NEW line \in Sendable, Type(c, line)
      PROVE  SessionTypeOK'
  <2>0. PICK sent \in AsRequest(line) :
          Send(c, sent) /\ split' = [split EXCEPT ![c] = @ + Len(sent) - 1]
    BY <1>7 DEF Type
  <2>1. requests' \in [Clients -> Seq(Asked)]
    BY <2>0, RequestArriving, SendTypes
  <2>2. prog' \in [Clients -> Places] /\ typed' \in [Clients -> 0..MaxTyped]
    BY <1>7 DEF Type, Typing, Goes, SessionTypeOK, Awaiting, Places
  <2>3. typed[c] \in 0..MaxTyped /\ said[c] \in 0..MaxTyped /\ split[c] \in 0..MaxTyped
        /\ said[c] <= typed[c] /\ split[c] <= typed[c] /\ typed[c] < MaxTyped
    BY <1>7 DEF Type, Typing, SessionTypeOK, StartInv
  <2>4. said' \in [Clients -> 0..MaxTyped]
    <3>1. said[c] + 1 \in 0..MaxTyped
      BY <2>3
    <3> QED BY <1>7, <3>1 DEF Type, SessionTypeOK
  <2>5. split' \in [Clients -> 0..MaxTyped]
    <3>1. Len(sent) \in {1, 2}
      BY RequestArriving
    <3>2. split[c] + Len(sent) - 1 \in 0..MaxTyped
      <4>1. CASE Len(sent) = 1 BY <2>3, <4>1
      <4>2. CASE Len(sent) = 2 BY <2>3, <4>2
      <4> QED BY <3>1, <4>1, <4>2
    <3> QED BY <2>0, <3>2 DEF SessionTypeOK
  <2> QED BY <1>7, <2>1, <2>2, <2>4, <2>5 DEF Type, Typing, SessionTypeOK, Places
<1>8. CASE TypeNothing(c)
  <2>1. requests' \in [Clients -> Seq(Asked)] /\ replies' \in [Clients -> Seq(Sent)]
    BY <1>8, HangsUpTypes DEF TypeNothing
  <2> QED BY <1>8, <2>1 DEF TypeNothing, Typing, Goes, SessionTypeOK, Over
<1>9. CASE Killed(c)
  <2>1. requests' \in [Clients -> Seq(Asked)] /\ replies' \in [Clients -> Seq(Sent)]
    BY <1>9, HangsUpTypes DEF Killed
  <2> QED BY <1>9, <2>1 DEF Killed, SessionTypeOK, counts, Over
<1> QED BY <1>1, <1>2, <1>3, <1>4, <1>5, <1>6, <1>7, <1>8, <1>9 DEF Program, User

-----------------------------------------------------------------------------
(***************************************************************************)
(* A step of one client leaves what is known of another.                   *)
(***************************************************************************)
Frame(d) ==
  /\ prog'[d] = prog[d] /\ requests'[d] = requests[d] /\ replies'[d] = replies[d]
  /\ typed'[d] = typed[d] /\ said'[d] = said[d] /\ split'[d] = split[d]
  /\ pc'[d] = pc[d] /\ peer'[d] = peer[d] /\ userRoom'[d] = userRoom[d]
  /\ d \in fds' => d \in fds

\* What is known of a client stays true while its own state does.
LEMMA Untouched ==
  ASSUME NEW d \in Clients, ClientInv(d), Frame(d), server' = server, up' => up
  PROVE  ClientInv(d)'
<1>1. alive' => alive
  BY DEF alive
<1>2. StartInv(d)'
  BY DEF ClientInv, StartInv, Frame, Silence
<1>3. ASSUME SenderStage(d) PROVE SenderStage(d)'
  BY <1>3 DEF SenderStage, Frame, InTouch, InStepNow, InHand, LoggingIn, Released
<1>4. ASSUME ReceiverStage(d) PROVE ReceiverStage(d)'
  BY <1>4 DEF ReceiverStage, Frame, Silence, LoggingIn, Deliveries
<1> QED BY <1>1, <1>2, <1>3, <1>4 DEF ClientInv

\* A worker moves none of the state of another client.
LEMMA WorkerFrame ==
  ASSUME IInv, NEW c \in Clients, NEW d \in Clients, d # c, Request(c) \/ Handler(c)
  PROVE  /\ up /\ up' = up
         /\ pc'[d] = pc[d] /\ peer'[d] = peer[d] /\ userRoom'[d] = userRoom[d]
         /\ d \in fds' => d \in fds
<1> USE DEF IInv, TypeOK, ConnTypeOK, PcTypeOK, ChatTypeOK, Step, Running, Goto,
            conn, chat, input, Reply, SendOk, SendFails
<1>1. CASE Request(c)
  BY <1>1 DEF Request, LoginSender, LoginReceiver, LoginAs, LoginRejected, JoinRequest,
     SendAllRequest, LeaveRequest, QuitRequest, InvalidRequest, ReceiverJoin, ReceiverNoJoin,
     ReadsLine, GetsLine, RepliesToLine, RepliesToCommand, GetsResidue, GetsGarbage, GetsCommand,
     GetsEof
<1>2. CASE Handler(c)
  BY <1>2 DEF Handler, DeleteUser, Find, AddMember, Broadcast, LeaveRoom, Quit, Dequeue,
     DeliverOk, DeliverFails, RemoveSelf, RemoveFromUsersRoom
<1> QED BY <1>1, <1>2

\* Nor does a program.
LEMMA ClientFrame ==
  ASSUME IInv, NEW c \in Clients, NEW d \in Clients, d # c, Client(c) \/ UNCHANGED vars
  PROVE  /\ up' = up /\ pc' = pc /\ userRoom' = userRoom /\ fds' = fds
         /\ peer'[d] = peer[d]
BY DEF Client, ClientCloses, ClientResets, Leaves, vars, chat, IInv, TypeOK, ConnTypeOK

\* What is known of a client survives the steps of another's worker.
LEMMA WorkerUntouches ==
  ASSUME IInv, SessionTypeOK, NEW c \in Clients, Worker(c),
         NEW d \in Clients, d # c, ClientInv(d)
  PROVE  ClientInv(d)'
<1>1. /\ up' = up /\ pc'[d] = pc[d] /\ peer'[d] = peer[d] /\ userRoom'[d] = userRoom[d]
      /\ d \in fds' => d \in fds
  BY WorkerStep, WorkerFrame
<1>2. requests'[d] = requests[d] /\ replies'[d] = replies[d]
  <2>1. CASE Serves(c)
    BY <2>1 DEF Serves, WorkerLogin, ServeJoin, ServeText, ServeLeave, ServeQuit, ServeOther,
       Reads, ReadsNothing, ReadsResidue, Says, SessionTypeOK
  <2>2. CASE Works(c)
    BY <2>2 DEF Works, CarriesOut, WorkerQuits, Delivers, Silent, Says, SessionTypeOK
  <2> QED BY <2>1, <2>2 DEF Worker
<1>3. Frame(d) /\ server' = server
  BY <1>1, <1>2 DEF Frame, Worker, counts
<1> QED BY <1>1, <1>3, Untouched

\* And another's program.
LEMMA ProgramUntouches ==
  ASSUME IInv, SessionTypeOK, NEW c \in Clients, Program(c) \/ User(c) \/ Connect(c),
         NEW d \in Clients, d # c, ClientInv(d)
  PROVE  ClientInv(d)'
<1>1. up' = up /\ pc' = pc /\ userRoom' = userRoom /\ fds' = fds /\ peer'[d] = peer[d]
  BY ProgramStep, ClientFrame
<1>2. Frame(d) /\ server' = server
  <2> USE <1>1 DEF Frame, Goes, Asks, Send, Takes, HangsUp, counts, SessionTypeOK
  <2>1. CASE Connect(c)
    BY <2>1 DEF Connect
  <2>2. CASE Program(c)
    BY <2>2 DEF Program, Login, Join, Greeted, Joined, TakeReply, Listen, ReceiveFails
  <2>3. CASE User(c)
    BY <2>3 DEF User, Type, Typing, TypeNothing, Killed
  <2> QED BY <2>1, <2>2, <2>3
<1> QED BY <1>1, <1>2, Untouched

\* And another's accept.
LEMMA AcceptUntouches ==
  ASSUME IInv, SessionTypeOK, NEW c \in Clients, Accepts(c), NEW d \in Clients, d # c, ClientInv(d)
  PROVE  ClientInv(d)'
<1>1. Frame(d) /\ server' = server /\ up' = up
  BY DEF Accepts, Accept, Frame, Goto, counts, chat, IInv, TypeOK, ConnTypeOK, PcTypeOK
<1> QED BY <1>1, Untouched
-----------------------------------------------------------------------------
(***************************************************************************)
(* The worker of a client that is there, by what it does to the lines.     *)
(***************************************************************************)
Reading(c, from, to, kinds, answer) ==
  /\ pc[c] = from /\ pc'[c] = to
  /\ requests[c] # <<>> /\ Head(requests[c]).kind \in kinds /\ requests'[c] = Tail(requests[c])
  /\ replies'[c] = answer

Doing(c, from, to, answer) ==
  /\ pc[c] = from /\ pc'[c] = to
  /\ requests'[c] = requests[c]
  /\ replies'[c] = answer

Quitting(c) ==
  /\ pc[c] = "quit" /\ Released(c)'
  /\ requests'[c] = <<>>
  /\ replies'[c] = replies[c] \o Ok \/ (requests[c] # <<>> /\ replies'[c] = <<>>)

Moves(c) ==
  \/ Reading(c, "login", IF c \in Senders THEN "request" ELSE "join", {"login"}, replies[c] \o Ok)
  \/ /\ \/ c \in Senders /\ Reading(c, "request", "find", {"join"}, replies[c])
        \/ c \in Receivers /\ Reading(c, "join", "find", {"join"}, replies[c])
  \/ Reading(c, "request", "quit", {"quit"}, replies[c])
  \/ \E to \in {"broadcast", "leave"} :
       Reading(c, "request", to, Texts \cup {"leave"}, replies[c])
  \/ Reading(c, "request", "request", Texts \cup {"leave", "rest"}, replies[c] \o Err)
  \/ Reading(c, "join", "loop", {"rest"}, replies[c] \o Err)
  \/ Doing(c, "find", "add", replies[c])
  \/ Doing(c, "add", IF c \in Receivers THEN "loop" ELSE "request", replies[c] \o Ok)
  \/ \E from \in {"broadcast", "leave"} : Doing(c, from, "request", replies[c] \o Ok)
  \/ Quitting(c)
  \/ Doing(c, "loop", "deliver", replies[c])
  \/ \E sent \in Seq(Sent) : Deliveries(sent) /\ Doing(c, "deliver", "loop", replies[c] \o sent)
  \/ Doing(c, "delete", "ended", replies[c])

\* A worker that steps has begun and has not ended, and hangs up on nobody else.
LEMMA WorkerPc ==
  ASSUME IInv, NEW c \in Clients, Request(c) \/ Handler(c)
  PROVE  /\ up' = up /\ pc[c] \notin {"none", "noThread", "ended"} /\ pc'[c] # "none"
         /\ peer[c] # "none" => peer'[c] # "none"
         /\ peer[c] = "open" => peer'[c] = "open"
<1> USE DEF IInv, TypeOK, ConnTypeOK, PcTypeOK, ChatTypeOK, Step, Running, Goto,
            conn, chat, input, Reply, SendOk, SendFails
<1>1. CASE Request(c)
  BY <1>1 DEF Request, LoginSender, LoginReceiver, LoginAs, LoginRejected, JoinRequest,
     SendAllRequest, LeaveRequest, QuitRequest, InvalidRequest, ReceiverJoin, ReceiverNoJoin,
     ReadsLine, GetsLine, RepliesToLine, RepliesToCommand, GetsResidue, GetsGarbage, GetsCommand,
     GetsEof
<1>2. CASE Handler(c)
  BY <1>2 DEF Handler, DeleteUser, Find, AddMember, Broadcast, LeaveRoom, Quit, Dequeue,
     DeliverOk, DeliverFails, RemoveSelf, RemoveFromUsersRoom
<1> QED BY <1>1, <1>2

\* On an open connection what a worker writes is under way.
LEMMA SaysOpen ==
  ASSUME SessionTypeOK, NEW c \in Clients, peer[c] = "open", NEW sent, Says(c, sent)
  PROVE  /\ replies'[c] = replies[c] \o sent
         /\ sent = <<>> => replies'[c] = replies[c]
<1>1. replies'[c] = replies[c] \o sent
  BY DEF Says, SessionTypeOK
<1>2. replies[c] \o <<>> = replies[c]
  BY ConcatEmptySeq DEF SessionTypeOK
<1> QED BY <1>1, <1>2

\* What a worker does with its client's lines, step by step.
LEMMA WorkerMoves ==
  ASSUME IInv, SessionTypeOK, NEW c \in Clients, peer[c] = "open", Worker(c)
  PROVE  Moves(c)
<1> USE Facts DEF IInv, TypeOK, ConnTypeOK, PcTypeOK, SessionTypeOK, Step, Running, Goto
<1>1. peer'[c] = "open"
  BY WorkerStep, WorkerPc
<1>. USE DEF GetsCommand, GetsLine, ReadsLine, RepliesToCommand, RepliesToLine, GetsResidue
<1>2. CASE WorkerLogin(c)
  BY <1>2, SaysOpen DEF Moves, Reading, WorkerLogin, LoginSender, LoginReceiver, LoginAs, Reads,
     Senders, Receivers
<1>3. CASE ServeJoin(c)
  BY <1>1, <1>3 DEF Moves, Reading, ServeJoin, JoinRequest, ReceiverJoin, Reads, ReadsResidue,
     SenderPc, ReceiverPc
<1>4. CASE ServeQuit(c)
  BY <1>1, <1>4 DEF Moves, Reading, ServeQuit, QuitRequest, Reads, ReadsResidue
<1>5. CASE ServeText(c)
  <2>1. Reads(c, Texts)
    BY <1>5 DEF ServeText, Reads, ReadsResidue, Texts
  <2>2. Says(c, IF pc'[c] = "request" THEN Err ELSE <<>>)
    BY <1>5 DEF ServeText
  <2>3. pc[c] = "request" /\ pc'[c] \in {"request", "broadcast"}
    BY <1>5 DEF ServeText, SendAllRequest
  <2>4. requests[c] # <<>> /\ Head(requests[c]).kind \in Texts /\ requests'[c] = Tail(requests[c])
    BY <2>1 DEF Reads
  <2>5. replies'[c] = IF pc'[c] = "request" THEN replies[c] \o Err ELSE replies[c]
    BY <2>2, SaysOpen
  <2> QED BY <2>3, <2>4, <2>5 DEF Moves, Reading
<1>6. CASE ServeLeave(c)
  <2>1. Reads(c, {"leave"})
    BY <1>6 DEF ServeLeave, ReadsResidue
  <2>2. Says(c, IF pc'[c] = "request" THEN Err ELSE <<>>)
    BY <1>6 DEF ServeLeave
  <2>3. pc[c] = "request" /\ pc'[c] \in {"request", "leave"}
    BY <1>6 DEF ServeLeave, LeaveRequest
  <2>4. requests[c] # <<>> /\ Head(requests[c]).kind = "leave" /\ requests'[c] = Tail(requests[c])
    BY <2>1 DEF Reads
  <2>5. replies'[c] = IF pc'[c] = "request" THEN replies[c] \o Err ELSE replies[c]
    BY <2>2, SaysOpen
  <2> QED BY <2>3, <2>4, <2>5 DEF Moves, Reading
<1>7. CASE ServeOther(c)
  <2>1. ~LoginRejected(c)
    BY DEF LoginRejected, GetsGarbage, GetsEof, Senders, Receivers
  <2>2. Step(c, "request", "request") \/ Step(c, "join", "loop")
    BY <1>7, <2>1 DEF ServeOther, InvalidRequest, ReceiverNoJoin
  <2>3. lines' # lines
    BY <1>7, <2>1 DEF ServeOther, InvalidRequest, ReceiverNoJoin, GetsGarbage, GetsEof
  <2>4. Reads(c, {"rest"}) /\ replies'[c] = replies[c] \o Err
    BY <1>7, <2>3, SaysOpen DEF ServeOther
  <2> QED BY <2>2, <2>4 DEF Moves, Reading, Reads
<1>8. CASE CarriesOut(c)
  <2>1. replies'[c] = replies[c] \o Ok /\ requests'[c] = requests[c]
    BY <1>8, SaysOpen DEF CarriesOut
  <2>2. CASE AddMember(c)
    BY <2>1, <2>2 DEF Moves, Doing, AddMember
  <2>3. CASE Broadcast(c) \/ LeaveRoom(c)
    BY <2>1, <2>3 DEF Moves, Doing, Broadcast, LeaveRoom
  <2> QED BY <1>8, <2>2, <2>3 DEF CarriesOut
<1>9. CASE WorkerQuits(c)
  <2>1. pc[c] = "quit" /\ Released(c)'
    BY <1>9 DEF WorkerQuits, Quit, Released, RemoveFromUsersRoom, ChatTypeOK
  <2>2. replies'[c] = replies[c] \o Ok \/ (requests[c] # <<>> /\ replies'[c] = <<>>)
    BY <1>9, SaysOpen DEF WorkerQuits
  <2>3. requests'[c] = <<>>
    BY <1>9 DEF WorkerQuits
  <2> QED BY <2>1, <2>2, <2>3 DEF Moves, Quitting
<1>10. CASE Delivers(c)
  <2>1. Step(c, "deliver", "loop") /\ temp[c] \in Message
    BY <1>10 DEF Delivers, DeliverOk, ChatTypeOK
  <2>2. PICK sent \in AsDelivery(temp[c]) : Says(c, sent)
    BY <1>10 DEF Delivers
  <2>3. sent \in Seq(Sent) /\ Deliveries(sent)
    BY <2>1, DeliveryArriving
  <2>4. replies'[c] = replies[c] \o sent /\ requests'[c] = requests[c]
    BY <1>10, <2>2, SaysOpen DEF Delivers
  <2>5. Doing(c, "deliver", "loop", replies[c] \o sent)
    BY <2>1, <2>4 DEF Doing
  <2> QED BY <2>3, <2>5 DEF Moves
<1>11. CASE Silent(c)
  <2>1. ~RemoveSelf(c)
    BY DEF RemoveSelf, ReceiverInv, ReceiverPc
  <2>2. ~DeliverFails(c)
    BY DEF DeliverFails, SendFails
  <2> QED BY <1>11, <2>1, <2>2 DEF Moves, Doing, Silent, DeleteUser, Find, Dequeue
<1> QED BY <1>2, <1>3, <1>4, <1>5, <1>6, <1>7, <1>8, <1>9, <1>10, <1>11 DEF Worker, Serves, Works

\* A worker keeps every line well formed.
LEMMA WorkerTypes ==
  ASSUME IInv, IInv', SessionTypeOK, NEW c \in Clients, Worker(c)
  PROVE  SessionTypeOK'
<1> USE Facts
<1>1. requests' \in [Clients -> Seq(Asked)]
  <2>1. CASE Serves(c)
    BY <2>1, ReadsTypes DEF Serves, WorkerLogin, ServeJoin, ServeText, ServeLeave, ServeQuit,
       ServeOther
  <2>2. CASE CarriesOut(c) \/ Delivers(c) \/ Silent(c)
    BY <2>2 DEF CarriesOut, Delivers, Silent, SessionTypeOK
  <2>3. CASE WorkerQuits(c)
    BY <2>3, EmptySeq DEF WorkerQuits, SessionTypeOK
  <2> QED BY <2>1, <2>2, <2>3 DEF Worker, Works
<1>2. replies' \in [Clients -> Seq(Sent)]
  <2>1. Ok \in Seq(Sent) /\ Err \in Seq(Sent) /\ <<>> \in Seq(Sent)
    BY Words
  <2>2. CASE Delivers(c)
    <3>1. temp[c] \in Message
      BY <2>2 DEF Delivers, DeliverOk, Step, Running, IInv, TypeOK, ChatTypeOK
    <3> QED BY <2>2, <3>1, DeliveryArriving, SaysTypes DEF Delivers
  <2>3. CASE Serves(c)
    BY <2>1, <2>3, SaysTypes DEF Serves, WorkerLogin, ServeJoin, ServeText, ServeLeave, ServeQuit,
       ServeOther, SessionTypeOK
  <2>4. CASE CarriesOut(c) \/ Silent(c)
    BY <2>1, <2>4, SaysTypes DEF CarriesOut, Silent, SessionTypeOK
  <2>5. CASE WorkerQuits(c)
    BY <2>1, <2>5, SaysTypes DEF WorkerQuits, SessionTypeOK
  <2> QED BY <2>2, <2>3, <2>4, <2>5 DEF Worker, Works
<1>3. wide' \in [Clients -> SUBSET (1..MaxLines)]
  <2>1. CASE ServeText(c)
    <3>1. texts'[c] \in 1..MaxLines
      BY <2>1 DEF ServeText, SendAllRequest, IInv, TypeOK, ConnTypeOK
    <3> QED BY <2>1, <3>1 DEF ServeText, SessionTypeOK
  <2>2. CASE ~ServeText(c)
    BY <2>2 DEF Worker, Serves, Works, WorkerLogin, ServeJoin, ServeLeave, ServeQuit, ServeOther,
       SessionTypeOK
  <2> QED BY <2>1, <2>2
<1> QED BY <1>1, <1>2, <1>3 DEF Worker, SessionTypeOK, counts

\* What one moves from one place to the next is still counted once.
LEMMA Sums ==
  \A a \in Nat, b \in Nat : /\ (a - 1) + 0 + (b + 1) = a + 0 + b
                            /\ a + 0 + (b + 1) = a + 1 + b
OBVIOUS

\* One more reply.
LEMMA RepliesLonger ==
  ASSUME SessionTypeOK, NEW c \in Senders
  PROVE  /\ Len(replies[c] \o Ok) = Len(replies[c]) + 1
         /\ Len(replies[c] \o Err) = Len(replies[c]) + 1
<1>1. replies[c] \in Seq(Sent)
  BY Facts DEF SessionTypeOK
<1>2. ASSUME NEW word \in Seq(Sent), Len(word) = 1
      PROVE  Len(replies[c] \o word) = Len(replies[c]) + 1
  <2>1. Len(replies[c] \o word) = Len(replies[c]) + Len(word)
    BY <1>1, Pushed
  <2> QED BY <1>2, <2>1
<1>3. Ok \in Seq(Sent) /\ Err \in Seq(Sent) /\ Len(Ok) = 1 /\ Len(Err) = 1
  BY Words
<1> HIDE DEF Ok, Err
<1> QED BY <1>2, <1>3

\* While its worker goes on, a sender's program stays in step with it.
LEMMA StepKept ==
  ASSUME SessionTypeOK, NEW c \in Senders, InStepNow(c), Moves(c), ~Quitting(c),
         pc[c] \notin {"loop", "deliver", "join", "delete"}, prog' = prog, split' = split
  PROVE  InStepNow(c)'
<1> USE Facts
<1>1. requests[c] \in Seq(Asked) /\ replies[c] \in Seq(Sent)
  BY DEF SessionTypeOK
<1>2. requests[c] # <<>> => Len(Tail(requests[c])) = Len(requests[c]) - 1
  BY <1>1, Popped
<1>3. Len(replies[c] \o Ok) = Len(replies[c]) + 1 /\ Len(replies[c] \o Err) = Len(replies[c]) + 1
  BY RepliesLonger
<1>4. Len(replies[c]) \in Nat /\ Len(requests[c]) \in Nat
  BY <1>1, LenProperties
<1>5. \/ /\ requests[c] # <<>> /\ requests'[c] = Tail(requests[c])
         /\ \/ InHand(c) = 0 /\ InHand(c)' = 1 /\ replies'[c] = replies[c]
            \/ /\ InHand(c) = 0 /\ InHand(c)' = 0
               /\ replies'[c] \in {replies[c] \o Ok, replies[c] \o Err}
      \/ /\ requests'[c] = requests[c]
         /\ \/ InHand(c) = 1 /\ InHand(c)' = 1 /\ replies'[c] = replies[c]
            \/ InHand(c) = 1 /\ InHand(c)' = 0 /\ replies'[c] = replies[c] \o Ok
  <2>1. /\ InHand(c) = IF pc[c] \in {"find", "add", "broadcast", "leave", "quit"} THEN 1 ELSE 0
        /\ InHand(c)' = IF pc'[c] \in {"find", "add", "broadcast", "leave", "quit"} THEN 1 ELSE 0
    BY DEF InHand
  <2> QED BY <2>1 DEF Moves, Reading, Doing
<1>6. Len(requests'[c]) + InHand(c)' + Len(replies'[c])
        = Len(requests[c]) + InHand(c) + Len(replies[c])
  <2>1. CASE requests[c] # <<>> /\ requests'[c] = Tail(requests[c]) /\ InHand(c) = 0
             /\ InHand(c)' = 1 /\ replies'[c] = replies[c]
    <3>1. Len(requests'[c]) = Len(requests[c]) - 1
      BY <1>2, <2>1
    <3>2. Len(replies'[c]) = Len(replies[c])
      BY <2>1
    <3>3. InHand(c)' = 1 /\ InHand(c) = 0
      BY <2>1
    <3> QED BY <1>4, <3>1, <3>2, <3>3
  <2>2. CASE requests[c] # <<>> /\ requests'[c] = Tail(requests[c]) /\ InHand(c) = 0
             /\ InHand(c)' = 0 /\ replies'[c] \in {replies[c] \o Ok, replies[c] \o Err}
    <3>1. Len(requests'[c]) = Len(requests[c]) - 1
      BY <1>2, <2>2
    <3>2. Len(replies'[c]) = Len(replies[c]) + 1
      BY <1>3, <2>2
    <3>3. InHand(c)' = 0 /\ InHand(c) = 0
      BY <2>2
    <3>4. (Len(requests[c]) - 1) + 0 + (Len(replies[c]) + 1) = Len(requests[c]) + 0 + Len(replies[c])
      BY <1>4, Sums
    <3> QED BY <3>1, <3>2, <3>3, <3>4
  <2>3. CASE requests'[c] = requests[c] /\ InHand(c) = 1 /\ InHand(c)' = 1 /\ replies'[c] = replies[c]
    BY <2>3
  <2>4. CASE requests'[c] = requests[c] /\ InHand(c) = 1 /\ InHand(c)' = 0
             /\ replies'[c] = replies[c] \o Ok
    <3>1. Len(requests'[c]) = Len(requests[c])
      BY <2>4
    <3>2. Len(replies'[c]) = Len(replies[c]) + 1
      BY <1>3, <2>4
    <3>3. InHand(c)' = 0 /\ InHand(c) = 1
      BY <2>4
    <3>4. Len(requests[c]) + 0 + (Len(replies[c]) + 1) = Len(requests[c]) + 1 + Len(replies[c])
      BY <1>4, Sums
    <3> QED BY <3>1, <3>2, <3>3, <3>4
  <2> QED BY <1>5, <2>1, <2>2, <2>3, <2>4
<1> QED BY <1>6 DEF InStepNow

\* What a sender's worker does keeps it in step with its program.
LEMMA SenderServed ==
  ASSUME SessionTypeOK, NEW c \in Senders, StartInv(c), SenderStage(c), Moves(c),
         prog[c] \notin Over \cup {"connect", "login"},
         prog' = prog, split' = split
  PROVE  SenderStage(c)'
<1> USE Facts
<1>1. /\ requests[c] \in Seq(Asked) /\ replies[c] \in Seq(Sent)
      /\ prog[c] \in {"greeting", "prompt", "reply", "quitting"}
      /\ c \notin Receivers
  BY DEF SessionTypeOK, StartInv, Awaiting, Over
<1>2. /\ InStepNow(c) /\ pc[c] \notin {"loop", "deliver", "join", "delete", "ended"}
      /\ prog[c] # "greeting" => pc[c] \in Serving \cup {"quit"}
  <2>1. pc[c] # "ended"
    BY DEF Moves, Reading, Doing, Quitting
  <2>2. prog[c] # "greeting" => pc[c] \in Serving \cup {"quit"}
    BY <1>1, <2>1 DEF SenderStage, Released
  <2>3. prog[c] = "greeting" => pc[c] \in Unserved \cup {"request"}
    BY DEF SenderStage, LoggingIn
  <2> QED BY <2>1, <2>2, <2>3 DEF SenderStage, InTouch, Unserved, Serving
<1>3. ASSUME InTouch(c)' PROVE InStepNow(c)'
  <2>1. CASE Quitting(c)
    <3>1. /\ pc[c] = "quit" /\ pc'[c] = "ended" /\ split[c] = 0 /\ requests'[c] = <<>>
          /\ replies'[c] = replies[c] \o Ok \/ requests[c] # <<>>
      BY <1>3, <2>1 DEF Quitting, Released, InTouch
    <3>2. prog[c] = "quitting"
      BY <1>1, <3>1 DEF SenderStage, LoggingIn, Unserved, Serving
    <3>3. Len(requests[c]) + 1 + Len(replies[c]) = 0 + 1
      BY <1>2, <3>1, <3>2 DEF InStepNow, InHand, Awaiting
    <3>4. \A a, b \in Nat : a + 1 + b = 0 + 1 => a = 0 /\ b = 0
      OBVIOUS
    <3>5. Len(requests[c]) = 0 /\ Len(replies[c]) = 0
      BY <1>1, <3>3, <3>4, LenProperties
    <3>6. replies'[c] = replies[c] \o Ok
      <4>1. requests[c] = <<>>
        BY <1>1, <3>5, EmptyByLength
      <4> QED BY <3>1, <4>1
    <3>7. Len(requests'[c]) = 0 /\ Len(replies'[c]) = 1
      <4>1. Len(requests'[c]) = 0
        BY <3>1
      <4>2. Len(replies[c] \o Ok) = Len(replies[c]) + 1
        BY RepliesLonger
      <4> QED BY <3>5, <3>6, <4>1, <4>2
    <3>8. InHand(c)' = 0
      BY <3>1 DEF InHand
    <3> QED BY <3>1, <3>2, <3>7, <3>8 DEF InStepNow, Awaiting
  <2> QED BY <1>2, <2>1, StepKept
<1>4. CASE prog[c] = "greeting"
  <2>1. LoggingIn(c, "request") /\ split[c] = 0 /\ Head(<<Plain("login")>>) = Plain("login")
        /\ Tail(<<Plain("login")>>) = <<>> /\ <<>> \o Ok = Ok /\ Plain("login").kind = "login"
    BY <1>4, Words DEF SenderStage, Plain, Line, Ok
  <2>2. LoggingIn(c, "request")' /\ split'[c] = 0
    BY <2>1, Words DEF Moves, Reading, Doing, Quitting, LoggingIn, Unserved, Texts
  <2> QED BY <1>3, <1>4, <2>2 DEF SenderStage, Over, Awaiting
<1>5. CASE prog[c] \in {"prompt", "reply", "quitting"}
  <2>1. \A i \in 1..Len(requests[c]) : requests[c][i].kind # "login"
    BY <1>5 DEF SenderStage
  <2>2. requests[c] # <<>> =>
          /\ Head(requests[c]) = requests[c][1] /\ 1 \in 1..Len(requests[c])
          /\ \A i \in 1..Len(Tail(requests[c])) :
               Tail(requests[c])[i] = requests[c][i + 1] /\ i + 1 \in 1..Len(requests[c])
    BY <1>1, Popped
  <2>3. \/ Quitting(c)
        \/ /\ pc'[c] \in Serving \cup {"quit"}
           /\ requests'[c] = requests[c] \/ (requests[c] # <<>> /\ requests'[c] = Tail(requests[c]))
    BY <1>1, <1>2, <1>5 DEF Moves, Reading, Doing, Serving
  <2>4. Quitting(c) => Released(c)' /\ requests'[c] = <<>> /\ pc[c] = "quit"
    BY DEF Quitting
  <2>5. \A i \in 1..Len(requests'[c]) :
          \E j \in 1..Len(requests[c]) : requests'[c][i] = requests[c][j]
    <3>1. CASE requests'[c] = <<>>
      BY <3>1
    <3>2. CASE requests'[c] = requests[c]
      BY <3>2
    <3>3. CASE requests[c] # <<>> /\ requests'[c] = Tail(requests[c])
      BY <2>2, <3>3
    <3> QED BY <2>3, <2>4, <3>1, <3>2, <3>3
  <2>6. /\ pc'[c] \in Serving \cup {"quit"} \/ (Released(c)' /\ requests'[c] = <<>>)
        /\ \A i \in 1..Len(requests'[c]) : requests'[c][i].kind # "login"
    BY <2>1, <2>3, <2>4, <2>5
  <2>7. ASSUME prog[c] \in {"prompt", "reply"}, split[c] = 0
        PROVE  /\ pc'[c] \in Serving
               /\ \A i \in 1..Len(requests'[c]) : requests'[c][i].kind # "quit"
    <3>1. /\ pc[c] \in Serving
          /\ \A i \in 1..Len(requests[c]) : requests[c][i].kind # "quit"
      BY <2>7 DEF SenderStage
    <3>2. requests[c] # <<>> => Head(requests[c]).kind # "quit"
      BY <2>2, <3>1
    <3>3. pc'[c] \in Serving
      BY <1>1, <3>1, <3>2 DEF Moves, Reading, Doing, Quitting, Serving
    <3> QED BY <2>5, <3>1, <3>3
  <2>8. ASSUME prog[c] = "quitting", split[c] = 0
        PROVE  pc'[c] = "quit" \/ Released(c)'
    <3>1. (pc[c] = "request" /\ requests[c] = <<Plain("quit")>>) \/ pc[c] = "quit"
      BY <1>2, <2>8 DEF SenderStage, Released
    <3>2. Head(<<Plain("quit")>>).kind = "quit"
      BY DEF Plain, Line
    <3> QED BY <3>1, <3>2 DEF Moves, Reading, Doing, Quitting, Texts
  <2> QED BY <1>3, <1>5, <2>6, <2>7, <2>8 DEF SenderStage
<1> QED BY <1>1, <1>4, <1>5

\* Deliveries after deliveries.
LEMMA DeliveriesJoined ==
  ASSUME NEW s \in Seq(Sent), NEW t \in Seq(Sent), Deliveries(s), Deliveries(t)
  PROVE  Deliveries(s \o t)
<1> SUFFICES ASSUME NEW i \in 1..Len(s \o t)
             PROVE  (s \o t)[i].tag \in {"delivery", "rest"}
  BY DEF Deliveries
<1>1. CASE i <= Len(s) BY <1>1, Pushed DEF Deliveries
<1>2. CASE i > Len(s)
  <2>1. i - Len(s) \in 1..Len(t) /\ (s \o t)[i] = t[i - Len(s)]
    BY <1>2, Pushed
  <2> QED BY <2>1 DEF Deliveries
<1> QED BY <1>1, <1>2, Pushed

\* Deliveries that follow a reply.
LEMMA DeliveriesAfter ==
  ASSUME NEW s \in Seq(Sent), NEW t \in Seq(Sent), s # <<>>, Deliveries(Tail(s)), Deliveries(t)
  PROVE  s \o t # <<>> /\ Head(s \o t) = Head(s) /\ Deliveries(Tail(s \o t))
<1>1. /\ s \o t \in Seq(Sent) /\ Len(s \o t) = Len(s) + Len(t)
      /\ Len(s) \in Nat \ {0} /\ Len(t) \in Nat /\ Len(Tail(s)) = Len(s) - 1
  BY Pushed, Popped
<1>2. s \o t # <<>>
  BY <1>1, EmptySeq
<1>3. Head(s \o t) = Head(s)
  BY <1>1, <1>2, Pushed, Popped
<1>4. ASSUME NEW i \in 1..Len(Tail(s \o t))
      PROVE  Tail(s \o t)[i].tag \in {"delivery", "rest"}
  <2>1. Tail(s \o t)[i] = (s \o t)[i + 1] /\ i + 1 \in 2..(Len(s) + Len(t))
    BY <1>1, <1>2, Popped
  <2>2. CASE i + 1 <= Len(s)
    <3>1. i \in 1..Len(Tail(s)) /\ (s \o t)[i + 1] = s[i + 1] /\ Tail(s)[i] = s[i + 1]
      BY <1>1, <2>1, <2>2, Pushed, Popped
    <3> QED BY <2>1, <3>1 DEF Deliveries
  <2>3. CASE i + 1 > Len(s)
    <3>1. i + 1 - Len(s) \in 1..Len(t) /\ (s \o t)[i + 1] = t[i + 1 - Len(s)]
      BY <1>1, <2>1, <2>3, Pushed
    <3> QED BY <2>1, <3>1 DEF Deliveries
  <2> QED BY <1>1, <2>1, <2>2, <2>3
<1> QED BY <1>2, <1>3, <1>4 DEF Deliveries

\* What a receiver's worker does keeps it in step with its program.
LEMMA ReceiverServed ==
  ASSUME SessionTypeOK, NEW c \in Receivers, StartInv(c), ReceiverStage(c), Moves(c),
         prog[c] \notin Over \cup {"connect", "login"}, prog' = prog
  PROVE  ReceiverStage(c)'
<1> USE Facts
<1>1. /\ requests[c] \in Seq(Asked) /\ replies[c] \in Seq(Sent) /\ c \notin Senders
      /\ prog[c] \in {"greeting", "join", "joining", "listen"}
  BY DEF SessionTypeOK, StartInv, Awaiting, Over
<1>2. CASE prog[c] = "greeting"
  <2>1. LoggingIn(c, "join") /\ Head(<<Plain("login")>>) = Plain("login")
        /\ Tail(<<Plain("login")>>) = <<>> /\ <<>> \o Ok = Ok /\ Plain("login").kind = "login"
    BY <1>2, Words DEF ReceiverStage, Plain, Line, Ok
  <2>2. LoggingIn(c, "join")'
    BY <1>1, <2>1, Words DEF Moves, Reading, Doing, Quitting, LoggingIn, Unserved, Texts
  <2> QED BY <1>2, <2>2 DEF ReceiverStage
<1>3. CASE prog[c] = "join"
  BY <1>1, <1>3 DEF ReceiverStage, Silence, Moves, Reading, Doing, Quitting
<1>4. ASSUME pc[c] \in {"loop", "deliver"}, requests[c] = <<>>
      PROVE  /\ pc'[c] \in {"loop", "deliver"} /\ requests'[c] = <<>>
             /\ \E sent \in Seq(Sent) : Deliveries(sent) /\ replies'[c] = replies[c] \o sent
  <2>1. <<>> \in Seq(Sent) /\ Deliveries(<<>>) /\ replies[c] \o <<>> = replies[c]
    BY <1>1, ConcatEmptySeq DEF Deliveries
  <2> QED BY <1>1, <1>4, <2>1 DEF Moves, Reading, Doing, Quitting
<1>5. CASE prog[c] = "joining"
  <2>1. CASE pc[c] = "join" /\ requests[c] = <<Line("join", RoomArg[c])>> /\ replies[c] = <<>>
    <3>1. Head(<<Line("join", RoomArg[c])>>).kind = "join" /\ Tail(<<Line("join", RoomArg[c])>>) = <<>>
      BY DEF Line
    <3>2. pc'[c] = "find" /\ requests'[c] = <<>> /\ replies'[c] = <<>>
      BY <1>1, <2>1, <3>1 DEF Moves, Reading, Doing, Quitting
    <3> QED BY <1>5, <3>2 DEF ReceiverStage, Silence
  <2>2. CASE pc[c] \in {"find", "add"} /\ Silence(c)
    <3>1. <<>> \o Ok = Ok /\ Ok # <<>> /\ Head(Ok) = Tagged("ok") /\ Tail(Ok) = <<>>
      BY DEF Ok
    <3>2. replies[c] = <<>> /\ requests[c] = <<>>
      BY <2>2 DEF Silence
    <3>3. CASE pc[c] = "find"
      <4>1. Doing(c, "find", "add", replies[c])
        BY <1>1, <3>3 DEF Moves, Reading, Doing, Quitting
      <4>2. pc'[c] = "add" /\ requests'[c] = <<>> /\ replies'[c] = <<>>
        BY <3>2, <4>1 DEF Doing
      <4> QED BY <1>5, <4>2 DEF ReceiverStage, Silence
    <3>4. CASE pc[c] = "add"
      <4>1. Doing(c, "add", "loop", replies[c] \o Ok)
        BY <1>1, <3>4 DEF Moves, Reading, Doing, Quitting
      <4>2. pc'[c] = "loop" /\ requests'[c] = <<>> /\ replies'[c] = Ok
        BY <3>1, <3>2, <4>1 DEF Doing
      <4>3. replies'[c] # <<>> /\ Head(replies'[c]) = Tagged("ok") /\ Deliveries(Tail(replies'[c]))
        <5>1. Deliveries(<<>>)
          BY DEF Deliveries
        <5> QED BY <3>1, <4>2, <5>1
      <4> QED BY <1>5, <4>2, <4>3 DEF ReceiverStage
    <3> QED BY <2>2, <3>3, <3>4
  <2>3. CASE /\ pc[c] \in {"loop", "deliver"} /\ requests[c] = <<>> /\ replies[c] # <<>>
             /\ Head(replies[c]) = Tagged("ok") /\ Deliveries(Tail(replies[c]))
    <3>1. PICK sent \in Seq(Sent) : Deliveries(sent) /\ replies'[c] = replies[c] \o sent
      BY <1>4, <2>3
    <3>2. /\ replies'[c] # <<>> /\ Head(replies'[c]) = Tagged("ok")
          /\ Deliveries(Tail(replies'[c]))
      BY <1>1, <2>3, <3>1, DeliveriesAfter
    <3> QED BY <1>4, <1>5, <2>3, <3>2 DEF ReceiverStage
  <2> QED BY <1>5, <2>1, <2>2, <2>3 DEF ReceiverStage
<1>6. CASE prog[c] = "listen"
  <2>1. pc[c] \in {"loop", "deliver"} /\ requests[c] = <<>> /\ Deliveries(replies[c])
    BY <1>6 DEF ReceiverStage
  <2>2. PICK sent \in Seq(Sent) : Deliveries(sent) /\ replies'[c] = replies[c] \o sent
    BY <1>4, <2>1
  <2>3. Deliveries(replies'[c])
    BY <1>1, <2>1, <2>2, DeliveriesJoined
  <2> QED BY <1>4, <1>6, <2>1, <2>3 DEF ReceiverStage
<1> QED BY <1>1, <1>2, <1>3, <1>5, <1>6

\* A worker keeps what is known of its own client.
LEMMA WorkerKeeps ==
  ASSUME IInv, SessionTypeOK, NEW c \in Clients, Worker(c), ClientInv(c)
  PROVE  ClientInv(c)'
<1>1. /\ up' = up /\ pc[c] \notin {"none", "noThread", "ended"} /\ pc'[c] # "none"
      /\ peer[c] # "none" => peer'[c] # "none"
      /\ peer[c] = "open" => peer'[c] = "open"
  BY WorkerStep, WorkerPc
<1>2. /\ prog' = prog /\ server' = server /\ typed' = typed /\ said' = said /\ split' = split
      /\ StartInv(c) /\ alive' = alive
  BY <1>1 DEF Worker, counts, ClientInv, alive
<1>3. prog[c] \notin {"connect", "refused"} /\ peer[c] # "none"
  BY <1>1, <1>2 DEF StartInv
<1>4. prog[c] \notin Over => peer[c] = "open" /\ Moves(c)
  BY <1>2, <1>3, WorkerMoves DEF StartInv
<1>5. prog[c] # "login"
  BY <1>1, <1>2, <1>4 DEF StartInv, Over, Unserved, Silence, Moves, Reading, Doing, Quitting
<1>6. StartInv(c)'
  BY <1>1, <1>2, <1>3, <1>4, <1>5 DEF StartInv
<1>7. ASSUME c \in Senders, SenderStage(c) PROVE SenderStage(c)'
  <2>1. CASE prog[c] \notin Over
    BY <1>2, <1>3, <1>4, <1>5, <1>7, <2>1, SenderServed
  <2>2. CASE prog[c] \in Over
    BY <1>1, <1>2, <1>7, <2>2 DEF SenderStage, InTouch, Released, Over
  <2> QED BY <2>1, <2>2
<1>8. ASSUME c \in Receivers, ReceiverStage(c) PROVE ReceiverStage(c)'
  <2>1. CASE prog[c] \notin Over
    BY <1>2, <1>3, <1>4, <1>5, <1>8, <2>1, ReceiverServed
  <2>2. CASE prog[c] \in Over
    BY <1>2, <2>2 DEF ReceiverStage, Over
  <2> QED BY <2>1, <2>2
<1> QED BY <1>2, <1>6, <1>7, <1>8 DEF ClientInv

-----------------------------------------------------------------------------
(***************************************************************************)
(* The programs.                                                           *)
(***************************************************************************)
\* A program that has ended, however it did: nothing is asked of it but that its
\* worker was done with it if it quit.
LEMMA EndKeeps ==
  ASSUME IInv, SessionTypeOK, NEW c \in Clients, StartInv(c), NEW unread, HangsUp(c, unread),
         prog'[c] \in Over \ {"refused"}, server' = server, prog[c] \notin {"connect", "refused"},
         said' [c] <= typed'[c], split'[c] <= typed'[c],
         alive /\ prog'[c] = "exited" /\ split'[c] = 0 /\ c \in Senders => Released(c)
  PROVE  ClientInv(c)'
<1>1. Client(c) \/ UNCHANGED vars
  BY HangsUpIsClient
<1>2. /\ up' = up /\ pc' = pc /\ userRoom' = userRoom /\ fds' = fds
      /\ peer'[c] = peer[c] \/ (peer[c] = "open" /\ peer'[c] \in {"closed", "reset"})
  BY <1>1 DEF Client, ClientCloses, ClientResets, Leaves, vars, chat, IInv, TypeOK, ConnTypeOK
<1>3. StartInv(c)'
  BY <1>2 DEF StartInv, Over
<1>4. Released(c) => Released(c)'
  BY <1>2 DEF Released
<1>5. alive' => alive
  BY <1>2 DEF alive
<1>6. alive' /\ c \in Senders => SenderStage(c)'
  BY <1>4, <1>5 DEF SenderStage, InTouch, Over
<1>7. ReceiverStage(c)'
  BY DEF ReceiverStage, Over
<1> QED BY <1>3, <1>6, <1>7 DEF ClientInv

\* A program that connects keeps what is known of it.
LEMMA ConnectKeeps ==
  ASSUME SessionTypeOK, NEW c \in Clients, ClientInv(c), Connect(c)
  PROVE  ClientInv(c)'
<1>1. /\ prog[c] = "connect" /\ server' = server
      /\ \/ prog'[c] = "login" /\ server = "listening"
         \/ prog'[c] = "refused"
  BY DEF Connect, Goes, open_clientfd, SessionTypeOK, alive
<1>2. StartInv(c)'
  BY <1>1 DEF Connect, ClientInv, StartInv, Silence, vars, counts, Over, Unserved
<1>3. SenderStage(c)' /\ ReceiverStage(c)'
  BY <1>1 DEF SenderStage, InTouch, ReceiverStage, Over
<1> QED BY <1>2, <1>3 DEF ClientInv

\* And a server that accepts it.
LEMMA AcceptKeeps ==
  ASSUME IInv, SessionTypeOK, NEW c \in Clients, ClientInv(c), Accepts(c)
  PROVE  ClientInv(c)'
<1>1. /\ pc[c] = "none" /\ pc'[c] \in {"login", "noThread"}
      /\ prog' = prog /\ requests' = requests /\ replies' = replies /\ server' = server
      /\ typed' = typed /\ said' = said /\ split' = split /\ up' = up
      /\ peer'[c] = IF prog[c] \in Over THEN "closed" ELSE "open"
      /\ prog[c] \notin {"connect", "refused"}
  BY DEF Accepts, Accept, Running, Goto, Connected, counts, IInv, TypeOK, PcTypeOK
<1>2. StartInv(c)'
  BY <1>1 DEF ClientInv, StartInv, Silence, Unserved
<1>3. alive' = alive
  BY <1>1 DEF alive
<1>4. SenderStage(c) => SenderStage(c)'
  BY <1>1 DEF SenderStage, InTouch, InStepNow, InHand, LoggingIn, Serving, Unserved, Released
<1>5. ReceiverStage(c) => ReceiverStage(c)'
  BY <1>1 DEF ReceiverStage, LoggingIn, Silence, Unserved
<1> QED BY <1>2, <1>3, <1>4, <1>5 DEF ClientInv

\* The request a program sends when it is not one that is typed.
LEMMA AsksKeeps ==
  ASSUME SessionTypeOK, NEW c \in Clients, ClientInv(c), Login(c) \/ Join(c)
  PROVE  ClientInv(c)'
<1>1. /\ vars' = vars /\ server' = server /\ replies' = replies /\ counts' = counts
      /\ \/ Login(c) /\ prog[c] = "login" /\ prog'[c] = "greeting"
         \/ Join(c) /\ prog[c] = "join" /\ prog'[c] = "joining"
  BY DEF Login, Join, Asks, Goes, SessionTypeOK
<1>2. StartInv(c)'
  BY <1>1 DEF ClientInv, StartInv, vars, counts, Over
<1>3. ASSUME alive, Silence(c), pc[c] # "ended"
      PROVE  /\ Login(c) => requests'[c] = <<Plain("login")>>
             /\ Join(c) => requests'[c] = <<Line("join", RoomArg[c])>>
             /\ replies'[c] = <<>>
  BY <1>1, <1>3 DEF Login, Join, Asks, Send, Deserted, Silence, SessionTypeOK
<1>4. alive' = alive
  BY <1>1 DEF alive, vars
<1>5. ASSUME alive, c \in Senders PROVE SenderStage(c)'
  <2>1. /\ prog[c] = "login" /\ Silence(c) /\ split[c] = 0 /\ pc[c] \in Unserved /\ Login(c)
        /\ pc[c] # "ended"
    BY <1>1, <1>5 DEF ClientInv, StartInv, Unserved
  <2>2. LoggingIn(c, "request")' /\ split'[c] = 0
    BY <1>1, <1>3, <1>5, <2>1 DEF LoggingIn, vars, counts
  <2>3. Len(<<Plain("login")>>) = 1 /\ Len(<<>>) = 0
    OBVIOUS
  <2>4. InStepNow(c)'
    <3>1. InHand(c)' = 0
      BY <1>1, <2>1 DEF InHand, Unserved, vars
    <3>2. Len(requests'[c]) = 1 /\ Len(replies'[c]) = 0
      BY <1>3, <1>5, <2>1, <2>3
    <3>3. prog'[c] = "greeting" /\ split'[c] = 0
      BY <1>1, <2>1, <2>2
    <3> QED BY <3>1, <3>2, <3>3 DEF InStepNow, Awaiting
  <2> QED BY <1>1, <2>1, <2>2, <2>4 DEF SenderStage
<1>6. ASSUME alive, c \in Receivers PROVE ReceiverStage(c)'
  <2>1. CASE Login(c) /\ prog[c] = "login" /\ prog'[c] = "greeting"
    <3>1. Silence(c) /\ pc[c] \in Unserved /\ pc[c] # "ended"
      BY <2>1 DEF ClientInv, StartInv, Unserved
    <3>2. LoggingIn(c, "join")'
      BY <1>1, <1>3, <1>6, <2>1, <3>1 DEF LoggingIn, vars
    <3> QED BY <2>1, <3>2 DEF ReceiverStage
  <2>2. CASE Join(c) /\ prog[c] = "join" /\ prog'[c] = "joining"
    <3>1. pc[c] = "join" /\ Silence(c)
      BY <1>6, <2>2 DEF ClientInv, ReceiverStage
    <3>2. pc'[c] = "join" /\ requests'[c] = <<Line("join", RoomArg[c])>> /\ replies'[c] = <<>>
      BY <1>1, <1>3, <1>6, <2>2, <3>1 DEF vars
    <3> QED BY <2>2, <3>2 DEF ReceiverStage
  <2> QED BY <1>1, <2>1, <2>2
<1> QED BY <1>2, <1>4, <1>5, <1>6 DEF ClientInv

\* And a sender whose user types a line.
LEMMA TypeKeeps ==
  ASSUME SessionTypeOK, NEW c \in Clients, ClientInv(c), NEW line \in Sendable, Type(c, line)
  PROVE  ClientInv(c)'
<1> USE Facts
<1>0. PICK sent \in AsRequest(line) :
        Send(c, sent) /\ split' = [split EXCEPT ![c] = @ + Len(sent) - 1]
  BY DEF Type
<1>1. /\ vars' = vars /\ server' = server /\ replies' = replies
      /\ prog[c] = "prompt" /\ prog'[c] = IF line.kind = "quit" THEN "quitting" ELSE "reply"
      /\ typed'[c] = typed[c] + 1 /\ said'[c] \in {said[c], said[c] + 1}
      /\ split'[c] = split[c] + Len(sent) - 1
  BY <1>0 DEF Type, Typing, Goes, SessionTypeOK
<1>2. /\ typed[c] \in Nat /\ said[c] \in Nat /\ split[c] \in Nat
      /\ requests[c] \in Seq(Asked) /\ replies[c] \in Seq(Sent)
      /\ Len(requests[c]) \in Nat /\ Len(replies[c]) \in Nat
  BY LenProperties DEF SessionTypeOK
<1>3. /\ sent \in Seq(Asked) /\ Len(sent) \in {1, 2} /\ sent[1] = line
      /\ \A i \in 1..Len(sent) : sent[i].kind # "login"
      /\ line.kind = "quit" => line = Plain("quit") /\ Len(sent) = 1
  BY RequestArriving DEF Texts
<1>4. /\ Len(sent) = 1 => split'[c] = split[c]
      /\ Len(sent) = 2 => split'[c] = split[c] + 1
      /\ split'[c] + 1 = split[c] + Len(sent)
      /\ split'[c] \in {split[c], split[c] + 1}
  <2>1. CASE Len(sent) = 1 BY <1>1, <1>2, <2>1
  <2>2. CASE Len(sent) = 2 BY <1>1, <1>2, <2>2
  <2> QED BY <1>3, <2>1, <2>2
<1>5. StartInv(c) /\ c \in Senders
  BY <1>1 DEF ClientInv, StartInv
<1>6. said'[c] <= typed'[c] /\ split'[c] <= typed'[c]
  BY <1>1, <1>2, <1>4, <1>5 DEF StartInv
<1>7. StartInv(c)'
  BY <1>1, <1>5, <1>6 DEF StartInv, vars, Over
<1>8. split'[c] = 0 => split[c] = 0 /\ Len(sent) = 1
  BY <1>2, <1>3, <1>4
<1>9. ASSUME SenderStage(c), alive PROVE SenderStage(c)'
  <2>1. /\ pc[c] \in Serving \cup {"quit"} \/ (Released(c) /\ requests[c] = <<>>)
        /\ \A i \in 1..Len(requests[c]) : requests[c][i].kind # "login"
        /\ split[c] = 0 => /\ pc[c] \in Serving
                           /\ \A i \in 1..Len(requests[c]) : requests[c][i].kind # "quit"
    BY <1>1, <1>9 DEF SenderStage
  <2>2. CASE Released(c) /\ requests[c] = <<>>
    <3>1. split'[c] # 0 /\ pc'[c] = "ended" /\ Released(c)'
      BY <1>1, <1>8, <2>1, <2>2 DEF Released, Serving, vars
    <3>2. requests'[c] = <<>>
      BY <1>0, <2>2 DEF Send, Deserted, Released
    <3> QED BY <1>1, <3>1, <3>2 DEF SenderStage, InTouch
  <2>3. CASE pc[c] \in Serving \cup {"quit"}
    <3>1. pc[c] # "ended" /\ requests'[c] = requests[c] \o sent
      BY <1>0, <1>9, <2>3 DEF Serving, Send, Deserted, SessionTypeOK
    <3>2. InStepNow(c)
      BY <1>1, <1>9, <3>1 DEF SenderStage, InTouch, Over
    <3>3. Len(requests[c]) + InHand(c) + Len(replies[c]) = split[c] + 0
      BY <1>1, <3>2 DEF InStepNow, Awaiting
    <3>4. InStepNow(c)'
      <4>1. Len(requests'[c]) = Len(requests[c]) + Len(sent)
        BY <1>2, <1>3, <3>1, Pushed
      <4>2. InHand(c)' = InHand(c) /\ replies'[c] = replies[c] /\ InHand(c) \in Nat
        BY <1>1 DEF InHand, vars
      <4>3. prog'[c] \in Awaiting
        BY <1>1 DEF Awaiting
      <4>4. \A a, b, d, e, l \in Nat : a + b + d = e + 0 => (a + l) + b + d = e + l
        OBVIOUS
      <4>5. Len(requests[c]) + Len(sent) + InHand(c) + Len(replies[c]) = split[c] + Len(sent)
        <5>1. Len(sent) \in Nat
          BY <1>3
        <5> QED BY <1>2, <3>3, <4>2, <4>4, <5>1
      <4> QED BY <1>4, <4>1, <4>2, <4>3, <4>5 DEF InStepNow
    <3>5. \A i \in 1..Len(requests'[c]) :
            \/ i \in 1..Len(requests[c]) /\ requests'[c][i] = requests[c][i]
            \/ \E k \in 1..Len(sent) : requests'[c][i] = sent[k]
      <4> SUFFICES ASSUME NEW i \in 1..Len(requests'[c])
                   PROVE  \/ i \in 1..Len(requests[c]) /\ requests'[c][i] = requests[c][i]
                          \/ \E k \in 1..Len(sent) : requests'[c][i] = sent[k]
        OBVIOUS
      <4>1. CASE i <= Len(requests[c])
        BY <1>2, <1>3, <3>1, <4>1, Pushed
      <4>2. CASE i > Len(requests[c])
        BY <1>2, <1>3, <3>1, <4>2, Pushed
      <4> QED BY <1>2, <4>1, <4>2
    <3>6. \A i \in 1..Len(requests'[c]) : requests'[c][i].kind # "login"
      BY <1>3, <2>1, <3>5
    <3>7. ASSUME prog'[c] = "reply", split'[c] = 0
          PROVE  /\ pc'[c] \in Serving
                 /\ \A i \in 1..Len(requests'[c]) : requests'[c][i].kind # "quit"
      <4>1. \A k \in 1..Len(sent) : sent[k].kind # "quit"
        <5>1. Len(sent) = 1 /\ line.kind # "quit"
          BY <1>1, <1>8, <3>7
        <5>2. \A k \in 1..1 : k = 1
          OBVIOUS
        <5> QED BY <1>3, <5>1, <5>2
      <4> QED BY <1>1, <1>8, <2>1, <3>5, <3>7, <4>1 DEF vars
    <3>8. ASSUME prog'[c] = "quitting", split'[c] = 0
          PROVE  pc'[c] = "request" /\ requests'[c] = <<Plain("quit")>>
      <4>1. Len(requests[c]) = 0 /\ InHand(c) = 0 /\ pc[c] \in Serving
        <5>1. \A a, b, d \in Nat : a + b + d = 0 + 0 => a = 0 /\ b = 0
          OBVIOUS
        <5>2. InHand(c) \in Nat
          BY DEF InHand
        <5>3. split[c] = 0 /\ pc[c] \in Serving
          BY <1>8, <2>1, <3>8
        <5>4. Len(requests[c]) + InHand(c) + Len(replies[c]) = 0 + 0
          BY <3>3, <5>3
        <5> QED BY <1>2, <5>1, <5>2, <5>3, <5>4
      <4>2. requests[c] = <<>> /\ pc[c] = "request"
        BY <1>2, <4>1, EmptySeq DEF InHand, Serving
      <4>3. sent = <<Plain("quit")>>
        <5>1. line.kind = "quit" /\ sent = <<line>>
          BY <1>1, <3>8 DEF AsRequest
        <5> QED BY <1>3, <5>1
      <4> QED BY <1>1, <1>3, <3>1, <4>2, <4>3 DEF vars
    <3>9. pc'[c] \in Serving \cup {"quit"}
      BY <1>1, <2>3 DEF vars
    <3> QED BY <1>1, <3>4, <3>6, <3>7, <3>8, <3>9 DEF SenderStage
  <2> QED BY <2>1, <2>2, <2>3
<1>10. alive' = alive
  BY <1>1 DEF alive, vars
<1> QED BY <1>5, <1>7, <1>9, <1>10 DEF ClientInv

\* The programs that take a reply.
LEMMA TakesKeeps ==
  ASSUME IInv, SessionTypeOK, NEW c \in Clients, ClientInv(c),
         Greeted(c) \/ Joined(c) \/ TakeReply(c)
  PROVE  ClientInv(c)'
<1> USE Facts
<1>1. /\ replies[c] # <<>> /\ Takes(c) /\ server' = server /\ counts' = counts
      /\ prog[c] \in {"greeting", "joining", "reply", "quitting"}
  BY DEF Greeted, Joined, TakeReply, Takes, Goes
<1>2. StartInv(c) /\ replies[c] \in Seq(Sent) /\ Len(replies[c]) \in Nat \ {0}
  BY <1>1, Popped DEF ClientInv, SessionTypeOK
<1>3. CASE prog'[c] \in Over
  <2>1. HangsUp(c, Tail(replies[c])) /\ prog'[c] = "exited"
    BY <1>1, <1>3 DEF Takes, Greeted, Joined, TakeReply, Goes, UnlessErr, Over, SessionTypeOK
  <2>2. ASSUME alive, split[c] = 0, c \in Senders PROVE Released(c)
    <3>1. SenderStage(c) /\ InStepNow(c)
      BY <1>1, <2>2 DEF ClientInv, SenderStage, InTouch, Over
    <3>2. CASE prog[c] = "quitting"
      <4>1. \/ pc[c] = "request" /\ requests[c] = <<Plain("quit")>>
            \/ pc[c] = "quit" \/ Released(c)
        BY <2>2, <3>1, <3>2 DEF SenderStage
      <4>2. Len(requests[c]) + InHand(c) + Len(replies[c]) = 0 + 1
        BY <2>2, <3>1, <3>2 DEF InStepNow, Awaiting
      <4>3. \A a, b, d \in Nat : a + b + d = 0 + 1 /\ d # 0 => a = 0 /\ b = 0
        OBVIOUS
      <4>4. Len(requests[c]) = 0 /\ InHand(c) = 0
        <5>1. Len(requests[c]) \in Nat /\ InHand(c) \in Nat /\ Len(replies[c]) \in Nat
              /\ Len(replies[c]) # 0
          BY <1>2, LenProperties DEF InHand, SessionTypeOK
        <5> QED BY <4>2, <4>3, <5>1
      <4>5. pc[c] # "quit" /\ requests[c] # <<Plain("quit")>>
        BY <4>4 DEF InHand
      <4> QED BY <4>1, <4>5
    <3>3. CASE prog[c] = "greeting"
      <4>1. Head(replies[c]).tag = "ok"
        BY <1>1, <3>1, <3>3, Words DEF SenderStage, LoggingIn, Ok
      <4> QED BY <1>1, <1>3, <3>3, <4>1 DEF Greeted, Joined, TakeReply, Goes, UnlessErr, Over,
                                           SessionTypeOK
    <3>4. prog[c] \notin {"joining", "reply"}
      BY <1>2, <1>3, <2>2 DEF StartInv, Greeted, Joined, TakeReply, Goes, Over, SessionTypeOK
    <3> QED BY <1>1, <3>2, <3>3, <3>4
  <2> QED BY <1>1, <1>2, <2>1, <2>2, EndKeeps DEF Over, StartInv, counts
<1>4. CASE prog'[c] \notin Over
  <2>1. /\ replies'[c] = Tail(replies[c]) /\ vars' = vars /\ requests' = requests
    BY <1>1, <1>4 DEF Takes, SessionTypeOK
  <2>2. alive' = alive
    BY <1>1, <2>1 DEF alive, vars
  <2>3. \/ prog[c] = "greeting" /\ prog'[c] = (IF c \in Senders THEN "prompt" ELSE "join")
        \/ prog[c] = "joining" /\ prog'[c] = "listen"
        \/ prog[c] = "reply" /\ prog'[c] = "prompt"
    BY <1>4 DEF Greeted, Joined, TakeReply, Goes, UnlessErr, Over, SessionTypeOK
  <2>4. StartInv(c)'
    BY <1>1, <1>2, <2>1, <2>3 DEF StartInv, vars, counts, Over
  <2>5. Len(Tail(replies[c])) = Len(replies[c]) - 1
    BY <1>1, <1>2, Popped
  <2>6. ASSUME alive, c \in Senders PROVE SenderStage(c)'
    <3>1. SenderStage(c) /\ prog[c] \in {"greeting", "reply"} /\ prog'[c] = "prompt"
      BY <1>1, <1>2, <2>3, <2>6 DEF ClientInv, StartInv
    <3>2. ASSUME InTouch(c)' PROVE InStepNow(c)'
      <4>0. InStepNow(c)
        BY <1>1, <2>1, <3>1, <3>2 DEF SenderStage, InTouch, Over, vars, counts
      <4>1. Len(requests[c]) + InHand(c) + Len(replies[c]) = split[c] + 1
        BY <3>1, <4>0 DEF InStepNow, Awaiting
      <4>2. \A a, b, d, n \in Nat : a + b + d = n + 1 => a + b + (d - 1) = n + 0
        OBVIOUS
      <4>3. Len(requests[c]) \in Nat /\ InHand(c) \in Nat /\ Len(replies[c]) \in Nat /\ split[c] \in Nat
        BY <1>2, LenProperties DEF InHand, SessionTypeOK
      <4>4. Len(requests[c]) + InHand(c) + (Len(replies[c]) - 1) = split[c] + 0
        <5> DEFINE asked == Len(requests[c])
                   hand  == InHand(c)
                   owed  == Len(replies[c])
                   cut   == split[c]
        <5>1. /\ asked \in Nat /\ hand \in Nat /\ owed \in Nat /\ cut \in Nat
              /\ asked + hand + owed = cut + 1
          BY <4>1, <4>3
        <5> HIDE DEF asked, hand, owed, cut
        <5>2. asked + hand + (owed - 1) = cut + 0
          BY <4>2, <5>1
        <5> QED BY <5>2 DEF asked, hand, owed, cut
      <4>5. InHand(c)' = InHand(c)
        BY <2>1 DEF InHand, vars
      <4>6. Len(replies'[c]) = Len(replies[c]) - 1 /\ requests'[c] = requests[c] /\ split'[c] = split[c]
        BY <1>1, <2>1, <2>5 DEF counts
      <4> QED BY <3>1, <4>4, <4>5, <4>6 DEF InStepNow, Awaiting
    <3>3. /\ pc[c] \in Serving \cup {"quit"} \/ (Released(c) /\ requests[c] = <<>>)
          /\ \A i \in 1..Len(requests[c]) : requests[c][i].kind # "login"
          /\ split[c] = 0 => /\ pc[c] \in Serving
                             /\ \A i \in 1..Len(requests[c]) : requests[c][i].kind # "quit"
      <4>1. CASE prog[c] = "greeting"
        <5>1. LoggingIn(c, "request")
          BY <3>1, <4>1 DEF SenderStage
        <5>2. pc[c] = "request" /\ requests[c] = <<>>
          BY <1>1, <5>1 DEF LoggingIn
        <5> QED BY <5>2 DEF Serving
      <4>2. CASE prog[c] = "reply"
        BY <3>1, <4>2 DEF SenderStage
      <4> QED BY <3>1, <4>1, <4>2
    <3>4. Released(c) => Released(c)'
      BY <2>1 DEF Released, vars
    <3> QED BY <1>1, <2>1, <3>1, <3>2, <3>3, <3>4 DEF SenderStage, vars, counts
  <2>7. ASSUME alive, c \in Receivers PROVE ReceiverStage(c)'
    <3>1. ReceiverStage(c)
      BY <2>7 DEF ClientInv
    <3>2. CASE prog[c] = "greeting" /\ prog'[c] = "join"
      <4>1. Tail(Ok) = <<>>
        BY DEF Ok
      <4>2. pc[c] = "join" /\ requests[c] = <<>> /\ replies'[c] = <<>>
        BY <1>1, <2>1, <3>1, <3>2, <4>1 DEF ReceiverStage, LoggingIn
      <4> QED BY <2>1, <3>2, <4>2 DEF ReceiverStage, Silence, vars
    <3>3. CASE prog[c] = "joining" /\ prog'[c] = "listen"
      <4>1. pc[c] \in {"loop", "deliver"} /\ requests[c] = <<>> /\ Deliveries(Tail(replies[c]))
        BY <1>1, <3>1, <3>3 DEF ReceiverStage, Silence
      <4> QED BY <2>1, <3>3, <4>1 DEF ReceiverStage, vars
    <3>4. c \notin Senders /\ prog[c] # "reply"
      BY <1>2, <2>7 DEF StartInv
    <3> QED BY <2>3, <3>2, <3>3, <3>4
  <2> QED BY <2>2, <2>4, <2>6, <2>7 DEF ClientInv
<1> QED BY <1>3, <1>4

\* And a receiver that listens.
LEMMA ListenKeeps ==
  ASSUME SessionTypeOK, NEW c \in Clients, ClientInv(c), Listen(c)
  PROVE  ClientInv(c)'
<1>1. /\ prog[c] = "listen" /\ replies[c] # <<>> /\ replies'[c] = Tail(replies[c])
      /\ vars' = vars /\ server' = server /\ prog' = prog /\ requests' = requests
      /\ counts' = counts
  BY DEF Listen, SessionTypeOK
<1>2. StartInv(c)'
  BY <1>1 DEF ClientInv, StartInv, vars, counts
<1>3. alive' = alive /\ ~(c \in Senders)
  BY <1>1 DEF alive, vars, ClientInv, StartInv
<1>4. ASSUME ReceiverStage(c) PROVE ReceiverStage(c)'
  <2>1. pc[c] \in {"loop", "deliver"} /\ requests[c] = <<>> /\ Deliveries(replies[c])
    BY <1>1, <1>4 DEF ReceiverStage
  <2>2. Deliveries(Tail(replies[c]))
    <3>1. \A i \in 1..Len(Tail(replies[c])) :
            Tail(replies[c])[i] = replies[c][i + 1] /\ i + 1 \in 1..Len(replies[c])
      BY <1>1, Popped DEF SessionTypeOK
    <3> QED BY <2>1, <3>1 DEF Deliveries
  <2> QED BY <1>1, <2>1, <2>2 DEF ReceiverStage, vars
<1> QED BY <1>2, <1>3, <1>4 DEF ClientInv

\* And a program that gets nothing any more.
LEMMA FailsKeeps ==
  ASSUME IInv, SessionTypeOK, NEW c \in Clients, ClientInv(c), ReceiveFails(c)
  PROVE  ClientInv(c)'
<1> USE Facts
<1>1. /\ Deserted(c) /\ replies[c] = <<>> /\ server' = server /\ counts' = counts
      /\ \/ /\ c \in Senders
            /\ \/ prog[c] = "greeting" /\ prog'[c] \in {"prompt", "exited"}
               \/ prog[c] = "reply" /\ prog'[c] = "prompt"
               \/ prog[c] = "quitting" /\ prog'[c] = "exited"
         \/ /\ c \notin Senders
            /\ \/ prog[c] \in {"greeting", "joining", "listen"} /\ prog'[c] = "exited"
               \/ prog[c] = "greeting" /\ prog'[c] = "join"
               \/ prog[c] = "joining" /\ prog'[c] = "listen"
  BY DEF ReceiveFails, Goes, SessionTypeOK
<1>2. StartInv(c)
  BY DEF ClientInv
\* With the server there, its worker has quit.
<1>3. ASSUME alive
      PROVE  /\ c \in Senders /\ SenderStage(c) /\ pc[c] = "ended"
             /\ prog[c] \in {"reply", "quitting"}
  <2>1. pc[c] = "ended"
    BY <1>1, <1>3 DEF Deserted
  <2>2. c \in Receivers => ReceiverStage(c)
    BY <1>3 DEF ClientInv
  <2>3. c \in Senders
    BY <1>1, <2>1, <2>2 DEF ReceiverStage, LoggingIn, Unserved
  <2>4. SenderStage(c)
    BY <1>3, <2>3 DEF ClientInv
  <2>5. prog[c] # "greeting"
    BY <2>1, <2>4 DEF SenderStage, LoggingIn, Unserved
  <2> QED BY <1>1, <2>1, <2>3, <2>4, <2>5
<1>4. CASE prog'[c] = "exited"
  <2>1. HangsUp(c, <<>>)
    BY <1>4 DEF ReceiveFails, Over
  <2>2. ASSUME alive, split'[c] = 0 PROVE Released(c)
    <3>1. prog[c] = "quitting" /\ split[c] = 0
      BY <1>1, <1>3, <1>4, <2>2 DEF counts
    <3> QED BY <1>3, <2>2, <3>1 DEF SenderStage
  <2> QED BY <1>1, <1>2, <1>4, <2>1, <2>2, EndKeeps DEF Over, StartInv, counts
<1>5. CASE prog'[c] # "exited"
  <2>1. vars' = vars /\ requests' = requests /\ replies' = replies
        /\ prog'[c] \in {"prompt", "join", "listen"}
    BY <1>1, <1>5 DEF ReceiveFails, Over
  <2>2. StartInv(c)'
    BY <1>1, <1>2, <2>1 DEF StartInv, vars, counts, Over
  <2>3. alive' = alive
    BY <1>1, <2>1 DEF alive, vars
  <2>4. ASSUME alive PROVE SenderStage(c)'
    <3>1. prog[c] = "reply" /\ prog'[c] = "prompt"
      BY <1>1, <1>3, <1>5, <2>4
    <3>2. split[c] # 0 /\ Released(c) /\ requests[c] = <<>>
      BY <1>3, <2>4, <3>1 DEF SenderStage, Serving
    <3> QED BY <1>1, <1>3, <2>1, <2>4, <3>1, <3>2 DEF SenderStage, InTouch, Released, vars, counts
  <2> QED BY <1>3, <2>2, <2>3, <2>4 DEF ClientInv
<1> QED BY <1>4, <1>5

\* And one that ends.
LEMMA EndsKeep ==
  ASSUME IInv, SessionTypeOK, NEW c \in Clients, ClientInv(c), TypeNothing(c) \/ Killed(c)
  PROVE  ClientInv(c)'
<1>1. /\ HangsUp(c, replies[c]) /\ prog'[c] \in {"aborted", "killed"} /\ server' = server
      /\ prog[c] \notin {"connect", "refused"} /\ StartInv(c)
      /\ typed'[c] \in {typed[c], typed[c] + 1} /\ said' = said /\ split' = split
  BY DEF TypeNothing, Typing, Killed, Goes, Over, counts, ClientInv, SessionTypeOK
<1>2. said'[c] <= typed'[c] /\ split'[c] <= typed'[c]
  BY <1>1 DEF StartInv, SessionTypeOK
<1> QED BY <1>1, <1>2, EndKeeps DEF Over

\* And so every step of its own.
LEMMA ProgramKeeps ==
  ASSUME IInv, SessionTypeOK, NEW c \in Clients, ClientInv(c),
         Program(c) \/ User(c) \/ Connect(c)
  PROVE  ClientInv(c)'
<1>1. CASE Program(c)
  BY <1>1, AsksKeeps, TakesKeeps, ListenKeeps, FailsKeeps DEF Program
<1>2. CASE User(c)
  BY <1>2, TypeKeeps, EndsKeep DEF User
<1> QED BY <1>1, <1>2, ConnectKeeps

-----------------------------------------------------------------------------
(***************************************************************************)
(* The server.                                                             *)
(***************************************************************************)
LEMMA ServerStartsKeeps ==
  ASSUME SessionIInv, ServerStarts
  PROVE  SessionIInv'
<1>1. SessionTypeOK'
  BY DEF ServerStarts, SessionIInv, SessionTypeOK, counts
<1>2. ASSUME NEW d \in Clients PROVE ClientInv(d)'
  <2>1. /\ prog[d] \in {"connect", "refused"} /\ prog' = prog /\ server' # "starting"
        /\ StartInv(d)
    BY DEF ServerStarts, SessionIInv, ClientInv, StartInv
  <2>2. StartInv(d)'
    BY <2>1 DEF ServerStarts, StartInv, Silence, vars, counts
  <2>3. SenderStage(d)' /\ ReceiverStage(d)'
    BY <2>1 DEF SenderStage, InTouch, ReceiverStage, Over
  <2> QED BY <2>2, <2>3 DEF ClientInv
<1> QED BY <1>1, <1>2 DEF SessionIInv

\* And a server that dies.
LEMMA ServerDiesKeeps ==
  ASSUME SessionIInv, ServerDies
  PROVE  SessionIInv'
<1>1. /\ up' = FALSE /\ peer' = peer /\ pc' = pc /\ server' = server /\ prog' = prog
      /\ requests' = [c \in Clients |-> <<>>]
      /\ \A c \in Clients : replies'[c] \in {<<>>, replies[c]}
      /\ printed' = printed /\ wide' = wide /\ counts' = counts
  BY DEF ServerDies, AcceptFails, UndefinedAbort
<1>2. SessionTypeOK'
  <2>1. requests' \in [Clients -> Seq(Asked)]
    BY <1>1
  <2>2. replies' \in [Clients -> Seq(Sent)]
    BY DEF ServerDies, SessionIInv, SessionTypeOK
  <2> QED BY <1>1, <2>1, <2>2 DEF SessionIInv, SessionTypeOK, counts
<1>3. ASSUME NEW d \in Clients PROVE ClientInv(d)'
  <2>1. StartInv(d)
    BY DEF SessionIInv, ClientInv
  <2>2. StartInv(d)'
    BY <1>1, <2>1 DEF StartInv, Silence, counts
  <2>3. ~alive'
    BY <1>1 DEF alive
  <2> QED BY <2>2, <2>3 DEF ClientInv
<1> QED BY <1>2, <1>3 DEF SessionIInv

-----------------------------------------------------------------------------
\* At first nothing is connected.
LEMMA InitSessionIInv == SessionInit => SessionIInv
<1> SUFFICES ASSUME SessionInit PROVE SessionIInv
  OBVIOUS
<1> USE Facts
<1>1. SessionTypeOK
  BY DEF SessionInit, SessionTypeOK
<1>2. ASSUME NEW c \in Clients PROVE ClientInv(c)
  BY DEF SessionInit, Init, ClientInv, StartInv, Silence, Unserved, Over, alive
<1> QED BY <1>1, <1>2 DEF SessionIInv

\* Every step keeps the invariant.
LEMMA SessionPreserves ==
  ASSUME IInv, IInv', SessionIInv, [SessionNext]_svars
  PROVE  SessionIInv'
<1>1. CASE ServerStarts BY <1>1, ServerStartsKeeps
<1>2. CASE ServerDies BY <1>2, ServerDiesKeeps
<1>3. ASSUME NEW c \in Clients, Program(c) \/ User(c) \/ Connect(c)
      PROVE  SessionIInv'
  <2>1. SessionTypeOK'
    BY <1>3, ProgramTypes DEF SessionIInv, ClientInv
  <2>2. \A d \in Clients : ClientInv(d)'
    BY <1>3, ProgramKeeps, ProgramUntouches DEF SessionIInv
  <2> QED BY <2>1, <2>2 DEF SessionIInv
<1>4. ASSUME NEW c \in Clients, Accepts(c)
      PROVE  SessionIInv'
  <2>1. SessionTypeOK'
    BY <1>4 DEF Accepts, SessionIInv, SessionTypeOK, counts
  <2>2. \A d \in Clients : ClientInv(d)'
    BY <1>4, AcceptKeeps, AcceptUntouches DEF SessionIInv
  <2> QED BY <2>1, <2>2 DEF SessionIInv
<1>5. ASSUME NEW c \in Clients, Worker(c)
      PROVE  SessionIInv'
  <2>1. SessionTypeOK'
    BY <1>5, WorkerTypes DEF SessionIInv
  <2>2. \A d \in Clients : ClientInv(d)'
    BY <1>5, WorkerKeeps, WorkerUntouches DEF SessionIInv
  <2> QED BY <2>1, <2>2 DEF SessionIInv
<1>6. CASE UNCHANGED svars
  <2>1. SessionTypeOK'
    BY <1>6 DEF svars, SessionIInv, SessionTypeOK, counts
  <2>2. ASSUME NEW d \in Clients PROVE ClientInv(d)'
    <3>1. Frame(d) /\ server' = server /\ up' = up
      BY <1>6 DEF svars, counts, vars, Frame
    <3> QED BY <3>1, Untouched DEF SessionIInv
  <2> QED BY <2>1, <2>2 DEF SessionIInv
<1> QED BY <1>1, <1>2, <1>3, <1>4, <1>5, <1>6 DEF SessionNext

\* The invariant says that program and worker are in step.
LEMMA IInvInStep == SessionIInv => InStep
<1> SUFFICES ASSUME SessionIInv PROVE InStep
  OBVIOUS
<1> USE Facts
<1>1. LockStep
  BY DEF LockStep, SessionIInv, ClientInv, SenderStage
<1>2. Handshake
  <2> SUFFICES ASSUME NEW c \in Receivers, alive
               PROVE  /\ prog[c] \in {"greeting", "joining"} /\ replies[c] # <<>>
                            => Head(replies[c]).tag = "ok"
                      /\ prog[c] = "join" => replies[c] = <<>>
                      /\ prog[c] = "listen" => Deliveries(replies[c])
    BY DEF Handshake
  <2>1. ReceiverStage(c)
    BY DEF SessionIInv, ClientInv
  <2>2. Head(Ok) = Tagged("ok") /\ Tagged("ok").tag = "ok"
    BY Words DEF Ok
  <2>3. prog[c] = "greeting" /\ replies[c] # <<>> => Head(replies[c]).tag = "ok"
    BY <2>1, <2>2 DEF ReceiverStage, LoggingIn
  <2>4. prog[c] = "joining" /\ replies[c] # <<>> => Head(replies[c]).tag = "ok"
    BY <2>1, <2>2 DEF ReceiverStage, Silence
  <2> QED BY <2>1, <2>3, <2>4 DEF ReceiverStage, Silence
<1>3. QuitHandled
  BY DEF QuitHandled, SessionIInv, ClientInv, SenderStage
<1> QED BY <1>1, <1>2, <1>3 DEF SessionIInv, InStep

\* However many clients there are and whatever they type, whether they or the
\* server are killed, every program and its worker stay in step: a sender is
\* behind its replies by one for each line that was cut and for nothing else, and
\* no receiver takes a delivery for its reply (sender.cpp:55-108 with
\* server.cpp:78-148, receiver.cpp:31-94 with server.cpp:157-186).
THEOREM SessionInStep == SessionSpec => []InStep
<1>1. SessionInit => IInv /\ SessionIInv
  BY InitIInv, InitSessionIInv DEF SessionInit
<1>2. IInv /\ SessionIInv /\ [SessionNext]_svars => (IInv /\ SessionIInv)'
  BY SessionStep, NextPreserves, SessionPreserves
<1>3. SessionIInv => InStep
  BY IInvInStep
<1> QED BY <1>1, <1>2, <1>3, PTL DEF SessionSpec

-----------------------------------------------------------------------------
(***************************************************************************)
(* Texts are counted.                                                      *)
(***************************************************************************)
LEMMA TextsCounted ==
  ASSUME NEW s \in Seq(Asked)
  PROVE  /\ TextsIn(s) \subseteq 1..Len(s) /\ IsFiniteSet(TextsIn(s))
         /\ Cardinality(TextsIn(s)) \in Nat
<1>1. TextsIn(s) \subseteq 1..Len(s)
  BY DEF TextsIn
<1>2. IsFiniteSet(1..Len(s))
  BY FS_Interval, LenProperties
<1>3. IsFiniteSet(TextsIn(s))
  BY <1>1, <1>2, FS_Subset
<1>4. Cardinality(TextsIn(s)) \in Nat
  BY <1>3, FS_CardinalityType
<1> QED BY <1>1, <1>3, <1>4

\* A line that is read takes its text with it.
LEMMA TextsRead ==
  ASSUME NEW s \in Seq(Asked), s # <<>>
  PROVE  Cardinality(TextsIn(Tail(s))) + (IF Head(s).kind \in Texts THEN 1 ELSE 0)
           <= Cardinality(TextsIn(s))
<1>1. /\ Len(s) \in Nat \ {0} /\ Head(s) = s[1] /\ Tail(s) \in Seq(Asked)
      /\ Len(Tail(s)) = Len(s) - 1 /\ \A i \in 1..Len(Tail(s)) : Tail(s)[i] = s[i + 1]
  BY Popped
<1> DEFINE later == TextsIn(s) \ {1}
<1>2. /\ IsFiniteSet(later) /\ Cardinality(later) \in Nat /\ Cardinality(TextsIn(s)) \in Nat
      /\ Cardinality(later) + (IF 1 \in TextsIn(s) THEN 1 ELSE 0) = Cardinality(TextsIn(s))
  <2>1. IsFiniteSet(TextsIn(s)) /\ Cardinality(TextsIn(s)) \in Nat
    BY TextsCounted
  <2>2. IsFiniteSet(later)
    BY <2>1, FS_RemoveElement
  <2>3. Cardinality(later) \in Nat
    BY <2>2, FS_CardinalityType
  <2>4. Cardinality(later)
          = IF 1 \in TextsIn(s) THEN Cardinality(TextsIn(s)) - 1 ELSE Cardinality(TextsIn(s))
    BY <2>1, FS_RemoveElement
  <2> QED BY <2>1, <2>2, <2>3, <2>4
<1>3. 1 \in TextsIn(s) <=> Head(s).kind \in Texts
  BY <1>1 DEF TextsIn
<1>4. Cardinality(TextsIn(Tail(s))) <= Cardinality(later)
  <2> DEFINE shift == [i \in TextsIn(Tail(s)) |-> i + 1]
  <2>1. \A i \in TextsIn(Tail(s)) : i \in Nat /\ i + 1 \in later
    BY <1>1 DEF TextsIn
  <2>2. shift \in [TextsIn(Tail(s)) -> later]
    BY <2>1
  <2>3. \A i, j \in TextsIn(Tail(s)) : shift[i] = shift[j] => i = j
    BY <2>1
  <2>4. shift \in Injection(TextsIn(Tail(s)), later)
    BY <2>2, <2>3 DEF Injection, IsInjective
  <2> HIDE DEF shift, later
  <2> QED BY <1>2, <2>4, FS_Injection
<1>5. Cardinality(TextsIn(Tail(s))) \in Nat
  BY <1>1, TextsCounted
<1> HIDE DEF later
<1> QED BY <1>2, <1>3, <1>4, <1>5

\* Lines that are sent bring at most one each, and none that is no text.
LEMMA TextsSent ==
  ASSUME NEW s \in Seq(Asked), NEW t \in Seq(Asked)
  PROVE  /\ Cardinality(TextsIn(s \o t)) <= Cardinality(TextsIn(s)) + Len(t)
         /\ (\A i \in 1..Len(t) : t[i].kind \notin Texts)
              => Cardinality(TextsIn(s \o t)) <= Cardinality(TextsIn(s))
<1>1. /\ s \o t \in Seq(Asked) /\ Len(s) \in Nat /\ Len(t) \in Nat
      /\ Len(s \o t) = Len(s) + Len(t) /\ \A i \in 1..Len(s) : (s \o t)[i] = s[i]
      /\ \A i \in (Len(s) + 1)..Len(s \o t) : (s \o t)[i] = t[i - Len(s)]
  BY Pushed
<1>2. /\ IsFiniteSet(TextsIn(s)) /\ Cardinality(TextsIn(s)) \in Nat
      /\ IsFiniteSet(TextsIn(s \o t)) /\ Cardinality(TextsIn(s \o t)) \in Nat
  BY <1>1, TextsCounted
<1>3. PICK n \in Nat, l \in Nat : n = Len(s) /\ l = Len(t)
  BY <1>1
<1> DEFINE later == (n + 1)..(n + l)
<1>4. ASSUME NEW i \in TextsIn(s \o t), i \notin TextsIn(s)
      PROVE  i \in later /\ i - n \in 1..l /\ t[i - n].kind \in Texts
  <2>1. i \in 1..(n + l) /\ (s \o t)[i].kind \in Texts
    BY <1>1, <1>3, <1>4 DEF TextsIn
  <2>2. ~(i <= n)
    BY <1>1, <1>3, <1>4, <2>1 DEF TextsIn
  <2>3. i \in later /\ i - n \in 1..l
    BY <1>3, <2>1, <2>2
  <2>4. (s \o t)[i] = t[i - n]
    BY <1>1, <1>3, <2>3
  <2> QED BY <2>1, <2>3, <2>4
<1>5. IsFiniteSet(later) /\ Cardinality(later) = l
  <2>1. n + 1 \in Int /\ n + l \in Int
    BY <1>3
  <2>2. IsFiniteSet(later)
        /\ Cardinality(later) = IF n + 1 > n + l THEN 0 ELSE (n + l) - (n + 1) + 1
    BY <2>1, FS_Interval
  <2> HIDE DEF later
  <2> QED BY <1>3, <2>2
<1>6. Cardinality(TextsIn(s \o t)) <= Cardinality(TextsIn(s)) + l
  <2> DEFINE both == TextsIn(s) \cup later
  <2>1. TextsIn(s \o t) \subseteq both
    BY <1>4
  <2> HIDE DEF later
  <2>2. /\ IsFiniteSet(both)
        /\ Cardinality(both)
             = Cardinality(TextsIn(s)) + Cardinality(later) - Cardinality(TextsIn(s) \cap later)
    BY <1>2, <1>5, FS_Union
  <2>3. Cardinality(TextsIn(s) \cap later) \in Nat
    <3>1. IsFiniteSet(TextsIn(s) \cap later)
      BY <1>2, FS_Subset
    <3> QED BY <3>1, FS_CardinalityType
  <2>4. Cardinality(TextsIn(s \o t)) <= Cardinality(both)
    BY <2>1, <2>2, FS_Subset
  <2> QED BY <1>2, <1>3, <1>5, <2>2, <2>3, <2>4
<1>7. ASSUME \A i \in 1..Len(t) : t[i].kind \notin Texts
      PROVE  Cardinality(TextsIn(s \o t)) <= Cardinality(TextsIn(s))
  <2>1. TextsIn(s \o t) \subseteq TextsIn(s)
    BY <1>3, <1>4, <1>7
  <2> QED BY <1>2, <2>1, FS_Subset
<1> QED BY <1>3, <1>6, <1>7

\* None is left.
LEMMA TextsGone == TextsIn(<<>>) = {} /\ Cardinality(TextsIn(<<>>)) = 0
<1>1. TextsIn(<<>>) = {}
  BY DEF TextsIn
<1> QED BY <1>1, FS_EmptySet

-----------------------------------------------------------------------------
(***************************************************************************)
(* A step of one client, for what HeardIInv says of another.               *)
(***************************************************************************)
Still(d) ==
  /\ prog'[d] = prog[d] /\ requests'[d] = requests[d] /\ replies'[d] = replies[d]
  /\ printed'[d] = printed[d] /\ said'[d] = said[d] /\ split'[d] = split[d]
  /\ pc'[d] = pc[d] /\ peer'[d] = peer[d] /\ texts'[d] = texts[d] /\ inbox'[d] = inbox[d]

\* A worker leaves the lines of other clients alone.
LEMMA WorkerElsewhere ==
  ASSUME IInv, SessionTypeOK, NEW c \in Clients, Worker(c), NEW d \in Clients, d # c
  PROVE  Still(d) /\ server' = server /\ up' = up
<1>1. up' = up /\ pc'[d] = pc[d] /\ peer'[d] = peer[d]
  BY WorkerStep, WorkerFrame
<1>2. texts'[d] = texts[d] /\ inbox'[d] = inbox[d]
  <2> USE DEF IInv, TypeOK, ConnTypeOK, ChatTypeOK, chat, input
  <2>1. CASE Request(c)
    BY <2>1 DEF Request, LoginSender, LoginReceiver, LoginAs, LoginRejected, JoinRequest,
       SendAllRequest, LeaveRequest, QuitRequest, InvalidRequest, ReceiverJoin, ReceiverNoJoin
  <2>2. CASE Handler(c)
    BY <2>2 DEF Handler, DeleteUser, Find, AddMember, Broadcast, LeaveRoom, Quit, Dequeue,
       DeliverOk, DeliverFails, RemoveSelf
  <2> QED BY <2>1, <2>2, WorkerStep
<1>3. requests'[d] = requests[d] /\ replies'[d] = replies[d]
  <2>1. CASE Serves(c)
    BY <2>1 DEF Serves, WorkerLogin, ServeJoin, ServeText, ServeLeave, ServeQuit, ServeOther,
       Reads, ReadsNothing, ReadsResidue, Says, SessionTypeOK
  <2>2. CASE Works(c)
    BY <2>2 DEF Works, CarriesOut, WorkerQuits, Delivers, Silent, Says, SessionTypeOK
  <2> QED BY <2>1, <2>2 DEF Worker
<1> QED BY <1>1, <1>2, <1>3 DEF Still, Worker, counts

\* So does a program.
LEMMA ProgramElsewhere ==
  ASSUME IInv, SessionTypeOK, NEW c \in Clients, Program(c) \/ User(c) \/ Connect(c),
         NEW d \in Clients, d # c
  PROVE  Still(d) /\ server' = server /\ up' = up
<1>1. up' = up /\ pc' = pc /\ peer'[d] = peer[d] /\ texts' = texts /\ inbox' = inbox
  BY ProgramStep, ClientFrame DEF Client, ClientCloses, ClientResets, Leaves, vars, chat, input
<1>2. /\ prog'[d] = prog[d] /\ requests'[d] = requests[d] /\ replies'[d] = replies[d]
      /\ printed'[d] = printed[d] /\ said'[d] = said[d] /\ split'[d] = split[d]
      /\ server' = server
  <2> USE DEF Goes, Asks, Send, Takes, HangsUp, counts, SessionTypeOK
  <2>1. CASE Connect(c)
    BY <2>1 DEF Connect
  <2>2. CASE Program(c)
    BY <2>2 DEF Program, Login, Join, Greeted, Joined, TakeReply, Listen, ReceiveFails
  <2>3. CASE User(c)
    BY <2>3 DEF User, Type, Typing, TypeNothing, Killed
  <2> QED BY <2>1, <2>2, <2>3
<1> QED BY <1>1, <1>2 DEF Still

\* So does an accept.
LEMMA AcceptElsewhere ==
  ASSUME IInv, SessionTypeOK, NEW c \in Clients, Accepts(c), NEW d \in Clients, d # c
  PROVE  Still(d) /\ server' = server /\ up' = up
BY DEF Accepts, Accept, Still, Goto, counts, chat, input, IInv, TypeOK, ConnTypeOK, PcTypeOK

-----------------------------------------------------------------------------
(***************************************************************************)
(* OnlyTyped.                                                              *)
(***************************************************************************)
\* What c's worker reads and counts.
LEMMA WorkerTexts ==
  ASSUME IInv, SessionTypeOK, NEW c \in Clients, Worker(c)
  PROVE  \/ /\ texts'[c] = texts[c] /\ (peer[c] = "gone" => peer'[c] = "gone")
            /\ \/ requests'[c] \in {requests[c], <<>>}
               \/ requests[c] # <<>> /\ requests'[c] = Tail(requests[c])
         \/ /\ texts'[c] = texts[c] + 1 /\ (peer[c] = "gone" => peer'[c] = "gone")
            /\ requests[c] # <<>> /\ requests'[c] = Tail(requests[c])
            /\ Head(requests[c]).kind \in Texts
         \/ /\ texts'[c] = texts[c] + 1 /\ peer[c] = "reset" /\ peer'[c] = "gone"
            /\ requests[c] = <<>> /\ requests'[c] = <<>>
<1> USE DEF IInv, TypeOK, ConnTypeOK, SessionTypeOK
<1>1. peer[c] = "gone" => peer'[c] = "gone"
  <2> USE DEF Reply, SendOk, SendFails, conn
  <2>1. CASE Request(c)
    BY <2>1 DEF Request, LoginSender, LoginReceiver, LoginAs, LoginRejected, JoinRequest,
       SendAllRequest, LeaveRequest, QuitRequest, InvalidRequest, ReceiverJoin, ReceiverNoJoin,
       ReadsLine, GetsLine, RepliesToLine, RepliesToCommand, GetsResidue, GetsGarbage, GetsCommand,
       GetsEof
  <2>2. CASE Handler(c)
    BY <2>2 DEF Handler, DeleteUser, Find, AddMember, Broadcast, LeaveRoom, Quit, Dequeue,
       DeliverOk, DeliverFails, RemoveSelf
  <2> QED BY <2>1, <2>2, WorkerStep
<1>2. CASE ServeText(c)
  <2>1. texts'[c] = texts[c] + 1
    BY <1>2 DEF ServeText, SendAllRequest
  <2>2. CASE \E cut \in BOOLEAN : Reads(c, IF cut THEN {"wide", "long"} ELSE {"text"})
    BY <1>1, <2>1, <2>2 DEF Reads, Texts
  <2>3. CASE ReadsResidue(c)
    BY <2>1, <2>3 DEF ReadsResidue, ReadsNothing
  <2> QED BY <1>2, <2>2, <2>3 DEF ServeText
<1>3. CASE ~ServeText(c)
  <2>1. \/ requests'[c] \in {requests[c], <<>>}
        \/ requests[c] # <<>> /\ requests'[c] = Tail(requests[c])
    BY <1>3 DEF Worker, Serves, Works, WorkerLogin, ServeJoin, ServeLeave, ServeQuit, ServeOther,
       Reads, ReadsNothing, ReadsResidue, CarriesOut, WorkerQuits, Delivers, Silent
  <2>2. texts'[c] = texts[c]
    <3>1. CASE Serves(c)
      BY <1>3, <3>1 DEF Serves, WorkerLogin, ServeJoin, ServeLeave, ServeQuit, ServeOther,
         LoginSender, LoginReceiver, LoginAs, LoginRejected, JoinRequest,
         LeaveRequest, QuitRequest, InvalidRequest, ReceiverJoin, ReceiverNoJoin, input
    <3>2. CASE Works(c)
      BY <3>2 DEF Works, CarriesOut, WorkerQuits, Delivers, Silent, DeleteUser, Find, AddMember,
         Broadcast, LeaveRoom, Quit, Dequeue, DeliverOk, DeliverFails, RemoveSelf, input
    <3> QED BY <3>1, <3>2 DEF Worker
  <2> QED BY <1>1, <2>1, <2>2
<1> QED BY <1>2, <1>3

\* A worker passes on no more texts than it reads.
LEMMA WorkerCounts ==
  ASSUME IInv, SessionTypeOK, NEW c \in Senders, OnlyTypedBy(c), Worker(c)
  PROVE  OnlyTypedBy(c)'
<1>1. /\ c \in Clients /\ requests[c] \in Seq(Asked)
      /\ texts[c] \in Nat /\ said[c] \in Nat /\ split[c] \in Nat
      /\ said'[c] = said[c] /\ split'[c] = split[c]
  BY Facts DEF SessionTypeOK, IInv, TypeOK, ConnTypeOK, Worker, counts
<1>2. PICK n \in Nat : n = Cardinality(TextsIn(requests[c]))
  BY <1>1, TextsCounted
<1>bound. PICK most \in Nat : most = said[c] + split[c]
  BY <1>1
<1>gone. PICK g, h \in {0, 1} : /\ g = (IF peer[c] = "gone" THEN 1 ELSE 0)
                                /\ h = (IF peer'[c] = "gone" THEN 1 ELSE 0)
  OBVIOUS
<1>3. texts[c] + n <= most + g
  BY <1>2, <1>bound, <1>gone DEF OnlyTypedBy
<1>4. ASSUME requests[c] # <<>>, requests'[c] = Tail(requests[c])
      PROVE  /\ Cardinality(TextsIn(requests'[c])) \in Nat
             /\ Cardinality(TextsIn(requests'[c]))
                  + (IF Head(requests[c]).kind \in Texts THEN 1 ELSE 0) <= n
  <2>1. Tail(requests[c]) \in Seq(Asked)
    BY <1>1, <1>4, Popped
  <2>2. Cardinality(TextsIn(Tail(requests[c]))) \in Nat
    BY <2>1, TextsCounted
  <2>3. Cardinality(TextsIn(Tail(requests[c])))
          + (IF Head(requests[c]).kind \in Texts THEN 1 ELSE 0) <= n
    BY <1>1, <1>2, <1>4, TextsRead
  <2> QED BY <1>4, <2>2, <2>3
<1> DEFINE m == Cardinality(TextsIn(requests'[c]))
<1>5. texts'[c] + m <= most + h => OnlyTypedBy(c)'
  BY <1>1, <1>bound, <1>gone DEF OnlyTypedBy
<1>6. CASE /\ texts'[c] = texts[c] /\ (peer[c] = "gone" => peer'[c] = "gone")
           /\ \/ requests'[c] \in {requests[c], <<>>}
              \/ requests[c] # <<>> /\ requests'[c] = Tail(requests[c])
  <2>1. m \in Nat /\ m <= n
    <3>1. CASE requests'[c] = requests[c]
      BY <1>2, <3>1
    <3>2. CASE requests[c] # <<>> /\ requests'[c] = Tail(requests[c])
      <4> PICK k \in Nat : k = (IF Head(requests[c]).kind \in Texts THEN 1 ELSE 0)
        OBVIOUS
      <4>1. m \in Nat /\ m + k <= n
        BY <1>4, <3>2
      <4> HIDE DEF m
      <4> QED BY <1>2, <4>1
    <3>3. CASE requests'[c] = <<>>
      <4>1. m = 0
        BY <3>3, TextsGone
      <4> HIDE DEF m
      <4> QED BY <1>2, <4>1
    <3> QED BY <1>6, <3>1, <3>2, <3>3
  <2> HIDE DEF m
  <2>2. g <= h
    BY <1>6, <1>gone
  <2>3. texts[c] + m <= most + h
    BY <1>1, <1>2, <1>bound, <1>gone, <1>3, <2>1, <2>2
  <2> QED BY <1>5, <1>6, <2>3
<1>7. CASE /\ texts'[c] = texts[c] + 1 /\ (peer[c] = "gone" => peer'[c] = "gone")
           /\ requests[c] # <<>> /\ requests'[c] = Tail(requests[c])
           /\ Head(requests[c]).kind \in Texts
  <2>1. m \in Nat /\ m + 1 <= n
    BY <1>4, <1>7
  <2> HIDE DEF m
  <2>2. g <= h
    BY <1>7, <1>gone
  <2>3. (texts[c] + 1) + m <= most + h
    BY <1>1, <1>2, <1>bound, <1>gone, <1>3, <2>1, <2>2
  <2> QED BY <1>5, <1>7, <2>3
<1>8. CASE /\ texts'[c] = texts[c] + 1 /\ peer[c] = "reset" /\ peer'[c] = "gone"
           /\ requests[c] = <<>> /\ requests'[c] = <<>>
  <2>1. m = 0 /\ n = 0
    BY <1>2, <1>8, TextsGone
  <2> HIDE DEF m
  <2>2. g = 0 /\ h = 1
    BY <1>8, <1>gone
  <2>3. (texts[c] + 1) + m <= most + h
    BY <1>1, <1>bound, <1>3, <2>1, <2>2
  <2> QED BY <1>5, <1>8, <2>3
<1> HIDE DEF m
<1> QED BY <1>1, <1>6, <1>7, <1>8, WorkerTexts

\* Requests that are as before, or lost, or more by lines that were typed or cut, or
\* are no texts.
LEMMA SentCounts ==
  ASSUME SessionTypeOK, NEW c \in Clients, OnlyTypedBy(c), texts[c] \in Nat,
         texts'[c] = texts[c], peer[c] = "gone" => peer'[c] = "gone",
         NEW sent \in Seq(Asked), NEW more \in Nat,
         said'[c] + split'[c] = (said[c] + split[c]) + more,
         \/ requests'[c] \in {requests[c], <<>>}
         \/ /\ requests'[c] = requests[c] \o sent
            /\ Len(sent) <= more \/ \A i \in 1..Len(sent) : sent[i].kind \notin Texts
  PROVE  OnlyTypedBy(c)'
<1>1. requests[c] \in Seq(Asked) /\ said[c] \in Nat /\ split[c] \in Nat
  BY DEF SessionTypeOK
<1>2. PICK n \in Nat : n = Cardinality(TextsIn(requests[c]))
  BY <1>1, TextsCounted
<1>bound. PICK most \in Nat : most = said[c] + split[c]
  BY <1>1
<1>gone. PICK g, h \in {0, 1} : /\ g = (IF peer[c] = "gone" THEN 1 ELSE 0)
                                /\ h = (IF peer'[c] = "gone" THEN 1 ELSE 0)
  OBVIOUS
<1>3. texts[c] + n <= most + g
  BY <1>2, <1>bound, <1>gone DEF OnlyTypedBy
<1> DEFINE m == Cardinality(TextsIn(requests'[c]))
<1>4. texts'[c] + m <= (most + more) + h => OnlyTypedBy(c)'
  BY <1>1, <1>bound, <1>gone DEF OnlyTypedBy
<1>5. m \in Nat /\ m <= n + more
  <2>1. CASE requests'[c] = requests[c]
    <3>1. m = n
      BY <1>2, <2>1
    <3> HIDE DEF m
    <3> QED BY <1>2, <3>1
  <2>2. CASE requests'[c] = <<>>
    <3>1. m = 0
      BY <2>2, TextsGone
    <3> HIDE DEF m
    <3> QED BY <1>2, <3>1
  <2>3. CASE /\ requests'[c] = requests[c] \o sent
             /\ Len(sent) <= more \/ \A i \in 1..Len(sent) : sent[i].kind \notin Texts
    <3>1. requests[c] \o sent \in Seq(Asked) /\ Len(sent) \in Nat
      BY <1>1, Pushed
    <3>2. m \in Nat
      BY <2>3, <3>1, TextsCounted
    <3>3. /\ Cardinality(TextsIn(requests[c] \o sent)) <= n + Len(sent)
          /\ (\A i \in 1..Len(sent) : sent[i].kind \notin Texts)
               => Cardinality(TextsIn(requests[c] \o sent)) <= n
      BY <1>1, <1>2, TextsSent
    <3>4. m <= n + Len(sent) /\ ((\A i \in 1..Len(sent) : sent[i].kind \notin Texts) => m <= n)
      BY <2>3, <3>3
    <3> HIDE DEF m
    <3>5. CASE Len(sent) <= more
      BY <1>2, <3>1, <3>2, <3>4, <3>5
    <3>6. CASE \A i \in 1..Len(sent) : sent[i].kind \notin Texts
      BY <1>2, <3>2, <3>4, <3>6
    <3> QED BY <2>3, <3>5, <3>6
  <2> QED BY <2>1, <2>2, <2>3
<1> HIDE DEF m
<1>6. g <= h
  BY <1>gone
<1>7. texts[c] + m <= (most + more) + h
  BY <1>2, <1>3, <1>5, <1>6, <1>bound, <1>gone
<1> QED BY <1>4, <1>7

\* A program sends no more texts than its user typed and lines were cut.
LEMMA ProgramCounts ==
  ASSUME IInv, SessionTypeOK, NEW c \in Senders, ClientInv(c), OnlyTypedBy(c),
         Program(c) \/ User(c) \/ Connect(c)
  PROVE  OnlyTypedBy(c)'
<1>1. c \in Clients /\ texts[c] \in Nat /\ said[c] \in Nat /\ split[c] \in Nat
  BY Facts DEF IInv, TypeOK, ConnTypeOK, SessionTypeOK
<1>2. texts' = texts /\ (peer[c] = "gone" => peer'[c] = "gone")
  BY <1>1, ProgramStep DEF Client, ClientCloses, ClientResets, Leaves, vars, input
<1>3. Plain("login").kind \notin Texts /\ Plain("login") \in Asked
  BY Words DEF Plain, Line, Texts
<1>4. ASSUME NEW line \in Sendable, Type(c, line)
      PROVE  OnlyTypedBy(c)'
  <2>1. PICK sent \in AsRequest(line) :
          Send(c, sent) /\ split' = [split EXCEPT ![c] = @ + Len(sent) - 1]
    BY <1>4 DEF Type
  <2>2. /\ sent \in Seq(Asked) /\ sent[1] = line
        /\ Len(sent) = 1 \/ (Len(sent) = 2 /\ line.kind \in Texts)
    BY RequestArriving
  <2>3. /\ requests'[c] \in {requests[c], requests[c] \o sent}
        /\ said'[c] = IF line.kind \in Texts THEN said[c] + 1 ELSE said[c]
        /\ split'[c] = split[c] + Len(sent) - 1
    BY <1>1, <1>4, <2>1 DEF Type, Send, SessionTypeOK
  <2>4. CASE line.kind \in Texts
    <3>1. said'[c] + split'[c] = (said[c] + split[c]) + Len(sent) /\ Len(sent) \in Nat
      <4>1. CASE Len(sent) = 1 BY <1>1, <2>3, <2>4, <4>1
      <4>2. CASE Len(sent) = 2 BY <1>1, <2>3, <2>4, <4>2
      <4> QED BY <2>2, <4>1, <4>2
    <3> QED BY <1>1, <1>2, <2>2, <2>3, <3>1, SentCounts
  <2>5. CASE line.kind \notin Texts
    <3>1. Len(sent) = 1 /\ \A i \in 1..Len(sent) : sent[i].kind \notin Texts
      BY <2>2, <2>5
    <3>2. said'[c] + split'[c] = (said[c] + split[c]) + 0
      BY <1>1, <2>3, <2>5, <3>1
    <3> QED BY <1>1, <1>2, <2>2, <2>3, <3>1, <3>2, SentCounts
  <2> QED BY <2>4, <2>5
<1>5. CASE Login(c) \/ Join(c)
  <2>1. prog[c] # "join" /\ Login(c)
    BY <1>5 DEF ClientInv, StartInv, Join, Goes
  <2>2. /\ <<Plain("login")>> \in Seq(Asked)
        /\ \A i \in 1..Len(<<Plain("login")>>) : <<Plain("login")>>[i].kind \notin Texts
        /\ requests'[c] \in {requests[c], requests[c] \o <<Plain("login")>>}
    BY <1>1, <1>3, <2>1 DEF Login, Asks, Send, SessionTypeOK
  <2>3. said'[c] + split'[c] = (said[c] + split[c]) + 0
    BY <1>1, <2>1 DEF Login, Asks, counts
  <2> QED BY <1>1, <1>2, <2>2, <2>3, SentCounts
<1>6. CASE requests'[c] \in {requests[c], <<>>} /\ said' = said /\ split' = split
  <2>1. <<>> \in Seq(Asked) /\ said'[c] + split'[c] = (said[c] + split[c]) + 0
    BY <1>1, <1>6
  <2> QED BY <1>1, <1>2, <1>6, <2>1, SentCounts
<1>7. \/ \E line \in Sendable : Type(c, line)
      \/ Login(c) \/ Join(c)
      \/ requests'[c] \in {requests[c], <<>>} /\ said' = said /\ split' = split
  <2> USE <1>1 DEF HangsUp, counts, SessionTypeOK
  <2>1. CASE Connect(c)
    BY <2>1 DEF Connect
  <2>2. CASE Program(c)
    BY <2>2 DEF Program, Greeted, Joined, TakeReply, Takes, Listen, ReceiveFails
  <2>3. CASE User(c)
    BY <2>3 DEF User, TypeNothing, Typing, Killed
  <2> QED BY <2>1, <2>2, <2>3
<1> QED BY <1>4, <1>5, <1>6, <1>7

\* No step of anyone makes a text up.
LEMMA TypedPreserved ==
  ASSUME IInv, SessionIInv, OnlyTyped, [SessionNext]_svars
  PROVE  OnlyTyped'
<1> USE Facts
<1>types. SessionTypeOK /\ \A c \in Clients : ClientInv(c)
  BY DEF SessionIInv
<1>1. ASSUME NEW c \in Senders, Still(c) PROVE OnlyTypedBy(c)'
  BY <1>1 DEF Still, OnlyTyped, OnlyTypedBy
<1>2. ASSUME ServerDies, NEW c \in Senders PROVE OnlyTypedBy(c)'
  <2>1. /\ texts'[c] = texts[c] /\ peer' = peer /\ said' = said /\ split' = split
        /\ requests'[c] = <<>>
    BY <1>2, <1>types DEF ServerDies, AcceptFails, UndefinedAbort, input, counts
  <2>2. /\ <<>> \in Seq(Asked) /\ said[c] \in Nat /\ split[c] \in Nat
        /\ said'[c] + split'[c] = (said[c] + split[c]) + 0
    BY <1>types, <2>1 DEF SessionTypeOK
  <2>3. c \in Clients /\ OnlyTypedBy(c) /\ texts[c] \in Nat
    BY DEF OnlyTyped, IInv, TypeOK, ConnTypeOK
  <2> QED BY <1>types, <2>1, <2>2, <2>3, SentCounts
<1>3. ASSUME ServerStarts \/ UNCHANGED svars, NEW c \in Senders PROVE OnlyTypedBy(c)'
  BY <1>1, <1>3 DEF ServerStarts, Still, svars, vars, counts
<1>4. ASSUME NEW c \in Clients, Program(c) \/ User(c) \/ Connect(c), NEW d \in Senders
      PROVE  OnlyTypedBy(d)'
  BY <1>1, <1>4, <1>types, ProgramCounts, ProgramElsewhere DEF OnlyTyped
<1>5. ASSUME NEW c \in Clients, Worker(c), NEW d \in Senders
      PROVE  OnlyTypedBy(d)'
  BY <1>1, <1>5, <1>types, WorkerCounts, WorkerElsewhere DEF OnlyTyped
<1>6. ASSUME NEW c \in Clients, Accepts(c), NEW d \in Senders
      PROVE  OnlyTypedBy(d)'
  <2>1. CASE d = c
    <3>1. texts' = texts /\ requests' = requests /\ said' = said /\ split' = split
      BY <1>6 DEF Accepts, Accept, input, counts
    <3>2. peer[c] = "none" /\ peer'[c] # "gone"
      BY <1>6, <1>types DEF Accepts, Accept, Running, ClientInv, StartInv
    <3>3. OnlyTypedBy(d)
      BY DEF OnlyTyped
    <3> QED BY <2>1, <3>1, <3>2, <3>3 DEF OnlyTypedBy
  <2>2. CASE d # c
    BY <1>1, <1>6, <1>types, <2>2, AcceptElsewhere
  <2> QED BY <2>1, <2>2
<1> QED BY <1>2, <1>3, <1>4, <1>5, <1>6 DEF SessionNext, OnlyTyped
-----------------------------------------------------------------------------
(***************************************************************************)
(* What follows what is printed.                                           *)
(***************************************************************************)
\* With nothing under way.
LEMMA TallyNothing ==
  ASSUME NEW arrived \in Seq(Message), NEW start \in Nat, start <= Len(arrived)
  PROVE  Carries(<<>>, start, arrived, start)
<1> DEFINE k == [i \in 0..0 |-> start]
<1>1. Len(arrived) \in Nat /\ start \in 0..Len(arrived) /\ Len(<<>>) = 0
  BY LenProperties
<1>2. k \in [0..Len(<<>>) -> 0..Len(arrived)] /\ k[0] = start
  BY <1>1
<1>3. Tally(k, <<>>, start, arrived)
  BY <1>1, <1>2 DEF Tally
<1> QED BY <1>1, <1>2, <1>3 DEF Carries

\* Lines that were not queued: replies, and what follows a text that was cut.
Unqueued(s) == \A i \in 1..Len(s) : s[i].of = Nothing

\* They change nothing.
LEMMA TallyReplies ==
  ASSUME NEW s \in Seq(Sent), NEW arrived \in Seq(Message), NEW start, NEW last,
         Carries(s, start, arrived, last), NEW t \in Seq(Sent), Unqueued(t)
  PROVE  Carries(s \o t, start, arrived, last)
<1>count. PICK count : Tally(count, s, start, arrived) /\ count[Len(s)] = last
  BY DEF Carries
<1>1. /\ s \o t \in Seq(Sent) /\ Len(s) \in Nat /\ Len(t) \in Nat
      /\ Len(s \o t) = Len(s) + Len(t) /\ \A i \in 1..Len(s) : (s \o t)[i] = s[i]
      /\ \A i \in (Len(s) + 1)..Len(s \o t) : (s \o t)[i] = t[i - Len(s)]
  BY Pushed
<1>2. PICK n \in Nat, l \in Nat : n = Len(s) /\ l = Len(t)
  BY <1>1
<1>whole. PICK u : u = s \o t
  OBVIOUS
<1>3. /\ Len(u) = n + l /\ \A i \in 1..n : u[i] = s[i]
      /\ \A i \in (n + 1)..(n + l) : u[i] = t[i - n]
  BY <1>1, <1>2, <1>whole
<1>4. /\ count[0] = start /\ \A i \in 0..n : count[i] \in 0..Len(arrived)
      /\ \A i \in 1..n : IF s[i].of # Nothing
                         THEN count[i] = count[i - 1] + 1 /\ s[i].of = arrived[count[i]]
                         ELSE count[i] = count[i - 1]
  BY <1>count, <1>2 DEF Tally
<1>5. \A i \in (n + 1)..(n + l) : u[i].of = Nothing
  <2> SUFFICES ASSUME NEW i \in (n + 1)..(n + l) PROVE u[i].of = Nothing
    OBVIOUS
  <2>1. i - n \in 1..Len(t)
    BY <1>2
  <2> QED BY <1>3, <2>1 DEF Unqueued
<1> DEFINE k == [i \in 0..(n + l) |-> IF i <= n THEN count[i] ELSE count[n]]
<1>6. k \in [0..(n + l) -> 0..Len(arrived)] /\ k[0] = start /\ k[n + l] = count[n]
  BY <1>4
<1>7. ASSUME NEW i \in 1..(n + l)
      PROVE  IF u[i].of # Nothing
             THEN k[i] = k[i - 1] + 1 /\ u[i].of = arrived[k[i]]
             ELSE k[i] = k[i - 1]
  <2>1. CASE i <= n
    <3>1. i \in 1..n /\ k[i] = count[i] /\ k[i - 1] = count[i - 1] /\ u[i] = s[i]
      BY <1>3, <2>1
    <3> HIDE DEF k
    <3> QED BY <1>4, <3>1
  <2>2. CASE i > n
    <3>1. i \in (n + 1)..(n + l) /\ k[i] = count[n] /\ k[i - 1] = count[n]
      BY <2>2
    <3> HIDE DEF k
    <3> QED BY <1>5, <3>1
  <2> QED BY <2>1, <2>2
<1> HIDE DEF k
<1>8. Tally(k, u, start, arrived)
  BY <1>3, <1>6, <1>7 DEF Tally
<1>9. k \in [0..Len(u) -> 0..Len(arrived)] /\ k[Len(u)] = last
  BY <1>count, <1>2, <1>3, <1>6
<1> QED BY <1>whole, <1>8, <1>9 DEF Carries

\* A delivery is the next one.
LEMMA TallyDelivery ==
  ASSUME NEW s \in Seq(Sent), NEW arrived \in Seq(Message), NEW start,
         Carries(s, start, arrived, Len(arrived)),
         NEW m \in Message, NEW line \in Sent, line.of = m
  PROVE  Carries(Append(s, line), start, Append(arrived, m), Len(arrived) + 1)
<1>count. PICK count : Tally(count, s, start, arrived) /\ count[Len(s)] = Len(arrived)
  BY DEF Carries
<1>1. /\ Len(s) \in Nat /\ Len(Append(s, line)) = Len(s) + 1
      /\ \A i \in 1..Len(s) : Append(s, line)[i] = s[i]
      /\ Append(s, line)[Len(s) + 1] = line
  BY AppendProperties, LenProperties
<1>2. /\ Len(arrived) \in Nat /\ Len(Append(arrived, m)) = Len(arrived) + 1
      /\ \A i \in 1..Len(arrived) : Append(arrived, m)[i] = arrived[i]
      /\ Append(arrived, m)[Len(arrived) + 1] = m
  BY AppendProperties, LenProperties
<1>3. PICK n \in Nat, l \in Nat : n = Len(s) /\ l = Len(arrived)
  BY <1>1, <1>2
<1>whole. PICK u, h : u = Append(s, line) /\ h = Append(arrived, m)
  OBVIOUS
<1>4. /\ Len(u) = n + 1 /\ (\A i \in 1..n : u[i] = s[i]) /\ u[n + 1] = line
      /\ Len(h) = l + 1 /\ (\A i \in 1..l : h[i] = arrived[i]) /\ h[l + 1] = m
  BY <1>1, <1>2, <1>3, <1>whole
<1>5. /\ count[0] = start /\ (\A i \in 0..n : count[i] \in 0..l) /\ count[n] = l
      /\ \A i \in 1..n : IF s[i].of # Nothing
                         THEN count[i] = count[i - 1] + 1 /\ s[i].of = arrived[count[i]]
                         ELSE count[i] = count[i - 1]
  BY <1>count, <1>3 DEF Tally
<1> DEFINE k == [i \in 0..(n + 1) |-> IF i <= n THEN count[i] ELSE l + 1]
<1>6. k \in [0..(n + 1) -> 0..(l + 1)] /\ k[0] = start /\ k[n + 1] = l + 1
  BY <1>5
<1>7. ASSUME NEW i \in 1..(n + 1)
      PROVE  IF u[i].of # Nothing
             THEN k[i] = k[i - 1] + 1 /\ u[i].of = h[k[i]]
             ELSE k[i] = k[i - 1]
  <2>1. CASE i <= n
    <3>1. /\ i \in 1..n /\ i - 1 \in 0..n /\ k[i] = count[i] /\ k[i - 1] = count[i - 1]
          /\ u[i] = s[i] /\ count[i] \in 0..l /\ count[i - 1] \in 0..l
      BY <1>4, <1>5, <2>1
    <3> HIDE DEF k
    <3>2. CASE s[i].of # Nothing
      <4>1. count[i] = count[i - 1] + 1 /\ s[i].of = arrived[count[i]]
        BY <1>5, <3>1, <3>2
      <4>2. count[i] \in 1..l
        BY <3>1, <4>1
      <4> QED BY <1>4, <3>1, <3>2, <4>1, <4>2
    <3>3. CASE s[i].of = Nothing
      BY <1>5, <3>1, <3>3
    <3> QED BY <3>2, <3>3
  <2>2. CASE i = n + 1
    <3>1. k[i] = l + 1 /\ k[i - 1] = l
      BY <1>5, <2>2
    <3> HIDE DEF k
    <3> QED BY <1>4, <2>2, <3>1, Facts
  <2> QED BY <2>1, <2>2
<1> HIDE DEF k
<1>8. Tally(k, u, start, h)
  BY <1>4, <1>6, <1>7 DEF Tally
<1>9. k \in [0..Len(u) -> 0..Len(h)] /\ k[Len(u)] = Len(arrived) + 1
  BY <1>3, <1>4, <1>6
<1> QED BY <1>whole, <1>8, <1>9 DEF Carries

\* The first line is taken.
LEMMA TallyTaken ==
  ASSUME NEW s \in Seq(Sent), NEW arrived \in Seq(Message), NEW start \in Nat, NEW last,
         Carries(s, start, arrived, last), s # <<>>,
         NEW next, next = IF s[1].of # Nothing THEN start + 1 ELSE start
  PROVE  Carries(Tail(s), next, arrived, last)
<1>count. PICK count : Tally(count, s, start, arrived) /\ count[Len(s)] = last
  BY DEF Carries
<1>1. /\ Len(s) \in Nat \ {0} /\ Len(Tail(s)) = Len(s) - 1
      /\ \A i \in 1..Len(Tail(s)) : Tail(s)[i] = s[i + 1]
  BY Popped
<1>2. Len(arrived) \in Nat
  BY LenProperties
<1>3. PICK n \in Nat : n = Len(Tail(s))
  <2>1. Len(s) - 1 \in Nat
    BY <1>1
  <2>2. Len(Tail(s)) \in Nat
    BY <1>1, <2>1
  <2> QED BY <2>2
<1>rest. PICK u : u = Tail(s)
  OBVIOUS
<1>4. n + 1 = Len(s) /\ Len(u) = n /\ \A i \in 1..n : u[i] = s[i + 1]
  BY <1>1, <1>3, <1>rest
<1>5. /\ count[0] = start /\ (\A i \in 0..(n + 1) : count[i] \in 0..Len(arrived))
      /\ \A i \in 1..(n + 1) : IF s[i].of # Nothing
                         THEN count[i] = count[i - 1] + 1 /\ s[i].of = arrived[count[i]]
                         ELSE count[i] = count[i - 1]
  BY <1>count, <1>4 DEF Tally
<1>first. count[1] = next
  <2>1. 1 \in 1..(n + 1) /\ 1 - 1 = 0
    OBVIOUS
  <2> QED BY <1>5, <2>1
<1> DEFINE k == [i \in 0..n |-> count[i + 1]]
<1>6. k \in [0..n -> 0..Len(arrived)] /\ k[0] = count[1] /\ k[n] = count[n + 1]
  BY <1>5
<1>7. ASSUME NEW i \in 1..n
      PROVE  IF u[i].of # Nothing
             THEN k[i] = k[i - 1] + 1 /\ u[i].of = arrived[k[i]]
             ELSE k[i] = k[i - 1]
  <2>1. i + 1 \in 1..(n + 1) /\ (i + 1) - 1 = i /\ k[i] = count[i + 1] /\ k[i - 1] = count[i]
    OBVIOUS
  <2>2. IF s[i + 1].of # Nothing
        THEN count[i + 1] = count[i] + 1 /\ s[i + 1].of = arrived[count[i + 1]]
        ELSE count[i + 1] = count[i]
    BY <1>5, <2>1
  <2> HIDE DEF k
  <2> QED BY <1>4, <2>1, <2>2
<1> HIDE DEF k
<1>8. Tally(k, u, next, arrived)
  BY <1>first, <1>4, <1>6, <1>7 DEF Tally
<1>9. k \in [0..Len(u) -> 0..Len(arrived)] /\ k[Len(u)] = last
  BY <1>count, <1>4, <1>6
<1> QED BY <1>rest, <1>8, <1>9 DEF Carries

\* And if it was queued it is the next one.
LEMMA TallyFirst ==
  ASSUME NEW s \in Seq(Sent), NEW arrived \in Seq(Message), NEW start \in Nat, NEW last,
         Carries(s, start, arrived, last), s # <<>>, s[1].of # Nothing
  PROVE  start + 1 <= Len(arrived) /\ s[1].of = arrived[start + 1]
<1>count. PICK count : Tally(count, s, start, arrived)
  BY DEF Carries
<1>1. Len(s) \in Nat \ {0} /\ Len(arrived) \in Nat
  BY Popped, LenProperties
<1>2. 1 \in 1..Len(s) /\ 1 \in 0..Len(s) /\ 1 - 1 = 0
  BY <1>1
<1>3. count[0] = start /\ count[1] \in 0..Len(arrived)
  BY <1>count, <1>2 DEF Tally
<1>4. count[1] = count[1 - 1] + 1 /\ s[1].of = arrived[count[1]]
  BY <1>count, <1>2 DEF Tally
<1> QED BY <1>1, <1>2, <1>3, <1>4

-----------------------------------------------------------------------------
(***************************************************************************)
(* What is printed, counted.                                               *)
(***************************************************************************)
\* How many of the first n are texts that somebody sent.
Told(told, n) == Cardinality({i \in 1..n : told[i] # Nothing})

Printable == Message \cup {Nothing}

\* Counts are numbers, and not 0 where such a text is among them.
LEMMA ToldCounted ==
  ASSUME NEW told \in Seq(Printable), NEW n \in 0..Len(told)
  PROVE  /\ IsFiniteSet({i \in 1..n : told[i] # Nothing}) /\ Told(told, n) \in Nat
         /\ n > 0 /\ told[n] # Nothing => Told(told, n) # 0
<1> DEFINE seen == {i \in 1..n : told[i] # Nothing}
<1>1. n \in Nat
  BY LenProperties
<1>2. IsFiniteSet(1..n)
  BY <1>1, FS_Interval
<1>3. IsFiniteSet(seen)
  BY <1>2, FS_Subset
<1>4. Cardinality(seen) \in Nat
  BY <1>3, FS_CardinalityType
<1>5. n > 0 /\ told[n] # Nothing => seen # {}
  BY <1>1
<1>6. n > 0 /\ told[n] # Nothing => Cardinality(seen) # 0
  BY <1>3, <1>5, FS_EmptySet
<1> QED BY <1>3, <1>4, <1>6 DEF Told

\* One more is printed.
LEMMA ToldMore ==
  ASSUME NEW told \in Seq(Printable), NEW m \in Printable
  PROVE  /\ \A n \in 0..Len(told) : Told(Append(told, m), n) = Told(told, n)
         /\ Told(Append(told, m), Len(told) + 1)
              = IF m # Nothing THEN Told(told, Len(told)) + 1 ELSE Told(told, Len(told))
<1> DEFINE seen == {i \in 1..Len(told) : told[i] # Nothing}
<1>1. PICK u, l : u = Append(told, m) /\ l = Len(told)
  OBVIOUS
<1>2. l \in Nat /\ Len(u) = l + 1 /\ (\A i \in 1..l : u[i] = told[i]) /\ u[l + 1] = m
  BY <1>1, AppendProperties, LenProperties
<1>3. ASSUME NEW n \in 0..l PROVE Told(u, n) = Told(told, n)
  <2>1. \A i \in 1..n : i \in 1..l
    BY <1>2
  <2>2. {i \in 1..n : u[i] # Nothing} = {i \in 1..n : told[i] # Nothing}
    BY <1>2, <2>1
  <2> QED BY <2>2 DEF Told
<1>4. /\ {i \in 1..(l + 1) : u[i] # Nothing}
           = IF m # Nothing THEN seen \cup {l + 1} ELSE seen
      /\ l + 1 \notin seen
  BY <1>1, <1>2
<1>5. IsFiniteSet(seen)
  <2>1. l \in 0..Len(told)
    BY <1>1, <1>2
  <2> QED BY <1>1, <2>1, ToldCounted
<1>6. Cardinality(seen \cup {l + 1}) = Cardinality(seen) + 1
  BY <1>4, <1>5, FS_AddElement
<1>7. Told(u, l + 1) = IF m # Nothing THEN Cardinality(seen) + 1 ELSE Cardinality(seen)
  BY <1>4, <1>6 DEF Told
<1>8. Cardinality(seen) = Told(told, l)
  BY <1>1 DEF Told
<1> QED BY <1>1, <1>3, <1>7, <1>8

-----------------------------------------------------------------------------
(***************************************************************************)
(* BehindCut and InTurn, of given lines and given texts that are too long. *)
(***************************************************************************)
CutIn(w, m) == m # Nothing /\ m.text \in w[m.from]
Wider(w, v) == \A m \in Message : CutIn(w, m) => CutIn(v, m)

BehindIn(s, told, w) ==
  \A i \in 1..Len(s) : s[i] = Tagged("delivery") =>
    IF i > 1 THEN CutIn(w, s[i - 1].of) ELSE told # <<>> /\ CutIn(w, told[Len(told)])

TurnIn(told, arrived, w) ==
  \A i \in 1..Len(told) :
    IF told[i] = Nothing THEN i > 1 /\ CutIn(w, told[i - 1])
    ELSE Told(told, i) <= Len(arrived) /\ told[i] = arrived[Told(told, i)]

\* No line is a delivery.
NoDelivery(s) == \A i \in 1..Len(s) : s[i].tag # "delivery"

\* Lines and what they carry.
LEMMA SentFields ==
  \A line \in Sent : /\ line.of \in Printable
                     /\ line.of # Nothing => line.tag = "delivery"
                     /\ line.of = Nothing /\ line.tag = "delivery" => line = Tagged("delivery")
  /\ Tagged("delivery").of = Nothing /\ Tagged("delivery").tag = "delivery"
BY DEF Sent, Printable, Tagged

\* So no delivery carries nothing that was queued.
LEMMA NoDeliveryUnqueued ==
  ASSUME NEW s \in Seq(Sent), NoDelivery(s) PROVE Unqueued(s)
<1> SUFFICES ASSUME NEW i \in 1..Len(s) PROVE s[i].of = Nothing
  BY DEF Unqueued
<1>1. s[i] \in Sent /\ s[i].tag # "delivery"
  BY ElementOfSeq DEF NoDelivery
<1> QED BY <1>1, SentFields

\* More texts may turn out to be too long.
LEMMA BehindWider ==
  ASSUME NEW s \in Seq(Sent), NEW told \in Seq(Printable), NEW w, NEW v, Wider(w, v),
         BehindIn(s, told, w)
  PROVE  BehindIn(s, told, v)
<1>1. \A m \in Printable : CutIn(w, m) => CutIn(v, m)
  BY DEF Wider, Printable, CutIn
<1> SUFFICES ASSUME NEW i \in 1..Len(s), s[i] = Tagged("delivery")
             PROVE  IF i > 1 THEN CutIn(v, s[i - 1].of)
                             ELSE told # <<>> /\ CutIn(v, told[Len(told)])
  BY DEF BehindIn
<1>2. Len(s) \in Nat
  BY LenProperties
<1>3. CASE i > 1
  <2>1. CutIn(w, s[i - 1].of)
    BY <1>3 DEF BehindIn
  <2>2. i - 1 \in 1..Len(s)
    BY <1>2, <1>3
  <2>3. s[i - 1] \in Sent
    BY <2>2, ElementOfSeq
  <2> QED BY <1>1, <1>3, <2>1, <2>3, SentFields
<1>4. CASE ~(i > 1)
  <2>1. told # <<>> /\ CutIn(w, told[Len(told)])
    BY <1>4 DEF BehindIn
  <2>2. Len(told) \in 1..Len(told)
    BY <2>1, Popped
  <2>3. told[Len(told)] \in Printable
    BY <2>2, ElementOfSeq
  <2> QED BY <1>1, <1>4, <2>1, <2>3
<1> QED BY <1>3, <1>4

\* The same of what is printed.
LEMMA TurnWider ==
  ASSUME NEW told \in Seq(Printable), NEW arrived, NEW w, NEW v, Wider(w, v),
         TurnIn(told, arrived, w)
  PROVE  TurnIn(told, arrived, v)
<1>1. \A m \in Printable : CutIn(w, m) => CutIn(v, m)
  BY DEF Wider, Printable, CutIn
<1> SUFFICES ASSUME NEW i \in 1..Len(told), told[i] = Nothing
             PROVE  i > 1 /\ CutIn(v, told[i - 1])
  BY DEF TurnIn
<1>2. i > 1 /\ CutIn(w, told[i - 1])
  BY DEF TurnIn
<1>3. i - 1 \in 1..Len(told)
  BY <1>2, LenProperties
<1>4. told[i - 1] \in Printable
  BY <1>3, ElementOfSeq
<1> QED BY <1>1, <1>2, <1>4

\* Replies come behind all else.
LEMMA BehindReplies ==
  ASSUME NEW s \in Seq(Sent), NEW told, NEW w, BehindIn(s, told, w),
         NEW t \in Seq(Sent), NoDelivery(t)
  PROVE  BehindIn(s \o t, told, w)
<1>1. PICK u : u = s \o t
  OBVIOUS
<1>2. /\ Len(s) \in Nat /\ Len(t) \in Nat /\ Len(u) = Len(s) + Len(t)
      /\ \A i \in 1..Len(s) : u[i] = s[i]
      /\ \A i \in (Len(s) + 1)..Len(u) : u[i] = t[i - Len(s)]
  BY <1>1, Pushed
<1>3. ASSUME NEW i \in 1..Len(u), u[i] = Tagged("delivery")
      PROVE  IF i > 1 THEN CutIn(w, u[i - 1].of) ELSE told # <<>> /\ CutIn(w, told[Len(told)])
  <2>1. i <= Len(s)
    <3> SUFFICES ASSUME ~(i <= Len(s)) PROVE FALSE
      OBVIOUS
    <3>1. i - Len(s) \in 1..Len(t) /\ u[i] = t[i - Len(s)]
      BY <1>2
    <3> QED BY <1>3, <3>1, SentFields DEF NoDelivery
  <2>2. i \in 1..Len(s) /\ u[i] = s[i] /\ (i > 1 => i - 1 \in 1..Len(s) /\ u[i - 1] = s[i - 1])
    BY <1>2, <2>1
  <2> QED BY <1>3, <2>2 DEF BehindIn
<1> QED BY <1>1, <1>3 DEF BehindIn

\* And so does a delivery, with what is left of it when it was cut.
LEMMA BehindDelivery ==
  ASSUME NEW s \in Seq(Sent), NEW told, NEW w, BehindIn(s, told, w),
         NEW m \in Message, NEW line \in Sent, line.of = m,
         NEW rest \in Seq(Sent), Len(rest) <= 1, rest # <<>> => CutIn(w, m)
  PROVE  BehindIn(Append(s, line) \o rest, told, w)
<1>1. PICK a, u : a = Append(s, line) /\ u = a \o rest
  OBVIOUS
<1>2. /\ Len(s) \in Nat /\ a \in Seq(Sent) /\ Len(a) = Len(s) + 1
      /\ (\A i \in 1..Len(s) : a[i] = s[i]) /\ a[Len(s) + 1] = line
  BY <1>1, AppendProperties, LenProperties
<1>3. /\ Len(rest) \in Nat /\ Len(u) = Len(a) + Len(rest)
      /\ \A i \in 1..Len(a) : u[i] = a[i]
  BY <1>1, <1>2, Pushed
<1>4. PICK n \in Nat : n = Len(s)
  BY <1>2
<1>5. /\ Len(u) <= n + 2 /\ (\A i \in 1..n : u[i] = s[i]) /\ u[n + 1] = line
      /\ Len(u) = n + 2 => CutIn(w, m)
  <2>1. Len(u) = (n + 1) + Len(rest) /\ Len(a) = n + 1
    BY <1>2, <1>3, <1>4
  <2>2. (\A i \in 1..n : u[i] = s[i]) /\ u[n + 1] = line
    BY <1>2, <1>3, <1>4, <2>1
  <2>3. Len(u) = n + 2 => rest # <<>>
    BY <1>3, <2>1
  <2> QED BY <1>3, <2>1, <2>2, <2>3
<1>6. line # Tagged("delivery")
  BY Facts, SentFields
<1>7. ASSUME NEW i \in 1..Len(u), u[i] = Tagged("delivery")
      PROVE  IF i > 1 THEN CutIn(w, u[i - 1].of) ELSE told # <<>> /\ CutIn(w, told[Len(told)])
  <2>1. i <= n \/ i = n + 1 \/ (i = n + 2 /\ Len(u) = n + 2)
    BY <1>3, <1>5, <1>2
  <2>2. CASE i <= n
    <3>1. i \in 1..n /\ u[i] = s[i] /\ (i > 1 => i - 1 \in 1..n /\ u[i - 1] = s[i - 1])
      BY <1>5, <2>2
    <3> QED BY <1>4, <1>7, <3>1 DEF BehindIn
  <2>3. CASE i = n + 1
    BY <1>5, <1>6, <1>7, <2>3
  <2>4. CASE i = n + 2 /\ Len(u) = n + 2
    <3>1. i > 1 /\ i - 1 = n + 1
      BY <2>4
    <3> QED BY <1>5, <2>4, <3>1
  <2> QED BY <2>1, <2>2, <2>3, <2>4
<1> QED BY <1>1, <1>7 DEF BehindIn

\* The first line is taken, and printed if it looks like a delivery.
LEMMA BehindTaken ==
  ASSUME NEW s \in Seq(Sent), s # <<>>, NEW told \in Seq(Printable), NEW w, BehindIn(s, told, w),
         NEW next, next = IF s[1].tag = "delivery" THEN Append(told, s[1].of) ELSE told
  PROVE  BehindIn(Tail(s), next, w)
<1>1. PICK u : u = Tail(s)
  OBVIOUS
<1>2. /\ Len(s) \in Nat \ {0} /\ Len(u) = Len(s) - 1 /\ s[1] \in Sent
      /\ \A i \in 1..Len(u) : u[i] = s[i + 1]
  BY <1>1, Popped
<1>3. ASSUME NEW i \in 1..Len(u), u[i] = Tagged("delivery")
      PROVE  IF i > 1 THEN CutIn(w, u[i - 1].of) ELSE next # <<>> /\ CutIn(w, next[Len(next)])
  <2>1. i + 1 \in 1..Len(s) /\ i + 1 > 1 /\ (i + 1) - 1 = i /\ s[i + 1] = Tagged("delivery")
    BY <1>2, <1>3
  <2>2. CutIn(w, s[i].of)
    BY <2>1 DEF BehindIn
  <2>3. CASE i > 1
    <3>1. i - 1 \in 1..Len(u) /\ (i - 1) + 1 = i
      BY <1>2, <2>3
    <3> QED BY <1>2, <2>2, <2>3, <3>1
  <2>4. CASE i = 1
    <3>1. s[1].of \in Printable /\ s[1].of # Nothing /\ s[1].tag = "delivery"
      BY <1>2, <2>2, <2>4, SentFields DEF CutIn
    <3>2. next = Append(told, s[1].of)
      BY <3>1
    <3>3. Len(told) \in Nat /\ Len(next) = Len(told) + 1 /\ next[Len(told) + 1] = s[1].of
      BY <3>1, <3>2, AppendProperties, LenProperties
    <3>4. Len(next) # 0
      BY <3>3
    <3>5. next # <<>> /\ next[Len(next)] = s[1].of
      BY <3>3, <3>4
    <3> QED BY <2>2, <2>4, <3>5
  <2>5. i > 1 \/ i = 1
    BY <1>2
  <2> QED BY <2>3, <2>4, <2>5
<1> QED BY <1>1, <1>3 DEF BehindIn

\* One more text reaches the client.
LEMMA TurnArrived ==
  ASSUME NEW told \in Seq(Printable), NEW arrived \in Seq(Message), NEW m \in Message, NEW w,
         TurnIn(told, arrived, w)
  PROVE  TurnIn(told, Append(arrived, m), w)
<1>1. PICK h : h = Append(arrived, m)
  OBVIOUS
<1>2. /\ Len(arrived) \in Nat /\ Len(h) = Len(arrived) + 1
      /\ \A i \in 1..Len(arrived) : h[i] = arrived[i]
  BY <1>1, AppendProperties, LenProperties
<1>3. ASSUME NEW i \in 1..Len(told), told[i] # Nothing
      PROVE  Told(told, i) <= Len(h) /\ told[i] = h[Told(told, i)]
  <2>1. i \in 0..Len(told) /\ i > 0
    BY LenProperties
  <2>2. Told(told, i) \in Nat /\ Told(told, i) # 0
    BY <1>3, <2>1, ToldCounted
  <2>3. Told(told, i) <= Len(arrived) /\ told[i] = arrived[Told(told, i)]
    BY <1>3 DEF TurnIn
  <2>4. Told(told, i) \in 1..Len(arrived)
    BY <1>2, <2>2, <2>3
  <2> QED BY <1>2, <2>2, <2>3, <2>4
<1> QED BY <1>1, <1>3 DEF TurnIn

\* One more is printed: the next that reached the client, or what follows one that was
\* cut.
LEMMA TurnPrinted ==
  ASSUME NEW told \in Seq(Printable), NEW arrived \in Seq(Message), NEW m \in Printable, NEW w,
         TurnIn(told, arrived, w),
         IF m = Nothing THEN told # <<>> /\ CutIn(w, told[Len(told)])
         ELSE /\ Told(told, Len(told)) + 1 <= Len(arrived)
              /\ m = arrived[Told(told, Len(told)) + 1]
  PROVE  TurnIn(Append(told, m), arrived, w)
<1>1. PICK u, l : u = Append(told, m) /\ l = Len(told)
  OBVIOUS
<1>2. /\ l \in Nat /\ Len(u) = l + 1 /\ (\A i \in 1..l : u[i] = told[i]) /\ u[l + 1] = m
  BY <1>1, AppendProperties, LenProperties
<1>3. /\ \A n \in 0..l : Told(u, n) = Told(told, n)
      /\ Told(u, l + 1) = IF m # Nothing THEN Told(told, l) + 1 ELSE Told(told, l)
  BY <1>1, ToldMore
<1>4. ASSUME NEW i \in 1..Len(u)
      PROVE  IF u[i] = Nothing THEN i > 1 /\ CutIn(w, u[i - 1])
             ELSE Told(u, i) <= Len(arrived) /\ u[i] = arrived[Told(u, i)]
  <2>1. CASE i <= l
    <3>1. i \in 1..l /\ i \in 0..l /\ u[i] = told[i] /\ (i > 1 => u[i - 1] = told[i - 1])
      BY <1>2, <2>1
    <3>2. IF told[i] = Nothing THEN i > 1 /\ CutIn(w, told[i - 1])
          ELSE Told(told, i) <= Len(arrived) /\ told[i] = arrived[Told(told, i)]
      BY <1>1, <3>1 DEF TurnIn
    <3> QED BY <1>3, <3>1, <3>2
  <2>2. CASE i = l + 1
    <3>1. CASE m = Nothing
      <4>1. told # <<>> /\ CutIn(w, told[l])
        BY <1>1, <3>1
      <4>2. l \in Nat \ {0}
        BY <1>1, <4>1, Popped
      <4>3. i > 1 /\ i - 1 = l /\ l \in 1..l
        BY <2>2, <4>2
      <4> QED BY <1>2, <2>2, <3>1, <4>1, <4>3
    <3>2. CASE m # Nothing
      BY <1>1, <1>2, <1>3, <2>2, <3>2
    <3> QED BY <3>1, <3>2
  <2> QED BY <1>2, <2>1, <2>2
<1> QED BY <1>1, <1>4 DEF TurnIn

-----------------------------------------------------------------------------
(***************************************************************************)
(* HeardBy.                                                                *)
(***************************************************************************)
LEMMA TwoLines ==
  ASSUME NEW S, NEW a \in S, NEW b \in S
  PROVE  <<a>> \o <<b>> = <<a, b>>
<1>1. /\ <<a>> \in Seq(S) /\ <<b>> \in Seq(S) /\ <<a, b>> \in Seq(S)
      /\ Len(<<a, b>>) = 2 /\ Len(<<a>>) = 1 /\ Len(<<b>>) = 1
  OBVIOUS
<1>2. <<a>> \o <<b>> \in Seq(S) /\ Len(<<a>> \o <<b>>) = 2
  BY <1>1, ConcatProperties
<1>3. \A i \in 1..2 : (<<a>> \o <<b>>)[i] = <<a, b>>[i]
  BY <1>1, ConcatProperties
<1> QED BY <1>1, <1>2, <1>3, SeqEqual

\* The lines of a receiver's worker and what has reached the receiver.
LEMMA WorkerSays ==
  ASSUME IInv, SessionTypeOK, NEW c \in Receivers, Worker(c), peer[c] = "open"
  PROVE  \/ /\ inbox'[c] = inbox[c]
            /\ \E sent \in Seq(Sent) : NoDelivery(sent) /\ replies'[c] = replies[c] \o sent
         \/ /\ pc[c] = "deliver"
            /\ \E m \in Message, line \in Sent, rest \in Seq(Sent) :
                 /\ line.of = m /\ Unqueued(rest) /\ Len(rest) <= 1
                 /\ rest # <<>> => CutIn(wide, m)
                 /\ inbox'[c] = Append(inbox[c], m)
                 /\ replies'[c] = Append(replies[c], line) \o rest
<1>0. c \in Clients
  BY Facts
<1>1. /\ Ok \in Seq(Sent) /\ NoDelivery(Ok) /\ Err \in Seq(Sent) /\ NoDelivery(Err)
      /\ <<>> \in Seq(Sent) /\ NoDelivery(<<>>) /\ replies[c] \in Seq(Sent)
      /\ replies[c] \o <<>> = replies[c]
  BY <1>0, Words, ConcatEmptySeq DEF NoDelivery, SessionTypeOK
<1>2. CASE Serves(c)
  <2>1. inbox'[c] = inbox[c]
    BY <1>2 DEF Serves, WorkerLogin, ServeJoin, ServeText, ServeLeave, ServeQuit, ServeOther,
       LoginSender, LoginReceiver, LoginAs, LoginRejected, JoinRequest, SendAllRequest,
       LeaveRequest, QuitRequest, InvalidRequest, ReceiverJoin, ReceiverNoJoin, chat
  <2>2. replies'[c] \in {replies[c], replies[c] \o Ok, replies[c] \o Err, replies[c] \o <<>>}
    BY <1>0, <1>2, SaysOpen DEF Serves, WorkerLogin, ServeJoin, ServeText, ServeLeave, ServeQuit,
       ServeOther
  <2> QED BY <1>1, <2>1, <2>2
<1>3. CASE CarriesOut(c) \/ Silent(c)
  <2>1. inbox'[c] = inbox[c]
    BY <1>3 DEF CarriesOut, Silent, DeleteUser, Find, AddMember, Broadcast, LeaveRoom,
       Dequeue, DeliverFails, RemoveSelf, chat
  <2>2. replies'[c] \in {replies[c], replies[c] \o Ok}
    BY <1>0, <1>3, SaysOpen DEF CarriesOut, Silent
  <2> QED BY <1>1, <2>1, <2>2
<1>4. CASE Delivers(c)
  <2>1. pc[c] = "deliver" /\ temp[c] \in Message /\ inbox'[c] = Append(inbox[c], temp[c])
    BY <1>0, <1>4 DEF Delivers, DeliverOk, Step, Running, IInv, TypeOK, ChatTypeOK
  <2>2. PICK m \in Message : m = temp[c]
    BY <2>1
  <2>3. PICK sent \in AsDelivery(m) : replies'[c] = replies[c] \o sent
    BY <1>0, <1>4, <2>2, SaysOpen DEF Delivers
  <2>4. /\ sent \in Seq(Sent) /\ sent[1].of = m /\ Len(sent) \in {1, 2}
        /\ \A j \in 2..Len(sent) : sent[j].of = Nothing /\ CutIn(wide, m)
    BY DeliveryArriving DEF CutText, CutIn
  <2>5. PICK line \in Sent : line = sent[1]
    <3>1. 1 \in 1..Len(sent)
      BY <2>4
    <3> QED BY <2>4, <3>1, ElementOfSeq
  <2>6. \E rest \in Seq(Sent) : /\ Unqueued(rest) /\ Len(rest) <= 1
                                /\ rest # <<>> => CutIn(wide, m)
                                /\ sent = <<line>> \o rest
    <3>1. CASE Len(sent) = 1
      <4>1. sent = <<line>> /\ <<line>> \o <<>> = <<line>>
        <5>1. <<line>> \in Seq(Sent) /\ Len(<<line>>) = 1 /\ <<line>>[1] = line
          OBVIOUS
        <5> QED BY <2>4, <2>5, <3>1, <5>1, SeqEqual, ConcatEmptySeq
      <4>2. PICK rest : rest = <<>>
        OBVIOUS
      <4>3. rest \in Seq(Sent) /\ Unqueued(rest) /\ Len(rest) <= 1
        BY <4>2 DEF Unqueued
      <4>4. (rest # <<>> => CutIn(wide, m)) /\ sent = <<line>> \o rest
        BY <4>1, <4>2
      <4> QED BY <4>3, <4>4
    <3>2. CASE Len(sent) = 2
      <4>1. 2 \in 1..Len(sent) /\ 2 \in 2..Len(sent)
        BY <3>2
      <4>2. PICK r \in Sent : r = sent[2]
        BY <2>4, <4>1, ElementOfSeq
      <4>3. r.of = Nothing /\ CutIn(wide, m)
        BY <2>4, <4>1, <4>2
      <4>4. sent = <<line, r>>
        <5>1. <<line, r>> \in Seq(Sent) /\ Len(<<line, r>>) = 2
              /\ <<line, r>>[1] = line /\ <<line, r>>[2] = r
          OBVIOUS
        <5>2. \A j \in 1..2 : sent[j] = <<line, r>>[j]
          <6>1. \A j \in 1..2 : j = 1 \/ j = 2
            OBVIOUS
          <6> QED BY <2>5, <4>2, <5>1, <6>1
        <5> QED BY <2>4, <3>2, <5>1, <5>2, SeqEqual
      <4>5. <<line>> \o <<r>> = <<line, r>>
        BY TwoLines
      <4>6. PICK rest : rest = <<r>>
        OBVIOUS
      <4>7. rest \in Seq(Sent) /\ Unqueued(rest) /\ Len(rest) <= 1
        BY <4>3, <4>6 DEF Unqueued
      <4>8. (rest # <<>> => CutIn(wide, m)) /\ sent = <<line>> \o rest
        BY <4>3, <4>4, <4>5, <4>6
      <4> QED BY <4>7, <4>8
    <3> QED BY <2>4, <3>1, <3>2
  <2>7. PICK rest \in Seq(Sent) : /\ Unqueued(rest) /\ Len(rest) <= 1
                                  /\ rest # <<>> => CutIn(wide, m)
                                  /\ sent = <<line>> \o rest
    BY <2>6
  <2>8. replies'[c] = Append(replies[c], line) \o rest
    <3>0. <<line>> \in Seq(Sent)
      OBVIOUS
    <3>1. PICK first \in Seq(Sent) : first = <<line>>
      BY <3>0
    <3>2. PICK s \in Seq(Sent) : s = replies[c]
      BY <1>1
    <3>3. s \o (first \o rest) = (s \o first) \o rest
      BY ConcatAssociative
    <3>4. s \o first = Append(s, line)
      BY <3>1, AppendIsConcat
    <3>5. replies'[c] = s \o (first \o rest)
      BY <2>3, <2>7, <3>1, <3>2
    <3> QED BY <3>2, <3>3, <3>4, <3>5
  <2>9. line.of = m /\ inbox'[c] = Append(inbox[c], m)
    BY <2>1, <2>2, <2>4, <2>5
  <2> QED BY <2>1, <2>7, <2>8, <2>9
<1>5. ~WorkerQuits(c)
  BY <1>0, Facts DEF WorkerQuits, Quit, Step, Running, IInv, TypeOK, PcTypeOK, SenderPc
<1> QED BY <1>2, <1>3, <1>4, <1>5 DEF Worker, Works

\* To a client that has gone nothing is delivered.
LEMMA WorkerUnheard ==
  ASSUME IInv, SessionTypeOK, NEW c \in Clients, Worker(c), peer[c] # "open"
  PROVE  inbox'[c] = inbox[c]
<1> USE DEF IInv, TypeOK, ChatTypeOK, chat
<1>1. CASE Request(c)
  BY <1>1 DEF Request, LoginSender, LoginReceiver, LoginAs, LoginRejected, JoinRequest,
     SendAllRequest, LeaveRequest, QuitRequest, InvalidRequest, ReceiverJoin, ReceiverNoJoin
<1>2. CASE Handler(c)
  BY <1>2 DEF Handler, DeleteUser, Find, AddMember, Broadcast, LeaveRoom, Quit, Dequeue,
     DeliverOk, DeliverFails, RemoveSelf
<1> QED BY <1>1, <1>2, WorkerStep

\* What follows after replies, and after a delivery.
LEMMA FollowsReplies ==
  ASSUME SessionTypeOK, IInv, NEW c \in Clients, Follows(c), up' = up, server' = server,
         NEW sent \in Seq(Sent), Unqueued(sent), replies'[c] = replies[c] \o sent,
         inbox'[c] = inbox[c], printed'[c] = printed[c]
  PROVE  Follows(c)'
<1>1. replies[c] \in Seq(Sent) /\ inbox[c] \in Seq(Message)
  BY DEF SessionTypeOK, IInv, TypeOK, ChatTypeOK
<1>2. PICK last \in 0..Len(inbox[c]) :
           /\ Carries(replies[c], Told(printed[c], Len(printed[c])), inbox[c], last)
           /\ alive => last = Len(inbox[c])
  BY DEF Follows, Heard, Told
<1>3. Carries(replies[c] \o sent, Told(printed[c], Len(printed[c])), inbox[c], last)
  BY <1>1, <1>2, TallyReplies
<1>4. /\ last \in 0..Len(inbox'[c])
      /\ Carries(replies'[c], Told(printed'[c], Len(printed'[c])), inbox'[c], last)
      /\ alive' => last = Len(inbox'[c])
  BY <1>2, <1>3 DEF alive
<1> QED BY <1>4 DEF Follows, Heard, Told

\* A text that is taken from the queue and sent is the next to arrive.
LEMMA FollowsDelivery ==
  ASSUME SessionTypeOK, IInv, NEW c \in Clients, Follows(c), alive,
         NEW m \in Message, NEW line \in Sent, line.of = m,
         NEW rest \in Seq(Sent), Unqueued(rest),
         replies'[c] = Append(replies[c], line) \o rest,
         inbox'[c] = Append(inbox[c], m), printed'[c] = printed[c]
  PROVE  Follows(c)'
<1>1. replies[c] \in Seq(Sent) /\ inbox[c] \in Seq(Message)
  BY DEF SessionTypeOK, IInv, TypeOK, ChatTypeOK
<1>2. Carries(replies[c], Told(printed[c], Len(printed[c])), inbox[c], Len(inbox[c]))
  BY DEF Follows, Heard, Told
<1>3. Carries(Append(replies[c], line), Told(printed[c], Len(printed[c])),
              Append(inbox[c], m), Len(inbox[c]) + 1)
  BY <1>1, <1>2, TallyDelivery
<1>4. /\ Append(replies[c], line) \in Seq(Sent) /\ Append(inbox[c], m) \in Seq(Message)
      /\ Len(Append(inbox[c], m)) = Len(inbox[c]) + 1 /\ Len(inbox[c]) \in Nat
  BY <1>1, AppendProperties, LenProperties
<1>5. Carries(Append(replies[c], line) \o rest, Told(printed[c], Len(printed[c])),
              Append(inbox[c], m), Len(inbox[c]) + 1)
  BY <1>3, <1>4, TallyReplies
<1>6. Len(inbox'[c]) = Len(inbox[c]) + 1
  BY <1>4
<1>7. /\ Len(inbox'[c]) \in 0..Len(inbox'[c])
      /\ Carries(replies'[c], Told(printed'[c], Len(printed'[c])), inbox'[c], Len(inbox'[c]))
  BY <1>4, <1>5, <1>6
<1> QED BY <1>7 DEF Follows, Heard, Told

\* After the first line is taken, printed if it looks like a delivery.
LEMMA FollowsTaken ==
  ASSUME SessionTypeOK, IInv, NEW c \in Clients, Follows(c), up' = up, server' = server,
         replies[c] # <<>>, replies'[c] = Tail(replies[c]), inbox'[c] = inbox[c],
         printed'[c] = IF replies[c][1].tag = "delivery"
                       THEN Append(printed[c], replies[c][1].of) ELSE printed[c]
  PROVE  Follows(c)'
<1> DEFINE heard == Told(printed[c], Len(printed[c]))
<1>1. /\ replies[c] \in Seq(Sent) /\ inbox[c] \in Seq(Message) /\ printed[c] \in Seq(Printable)
      /\ heard \in Nat
  <2>1. /\ replies[c] \in Seq(Sent) /\ inbox[c] \in Seq(Message) /\ printed[c] \in Seq(Printable)
    BY DEF SessionTypeOK, IInv, TypeOK, ChatTypeOK, Printable
  <2>2. Len(printed[c]) \in 0..Len(printed[c])
    BY <2>1, LenProperties
  <2> QED BY <2>1, <2>2, ToldCounted
<1>2. PICK last \in 0..Len(inbox[c]) :
           /\ Carries(replies[c], heard, inbox[c], last)
           /\ alive => last = Len(inbox[c])
  BY DEF Follows, Heard, Told
<1>3. /\ replies[c][1].of \in Printable
      /\ replies[c][1].of # Nothing => replies[c][1].tag = "delivery"
  BY <1>1, Popped, SentFields
<1> HIDE DEF heard
<1>4. Told(printed'[c], Len(printed'[c]))
        = IF replies[c][1].of # Nothing THEN heard + 1 ELSE heard
  <2>1. CASE replies[c][1].tag = "delivery"
    <3>1. Len(printed'[c]) = Len(printed[c]) + 1
      BY <1>1, <1>3, <2>1, AppendProperties
    <3>2. printed'[c] = Append(printed[c], replies[c][1].of)
      BY <2>1
    <3> QED BY <1>1, <1>3, <3>1, <3>2, ToldMore DEF heard
  <2>2. CASE replies[c][1].tag # "delivery"
    BY <1>3, <2>2 DEF heard
  <2> QED BY <2>1, <2>2
<1>5. Carries(Tail(replies[c]), Told(printed'[c], Len(printed'[c])), inbox[c], last)
  BY <1>1, <1>2, <1>4, TallyTaken
<1>6. /\ last \in 0..Len(inbox'[c])
      /\ Carries(replies'[c], Told(printed'[c], Len(printed'[c])), inbox'[c], last)
      /\ alive' => last = Len(inbox'[c])
  BY <1>2, <1>5 DEF alive
<1> QED BY <1>6 DEF Follows, Heard, Told

\* The types of what HeardBy is about.
LEMMA HeardTypes ==
  ASSUME SessionTypeOK, IInv, NEW c \in Clients
  PROVE  /\ replies[c] \in Seq(Sent) /\ inbox[c] \in Seq(Message) /\ printed[c] \in Seq(Printable)
         /\ Len(printed[c]) \in Nat /\ Len(inbox[c]) \in Nat /\ Len(replies[c]) \in Nat
         /\ Told(printed[c], Len(printed[c])) \in Nat
<1>1. /\ replies[c] \in Seq(Sent) /\ inbox[c] \in Seq(Message) /\ printed[c] \in Seq(Printable)
  BY DEF SessionTypeOK, IInv, TypeOK, ChatTypeOK, Printable
<1>2. /\ Len(printed[c]) \in Nat /\ Len(inbox[c]) \in Nat /\ Len(replies[c]) \in Nat
  BY <1>1, LenProperties
<1>3. Len(printed[c]) \in 0..Len(printed[c])
  BY <1>2
<1> QED BY <1>1, <1>2, <1>3, ToldCounted

\* HeardBy, in these terms.
HeardMeans(c) ==
  /\ pc[c] # "none" => server = "listening"
  /\ Told(printed[c], Len(printed[c])) <= Len(inbox[c])
  /\ TurnIn(printed[c], inbox[c], wide)
  /\ prog[c] \in {"connect", "login", "greeting", "join"} => NoDelivery(replies[c])
  /\ prog[c] = "joining" /\ replies[c] # <<>> => replies[c][1].tag # "delivery"
  /\ prog[c] \notin Over => Follows(c) /\ BehindIn(replies[c], printed[c], wide)

\* It means the same, before a step and after it.
LEMMA HeardByMeans ==
  ASSUME NEW c
  PROVE  /\ HeardBy(c) <=> HeardMeans(c)
         /\ HeardBy(c)' <=> HeardMeans(c)'
<1>1. HeardBy(c) <=> HeardMeans(c)
  <2>1. (\A i \in 1..Len(printed[c]) : InTurn(c, i)) <=> TurnIn(printed[c], inbox[c], wide)
    BY DEF InTurn, TurnIn, CutText, CutIn, Heard, Told
  <2>2. BehindCut(c) <=> BehindIn(replies[c], printed[c], wide)
    BY DEF BehindCut, BehindIn, CutText, CutIn
  <2> QED BY <2>1, <2>2 DEF HeardBy, HeardMeans, NoDelivery, Heard, Told
<1>2. HeardBy(c)' <=> HeardMeans(c)'
  <2>1. (\A i \in 1..Len(printed'[c]) : InTurn(c, i)')
          <=> TurnIn(printed'[c], inbox'[c], wide')
    BY DEF InTurn, TurnIn, CutText, CutIn, Heard, Told
  <2>2. BehindCut(c)' <=> BehindIn(replies'[c], printed'[c], wide')
    BY DEF BehindCut, BehindIn, CutText, CutIn
  <2> QED BY <2>1, <2>2 DEF HeardBy, HeardMeans, NoDelivery, Heard, Told
<1> QED BY <1>1, <1>2

\* What is known stays true while nothing of the client moves.
LEMMA HeardStill ==
  ASSUME SessionTypeOK, IInv, NEW c \in Clients, HeardBy(c), Still(c), server' = server, up' => up,
         Wider(wide, wide')
  PROVE  HeardBy(c)'
<1>1. alive' => alive
  BY DEF alive
<1>2. Follows(c) => Follows(c)'
  BY <1>1 DEF Follows, Still, Heard
<1>3. HeardMeans(c) /\ replies[c] \in Seq(Sent) /\ printed[c] \in Seq(Printable)
  BY HeardByMeans, HeardTypes
<1>4. TurnIn(printed[c], inbox[c], wide')
  BY <1>3, TurnWider DEF HeardMeans
<1>5. prog[c] \notin Over => BehindIn(replies[c], printed[c], wide')
  BY <1>3, BehindWider DEF HeardMeans
<1>6. HeardMeans(c)'
  BY <1>2, <1>3, <1>4, <1>5 DEF HeardMeans, Still
<1> QED BY <1>6, HeardByMeans

\* While c's worker has its message to deliver its program has had the reply to
\* its join, or finds it first.
LEMMA DeliversInTime ==
  ASSUME NEW c \in Receivers, ClientInv(c), alive, pc[c] = "deliver"
  PROVE  /\ prog[c] \notin {"connect", "login", "greeting", "join"}
         /\ prog[c] = "joining" => replies[c] # <<>>
BY Facts DEF ClientInv, StartInv, ReceiverStage, LoggingIn, Unserved, Silence

\* Lines put after others.
LEMMA FirstOfJoined ==
  ASSUME NEW s \in Seq(Sent), s # <<>>, NEW t \in Seq(Sent)
  PROVE  (s \o t)[1] = s[1]
<1>1. Len(s) \in Nat \ {0}
  BY Popped
<1> QED BY <1>1, Pushed

\* The first of the lines under way is no delivery, if it was none.
LEMMA FirstJoined ==
  ASSUME NEW s \in Seq(Sent), NEW t \in Seq(Sent), NoDelivery(t),
         s # <<>> => s[1].tag # "delivery", s \o t # <<>>
  PROVE  (s \o t)[1].tag # "delivery"
<1>1. CASE s # <<>>
  BY <1>1, FirstOfJoined
<1>2. CASE s = <<>>
  <2>1. s \o t = t
    BY <1>2, ConcatEmptySeq
  <2>2. Len(t) \in Nat \ {0}
    BY <2>1, Popped
  <2> QED BY <2>1, <2>2 DEF NoDelivery
<1> QED BY <1>1, <1>2

\* With a reply there is still no delivery under way.
LEMMA QuietJoined ==
  ASSUME NEW s \in Seq(Sent), NEW t \in Seq(Sent), NoDelivery(s), NoDelivery(t)
  PROVE  NoDelivery(s \o t)
<1> SUFFICES ASSUME NEW i \in 1..Len(s \o t)
             PROVE  (s \o t)[i].tag # "delivery"
  BY DEF NoDelivery
<1>1. CASE i <= Len(s) BY <1>1, Pushed DEF NoDelivery
<1>2. CASE i > Len(s)
  <2>1. i - Len(s) \in 1..Len(t) /\ (s \o t)[i] = t[i - Len(s)]
    BY <1>2, Pushed
  <2> QED BY <2>1 DEF NoDelivery
<1> QED BY <1>1, <1>2, Pushed

\* A worker, in all its steps, keeps what its client hears in order.
LEMMA WorkerHeard ==
  ASSUME IInv, SessionTypeOK, NEW c \in Receivers, ClientInv(c), HeardBy(c), Worker(c),
         Wider(wide, wide')
  PROVE  HeardBy(c)'
<1> USE Facts
<1>1. /\ up /\ up' = up /\ pc[c] # "none" /\ server' = server /\ prog' = prog
      /\ printed' = printed
  <2>1. up
    BY WorkerStep DEF Step, Running, Request, LoginSender, LoginReceiver, LoginAs, LoginRejected,
       JoinRequest, SendAllRequest, LeaveRequest, QuitRequest, InvalidRequest, ReceiverJoin,
       ReceiverNoJoin, Handler, DeleteUser, Find, AddMember, Broadcast, LeaveRoom, Quit, Dequeue,
       DeliverOk, DeliverFails, RemoveSelf
  <2>2. up' = up /\ pc[c] # "none"
    BY WorkerStep, WorkerPc
  <2> QED BY <2>1, <2>2 DEF Worker
<1>means. HeardMeans(c)
  BY HeardByMeans
<1>alive. alive /\ server' = "listening"
  BY <1>1, <1>means DEF HeardMeans, alive
<1>2. /\ replies[c] \in Seq(Sent) /\ inbox[c] \in Seq(Message) /\ printed[c] \in Seq(Printable)
      /\ Len(printed[c]) \in Nat /\ Len(inbox[c]) \in Nat
      /\ Told(printed[c], Len(printed[c])) \in Nat
  BY HeardTypes
<1>turn. TurnIn(printed[c], inbox[c], wide')
  BY <1>2, <1>means, TurnWider DEF HeardMeans
<1>behind. prog[c] \notin Over => BehindIn(replies[c], printed[c], wide')
  BY <1>2, <1>means, BehindWider DEF HeardMeans
<1>3. CASE peer[c] # "open"
  <2>1. inbox'[c] = inbox[c]
    BY <1>3, WorkerUnheard
  <2>2. prog[c] \in Over
    BY <1>1, <1>3 DEF ClientInv, StartInv
  <2>3. HeardMeans(c)'
    BY <1>1, <1>means, <1>alive, <1>turn, <2>1, <2>2 DEF HeardMeans, Over
  <2> QED BY <2>3, HeardByMeans
<1>4. CASE peer[c] = "open" /\ inbox'[c] = inbox[c]
           /\ \E sent \in Seq(Sent) : NoDelivery(sent) /\ replies'[c] = replies[c] \o sent
  <2>1. PICK sent \in Seq(Sent) : NoDelivery(sent) /\ replies'[c] = replies[c] \o sent
    BY <1>4
  <2>2. prog[c] \notin Over => Follows(c)'
    <3>1. Unqueued(sent)
      BY <2>1, NoDeliveryUnqueued
    <3> QED BY <1>1, <1>4, <1>means, <2>1, <3>1, FollowsReplies DEF HeardMeans
  <2>3. ASSUME NoDelivery(replies[c]) PROVE NoDelivery(replies'[c])
    BY <1>2, <2>1, <2>3, QuietJoined
  <2>4. ASSUME replies[c] # <<>> => replies[c][1].tag # "delivery", replies'[c] # <<>>
        PROVE  replies'[c][1].tag # "delivery"
    BY <1>2, <2>1, <2>4, FirstJoined
  <2>5. prog[c] \notin Over => BehindIn(replies'[c], printed[c], wide')
    BY <1>2, <1>behind, <2>1, BehindReplies
  <2>6. HeardMeans(c)'
    BY <1>1, <1>4, <1>means, <1>alive, <1>turn, <2>2, <2>3, <2>4, <2>5 DEF HeardMeans
  <2> QED BY <2>6, HeardByMeans
<1>5. CASE /\ peer[c] = "open" /\ pc[c] = "deliver"
           /\ \E m \in Message, line \in Sent, rest \in Seq(Sent) :
                /\ line.of = m /\ Unqueued(rest) /\ Len(rest) <= 1
                /\ rest # <<>> => CutIn(wide, m)
                /\ inbox'[c] = Append(inbox[c], m)
                /\ replies'[c] = Append(replies[c], line) \o rest
  <2>1. PICK m \in Message, line \in Sent, rest \in Seq(Sent) :
                /\ line.of = m /\ Unqueued(rest) /\ Len(rest) <= 1
                /\ rest # <<>> => CutIn(wide, m)
                /\ inbox'[c] = Append(inbox[c], m)
                /\ replies'[c] = Append(replies[c], line) \o rest
    BY <1>5
  <2>2. prog[c] \notin Over => Follows(c)'
    BY <1>1, <1>means, <1>alive, <2>1, FollowsDelivery DEF HeardMeans
  <2>3. /\ prog[c] \notin {"connect", "login", "greeting", "join"}
        /\ prog[c] = "joining" => replies[c] # <<>>
    BY <1>1, <1>alive, <1>5, DeliversInTime
  <2>4. ASSUME replies[c] # <<>> PROVE replies'[c][1] = replies[c][1]
    <3>1. /\ Append(replies[c], line) \in Seq(Sent) /\ Append(replies[c], line)[1] = replies[c][1]
          /\ Append(replies[c], line) # <<>>
      BY <1>2, <2>4, Popped, AppendProperties
    <3> QED BY <2>1, <3>1, FirstOfJoined
  <2>5. Told(printed[c], Len(printed[c])) <= Len(inbox'[c])
    <3>1. Len(inbox'[c]) = Len(inbox[c]) + 1
      BY <1>2, <2>1, AppendProperties
    <3>2. Told(printed[c], Len(printed[c])) <= Len(inbox[c])
      BY <1>means DEF HeardMeans
    <3> QED BY <1>2, <3>1, <3>2
  <2>6. TurnIn(printed[c], inbox'[c], wide')
    BY <1>2, <1>turn, <2>1, TurnArrived
  <2>7. prog[c] \notin Over => BehindIn(replies'[c], printed[c], wide')
    <3>1. rest # <<>> => CutIn(wide', m)
      BY <2>1 DEF Wider
    <3> QED BY <1>2, <1>behind, <2>1, <3>1, BehindDelivery
  <2>8. prog'[c] = "joining" /\ replies'[c] # <<>> => replies'[c][1].tag # "delivery"
    BY <1>1, <1>means, <2>3, <2>4 DEF HeardMeans
  <2>9. HeardMeans(c)'
    BY <1>1, <1>alive, <2>2, <2>3, <2>5, <2>6, <2>7, <2>8 DEF HeardMeans
  <2> QED BY <2>9, HeardByMeans
<1> QED BY <1>3, <1>4, <1>5, WorkerSays

\* A program that takes its reply, or prints what it is sent.
LEMMA TakerHeard ==
  ASSUME IInv, SessionTypeOK, NEW c \in Receivers, ClientInv(c), HeardBy(c),
         vars' = vars, server' = server, wide' = wide,
         replies[c] # <<>>, replies'[c] = Tail(replies[c]),
         \/ /\ prog[c] \in {"greeting", "joining"} /\ printed' = printed
            /\ prog'[c] = IF prog[c] = "greeting" THEN "join" ELSE "listen"
         \/ /\ prog[c] = "listen" /\ prog' = prog
            /\ printed'[c] = IF Head(replies[c]).tag = "delivery"
                             THEN Append(printed[c], Head(replies[c]).of) ELSE printed[c]
  PROVE  HeardBy(c)'
<1> USE Facts
<1>1. /\ replies[c] \in Seq(Sent) /\ inbox[c] \in Seq(Message) /\ printed[c] \in Seq(Printable)
      /\ Len(printed[c]) \in Nat /\ Len(inbox[c]) \in Nat
      /\ Told(printed[c], Len(printed[c])) \in Nat
  BY HeardTypes
<1>means. HeardMeans(c)
  BY HeardByMeans
<1>2. /\ up' = up /\ inbox' = inbox /\ pc' = pc /\ prog[c] \notin Over
      /\ Follows(c) /\ BehindIn(replies[c], printed[c], wide)
  BY <1>means DEF vars, HeardMeans, Over
<1>3. /\ Len(replies[c]) \in Nat \ {0} /\ Head(replies[c]) = replies[c][1]
      /\ replies[c][1] \in Sent
      /\ \A i \in 1..Len(Tail(replies[c])) : Tail(replies[c])[i] = replies[c][i + 1]
      /\ Len(Tail(replies[c])) = Len(replies[c]) - 1
  BY <1>1, Popped
<1>4. prog[c] \in {"greeting", "joining"} => replies[c][1].tag # "delivery"
  BY <1>3, <1>means DEF HeardMeans, NoDelivery
<1>5. printed'[c] = IF replies[c][1].tag = "delivery"
                    THEN Append(printed[c], replies[c][1].of) ELSE printed[c]
  BY <1>3, <1>4
<1>6. Follows(c)'
  BY <1>2, <1>5, FollowsTaken
<1>7. prog[c] = "greeting" => NoDelivery(Tail(replies[c]))
  <2> SUFFICES ASSUME prog[c] = "greeting", NEW i \in 1..Len(Tail(replies[c]))
               PROVE  Tail(replies[c])[i].tag # "delivery"
    BY DEF NoDelivery
  <2>1. i + 1 \in 1..Len(replies[c]) /\ Tail(replies[c])[i] = replies[c][i + 1]
    BY <1>3
  <2> QED BY <1>means, <2>1 DEF HeardMeans, NoDelivery
<1>8. BehindIn(replies'[c], printed'[c], wide)
  BY <1>1, <1>2, <1>5, BehindTaken
<1>9. /\ Told(printed'[c], Len(printed'[c])) <= Len(inbox[c])
      /\ TurnIn(printed'[c], inbox[c], wide)
  <2>0. TurnIn(printed[c], inbox[c], wide) /\ Told(printed[c], Len(printed[c])) <= Len(inbox[c])
    BY <1>means DEF HeardMeans
  <2>1. CASE replies[c][1].tag # "delivery"
    BY <1>5, <2>0, <2>1
  <2>2. CASE replies[c][1].tag = "delivery"
    <3>1. PICK m \in Printable : m = replies[c][1].of
      BY <1>3, SentFields
    <3>2. printed'[c] = Append(printed[c], m) /\ Len(printed'[c]) = Len(printed[c]) + 1
      BY <1>1, <1>5, <2>2, <3>1, AppendProperties
    <3>3. PICK heard \in Nat, last \in 0..Len(inbox[c]) :
            /\ heard = Told(printed[c], Len(printed[c]))
            /\ Carries(replies[c], heard, inbox[c], last)
      BY <1>1, <1>2 DEF Follows, Heard, Told
    <3>4. Told(printed'[c], Len(printed'[c])) = IF m # Nothing THEN heard + 1 ELSE heard
      BY <1>1, <3>2, <3>3, ToldMore
    <3>5. m # Nothing => heard + 1 <= Len(inbox[c]) /\ m = inbox[c][heard + 1]
      BY <1>1, <3>1, <3>3, TallyFirst
    <3>6. m = Nothing => printed[c] # <<>> /\ CutIn(wide, printed[c][Len(printed[c])])
      <4> SUFFICES ASSUME m = Nothing
                   PROVE  printed[c] # <<>> /\ CutIn(wide, printed[c][Len(printed[c])])
        OBVIOUS
      <4>1. replies[c][1] = Tagged("delivery") /\ 1 \in 1..Len(replies[c])
        BY <1>3, <2>2, <3>1, SentFields
      <4> QED BY <1>2, <4>1 DEF BehindIn
    <3>7. TurnIn(Append(printed[c], m), inbox[c], wide)
      BY <1>1, <2>0, <3>3, <3>5, <3>6, TurnPrinted
    <3>8. Told(printed'[c], Len(printed'[c])) <= Len(inbox[c])
      BY <2>0, <3>3, <3>4, <3>5
    <3> QED BY <3>2, <3>7, <3>8
  <2> QED BY <2>1, <2>2
<1>10. pc'[c] # "none" => server' = "listening"
  BY <1>2, <1>means DEF HeardMeans
<1>11. prog'[c] \in {"join", "listen"} /\ (prog'[c] = "join" => prog[c] = "greeting")
  OBVIOUS
<1>12. HeardMeans(c)'
  BY <1>2, <1>6, <1>7, <1>8, <1>9, <1>10, <1>11 DEF HeardMeans
<1> QED BY <1>12, HeardByMeans

\* And so does a program.
LEMMA ProgramHeard ==
  ASSUME IInv, SessionTypeOK, NEW c \in Receivers, ClientInv(c), HeardBy(c),
         Program(c) \/ User(c) \/ Connect(c)
  PROVE  HeardBy(c)'
<1> USE Facts
<1>1. up' = up /\ pc' = pc /\ inbox' = inbox /\ (alive' => alive) /\ server' = server
  <2>1. up' = up /\ pc' = pc /\ inbox' = inbox
    BY ProgramStep DEF Client, ClientCloses, ClientResets, Leaves, vars, chat
  <2>2. server' = server
    BY DEF Connect, Program, User, Login, Join, Asks, Greeted, Joined, TakeReply, Takes, Listen,
       ReceiveFails, Type, Typing, TypeNothing, Killed
  <2> QED BY <2>1, <2>2 DEF alive
<1>wide. wide' = wide
  BY DEF Connect, Program, User, Login, Join, Asks, Greeted, Joined, TakeReply, Takes, Listen,
     ReceiveFails, Type, Typing, TypeNothing, Killed
<1>means. HeardMeans(c)
  BY HeardByMeans
<1>2. ASSUME prog'[c] \in Over, printed' = printed PROVE HeardBy(c)'
  <2>1. HeardMeans(c)'
    BY <1>1, <1>2, <1>wide, <1>means DEF HeardMeans, Over
  <2> QED BY <2>1, HeardByMeans
<1>3. ASSUME replies' = replies, printed' = printed,
             \/ prog[c] = "connect" /\ prog'[c] = "login"
             \/ prog[c] = "login" /\ prog'[c] = "greeting"
             \/ prog[c] = "join" /\ prog'[c] = "joining"
      PROVE  HeardBy(c)'
  <2>1. Follows(c)'
    BY <1>1, <1>3, <1>means DEF HeardMeans, Follows, Heard, Over
  <2>2. replies[c] # <<>> => 1 \in 1..Len(replies[c])
    BY Popped DEF SessionTypeOK
  <2>3. HeardMeans(c)'
    BY <1>1, <1>3, <1>wide, <1>means, <2>1, <2>2 DEF HeardMeans, NoDelivery, Over
  <2> QED BY <2>3, HeardByMeans
<1>4. CASE Connect(c)
  <2>1. /\ replies' = replies /\ printed' = printed /\ prog[c] = "connect"
        /\ prog'[c] \in {"login", "refused"}
    BY <1>4 DEF Connect, Goes, SessionTypeOK
  <2> QED BY <1>2, <1>3, <2>1 DEF Over
<1>5. CASE Login(c) \/ Join(c)
  BY <1>3, <1>5 DEF Login, Join, Goes, Asks, SessionTypeOK
<1>6. CASE Greeted(c) \/ Joined(c)
  <2>1. /\ replies[c] # <<>> /\ Takes(c) /\ printed' = printed /\ c \notin Senders
        /\ \/ prog[c] = "greeting" /\ prog'[c] \in {"join", "exited"}
           \/ prog[c] = "joining" /\ prog'[c] \in {"listen", "exited"}
    BY <1>6 DEF Greeted, Joined, Takes, Goes, UnlessErr, SessionTypeOK
  <2>2. CASE prog'[c] = "exited"
    BY <1>2, <2>1, <2>2 DEF Over
  <2>3. CASE prog'[c] # "exited"
    <3>1. vars' = vars /\ replies'[c] = Tail(replies[c])
      BY <2>1, <2>3 DEF Takes, Over, SessionTypeOK
    <3> QED BY <1>1, <1>wide, <2>1, <2>3, <3>1, TakerHeard
  <2> QED BY <2>2, <2>3
<1>7. ~TakeReply(c)
  BY DEF TakeReply, Goes, ClientInv, StartInv
<1>8. CASE Listen(c)
  <2>1. /\ prog[c] = "listen" /\ replies[c] # <<>> /\ replies'[c] = Tail(replies[c])
        /\ vars' = vars /\ prog' = prog
        /\ printed'[c] = IF Head(replies[c]).tag = "delivery"
                         THEN Append(printed[c], Head(replies[c]).of) ELSE printed[c]
    BY <1>8 DEF Listen, SessionTypeOK
  <2> QED BY <1>1, <1>wide, <2>1, TakerHeard
<1>9. CASE ReceiveFails(c)
  <2>1. /\ replies[c] = <<>> /\ printed' = printed /\ c \notin Senders
        /\ prog'[c] \in {"exited", "join", "listen"} /\ prog[c] \notin Over
        /\ prog'[c] \notin Over => replies' = replies
    BY <1>9 DEF ReceiveFails, Goes, SessionTypeOK, Over
  <2>2. CASE prog'[c] = "exited"
    BY <1>2, <2>1, <2>2 DEF Over
  <2>3. CASE prog'[c] \in {"join", "listen"}
    <3>1. replies' = replies
      BY <2>1, <2>3 DEF Over
    <3>2. Follows(c)'
      BY <1>1, <1>means, <2>1, <3>1 DEF HeardMeans, Follows, Heard
    <3>3. NoDelivery(replies[c])
      BY <2>1 DEF NoDelivery
    <3>4. HeardMeans(c)'
      BY <1>1, <1>wide, <1>means, <2>1, <2>3, <3>1, <3>2, <3>3 DEF HeardMeans
    <3> QED BY <3>4, HeardByMeans
  <2> QED BY <2>1, <2>2, <2>3
<1>10. CASE User(c)
  <2>1. ~TypeNothing(c) /\ \A line \in Sendable : ~Type(c, line)
    BY DEF TypeNothing, Type, Typing, Goes, ClientInv, StartInv
  <2>2. Killed(c)
    BY <1>10, <2>1 DEF User
  <2> QED BY <1>2, <2>2 DEF Killed, SessionTypeOK, Over
<1> QED BY <1>4, <1>5, <1>6, <1>7, <1>8, <1>9, <1>10 DEF Program

\* And an accept.
LEMMA AcceptHeard ==
  ASSUME IInv, SessionTypeOK, NEW c \in Receivers, HeardBy(c), Accepts(c)
  PROVE  HeardBy(c)'
<1>1. /\ server = "listening" /\ server' = server /\ up' = up /\ inbox' = inbox
      /\ prog' = prog /\ replies' = replies /\ printed' = printed /\ wide' = wide
  BY DEF Accepts, Accept, chat, alive
<1>2. Follows(c) => Follows(c)'
  BY <1>1 DEF Follows, Heard, alive
<1>3. HeardMeans(c)'
  BY <1>1, <1>2, HeardByMeans DEF HeardMeans
<1> QED BY <1>3, HeardByMeans

\* Before the server runs nothing has been delivered.
LEMMA StartHeard ==
  ASSUME IInv, SessionTypeOK, NEW c \in Receivers, ClientInv(c), HeardBy(c), ServerStarts
  PROVE  HeardBy(c)'
<1> USE Facts
<1>1. /\ server = "starting" /\ vars' = vars /\ prog' = prog /\ replies' = replies
      /\ printed' = printed /\ wide' = wide
  BY DEF ServerStarts
<1>2. replies[c] = <<>> /\ pc[c] = "none"
  BY <1>1 DEF ClientInv, StartInv, Silence
<1>3. inbox[c] = <<>>
  BY <1>2 DEF IInv, ReceiverInv, Unassigned
<1>means. HeardMeans(c) /\ Told(printed[c], Len(printed[c])) \in Nat
  BY HeardByMeans, HeardTypes
<1>4. /\ Told(printed[c], Len(printed[c])) = 0 /\ Len(inbox[c]) = 0 /\ inbox[c] \in Seq(Message)
  <2>1. Len(inbox[c]) = 0
    BY <1>3
  <2> QED BY <1>means, <2>1, HeardTypes DEF HeardMeans
<1>5. Carries(replies[c], Told(printed[c], Len(printed[c])), inbox[c], 0)
  BY <1>2, <1>4, TallyNothing
<1>6. pc' = pc /\ inbox' = inbox
  BY <1>1 DEF vars
<1>7. Follows(c)'
  <2>1. 0 \in 0..Len(inbox'[c]) /\ Len(inbox'[c]) = 0
    BY <1>4, <1>6
  <2>2. Carries(replies'[c], Told(printed'[c], Len(printed'[c])), inbox'[c], 0)
    BY <1>1, <1>5, <1>6
  <2> QED BY <2>1, <2>2 DEF Follows, Heard, Told
<1>8. HeardMeans(c)'
  BY <1>1, <1>2, <1>6, <1>7, <1>means DEF HeardMeans
<1> QED BY <1>8, HeardByMeans

\* And a server that dies: all that was under way may be lost with it.
LEMMA DeathHeard ==
  ASSUME IInv, SessionTypeOK, NEW c \in Receivers, HeardBy(c), ServerDies
  PROVE  HeardBy(c)'
<1> USE Facts
<1>1. /\ ~alive' /\ pc' = pc /\ inbox' = inbox /\ server' = server /\ prog' = prog
      /\ printed' = printed /\ wide' = wide /\ replies'[c] \in {<<>>, replies[c]}
  BY DEF ServerDies, AcceptFails, UndefinedAbort, chat, alive
<1>means. HeardMeans(c)
  BY HeardByMeans
<1>2. ASSUME Follows(c) PROVE Follows(c)'
  <2>1. CASE replies'[c] = replies[c]
    BY <1>1, <1>2, <2>1 DEF Follows, Heard
  <2>2. CASE replies'[c] = <<>>
    <3>1. PICK heard \in Nat : heard = Told(printed[c], Len(printed[c]))
      BY HeardTypes
    <3>2. inbox[c] \in Seq(Message) /\ Len(inbox[c]) \in Nat /\ heard <= Len(inbox[c])
      BY <1>means, <3>1, HeardTypes DEF HeardMeans
    <3>3. Carries(<<>>, heard, inbox[c], heard)
      BY <3>2, TallyNothing
    <3>4. heard \in 0..Len(inbox'[c])
          /\ Carries(replies'[c], Told(printed'[c], Len(printed'[c])), inbox'[c], heard)
      BY <1>1, <2>2, <3>1, <3>2, <3>3
    <3> QED BY <1>1, <3>4 DEF Follows, Heard, Told
  <2> QED BY <1>1, <2>1, <2>2
<1>3. NoDelivery(<<>>) /\ BehindIn(<<>>, printed[c], wide)
  BY DEF NoDelivery, BehindIn
<1>4. HeardMeans(c)'
  BY <1>1, <1>2, <1>3, <1>means DEF HeardMeans
<1> QED BY <1>4, HeardByMeans

-----------------------------------------------------------------------------
\* At first nothing has been heard.
LEMMA InitHeard == SessionInit => HeardIInv
<1> SUFFICES ASSUME SessionInit PROVE HeardIInv
  OBVIOUS
<1> USE Facts
<1>1. ASSUME NEW c \in Senders PROVE OnlyTypedBy(c)
  BY TextsGone DEF SessionInit, Init, OnlyTypedBy
<1>2. ASSUME NEW c \in Receivers PROVE HeardBy(c)
  <2>1. /\ inbox[c] = <<>> /\ replies[c] = <<>> /\ printed[c] = <<>> /\ pc[c] = "none"
        /\ server = "starting" /\ Len(<<>>) = 0
    BY DEF SessionInit, Init
  <2>2. Told(<<>>, 0) = 0
    <3>1. {i \in 1..0 : <<>>[i] # Nothing} = {}
      OBVIOUS
    <3> QED BY <3>1, FS_EmptySet DEF Told
  <2>3. Carries(<<>>, 0, <<>>, 0)
    <3>1. PICK a, b : a = <<>> /\ b = 0
      OBVIOUS
    <3>2. a \in Seq(Message) /\ b \in Nat /\ b <= Len(a)
      BY <2>1, <3>1
    <3>3. Carries(<<>>, b, a, b)
      BY <3>2, TallyNothing
    <3> QED BY <3>1, <3>3
  <2>4. Follows(c)
    <3>1. /\ 0 \in 0..Len(inbox[c]) /\ 0 = Len(inbox[c])
          /\ Told(printed[c], Len(printed[c])) = 0
      BY <2>1, <2>2
    <3>2. Carries(replies[c], Told(printed[c], Len(printed[c])), inbox[c], 0)
      BY <2>1, <2>3, <3>1
    <3> QED BY <3>1, <3>2 DEF Follows, Heard, Told
  <2>5. /\ TurnIn(<<>>, <<>>, wide) /\ BehindIn(<<>>, <<>>, wide) /\ NoDelivery(<<>>)
    BY DEF TurnIn, BehindIn, NoDelivery
  <2>6. HeardMeans(c)
    BY <2>1, <2>2, <2>4, <2>5 DEF HeardMeans
  <2> QED BY <2>6, HeardByMeans
<1> QED BY <1>1, <1>2 DEF HeardIInv, OnlyTyped

\* A text that is too long stays so.
LEMMA WideGrows ==
  ASSUME SessionTypeOK, [SessionNext]_svars
  PROVE  Wider(wide, wide')
<1> USE Facts
<1>1. \A d \in Clients : wide[d] \subseteq wide'[d]
  <2>1. ASSUME NEW c \in Clients, Worker(c) PROVE \A d \in Clients : wide[d] \subseteq wide'[d]
    BY <2>1 DEF Worker, Serves, Works, WorkerLogin, ServeJoin, ServeText, ServeLeave, ServeQuit,
       ServeOther, SessionTypeOK
  <2>2. ASSUME NEW c \in Clients, Program(c) \/ User(c) \/ Connect(c) \/ Accepts(c)
        PROVE  wide' = wide
    BY <2>2 DEF Connect, Program, User, Login, Join, Asks, Greeted, Joined, TakeReply, Takes,
       Listen, ReceiveFails, Type, Typing, TypeNothing, Killed, Accepts
  <2>3. CASE ServerStarts \/ ServerDies \/ UNCHANGED svars
    BY <2>3 DEF ServerStarts, ServerDies, svars
  <2> QED BY <2>1, <2>2, <2>3 DEF SessionNext
<1>2. \A m \in Message : m.from \in Clients
  BY DEF Message
<1> QED BY <1>1, <1>2 DEF Wider, CutIn

\* Every step of the system keeps what is heard in order.
LEMMA HeardPreserved ==
  ASSUME IInv, SessionIInv, HeardIInv, [SessionNext]_svars
  PROVE  HeardIInv'
<1> USE Facts
<1>types. SessionTypeOK /\ \A c \in Clients : ClientInv(c)
  BY DEF SessionIInv
<1>wider. Wider(wide, wide')
  BY <1>types, WideGrows
<1>1. OnlyTyped'
  BY TypedPreserved DEF HeardIInv
<1>2. ASSUME NEW d \in Receivers PROVE HeardBy(d)'
  <2>1. HeardBy(d) /\ ClientInv(d)
    BY <1>types DEF HeardIInv
  <2>2. CASE ServerStarts
    BY <1>types, <2>1, <2>2, StartHeard
  <2>3. CASE ServerDies
    BY <1>types, <2>1, <2>3, DeathHeard
  <2>4. ASSUME NEW c \in Clients, Program(c) \/ User(c) \/ Connect(c) PROVE HeardBy(d)'
    BY <1>wider, <1>types, <2>1, <2>4, ProgramHeard, ProgramElsewhere, HeardStill
  <2>5. ASSUME NEW c \in Clients, Accepts(c) PROVE HeardBy(d)'
    BY <1>wider, <1>types, <2>1, <2>5, AcceptHeard, AcceptElsewhere, HeardStill
  <2>6. ASSUME NEW c \in Clients, Worker(c) PROVE HeardBy(d)'
    BY <1>wider, <1>types, <2>1, <2>6, WorkerHeard, WorkerElsewhere, HeardStill
  <2>7. CASE UNCHANGED svars
    BY <1>wider, <1>types, <2>1, <2>7, HeardStill DEF svars, counts, vars, Still
  <2> QED BY <2>2, <2>3, <2>4, <2>5, <2>6, <2>7 DEF SessionNext
<1> QED BY <1>1, <1>2 DEF HeardIInv

\* What is printed has been queued, and what has been queued is still among all that
\* arrives.
LEMMA HeardIInvInOrder == IInv /\ SessionIInv /\ HeardIInv => HeardInOrder
<1> SUFFICES ASSUME IInv, SessionIInv, HeardIInv, NEW c \in Receivers, NEW i \in 1..Len(printed[c])
             PROVE  IF printed[c][i] = Nothing THEN i > 1 /\ CutText(printed[c][i - 1])
                    ELSE /\ Heard(c, i) <= Len(Arrivals(c))
                         /\ printed[c][i] = Arrivals(c)[Heard(c, i)]
  BY DEF HeardIInv, HeardInOrder
<1> USE Facts
<1>1. /\ inbox[c] \in Seq(Message) /\ printed[c] \in Seq(Printable) /\ mqueue[c] \in Seq(Message)
      /\ temp[c] # Nothing => temp[c] \in Message
  BY HeardTypes DEF SessionIInv, IInv, TypeOK, ChatTypeOK
<1>2. InTurn(c, i)
  BY DEF HeardIInv, HeardBy
<1>3. CASE printed[c][i] = Nothing
  BY <1>2, <1>3 DEF InTurn
<1>4. CASE printed[c][i] # Nothing
  <2>1. PICK n : n = Heard(c, i)
    OBVIOUS
  <2>2. n \in 1..Len(inbox[c]) /\ printed[c][i] = inbox[c][n]
    <3>1. n = Told(printed[c], i) /\ i \in 0..Len(printed[c]) /\ i > 0 /\ Len(inbox[c]) \in Nat
      BY <1>1, <2>1, LenProperties DEF Heard, Told
    <3>2. n \in Nat /\ n # 0
      BY <1>1, <1>4, <3>1, ToldCounted
    <3>3. n <= Len(inbox[c]) /\ printed[c][i] = inbox[c][n]
      BY <1>2, <1>4, <2>1 DEF InTurn
    <3> QED BY <3>1, <3>2, <3>3
  <2>3. PICK hand : hand = IF temp[c] = Nothing THEN <<>> ELSE <<temp[c]>>
    OBVIOUS
  <2>4. hand \in Seq(Message) /\ Arrivals(c) = (inbox[c] \o hand) \o mqueue[c]
    BY <1>1, <2>3 DEF Arrivals
  <2>5. PICK b : b = inbox[c] \o hand
    OBVIOUS
  <2>6. /\ b \in Seq(Message) /\ Len(b) = Len(inbox[c]) + Len(hand)
        /\ Len(inbox[c]) \in Nat /\ Len(hand) \in Nat
        /\ \A j \in 1..Len(inbox[c]) : b[j] = inbox[c][j]
    BY <1>1, <2>4, <2>5, Pushed
  <2>7. n \in 1..Len(b) /\ b[n] = inbox[c][n]
    BY <2>2, <2>6
  <2>8. PICK w \in Seq(Message) : w = mqueue[c]
    BY <1>1
  <2>9. /\ Len(b \o w) = Len(b) + Len(w) /\ Len(b) \in Nat /\ Len(w) \in Nat
        /\ \A j \in 1..Len(b) : (b \o w)[j] = b[j]
    <3>1. b \in Seq(Message)
      BY <2>6
    <3> QED BY <3>1, Pushed
  <2>10. n <= Len(b \o w) /\ (b \o w)[n] = printed[c][i]
    BY <2>2, <2>7, <2>9
  <2>11. Arrivals(c) = b \o w
    BY <2>4, <2>5, <2>8
  <2> QED BY <1>4, <2>1, <2>10, <2>11
<1> QED BY <1>3, <1>4

\* However many clients there are, whatever they type and whenever they or the
\* server are killed, a receiver prints what its room's queue held for it, each
\* message once and in order, with none left out before one that is printed; what
\* it prints besides is what was cut off a text, right behind it; and a sender's
\* worker takes up no more texts than were typed, cut off one, or left in its
\* buffer by a read error (receiver.cpp:76-94 with server.cpp:78-186 and
\* message_queue.cpp:23-65).
THEOREM SessionHeardInOrder == SessionSpec => []HeardInOrder
<1>1. SessionInit => IInv /\ SessionIInv /\ HeardIInv
  BY InitIInv, InitSessionIInv, InitHeard DEF SessionInit
<1>2. IInv /\ SessionIInv /\ HeardIInv /\ [SessionNext]_svars
        => (IInv /\ SessionIInv /\ HeardIInv)'
  BY SessionStep, NextPreserves, SessionPreserves, HeardPreserved
<1>3. IInv /\ SessionIInv /\ HeardIInv => HeardInOrder
  BY HeardIInvInOrder
<1> QED BY <1>1, <1>2, <1>3, PTL DEF SessionSpec
=============================================================================
