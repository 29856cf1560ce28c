----------------------------- MODULE ChatServer -----------------------------
(***************************************************************************)
(* The chat server of hw5 (server.cpp): the accept loop, one worker thread *)
(* per connection running chat_with_sender or chat_with_receiver, the      *)
(* rooms, and every user's message queue.  A room's methods and a queue's  *)
(* are single steps (Room and MessageQueue are shown to behave so); the    *)
(* workers interleave between them.                                        *)
(*                                                                         *)
(* A client's line and the worker's reading of it are one step: the        *)
(* socket is a FIFO that only this worker reads.  A client may close its   *)
(* connection or reset it (exit with a reply unread) at any moment.        *)
(***************************************************************************)
EXTENDS Naturals, Sequences, FiniteSets

CONSTANTS Clients,      \* the connections that may be made
          Role,         \* Role[c]: the tag c logs in with
          Name,         \* Name[c]: the username c logs in with
          RoomNames,    \* names that clients ask for
          Leavers,      \* clients that may close or reset their connection
          MaxLines,     \* bound: lines one client sends after its login
          MaxFds,       \* connections the descriptor table has room for
          MaxThreads,   \* worker threads that pthread_create can start
          NoRoom,       \* users_room is nullptr
          Uninit,       \* room in chat_with_receiver before any assignment
          Nothing       \* no message in hand

Roles == {"slogin", "rlogin", "other"}

ASSUME ClientAssumption == Role \in [Clients -> Roles] /\ Leavers \subseteq Clients
ASSUME BoundAssumption  == MaxLines \in Nat /\ MaxFds \in Nat /\ MaxThreads \in Nat
ASSUME RoomAssumption   == NoRoom \notin RoomNames /\ Uninit \notin RoomNames
                           /\ NoRoom # Uninit

Senders   == {c \in Clients : Role[c] = "slogin"}
Receivers == {c \in Clients : Role[c] = "rlogin"}

\* A broadcast text: the room and user it names, and the sender's count of
\* sendall lines, which stands for the text.
Message == [room : RoomNames, from : Senders, text : 1..MaxLines]
ASSUME NothingAssumption == Nothing \notin Message

VARIABLES up,           \* the server process is running
          peer,         \* peer[c]: the client's end of the connection
          fds,          \* connections whose descriptor the server holds
          pc,           \* where c's worker is
          arg,          \* room of the join, or text of the sendall, in hand
          userRoom,     \* User::users_room
          roomVar,      \* room in chat_with_receiver
          m_rooms,      \* names in the server's map of rooms
          members,      \* members[r]: the users in r
          mqueue,       \* User::mqueue
          temp,         \* the message dequeued by c's worker
          lines, texts, \* lines and sendall lines c has sent
          inbox         \* history: deliveries that reached c

vars == <<up, peer, fds, pc, arg, userRoom, roomVar, m_rooms, members, mqueue,
          temp, lines, texts, inbox>>
conn  == <<up, peer, fds>>
chat  == <<userRoom, roomVar, m_rooms, members, mqueue, temp, inbox>>
input == <<arg, lines, texts>>

INSTANCE Delivery WITH Users <- Clients

-----------------------------------------------------------------------------
Init == /\ up = TRUE
        /\ peer = [c \in Clients |-> "none"]
        /\ fds = {}
        /\ pc = [c \in Clients |-> "none"]
        /\ arg = [c \in Clients |-> Nothing]
        /\ userRoom = [c \in Clients |-> NoRoom]
        /\ roomVar = [c \in Clients |-> Uninit]
        /\ m_rooms = {}
        /\ members = [r \in RoomNames |-> {}]
        /\ mqueue = [c \in Clients |-> <<>>]
        /\ temp = [c \in Clients |-> Nothing]
        /\ lines = [c \in Clients |-> 0]
        /\ texts = [c \in Clients |-> 0]
        /\ inbox = [c \in Clients |-> <<>>]

Running(c, from) == up /\ pc[c] = from
Goto(c, to) == pc' = [pc EXCEPT ![c] = to]
Step(c, from, to) == Running(c, from) /\ Goto(c, to)

\* Workers that exist.
Threads == {c \in Clients : pc[c] \notin {"none", "noThread", "ended"}}

(***************************************************************************)
(* Connection::send.  A write to a closed connection still succeeds until  *)
(* the reset it provokes comes back; after a reset it fails.               *)
(***************************************************************************)
SendOk(c) == /\ peer[c] \in {"open", "closed"}
             /\ \/ UNCHANGED peer
                \/ peer[c] = "closed" /\ peer' = [peer EXCEPT ![c] = "gone"]
SendFails(c) == /\ peer[c] \in {"reset", "gone"}
                /\ peer' = [peer EXCEPT ![c] = "gone"]
\* Replies are sent without looking at the result.
Reply(c) == SendOk(c) \/ SendFails(c)

(***************************************************************************)
(* Connection::receive, by its outcome for the worker.                     *)
(***************************************************************************)
\* What a client sent before it went may still be there to read.
ReadsLine(c) == /\ peer[c] # "none" /\ lines[c] < MaxLines
                /\ lines' = [lines EXCEPT ![c] = @ + 1]
GetsLine(c) == ReadsLine(c) /\ UNCHANGED peer
\* A read error is taken for success (n is unsigned).  The message is then what
\* the buffer on the stack holds: the line before it, perhaps, or no command.
GetsResidue(c) == /\ peer[c] = "reset" /\ lines[c] < MaxLines
                  /\ lines' = [lines EXCEPT ![c] = @ + 1]
                  /\ peer' = [peer EXCEPT ![c] = "gone"]
GetsGarbage(c) == /\ peer[c] = "reset"
                  /\ peer' = [peer EXCEPT ![c] = "gone"]
                  /\ UNCHANGED lines
GetsCommand(c) == GetsLine(c) \/ GetsResidue(c)
\* The same, with a reply at once; after a read error that one is lost.
RepliesToLine(c) == ReadsLine(c) /\ Reply(c)
RepliesToCommand(c) == RepliesToLine(c) \/ GetsResidue(c)
GetsEof(c) == /\ peer[c] \in {"closed", "gone"}
              /\ UNCHANGED lines

-----------------------------------------------------------------------------
(***************************************************************************)
(* Plausible wrong versions of the steps below, used by no specification.  *)
(***************************************************************************)
\* users_room is set, and the reply sent, but the room is not told.
AddMemberForgotten(c) ==
  /\ Step(c, "add", IF c \in Receivers THEN "loop" ELSE "request")
  /\ userRoom' = [userRoom EXCEPT ![c] = arg[c]]
  /\ Reply(c)
  /\ UNCHANGED <<up, fds, roomVar, m_rooms, members, mqueue, temp, inbox, input>>

\* The room found is not kept in chat_with_receiver's variable.
FindUnassigned(c) ==
  /\ Step(c, "find", "add")
  /\ m_rooms' = m_rooms \cup {arg[c]}
  /\ UNCHANGED <<conn, input, userRoom, roomVar, members, mqueue, temp, inbox>>

\* A failed send is ignored.
DeliverFailsForgotten(c) ==
  /\ Step(c, "deliver", "loop")
  /\ SendFails(c)
  /\ temp' = [temp EXCEPT ![c] = Nothing]
  /\ UNCHANGED <<up, fds, input, userRoom, roomVar, m_rooms, members, mqueue, inbox>>

\* The message is taken from the back of the queue.
DequeueBack(c) ==
  /\ Step(c, "loop", "deliver")
  /\ mqueue[c] # <<>>
  /\ temp' = [temp EXCEPT ![c] = mqueue[c][Len(mqueue[c])]]
  /\ mqueue' = [mqueue EXCEPT ![c] = SubSeq(@, 1, Len(@) - 1)]
  /\ UNCHANGED <<conn, input, userRoom, roomVar, m_rooms, members, inbox>>

\* The message is deleted but the loop keeps the pointer.
DeliverDangling(c) ==
  /\ Step(c, "deliver", "loop")
  /\ SendOk(c)
  /\ inbox' = [inbox EXCEPT ![c] = IF peer[c] = "open" THEN Append(@, temp[c]) ELSE @]
  /\ UNCHANGED <<up, fds, input, userRoom, roomVar, m_rooms, members, mqueue, temp>>

-----------------------------------------------------------------------------
(***************************************************************************)
(* handle_client_requests.                                                 *)
(***************************************************************************)
\* The client may have gone while it waited to be accepted.  The result of
\* pthread_create is not looked at: without a thread the connection stays open
\* and unanswered.
Accept(c) ==
  /\ Running(c, "none")
  /\ Cardinality(fds) < MaxFds
  /\ Goto(c, IF Cardinality(Threads) < MaxThreads THEN "login" ELSE "noThread")
  /\ \E end \in {"open"} \cup (IF c \in Leavers THEN {"closed"} ELSE {}) :
       peer' = [peer EXCEPT ![c] = end]
  /\ fds' = fds \cup {c}
  /\ UNCHANGED <<up, input, chat>>

\* Accept of csapp.c exits the process when accept fails, which it does when
\* there is no descriptor left.
AcceptFails == /\ up
               /\ Cardinality(fds) >= MaxFds
               /\ up' = FALSE
               /\ UNCHANGED <<peer, fds, pc, input, chat>>

(***************************************************************************)
(* worker.                                                                 *)
(***************************************************************************)
LoginAs(c, role, next) == /\ Step(c, "login", next)
                          /\ Role[c] = role
                          /\ Reply(c)
                          /\ UNCHANGED <<up, fds, input, chat>>
LoginSender(c)   == LoginAs(c, "slogin", "request")
LoginReceiver(c) == LoginAs(c, "rlogin", "join")

\* Any other line, and a connection that ends before its login, get "Invalid
\* login attempt!".
LoginRejected(c) == /\ Step(c, "login", "delete")
                    /\ \/ Role[c] = "other" /\ Reply(c) /\ UNCHANGED lines
                       \/ GetsGarbage(c)
                       \/ GetsEof(c) /\ Reply(c)
                    /\ UNCHANGED <<up, fds, arg, texts, chat>>

\* delete of the User pointer that this path never set; the descriptor is not
\* closed.
DeleteUser(c) == /\ Step(c, "delete", "ended")
                 /\ UNCHANGED <<conn, input, chat>>

\* Undefined behaviour may end the process instead of going on: the delete of
\* an unset pointer, and pop_back on the empty data of a failed receive.
UndefinedAbort(c) == /\ \/ Running(c, "delete")
                        \/ /\ \E s \in {"login", "request", "join"} : Running(c, s)
                           /\ GetsEof(c)
                     /\ up' = FALSE
                     /\ UNCHANGED <<peer, fds, pc, input, chat>>

(***************************************************************************)
(* chat_with_sender: one request...                                        *)
(***************************************************************************)
JoinRequest(c) == /\ Step(c, "request", "find")
                  /\ GetsCommand(c)
                  /\ \E r \in RoomNames : arg' = [arg EXCEPT ![c] = r]
                  /\ UNCHANGED <<up, fds, texts, chat>>

\* "You are not in a room" when users_room is nullptr.
SendAllRequest(c) ==
  /\ Running(c, "request")
  /\ texts' = [texts EXCEPT ![c] = @ + 1]
  /\ arg' = [arg EXCEPT ![c] = texts[c] + 1]
  /\ IF userRoom[c] = NoRoom THEN Goto(c, "request") /\ RepliesToCommand(c)
                             ELSE Goto(c, "broadcast") /\ GetsCommand(c)
  /\ UNCHANGED <<up, fds, chat>>

LeaveRequest(c) ==
  /\ Running(c, "request")
  /\ IF userRoom[c] = NoRoom THEN Goto(c, "request") /\ RepliesToCommand(c)
                             ELSE Goto(c, "leave") /\ GetsCommand(c)
  /\ UNCHANGED <<up, fds, arg, texts, chat>>

QuitRequest(c) == /\ Step(c, "request", "quit")
                  /\ GetsCommand(c)
                  /\ UNCHANGED <<up, fds, arg, texts, chat>>

\* "Invalid command!"; the loop goes on for ever after the end of the stream.
InvalidRequest(c) == /\ Running(c, "request")
                     /\ \/ RepliesToLine(c)
                        \/ GetsGarbage(c)
                        \/ GetsEof(c) /\ Reply(c)
                     /\ UNCHANGED <<up, fds, pc, arg, texts, chat>>

(***************************************************************************)
(* ... and what it does.                                                   *)
(***************************************************************************)
\* find_or_create_room, for a sender and for a receiver.
Find(c) ==
  /\ Step(c, "find", "add")
  /\ m_rooms' = m_rooms \cup {arg[c]}
  /\ roomVar' = [roomVar EXCEPT ![c] = IF c \in Receivers THEN arg[c] ELSE @]
  /\ UNCHANGED <<conn, input, userRoom, members, mqueue, temp, inbox>>

\* A user who is in another room stays a member of it.
AddMember(c) ==
  /\ Step(c, "add", IF c \in Receivers THEN "loop" ELSE "request")
  /\ members' = [members EXCEPT ![arg[c]] = @ \cup {c}]
  /\ userRoom' = [userRoom EXCEPT ![c] = arg[c]]
  /\ Reply(c)
  /\ UNCHANGED <<up, fds, roomVar, m_rooms, mqueue, temp, inbox, input>>

Broadcast(c) ==
  /\ Step(c, "broadcast", "request")
  /\ mqueue' = Deliver(mqueue, members[userRoom[c]], c,
                       [room |-> userRoom[c], from |-> c, text |-> arg[c]])
  /\ Reply(c)
  /\ UNCHANGED <<up, fds, userRoom, roomVar, m_rooms, members, temp, inbox, input>>

\* remove_member(user) on users_room, which becomes nullptr.
RemoveFromUsersRoom(c) ==
  /\ members' = [r \in RoomNames |-> IF r = userRoom[c] THEN members[r] \ {c}
                                                        ELSE members[r]]
  /\ userRoom' = [userRoom EXCEPT ![c] = NoRoom]

LeaveRoom(c) == /\ Step(c, "leave", "request")
                /\ RemoveFromUsersRoom(c)
                /\ Reply(c)
                /\ UNCHANGED <<up, fds, roomVar, m_rooms, mqueue, temp, inbox, input>>

\* The worker then deletes the connection, which closes the descriptor; the
\* User is not deleted.
Quit(c) == /\ Step(c, "quit", "ended")
           /\ RemoveFromUsersRoom(c)
           /\ Reply(c)
           /\ fds' = fds \ {c}
           /\ UNCHANGED <<up, roomVar, m_rooms, mqueue, temp, inbox, input>>

(***************************************************************************)
(* chat_with_receiver.                                                     *)
(***************************************************************************)
ReceiverJoin(c) == /\ Step(c, "join", "find")
                   /\ GetsCommand(c)
                   /\ \E r \in RoomNames : arg' = [arg EXCEPT ![c] = r]
                   /\ UNCHANGED <<up, fds, texts, chat>>

\* "Invalid join command from receiver!", and on to the loop without a room.
ReceiverNoJoin(c) == /\ Step(c, "join", "loop")
                     /\ \/ RepliesToLine(c)
                        \/ GetsGarbage(c)
                        \/ GetsEof(c) /\ Reply(c)
                     /\ UNCHANGED <<up, fds, arg, texts, chat>>

\* A dequeue that times out changes nothing and is not a step.
Dequeue(c) ==
  /\ Step(c, "loop", "deliver")
  /\ mqueue[c] # <<>>
  /\ temp' = [temp EXCEPT ![c] = Head(mqueue[c])]
  /\ mqueue' = [mqueue EXCEPT ![c] = Tail(@)]
  /\ UNCHANGED <<conn, input, userRoom, roomVar, m_rooms, members, inbox>>

DeliverOk(c) ==
  /\ Step(c, "deliver", "loop")
  /\ SendOk(c)
  /\ inbox' = [inbox EXCEPT ![c] = IF peer[c] = "open" THEN Append(@, temp[c]) ELSE @]
  /\ temp' = [temp EXCEPT ![c] = Nothing]
  /\ UNCHANGED <<up, fds, input, userRoom, roomVar, m_rooms, members, mqueue>>

DeliverFails(c) ==
  /\ Step(c, "deliver", "remove")
  /\ SendFails(c)
  /\ temp' = [temp EXCEPT ![c] = Nothing]
  /\ UNCHANGED <<up, fds, input, userRoom, roomVar, m_rooms, members, mqueue, inbox>>

\* room->remove_member(user), then the loop goes on.
RemoveSelf(c) ==
  /\ Step(c, "remove", "loop")
  /\ members' = [r \in RoomNames |-> IF r = roomVar[c] THEN members[r] \ {c}
                                                       ELSE members[r]]
  /\ UNCHANGED <<conn, input, userRoom, roomVar, m_rooms, mqueue, temp, inbox>>

(***************************************************************************)
(* The client's end.                                                       *)
(***************************************************************************)
Leaves(c, how) == /\ up /\ c \in Leavers /\ peer[c] = "open"
                  /\ peer' = [peer EXCEPT ![c] = how]
                  /\ UNCHANGED <<up, fds, pc, input, chat>>
ClientCloses(c) == Leaves(c, "closed")
ClientResets(c) == Leaves(c, "reset")

-----------------------------------------------------------------------------
Request(c) == \/ LoginSender(c) \/ LoginReceiver(c) \/ LoginRejected(c)
              \/ JoinRequest(c) \/ SendAllRequest(c) \/ LeaveRequest(c)
              \/ QuitRequest(c) \/ InvalidRequest(c)
              \/ ReceiverJoin(c) \/ ReceiverNoJoin(c)

\* What a worker does without waiting for its client.
Handler(c) == \/ DeleteUser(c) \/ Find(c) \/ AddMember(c) \/ Broadcast(c)
              \/ LeaveRoom(c) \/ Quit(c)
              \/ Dequeue(c) \/ DeliverOk(c) \/ DeliverFails(c) \/ RemoveSelf(c)

Client(c) == ClientCloses(c) \/ ClientResets(c)

Next == \/ \E c \in Clients : \/ Accept(c) \/ UndefinedAbort(c) \/ Request(c)
                              \/ Handler(c) \/ Client(c)
        \/ AcceptFails

\* Workers that have something to do get to do it; clients need not send,
\* connect or leave, and a client that stays reads what it is sent.
Fairness == \A c \in Clients : WF_vars(Handler(c))

Spec == Init /\ [][Next]_vars /\ Fairness

-----------------------------------------------------------------------------
SenderPc   == {"request", "broadcast", "leave", "quit"}
ReceiverPc == {"join", "loop", "deliver", "remove"}
SharedPc   == {"none", "noThread", "login", "delete", "find", "add", "ended"}

ConnTypeOK ==
  /\ up \in BOOLEAN
  /\ peer \in [Clients -> {"none", "open", "closed", "reset", "gone"}]
  /\ fds \subseteq Clients
  /\ lines \in [Clients -> 0..MaxLines]
  /\ texts \in [Clients -> 0..MaxLines]
  /\ \A c \in Clients : texts[c] <= lines[c]

PcTypeOK ==
  /\ pc \in [Clients -> SharedPc \cup SenderPc \cup ReceiverPc]
  /\ arg \in [Clients -> RoomNames \cup (1..MaxLines) \cup {Nothing}]
  /\ \A c \in Clients : /\ pc[c] \in SenderPc => c \in Senders
                        /\ pc[c] \in ReceiverPc => c \in Receivers
                        /\ pc[c] \in {"find", "add"} => /\ arg[c] \in RoomNames
                                                        /\ c \in Senders \cup Receivers
                        /\ pc[c] = "broadcast" => arg[c] \in 1..MaxLines

ChatTypeOK ==
  /\ userRoom \in [Clients -> RoomNames \cup {NoRoom}]
  /\ roomVar \in [Clients -> RoomNames \cup {Uninit}]
  /\ m_rooms \subseteq RoomNames
  /\ members \in [RoomNames -> SUBSET Clients]
  /\ mqueue \in [Clients -> Seq(Message)]
  /\ temp \in [Clients -> Message \cup {Nothing}]
  /\ \A c \in Clients : (temp[c] # Nothing) <=> (pc[c] = "deliver")
  /\ inbox \in [Clients -> Seq(Message)]

\* Every variable keeps to its type, a worker handles only the requests of its
\* client's role, and it has the room or text of the request in hand.
TypeOK == ConnTypeOK /\ PcTypeOK /\ ChatTypeOK

\* All that is on its way to c or has arrived, oldest first.
Arrivals(c) == inbox[c] \o (IF temp[c] = Nothing THEN <<>> ELSE <<temp[c]>>) \o mqueue[c]

\* The pointer that chat_with_receiver leaves unset when the client did not
\* join (server.cpp:159) is never used: such a receiver is in no room, so
\* nothing is ever queued for it and no delivery of its can fail.
NoUninitRoom ==
  \A c \in Receivers :
    roomVar[c] = Uninit => /\ pc[c] \notin {"deliver", "remove"}
                           /\ mqueue[c] = <<>>

\* A receiver hears one room only, the one its worker's local variable names
\* (none if that is unset), and never a message sent under its own username: it
\* is in no other room's members and nothing else is queued for it, however the
\* senders' joins, leaves and broadcasts interleave with its own join
\* (server.cpp:157-184).
RightRoom ==
  /\ \A c \in Receivers :
       /\ \A r \in RoomNames : c \in members[r] => r = roomVar[c] /\ r \in m_rooms
       /\ \A i \in 1..Len(Arrivals(c)) : LET m == Arrivals(c)[i] IN
            m.room = roomVar[c] /\ Name[m.from] # Name[c]
  /\ NoUninitRoom

\* The rooms and the users agree: a sender with a users_room is a member of it,
\* and a receiver that joined and whose client is still there has not been
\* dropped, whoever else left, quit or failed.
Membership ==
  /\ \A c \in Senders :
       userRoom[c] # NoRoom => c \in members[userRoom[c]] /\ userRoom[c] \in m_rooms
  /\ \A c \in Receivers :
       /\ peer[c] = "open" /\ pc[c] \in {"loop", "deliver"} /\ roomVar[c] # Uninit
       => c \in members[roomVar[c]]

\* The messages of one sender reach each receiver in the order they were sent
\* and at most once, across joins, leaves and room changes of the sender
\* (what verify() in test_concurrent.sh:140-162 looks for).
InOrder ==
  \A c \in Receivers : \A i, j \in 1..Len(Arrivals(c)) :
    i < j /\ Arrivals(c)[i].from = Arrivals(c)[j].from
      => Arrivals(c)[i].text < Arrivals(c)[j].text

\* A receiver whose client is gone leaves its room for good once there is
\* anything to deliver to it (server.cpp:179-184), unless the server dies.
GoneIsRemoved ==
  \A c \in Receivers :
    (peer[c] = "gone" /\ mqueue[c] # <<>>)
      ~> ([](\A r \in RoomNames : c \notin members[r]) \/ ~up)

-----------------------------------------------------------------------------
(***************************************************************************)
(* The inductive strengthening of RightRoom and Membership.                *)
(***************************************************************************)
\* Where a receiver's worker is before its room variable is assigned.
Unassigned == {"none", "noThread", "login", "delete", "ended", "join", "find"}

\* What c may be sent.
Hearable(c) == {m \in Message : m.room = roomVar[c] /\ Name[m.from] # Name[c]}

ReceiverInv(c) ==
  /\ mqueue[c] \in Seq(Hearable(c)) /\ inbox[c] \in Seq(Hearable(c))
  /\ temp[c] # Nothing => temp[c] \in Hearable(c)
  /\ \A r \in RoomNames : c \in members[r] => r = roomVar[c] /\ r \in m_rooms
  /\ pc[c] \in Unassigned => roomVar[c] = Uninit
  /\ roomVar[c] = Uninit => /\ pc[c] \notin {"deliver", "remove"}
                            /\ mqueue[c] = <<>> /\ inbox[c] = <<>>
  /\ pc[c] = "add" => roomVar[c] = arg[c] /\ arg[c] \in m_rooms
  /\ pc[c] = "remove" => peer[c] # "open"
  /\ peer[c] = "open" /\ pc[c] \in {"loop", "deliver"} /\ roomVar[c] # Uninit
       => c \in members[roomVar[c]]

SenderInv(c) ==
  /\ userRoom[c] # NoRoom => c \in members[userRoom[c]] /\ userRoom[c] \in m_rooms
  /\ pc[c] \in {"broadcast", "leave"} => userRoom[c] # NoRoom
  /\ pc[c] = "add" => arg[c] \in m_rooms

\* Checked as an invariant before it is proved to be inductive.
IInv == /\ TypeOK
        /\ \A c \in Receivers : ReceiverInv(c)
        /\ \A c \in Senders : SenderInv(c)

\* And of InOrder: m comes before n, and all that c's worker was handed, in the
\* three parts of Arrivals, is in series.
Before(m, n) == m.from = n.from => m.text < n.text
Ascending(s) == \A i, j \in 1..Len(s) : i < j => Before(s[i], s[j])
InSeries(arrived, hand, queue) ==
  /\ Ascending(arrived) /\ Ascending(queue)
  /\ \A i \in 1..Len(arrived), j \in 1..Len(queue) : Before(arrived[i], queue[j])
  /\ hand # Nothing => /\ \A i \in 1..Len(arrived) : Before(arrived[i], hand)
                       /\ \A j \in 1..Len(queue) : Before(hand, queue[j])
Handed(c) == {inbox[c][i] : i \in 1..Len(inbox[c])} \cup ({temp[c]} \ {Nothing})
             \cup {mqueue[c][j] : j \in 1..Len(mqueue[c])}

\* m's sender has sent it, and a text it has in hand is a later one.
Issued(m) == /\ m.text <= texts[m.from]
             /\ pc[m.from] = "broadcast" => m.text < arg[m.from]

OrderOf(c) == /\ InSeries(inbox[c], temp[c], mqueue[c])
              /\ \A m \in Handed(c) : Issued(m)
OrderInv == /\ \A c \in Clients : pc[c] = "broadcast" => arg[c] <= texts[c]
            /\ \A c \in Receivers : OrderOf(c)

-----------------------------------------------------------------------------
(***************************************************************************)
(* What a test and a comment say and the code does not do.                 *)
(***************************************************************************)
\* The accept loop finds no descriptor left only when they are all in use: a
\* connection on which a send has failed and whose user has been removed holds
\* none (recv_join_worker in test_concurrent.sh:120-138 kills and reconnects a
\* receiver in a loop, and the server is to be up after it, lines 306-310).
DescriptorsReturned ==
  [][AcceptFails => \A c \in fds : peer[c] = "gone" => pc[c] # "loop"]_vars
=============================================================================
