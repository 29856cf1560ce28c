------------------------------ MODULE Session -------------------------------
(***************************************************************************)
(* The whole chat system of hw5: ChatServer, and on the other end of its   *)
(* connections the two client programs.  A user types lines into           *)
(* sender.cpp, which sends each and waits for one reply; receiver.cpp logs *)
(* in, joins and prints what is delivered.  A step of a worker is a step   *)
(* of ChatServer together with what it reads and writes.                   *)
(*                                                                         *)
(* What is sent travels as lines as the reader's Connection::receive cuts  *)
(* them: a line too long for its buffer arrives as two, and the second,    *)
(* which is whatever the user typed there, is looked at for a tag like any *)
(* other.  A "text" fits as a request and as a delivery, a "wide" text     *)
(* only as a request, since the delivery also names the room and the user, *)
(* and a "long" one in neither.                                            *)
(* The server may be started after its clients, fail to listen, and die;   *)
(* every program may be killed.                                            *)
(***************************************************************************)
EXTENDS ChatServer

CONSTANTS RoomArg,   \* RoomArg[c]: the room on receiver c's command line
          MaxTyped   \* bound: lines typed into one sender

ASSUME SessionAssumption == /\ Clients = Senders \cup Receivers
                            /\ RoomArg \in [Receivers -> RoomNames]
                            /\ MaxTyped \in Nat
                            /\ Leavers = Clients

VARIABLES server,     \* "starting", "listening" or "failed"
          prog,       \* where c's program is
          requests,   \* lines on their way to c's worker
          replies,    \* and back: replies and deliveries
          printed,    \* what receiver c has printed, Nothing for a text nobody sent
          wide,       \* texts of c that are too long as a delivery
          typed,      \* lines typed into sender c
          said,       \* history: texts among them
          split       \* history: lines sent beyond one per request

counts == <<typed, said, split>>
svars == <<vars, server, prog, requests, replies, printed, wide, counts>>

Line(kind, room) == [kind |-> kind, room |-> room]
Plain(kind) == Line(kind, NoRoom)
Texts == {"text", "wide", "long"}
Sendable == {Plain(kind) : kind \in Texts \cup {"leave", "quit"}}
            \cup {Line("join", r) : r \in RoomNames}

\* The rest of a line that was cut: what follows may begin like a command, or like
\* none.
Tails == {Plain("rest")} \cup {line \in Sendable : line.kind # "long"}

Tagged(tag) == [tag |-> tag, of |-> Nothing]
Ok  == <<Tagged("ok")>>
Err == <<Tagged("err")>>

SessionInit == /\ Init
               /\ server = "starting"
               /\ prog = [c \in Clients |-> "connect"]
               /\ requests = [c \in Clients |-> <<>>]
               /\ replies = [c \in Clients |-> <<>>]
               /\ printed = [c \in Clients |-> <<>>]
               /\ wide = [c \in Clients |-> {}]
               /\ typed = [c \in Clients |-> 0]
               /\ said = [c \in Clients |-> 0]
               /\ split = [c \in Clients |-> 0]

alive == up /\ server = "listening"

\* Nobody is there any more to read what c's program sends: the server has died,
\* or its worker has quit.
Deserted(c) == ~alive \/ (pc[c] = "ended" /\ c \notin fds)
Send(c, sent) == requests' = IF Deserted(c) THEN requests
                                            ELSE [requests EXCEPT ![c] = @ \o sent]

\* How a request and a delivery may arrive.
AsRequest(line) == IF line.kind = "long" THEN {<<line, tail>> : tail \in Tails} ELSE {<<line>>}
CutText(m) == m # Nothing /\ m.text \in wide[m.from]
AsDelivery(m) == LET line == [tag |-> "delivery", of |-> m]
                 IN  IF CutText(m) THEN {<<line, Tagged(tag)>> : tag \in {"rest", "delivery"}}
                                   ELSE {<<line>>}

-----------------------------------------------------------------------------
(***************************************************************************)
(* How the processes find each other.                                      *)
(***************************************************************************)
\* Whether there is a listening socket: the port may be taken.
open_listenfd == BOOLEAN

\* The server's main: it listens, or ends.
ServerStarts ==
  /\ server = "starting"
  /\ \E listens \in open_listenfd : server' = IF listens THEN "listening" ELSE "failed"
  /\ UNCHANGED <<vars, prog, requests, replies, printed, wide, counts>>

\* Whether a client gets a socket: not without a server that listens, and not
\* surely with one.
open_clientfd == IF alive THEN BOOLEAN ELSE {FALSE}

Goes(c, from, to) == prog[c] = from /\ prog' = [prog EXCEPT ![c] = to]

\* A program connects and goes on to log in, or ends.  The connection waits in
\* the kernel until the server accepts it.
Connect(c) ==
  /\ \E open \in open_clientfd : Goes(c, "connect", IF open THEN "login" ELSE "refused")
  /\ UNCHANGED <<vars, server, requests, replies, printed, wide, counts>>

Connected(c) == prog[c] \notin {"connect", "refused"}
Over == {"refused", "exited", "aborted", "killed"}
Awaiting == {"greeting", "joining", "reply", "quitting"}

\* A program that ended while it waited has closed its end.
Accepts(c) ==
  /\ alive /\ Connected(c)
  /\ Accept(c)
  /\ peer'[c] = IF prog[c] \in Over THEN "closed" ELSE "open"
  /\ UNCHANGED <<server, prog, requests, replies, printed, wide, counts>>

(***************************************************************************)
(* How they part.                                                          *)
(***************************************************************************)
\* The end of a process closes its socket; with a reply unread that resets the
\* connection, and requests under way may be lost.
HangsUp(c, unread) ==
  /\ replies' = [replies EXCEPT ![c] = <<>>]
  /\ IF up /\ peer[c] = "open"
     THEN IF unread = <<>> THEN ClientCloses(c) /\ UNCHANGED requests
          ELSE ClientResets(c) /\ requests' \in {requests, [requests EXCEPT ![c] = <<>>]}
     ELSE UNCHANGED <<vars, requests>>

Killed(c) == /\ prog[c] \notin Over \cup {"connect"}
             /\ prog' = [prog EXCEPT ![c] = "killed"]
             /\ HangsUp(c, replies[c])
             /\ UNCHANGED <<server, printed, wide, counts>>

\* Requests are lost with the server, and so may be replies to a client whose
\* requests it had not all read.
ServerDies ==
  /\ alive
  /\ \/ AcceptFails
     \/ \E c \in Clients : UndefinedAbort(c) /\ (pc[c] # "delete" => requests[c] = <<>>)
  /\ \E lost \in SUBSET {c \in Clients : requests[c] # <<>>} :
       replies' = [c \in Clients |-> IF c \in lost THEN <<>> ELSE replies[c]]
  /\ requests' = [c \in Clients |-> <<>>]
  /\ UNCHANGED <<server, prog, printed, wide, counts>>

-----------------------------------------------------------------------------
(***************************************************************************)
(* sender.cpp and receiver.cpp.                                            *)
(***************************************************************************)
Asks(c, line) == /\ Send(c, <<line>>)
                 /\ UNCHANGED <<vars, server, replies, printed, wide, counts>>
Login(c) == Goes(c, "login", "greeting") /\ Asks(c, Plain("login"))
Join(c)  == Goes(c, "join", "joining") /\ Asks(c, Line("join", RoomArg[c]))

\* sender.cpp sends each line that is typed; an unknown command is not sent and
\* changes nothing.
Typing(c, to) == /\ Goes(c, "prompt", to)
                 /\ typed[c] < MaxTyped /\ typed' = [typed EXCEPT ![c] = @ + 1]
                 /\ UNCHANGED <<server, printed, wide>>

\* A plausible wrong version, used by no specification: the program leaves on
\* quit without waiting for the reply.
TypeQuitUnanswered(c, line) ==
  /\ Typing(c, IF line.kind = "quit" THEN "exited" ELSE "reply")
  /\ said' = [said EXCEPT ![c] = IF line.kind \in Texts THEN @ + 1 ELSE @]
  /\ \E sent \in AsRequest(line) : /\ Send(c, sent)
                                   /\ split' = [split EXCEPT ![c] = @ + Len(sent) - 1]
  /\ UNCHANGED <<vars, replies>>

Type(c, line) ==
  /\ Typing(c, IF line.kind = "quit" THEN "quitting" ELSE "reply")
  /\ said' = [said EXCEPT ![c] = IF line.kind \in Texts THEN @ + 1 ELSE @]
  /\ \E sent \in AsRequest(line) : /\ Send(c, sent)
                                   /\ split' = [split EXCEPT ![c] = @ + Len(sent) - 1]
  /\ UNCHANGED <<vars, replies>>

\* Reading an empty line, or the end of the input, ends the program: the last
\* character of the empty string is looked at and popped.
TypeNothing(c) == /\ Typing(c, "aborted")
                  /\ HangsUp(c, replies[c])
                  /\ UNCHANGED <<said, split>>

\* One line is taken from the server as the reply, whatever it is; err ends the
\* program at login and join.
Takes(c) == /\ IF prog'[c] \in Over THEN HangsUp(c, Tail(replies[c]))
               ELSE replies' = [replies EXCEPT ![c] = Tail(@)] /\ UNCHANGED <<vars, requests>>
            /\ UNCHANGED <<server, printed, wide, counts>>
UnlessErr(c, next) == IF Head(replies[c]).tag = "err" THEN "exited" ELSE next

Greeted(c) == /\ replies[c] # <<>>
              /\ Goes(c, "greeting", UnlessErr(c, IF c \in Senders THEN "prompt" ELSE "join"))
              /\ Takes(c)
Joined(c)  == /\ replies[c] # <<>>
              /\ Goes(c, "joining", UnlessErr(c, "listen"))
              /\ Takes(c)
TakeReply(c) == /\ replies[c] # <<>>
                /\ Goes(c, "reply", "prompt") \/ Goes(c, "quitting", "exited")
                /\ Takes(c)

Listen(c) == /\ prog[c] = "listen" /\ replies[c] # <<>>
             /\ printed' = [printed EXCEPT ![c] =
                              IF Head(replies[c]).tag = "delivery"
                              THEN Append(@, Head(replies[c]).of) ELSE @]
             /\ replies' = [replies EXCEPT ![c] = Tail(@)]
             /\ UNCHANGED <<vars, server, prog, requests, wide, counts>>

\* Nothing comes any more.  sender.cpp prints a message and goes on with what
\* it had received before, even at login; receiver.cpp ends.  When that is a read
\* error it is taken for success, and what is on the stack for the reply.
ReceiveFails(c) ==
  /\ Deserted(c) /\ replies[c] = <<>>
  /\ IF c \in Senders
     THEN \/ \E to \in {"prompt", "exited"} : Goes(c, "greeting", to)
          \/ Goes(c, "reply", "prompt") \/ Goes(c, "quitting", "exited")
     ELSE \/ \E from \in {"greeting", "joining", "listen"} : Goes(c, from, "exited")
          \/ Goes(c, "greeting", "join") \/ Goes(c, "joining", "listen")
  /\ IF prog'[c] \in Over THEN HangsUp(c, <<>>) ELSE UNCHANGED <<vars, requests, replies>>
  /\ UNCHANGED <<server, printed, wide, counts>>

-----------------------------------------------------------------------------
(***************************************************************************)
(* The workers: a step of ChatServer, with what it reads and writes.       *)
(***************************************************************************)
\* A request that has been read and not yet carried out.
InHand(c) == IF pc[c] \in {"find", "add", "broadcast", "leave", "quit"} THEN 1 ELSE 0

\* c's worker reads the next line, which is of one of these kinds.
Reads(c, kinds) == /\ requests[c] # <<>> /\ Head(requests[c]).kind \in kinds
                   /\ requests' = [requests EXCEPT ![c] = Tail(@)]
                   /\ InHand(c)' = 1 => peer' = peer
ReadsNothing(c) == requests[c] = <<>> /\ UNCHANGED requests

(***************************************************************************)
(* Plausible wrong versions of the steps below, used by no specification.  *)
(***************************************************************************)
\* The worker keeps one Message for all requests: after the end of the stream
\* the last one is served again.
ReadsLastAgain(c) == ReadsNothing(c) /\ peer[c] # "open"

\* A leave outside a room is passed over without a reply.
ServeLeaveSilently(c) == /\ LeaveRequest(c)
                         /\ Reads(c, {"leave"}) \/ (ReadsNothing(c) /\ peer[c] = "reset")
                         /\ UNCHANGED <<replies, wide>>

\* A message is dequeued and forgotten.
DeliversNothing(c) == DeliverOk(c) /\ UNCHANGED <<requests, replies>>

\* The loop stops when the client has gone, with its user still in the room.
SilentForClient(c) ==
  /\ peer[c] = "open"
  /\ DeleteUser(c) \/ Find(c) \/ Dequeue(c) \/ DeliverFails(c) \/ RemoveSelf(c)
  /\ UNCHANGED <<requests, replies>>

(***************************************************************************)
(* The steps.                                                              *)
(***************************************************************************)
\* A read error leaves the worker with whatever its buffer holds.
ReadsResidue(c) == ReadsNothing(c) /\ peer[c] = "reset" /\ peer'[c] = "gone"

Says(c, sent) == replies' = IF peer[c] = "open" THEN [replies EXCEPT ![c] = @ \o sent]
                                               ELSE replies

WorkerLogin(c) == /\ LoginSender(c) \/ LoginReceiver(c)
                  /\ Reads(c, {"login"}) /\ Says(c, Ok)
                  /\ UNCHANGED wide

\* The replies to these come when they have been carried out.
ServeJoin(c) == /\ JoinRequest(c) \/ ReceiverJoin(c)
                /\ \/ Reads(c, {"join"}) /\ arg'[c] = Head(requests[c]).room
                   \/ ReadsResidue(c)
                /\ UNCHANGED <<replies, wide>>
ServeQuit(c) == /\ QuitRequest(c)
                /\ Reads(c, {"quit"}) \/ ReadsResidue(c)
                /\ UNCHANGED <<replies, wide>>

\* Outside a room a text or a leave is answered at once.
ServeText(c) == /\ SendAllRequest(c)
                /\ Says(c, IF pc'[c] = "request" THEN Err ELSE <<>>)
                /\ \E cut \in BOOLEAN :
                     /\ \/ Reads(c, IF cut THEN {"wide", "long"} ELSE {"text"})
                        \/ ReadsResidue(c)
                     /\ wide' = [wide EXCEPT ![c] = IF cut THEN @ \cup {texts'[c]} ELSE @]
ServeLeave(c) == /\ LeaveRequest(c)
                 /\ Reads(c, {"leave"}) \/ ReadsResidue(c)
                 /\ Says(c, IF pc'[c] = "request" THEN Err ELSE <<>>)
                 /\ UNCHANGED wide

\* No command: the rest of a line, a garbled one, or none.
ServeOther(c) == /\ LoginRejected(c) \/ InvalidRequest(c) \/ ReceiverNoJoin(c)
                 /\ IF lines' = lines THEN ReadsNothing(c) ELSE Reads(c, {"rest"})
                 /\ Says(c, Err)
                 /\ UNCHANGED wide

Serves(c) == \/ WorkerLogin(c) \/ ServeJoin(c) \/ ServeText(c) \/ ServeLeave(c)
             \/ ServeQuit(c) \/ ServeOther(c)

CarriesOut(c) == /\ AddMember(c) \/ Broadcast(c) \/ LeaveRoom(c)
                 /\ Says(c, Ok)
                 /\ UNCHANGED requests
\* Closing the connection with requests unread resets it, and replies under way
\* may be lost.
WorkerQuits(c) == /\ Quit(c)
                  /\ requests' = [requests EXCEPT ![c] = <<>>]
                  /\ \/ Says(c, Ok)
                     \/ requests[c] # <<>> /\ replies' = [replies EXCEPT ![c] = <<>>]
Delivers(c) == /\ DeliverOk(c)
               /\ \E sent \in AsDelivery(temp[c]) : Says(c, sent)
               /\ UNCHANGED requests
Silent(c)   == /\ DeleteUser(c) \/ Find(c) \/ Dequeue(c) \/ DeliverFails(c) \/ RemoveSelf(c)
               /\ UNCHANGED <<requests, replies>>
Works(c) == (CarriesOut(c) \/ WorkerQuits(c) \/ Delivers(c) \/ Silent(c)) /\ UNCHANGED wide

Worker(c) == (Serves(c) \/ Works(c)) /\ UNCHANGED <<server, prog, printed, counts>>

-----------------------------------------------------------------------------
Program(c) == \/ Login(c) \/ Join(c)
              \/ Greeted(c) \/ Joined(c) \/ TakeReply(c) \/ Listen(c) \/ ReceiveFails(c)
User(c) == \/ \E line \in Sendable : Type(c, line)
           \/ TypeNothing(c) \/ Killed(c)

SessionNext == \/ ServerStarts \/ ServerDies
               \/ \E c \in Clients : \/ Connect(c) \/ Accepts(c)
                                     \/ Program(c) \/ User(c) \/ Worker(c)

\* A program or a worker that can go on does, and connections are accepted; no
\* user need type, and nothing need start or fail.
SessionFairness == \A c \in Clients : /\ WF_svars(Accepts(c))
                                      /\ WF_svars(Program(c))
                                      /\ WF_svars(Worker(c))

SessionSpec == SessionInit /\ [][SessionNext]_svars /\ SessionFairness

-----------------------------------------------------------------------------
Asked == [kind : Texts \cup {"login", "join", "leave", "quit", "rest"},
          room : RoomNames \cup {NoRoom}]
Sent == [tag : {"ok", "err", "rest", "delivery"}, of : {Nothing}]
        \cup [tag : {"delivery"}, of : Message]

SessionTypeOK ==
  /\ server \in {"starting", "listening", "failed"}
  /\ prog \in [Clients -> {"connect", "login", "prompt", "join", "listen"} \cup Awaiting \cup Over]
  /\ requests \in [Clients -> Seq(Asked)]
  /\ replies \in [Clients -> Seq(Sent)]
  /\ printed \in [Clients -> Seq(Message \cup {Nothing})]
  /\ wide \in [Clients -> SUBSET (1..MaxLines)]
  /\ typed \in [Clients -> 0..MaxTyped]
  /\ said \in [Clients -> 0..MaxTyped]
  /\ split \in [Clients -> 0..MaxTyped]

\* Requests and replies keep step: what is under way, in either direction or in
\* the worker's hands, is the one request the program waits for, and one line
\* more for each line that was cut, by which it stays behind; unless the rest of
\* such a line was a quit and the worker is gone.
InStepNow(c) == Len(requests[c]) + InHand(c) + Len(replies[c])
                  = split[c] + (IF prog[c] \in Awaiting THEN 1 ELSE 0)
InTouch(c) == prog[c] \notin Over \cup {"connect", "login"}
              /\ (pc[c] = "ended" => split[c] = 0)
LockStep == \A c \in Senders : alive /\ InTouch(c) => InStepNow(c)

Deliveries(s) == \A i \in 1..Len(s) : s[i].tag \in {"delivery", "rest"}

\* The first line that reaches a receiver after its login, and after its join,
\* is the reply to it, and from then on there are only deliveries.
Handshake ==
  \A c \in Receivers : alive =>
    /\ prog[c] \in {"greeting", "joining"} /\ replies[c] # <<>> => Head(replies[c]).tag = "ok"
    /\ prog[c] = "join" => replies[c] = <<>>
    /\ prog[c] = "listen" => Deliveries(replies[c])

\* The worker has let go of the client.
Released(c) == pc[c] = "ended" /\ c \notin fds /\ userRoom[c] = NoRoom

\* When a sender has quit its worker is done with it: out of the room, the
\* descriptor closed, unless a line was cut before (the reply it took for the
\* last was not).
QuitHandled ==
  \A c \in Senders : prog[c] = "exited" /\ alive /\ split[c] = 0 => Released(c)

\* A program and its worker stay in step, to the end of both (sender.cpp:55-108
\* with server.cpp:78-148, receiver.cpp:31-94 with server.cpp:157-186).
InStep == SessionTypeOK /\ LockStep /\ Handshake /\ QuitHandled

\* The places of the texts among the lines under way.
TextsIn(s) == {i \in 1..Len(s) : s[i].kind \in Texts}

\* However long it goes on after the end of the stream, a sender's worker carries out
\* no more texts than were typed and lines were cut, whose rest may begin like one
\* (server.cpp:97), and one that a read error leaves in its buffer.
OnlyTypedBy(c) == texts[c] + Cardinality(TextsIn(requests[c]))
                    <= said[c] + split[c] + (IF peer[c] = "gone" THEN 1 ELSE 0)
OnlyTyped == \A c \in Senders : OnlyTypedBy(c)

\* How many of the first n texts that c has printed were queued for it.
Heard(c, n) == Cardinality({i \in 1..n : printed[c][i] # Nothing})

\* The receiver prints what was queued for it since it became a member, all of
\* it from the first text on and in order: none goes by as the reply to its
\* join.  Between two of them it prints at most one that nobody sent, behind a
\* text that was too long as a delivery, whose rest begins like one
\* (receiver.cpp:86).
HeardInOrder ==
  /\ \A c \in Receivers : \A i \in 1..Len(printed[c]) :
       IF printed[c][i] = Nothing THEN i > 1 /\ CutText(printed[c][i - 1])
       ELSE Heard(c, i) <= Len(Arrivals(c)) /\ printed[c][i] = Arrivals(c)[Heard(c, i)]
  /\ OnlyTyped

\* A program gets a reply, or learns that there will be none, for every line,
\* unless no thread could be started for it.
Answered == \A c \in Clients :
              (prog[c] \in Awaiting) ~> (prog[c] \notin Awaiting \/ pc[c] = "noThread")

\* A text that is queued for a receiver is printed, unless the server dies or
\* the receiver ends.
EveryTextHeard ==
  \A c \in Receivers : \A n \in 1..(2 * MaxTyped) :
    (Len(Arrivals(c)) >= n)
      ~> (Heard(c, Len(printed[c])) >= n \/ ~alive \/ peer[c] # "open")

\* The system with its clients does only what ChatServer allows, and its workers
\* go on as ChatServer says they do.
ServerSpec == Spec

-----------------------------------------------------------------------------
(***************************************************************************)
(* The inductive strengthening of InStep, a client at a time.              *)
(***************************************************************************)
Silence(c) == requests[c] = <<>> /\ replies[c] = <<>>
Unserved == {"none", "noThread", "login"}

\* While a program runs, its end of the connection is open.
StartInv(c) ==
  /\ prog[c] \notin (IF c \in Senders THEN {"join", "joining", "listen"}
                                       ELSE {"prompt", "reply", "quitting"})
  /\ peer[c] = "none" <=> pc[c] = "none"
  /\ server = "starting" => prog[c] \in {"connect", "refused"}
  /\ prog[c] \notin Over \cup {"connect"} => peer[c] \in {"none", "open"}
  /\ prog[c] \in {"connect", "refused", "login"} => Silence(c) /\ split[c] = 0 /\ pc[c] \in Unserved
  /\ prog[c] \in {"connect", "refused"} => pc[c] = "none"
  /\ said[c] <= typed[c] /\ split[c] <= typed[c]

\* Where program and worker are once a login has been sent.
LoggingIn(c, to) ==
  \/ pc[c] \in Unserved /\ requests[c] = <<Plain("login")>> /\ replies[c] = <<>>
  \/ pc[c] = to /\ requests[c] = <<>> /\ replies[c] = Ok

Serving == {"request", "find", "add", "broadcast", "leave"}

SenderStage(c) ==
  /\ InTouch(c) => InStepNow(c)
  /\ prog[c] = "greeting" => LoggingIn(c, "request") /\ split[c] = 0
  /\ prog[c] \in {"prompt", "reply", "quitting"} =>
       /\ pc[c] \in Serving \cup {"quit"} \/ (Released(c) /\ requests[c] = <<>>)
       /\ \A i \in 1..Len(requests[c]) : requests[c][i].kind # "login"
  /\ prog[c] \in {"prompt", "reply"} /\ split[c] = 0 =>
       pc[c] \in Serving /\ \A i \in 1..Len(requests[c]) : requests[c][i].kind # "quit"
  /\ prog[c] = "quitting" /\ split[c] = 0 =>
       \/ pc[c] = "request" /\ requests[c] = <<Plain("quit")>>
       \/ pc[c] = "quit" \/ Released(c)
  /\ prog[c] = "exited" /\ split[c] = 0 => Released(c)

ReceiverStage(c) ==
  /\ prog[c] = "greeting" => LoggingIn(c, "join")
  /\ prog[c] = "join" => pc[c] = "join" /\ Silence(c)
  /\ prog[c] = "joining" =>
       \/ pc[c] = "join" /\ requests[c] = <<Line("join", RoomArg[c])>> /\ replies[c] = <<>>
       \/ pc[c] \in {"find", "add"} /\ Silence(c)
       \/ /\ pc[c] \in {"loop", "deliver"} /\ requests[c] = <<>> /\ replies[c] # <<>>
          /\ Head(replies[c]) = Tagged("ok") /\ Deliveries(Tail(replies[c]))
  /\ prog[c] = "listen" =>
       pc[c] \in {"loop", "deliver"} /\ requests[c] = <<>> /\ Deliveries(replies[c])

ClientInv(c) == /\ StartInv(c)
                /\ alive => /\ c \in Senders => SenderStage(c)
                            /\ c \in Receivers => ReceiverStage(c)

\* Checked as an invariant before it is proved to be inductive.
SessionIInv == SessionTypeOK /\ \A c \in Clients : ClientInv(c)

\* And of HeardInOrder.  With each of the lines under way that was queued one more
\* of those that reached c has come by, the next one, up to some number.
Tally(count, s, start, arrived) ==
  /\ count \in [0..Len(s) -> 0..Len(arrived)] /\ count[0] = start
  /\ \A i \in 1..Len(s) :
       IF s[i].of # Nothing
       THEN count[i] = count[i - 1] + 1 /\ s[i].of = arrived[count[i]]
       ELSE count[i] = count[i - 1]
Carries(s, start, arrived, last) ==
  \E count \in [0..Len(s) -> 0..Len(arrived)] :
    Tally(count, s, start, arrived) /\ count[Len(s)] = last

\* What is under way to c goes on where what is printed ends, to the last while
\* the server runs.
Follows(c) == \E last \in 0..Len(inbox[c]) :
                /\ Carries(replies[c], Heard(c, Len(printed[c])), inbox[c], last)
                /\ alive => last = Len(inbox[c])

\* What begins like a delivery and was not queued comes behind a text that was cut.
BehindCut(c) ==
  \A i \in 1..Len(replies[c]) : replies[c][i] = Tagged("delivery") =>
    IF i > 1 THEN CutText(replies[c][i - 1].of)
    ELSE printed[c] # <<>> /\ CutText(printed[c][Len(printed[c])])

\* The i-th of the printed texts is the next of those that reached c, or follows one
\* that was cut.
InTurn(c, i) == IF printed[c][i] = Nothing THEN i > 1 /\ CutText(printed[c][i - 1])
                ELSE /\ Heard(c, i) <= Len(inbox[c])
                     /\ printed[c][i] = inbox[c][Heard(c, i)]

\* Before its join a receiver gets no deliveries, and its join is answered first.
HeardBy(c) ==
  /\ pc[c] # "none" => server = "listening"
  /\ Heard(c, Len(printed[c])) <= Len(inbox[c])
  /\ \A i \in 1..Len(printed[c]) : InTurn(c, i)
  /\ prog[c] \in {"connect", "login", "greeting", "join"} =>
       \A i \in 1..Len(replies[c]) : replies[c][i].tag # "delivery"
  /\ prog[c] = "joining" /\ replies[c] # <<>> => replies[c][1].tag # "delivery"
  /\ prog[c] \notin Over => Follows(c) /\ BehindCut(c)
HeardIInv == OnlyTyped /\ \A c \in Receivers : HeardBy(c)
=============================================================================
