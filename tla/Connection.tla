----------------------------- MODULE Connection -----------------------------
(***************************************************************************)
(* One direction of a connection (hw5/connection.cpp over csapp.c's rio    *)
(* functions): Connection::send formats a message as one line and writes   *)
(* it in as many pieces as write takes; Connection::receive assembles a    *)
(* line of at most MaxLen - 1 characters from whatever pieces read         *)
(* returns, and the worker then drops the last character of the data.      *)
(* The writer may close its end or die at any point, in mid-line too, and  *)
(* the reader may close its own with data unread.  The socket holds a      *)
(* bounded amount: a write that does not fit waits.                        *)
(*                                                                         *)
(* A character is the number of its message and its place in it, 0 for the *)
(* newline, so that what arrives can be told apart; how tag and data are   *)
(* split at the first colon is left out.                                   *)
(***************************************************************************)
EXTENDS Integers, Sequences

CONSTANTS MaxLen,       \* Message::MAX_LEN
          LongestLine,  \* bound: longest encoded message that is sent
          MaxMsgs,      \* bound: messages sent
          RioSize,      \* RIO_BUFSIZE
          SocketSize    \* what the socket holds between a write and a read

ASSUME LenAssumption == /\ MaxLen \in Nat /\ MaxLen >= 4
                        /\ LongestLine \in Nat /\ LongestLine >= 2
                        /\ MaxMsgs \in Nat
                        /\ RioSize \in Nat /\ RioSize >= 1
                        /\ SocketSize \in Nat /\ SocketSize >= 1

Char == (1..MaxMsgs) \X (0..LongestLine)
IsNewLine(c) == c[2] = 0
Stray == <<0, 1>>       \* a byte of no message, as uninitialized memory may hold it

VARIABLES sentLen,      \* sentLen[k]: length of the k-th encoded message
          out,          \* characters rio_writen has yet to write
          sendResult,   \* the m_last_result of the writer's Connection
          wire,         \* characters written and not yet read
          end,          \* the writer's end: "open", "closed", "reset" or "gone"
          readerEnd,    \* the reader's end: "open" or "closed"
          rio_buf,      \* rp's unread characters
          usrbuf,       \* the line rio_readlineb is assembling in new_msg
          new_msg,      \* what the last call of receive left there
          m_last_result,\* SUCCESS or EOF_OR_ERROR
          got,          \* what the worker has made of each line, in order
          received,     \* history: how many characters of it that call had received
          done          \* history: newlines consumed

writer == <<sentLen, out, sendResult>>
handed == <<new_msg, m_last_result, got, received>>
reader == <<readerEnd, rio_buf, usrbuf, handed, done>>
vars == <<writer, wire, end, reader>>

\* tag, colon, data and the newline: n characters in all.
Encode(k, n) == [i \in 1..n |-> <<k, IF i = n THEN 0 ELSE i>>]

\* The request of a line that arrives whole: the newline is popped.
Text(k) == [i \in 1..(sentLen[k] - 1) |-> <<k, i>>]

\* request.data.pop_back().
PopBack(s) == SubSeq(s, 1, Len(s) - 1)
Drop(s, n) == SubSeq(s, n + 1, Len(s))

Init == /\ sentLen = <<>>
        /\ out = <<>> /\ wire = <<>> /\ end = "open" /\ readerEnd = "open"
        /\ rio_buf = <<>> /\ usrbuf = <<>> /\ new_msg = <<>>
        /\ sendResult = "SUCCESS" /\ m_last_result = "SUCCESS"
        /\ got = <<>> /\ received = <<>> /\ done = 0

-----------------------------------------------------------------------------
(***************************************************************************)
(* Plausible wrong versions of the steps below, used by no specification.  *)
(***************************************************************************)
\* The rest of a short write is not written.
WriteOnce == /\ end = "open" /\ out # <<>> /\ readerEnd = "open"
             /\ \E n \in 1..Len(out) : /\ Len(wire) + n <= SocketSize
                                       /\ wire' = wire \o SubSeq(out, 1, n)
             /\ out' = <<>> /\ sendResult' = "SUCCESS"
             /\ UNCHANGED <<sentLen, end, reader>>

\* The buffer is refilled, from its start, before it has been used up.
RefillInFront == /\ wire # <<>> /\ Len(rio_buf) < RioSize
                 /\ rio_buf' = <<Head(wire)>> \o rio_buf
                 /\ wire' = Tail(wire)
                 /\ UNCHANGED <<writer, end, readerEnd, handed, usrbuf, done>>

\* The loop does not look at maxlen.
LineCompleteAtNewLineOnly(line) == IsNewLine(line[Len(line)])

\* One character too few is left for the text.
LineCompleteEarly(line) == IsNewLine(line[Len(line)]) \/ Len(line) = MaxLen - 2

-----------------------------------------------------------------------------
(***************************************************************************)
(* Connection::send and the writer's end.                                  *)
(***************************************************************************)
Send == /\ end = "open" /\ out = <<>> /\ Len(sentLen) < MaxMsgs
        /\ \E n \in 2..LongestLine : /\ sentLen' = Append(sentLen, n)
                                     /\ out' = Encode(Len(sentLen) + 1, n)
        /\ UNCHANGED <<sendResult, wire, end, reader>>

\* A write takes the first n characters of the rest; the last one ends
\* rio_writen's loop.
Written(n) == /\ out' = Drop(out, n)
              /\ IF n = Len(out) THEN sendResult' = "SUCCESS" ELSE UNCHANGED sendResult
              /\ UNCHANGED <<sentLen, end, reader>>

Write == /\ end = "open" /\ out # <<>> /\ readerEnd = "open"
         /\ \E n \in 1..Len(out) : /\ Len(wire) + n <= SocketSize
                                   /\ wire' = wire \o SubSeq(out, 1, n)
                                   /\ Written(n)

\* With nobody left to read, a write is taken and lost, or fails and the rest
\* of the message is given up.
WriteToNobody ==
  /\ end = "open" /\ out # <<>> /\ readerEnd = "closed"
  /\ UNCHANGED wire
  /\ \/ \E n \in 1..Len(out) : Written(n)
     \/ /\ out' = <<>> /\ sendResult' = "EOF_OR_ERROR"
        /\ UNCHANGED <<sentLen, end, reader>>

Close == /\ end = "open"
         /\ end' = "closed"
         /\ UNCHANGED <<writer, wire, reader>>

\* A reset may discard some of what was not read.
Reset == /\ end = "open"
         /\ end' = "reset"
         /\ \E n \in 0..Len(wire) : wire' = SubSeq(wire, 1, n)
         /\ UNCHANGED <<writer, reader>>

\* The reader closes; what it did not read is dropped.
CloseReader == /\ readerEnd = "open"
               /\ readerEnd' = "closed"
               /\ wire' = <<>>
               /\ UNCHANGED <<writer, end, rio_buf, handed, usrbuf, done>>

(***************************************************************************)
(* Connection::receive.                                                    *)
(***************************************************************************)
\* rio_read finds its buffer empty and reads what there is, up to its size.
Refill == /\ rio_buf = <<>> /\ wire # <<>>
          /\ \E n \in 1..Len(wire) : /\ n <= RioSize
                                     /\ rio_buf' = SubSeq(wire, 1, n)
                                     /\ wire' = Drop(wire, n)
          /\ UNCHANGED <<writer, end, readerEnd, handed, usrbuf, done>>

\* receive returns the line; the worker pops the last character of the data,
\* which leaves n characters that were received for it.
Return(line, n) == /\ got' = Append(got, PopBack(line))
                   /\ received' = Append(received, n)
                   /\ new_msg' = line /\ usrbuf' = <<>>
                   /\ m_last_result' = "SUCCESS"

\* rio_readlineb(.., maxlen) stops at the newline, or with maxlen - 1
\* characters, which leave room for the NUL.
LineComplete(line) == IsNewLine(line[Len(line)]) \/ Len(line) = MaxLen - 1

TakeChar ==
  /\ rio_buf # <<>>
  /\ rio_buf' = Tail(rio_buf)
  /\ done' = IF IsNewLine(Head(rio_buf)) THEN done + 1 ELSE done
  /\ LET line == Append(usrbuf, Head(rio_buf)) IN
     IF LineComplete(line)
     THEN Return(line, Len(line) - 1)
     ELSE usrbuf' = line /\ UNCHANGED handed
  /\ UNCHANGED <<writer, wire, end, readerEnd>>

\* At the end of the stream what was assembled is returned as a line; with
\* nothing assembled receive fails.
ReadEof ==
  /\ end \in {"closed", "gone"} /\ wire = <<>> /\ rio_buf = <<>>
  /\ IF usrbuf # <<>>
     THEN Return(usrbuf, Len(usrbuf) - 1)
     ELSE /\ m_last_result' = "EOF_OR_ERROR"
          /\ UNCHANGED <<usrbuf, new_msg, got, received>>
  /\ UNCHANGED <<writer, wire, end, readerEnd, rio_buf, done>>

\* What new_msg may hold behind its first n characters, where no NUL was written:
\* a NUL at once, the rest of the line of the last call, or any other byte.
Uninitialized(n) == {<<>>, <<Stray>>, Drop(new_msg, n)}

\* rio_readlineb returns -1, which size_t makes positive: receive takes what is
\* in new_msg for a line, the characters received so far and whatever is behind
\* them, and returns true.  The socket reports its error once.
ReadError ==
  /\ end = "reset" /\ wire = <<>> /\ rio_buf = <<>>
  /\ end' = "gone"
  /\ \E rest \in Uninitialized(Len(usrbuf)) :
       Return(usrbuf \o rest,
              IF rest = <<>> /\ usrbuf # <<>> THEN Len(usrbuf) - 1 ELSE Len(usrbuf))
  /\ UNCHANGED <<writer, wire, readerEnd, rio_buf, done>>

Receive == readerEnd = "open" /\ (Refill \/ TakeChar \/ ReadEof \/ ReadError)

Next == Send \/ Write \/ WriteToNobody \/ Close \/ Reset \/ CloseReader \/ Receive

\* The worker keeps receiving and write goes on while the writer lives; nobody
\* is obliged to send.
Fairness == WF_vars(Receive) /\ WF_vars(Write \/ WriteToNobody)

Spec == Init /\ [][Next]_vars /\ Fairness

-----------------------------------------------------------------------------
\* Every variable keeps to its type; the line and its NUL fit in the buffer of
\* MaxLen characters that receive declares.
TypeOK ==
  /\ sentLen \in Seq(2..LongestLine) /\ Len(sentLen) <= MaxMsgs
  /\ out \in Seq(Char) /\ wire \in Seq(Char) /\ Len(wire) <= SocketSize
  /\ end \in {"open", "closed", "reset", "gone"} /\ readerEnd \in {"open", "closed"}
  /\ rio_buf \in Seq(Char) /\ Len(rio_buf) <= RioSize
  /\ usrbuf \in Seq(Char) /\ Len(usrbuf) + 1 < MaxLen
  /\ {sendResult, m_last_result} \subseteq {"SUCCESS", "EOF_OR_ERROR"}
  /\ new_msg \in Seq(Char \cup {Stray}) /\ got \in Seq(Seq(Char \cup {Stray}))
  /\ received \in Seq(Nat) /\ Len(received) = Len(got)
  /\ \A a \in 1..Len(got) : received[a] <= Len(got[a])
  /\ done \in 0..MaxMsgs

\* The requests with a character that was received for them and is of message k.
PiecesOf(k) == {i \in 1..Len(got) : \E j \in 1..received[i] : got[i][j][1] = k}
ArrivesWhole(k) == \E i \in 1..Len(got) : PiecesOf(k) = {i} /\ got[i] = Text(k)

\* Whatever the sizes of the writes and reads, and however long the lines
\* around it, a line that with its NUL fits the buffer arrives as one request
\* that is exactly what was sent, and no other receives a character of it.
FitsArrivesWhole ==
  \A k \in 1..done : sentLen[k] < MaxLen => ArrivesWhole(k)

\* c is sent before d.
Before(c, d) == \/ c[1] < d[1]
                \/ c[1] = d[1] /\ ~IsNewLine(c) /\ (IsNewLine(d) \/ c[2] < d[2])

\* Requests are handled in the order they were sent, the pieces of one message
\* in theirs, and no character is received twice.  They consist of what was
\* received for them and of nothing else, but for one: a read error is taken for
\* success, and the request made then, which is the last, may go on with
\* characters of an earlier line or with others that nobody sent
\* (connection.cpp:72-83, csapp.c:884, 895).
InSequence ==
  /\ \A a, b \in 1..Len(got) : \A i \in 1..received[a], j \in 1..received[b] :
       a < b \/ (a = b /\ i < j) => Before(got[a][i], got[b][j])
  /\ \A a \in 1..Len(got) : received[a] # Len(got[a]) => a = Len(got) /\ end = "gone"

\* send has returned for message k.
AllWritten(k) == Len(sentLen) > k \/ (Len(sentLen) = k /\ out = <<>>)

\* A send that is under way returns, whatever the other end does: it waits for
\* room in the socket only while somebody may make some.  A line that was
\* written in full is read to its end, unless the connection is reset or the
\* reader gives it up; a writer that closes its end after it does not take it
\* back.
WrittenIsRead ==
  /\ (out # <<>>) ~> (out = <<>> \/ end # "open")
  /\ \A k \in 1..MaxMsgs :
       AllWritten(k) ~> (done >= k \/ end \in {"reset", "gone"} \/ readerEnd = "closed")

-----------------------------------------------------------------------------
(***************************************************************************)
(* The inductive invariant: what the reader has in hand and what is still  *)
(* to come are one run of characters, which begins where the last request  *)
(* ended.  It was checked on small instances before it was proved.         *)
(***************************************************************************)
Stream == usrbuf \o rio_buf \o wire \o (IF end = "open" THEN out ELSE <<>>)

\* A message that has not been sent, or whose line fits.
MayFit(k) == k > Len(sentLen) \/ sentLen[k] < MaxLen

\* d comes right after c.
Follows(c, d) ==
  IF IsNewLine(c) THEN d = <<c[1] + 1, 1>>
  ELSE d = <<c[1], IF c[2] + 1 = sentLen[c[1]] THEN 0 ELSE c[2] + 1>>

\* No character is lost, and none comes out of turn.
StreamInv ==
  /\ \A j \in 1..(Len(Stream) - 1) : Follows(Stream[j], Stream[j + 1])
  /\ \A j, k \in 1..Len(Stream) : j < k => Before(Stream[j], Stream[k])
  /\ \A j \in 1..Len(Stream) : /\ Stream[j][1] \in (done + 1)..Len(sentLen)
                              /\ Stream[j][2] < sentLen[Stream[j][1]]
  /\ Stream # <<>> => Stream[1][1] = done + 1 /\ (MayFit(done + 1) => Stream[1][2] = 1)
  /\ end = "open" => IF Stream = <<>> THEN done = Len(sentLen)
                     ELSE Stream[Len(Stream)] = <<Len(sentLen), 0>>

\* The line in hand is a part of the next message, and the beginning of it if
\* that one fits.
LineInv ==
  \A j \in 1..Len(usrbuf) : /\ usrbuf[j][1] = done + 1 /\ ~IsNewLine(usrbuf[j])
                            /\ MayFit(done + 1) => usrbuf[j][2] = j

\* Nothing more comes, and the writer is gone.
Exhausted == end # "open" /\ Stream = <<>>

\* What was handed out came before all that is still to come; a message that
\* may fit has not been begun.
HandedOut ==
  /\ \A a \in 1..Len(got) : \A j \in 1..received[a], k \in 1..Len(Stream) :
       Before(got[a][j], Stream[k])
  /\ Exhausted \/ \A k \in (done + 1)..MaxMsgs : MayFit(k) => PiecesOf(k) = {}
  /\ end = "gone" => Exhausted

Reading == readerEnd = "open" => StreamInv /\ LineInv /\ HandedOut

\* The characters received for every request were sent.
Sent == \A a \in 1..Len(got) : \A j \in 1..received[a] : got[a][j][1] <= Len(sentLen)

ConnectionIInv ==
  /\ TypeOK /\ done <= Len(sentLen) /\ Sent
  /\ Reading /\ FitsArrivesWhole /\ InSequence
=============================================================================
