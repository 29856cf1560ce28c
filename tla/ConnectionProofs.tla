-------------------------- MODULE ConnectionProofs --------------------------
(***************************************************************************)
(* Proofs about one direction of a connection (hw5/connection.cpp over     *)
(* csapp.c's rio functions), for messages of every number and length and   *)
(* every size of the two buffers and of the socket.                        *)
(***************************************************************************)
EXTENDS Connection, SequenceTheorems, TLAPS

-----------------------------------------------------------------------------
(***************************************************************************)
(* Runs of characters, and the stream between the two programs.            *)
(***************************************************************************)
\* Four runs of characters after one another.
LEMMA Joined ==
  ASSUME NEW S, NEW a \in Seq(S), NEW b \in Seq(S), NEW c \in Seq(S), NEW d \in Seq(S),
         NEW w, w = a \o b \o c \o d
  PROVE  /\ w \in Seq(S)
         /\ Len(w) = Len(a) + Len(b) + Len(c) + Len(d)
         /\ \A j \in 1..Len(a) : w[j] = a[j]
         /\ \A j \in 1..Len(b) : w[Len(a) + j] = b[j]
         /\ \A j \in 1..Len(c) : w[Len(a) + Len(b) + j] = c[j]
         /\ \A j \in 1..Len(d) : w[Len(a) + Len(b) + Len(c) + j] = d[j]
<1>1. PICK u \in Seq(S) : u = a \o b
  BY ConcatProperties
<1>2. PICK v \in Seq(S) : v = u \o c
  BY ConcatProperties
<1>3. w = v \o d /\ w \in Seq(S)
  BY <1>1, <1>2
<1>4. Len(u) = Len(a) + Len(b) /\ Len(v) = Len(u) + Len(c) /\ Len(w) = Len(v) + Len(d)
  BY <1>1, <1>2, <1>3
<1>5. Len(a) \in Nat /\ Len(b) \in Nat /\ Len(c) \in Nat /\ Len(d) \in Nat
  OBVIOUS
<1>6. \A j \in 1..Len(a) : u[j] = a[j]
  BY <1>1
<1>7. \A j \in 1..Len(b) : u[Len(a) + j] = b[j]
  BY <1>1
<1>8. \A j \in 1..Len(u) : v[j] = u[j]
  BY <1>2
<1>9. \A j \in 1..Len(c) : v[Len(u) + j] = c[j]
  BY <1>2
<1>10. \A j \in 1..Len(v) : w[j] = v[j]
  BY <1>3
<1>11. \A j \in 1..Len(d) : w[Len(v) + j] = d[j]
  BY <1>3
<1>12. \A j \in 1..Len(a) : w[j] = a[j]
  BY <1>4, <1>5, <1>6, <1>8, <1>10
<1>13. \A j \in 1..Len(b) : w[Len(a) + j] = b[j]
  <2> SUFFICES ASSUME NEW j \in 1..Len(b) PROVE w[Len(a) + j] = b[j]
    OBVIOUS
  <2>1. Len(a) + j \in 1..Len(u) /\ Len(a) + j \in 1..Len(v)
    BY <1>4, <1>5
  <2> QED BY <1>7, <1>8, <1>10, <2>1
<1>14. \A j \in 1..Len(c) : w[Len(u) + j] = c[j]
  <2> SUFFICES ASSUME NEW j \in 1..Len(c) PROVE w[Len(u) + j] = c[j]
    OBVIOUS
  <2>1. Len(u) + j \in 1..Len(v)
    BY <1>4, <1>5
  <2> QED BY <1>9, <1>10, <2>1
<1>15. Len(w) = Len(a) + Len(b) + Len(c) + Len(d)
  BY <1>4, <1>5
<1>16. Len(v) = Len(a) + Len(b) + Len(c)
  BY <1>4, <1>5
<1>17. \A j \in 1..Len(c) : w[Len(a) + Len(b) + j] = c[j]
  BY <1>4, <1>14
<1>18. \A j \in 1..Len(d) : w[Len(a) + Len(b) + Len(c) + j] = d[j]
  BY <1>11, <1>16
<1> QED BY <1>3, <1>12, <1>13, <1>15, <1>17, <1>18

\* The first n characters and the rest are the whole.
LEMMA Cut ==
  ASSUME NEW S, NEW s \in Seq(S), NEW n \in 0..Len(s)
  PROVE  /\ SubSeq(s, 1, n) \in Seq(S) /\ Len(SubSeq(s, 1, n)) = n
         /\ Drop(s, n) \in Seq(S) /\ Len(Drop(s, n)) = Len(s) - n
         /\ \A j \in 1..n : SubSeq(s, 1, n)[j] = s[j]
         /\ \A j \in 1..(Len(s) - n) : Drop(s, n)[j] = s[n + j]
         /\ s = SubSeq(s, 1, n) \o Drop(s, n)
<1>1. /\ SubSeq(s, 1, n) \in Seq(S) /\ Len(SubSeq(s, 1, n)) = n
      /\ \A j \in 1..n : SubSeq(s, 1, n)[j] = s[j]
  BY SubSeqProperties
<1>2. /\ Drop(s, n) \in Seq(S) /\ Len(Drop(s, n)) = Len(s) - n
      /\ \A j \in 1..(Len(s) - n) : Drop(s, n)[j] = s[n + j]
  <2>1. \A j \in (n + 1)..Len(s) : s[j] \in S
    OBVIOUS
  <2>2. n + 1 \in Int /\ Len(s) \in Int /\ Len(s) - (n + 1) + 1 = Len(s) - n
    OBVIOUS
  <2>3. /\ SubSeq(s, n + 1, Len(s)) \in Seq(S)
        /\ Len(SubSeq(s, n + 1, Len(s))) = IF n + 1 <= Len(s) THEN Len(s) - (n + 1) + 1 ELSE 0
        /\ \A j \in 1..(Len(s) - (n + 1) + 1) : SubSeq(s, n + 1, Len(s))[j] = s[(n + 1) + j - 1]
    BY <2>1, <2>2, SubSeqProperties
  <2>4. n + 1 <= Len(s) \/ Len(s) - n = 0
    OBVIOUS
  <2>5. Len(SubSeq(s, n + 1, Len(s))) = Len(s) - n
    BY <2>2, <2>3, <2>4
  <2>6. \A j \in 1..(Len(s) - n) : SubSeq(s, n + 1, Len(s))[j] = s[n + j]
    <3> SUFFICES ASSUME NEW j \in 1..(Len(s) - n)
                 PROVE  SubSeq(s, n + 1, Len(s))[j] = s[n + j]
      OBVIOUS
    <3>1. j \in 1..(Len(s) - (n + 1) + 1) /\ (n + 1) + j - 1 = n + j
      OBVIOUS
    <3> QED BY <2>3, <3>1
  <2> QED BY <2>3, <2>5, <2>6 DEF Drop
<1>3. s = SubSeq(s, 1, n) \o Drop(s, n)
  <2>1. SubSeq(s, 1, n) \o SubSeq(s, n + 1, Len(s)) = SubSeq(s, 1, Len(s))
    <3>1. 1 \in 1..(Len(s) + 1) /\ n \in (1 - 1)..Len(s) /\ Len(s) \in n..Len(s)
      OBVIOUS
    <3> QED BY <3>1, ConcatAdjacentSubSeq
  <2> QED BY <2>1, SubSeqFull DEF Drop
<1> QED BY <1>1, <1>2, <1>3

\* What the writer has still to write, if it can.
Pending == IF end = "open" THEN out ELSE <<>>

\* Where a character of the stream is.
LEMMA StreamParts ==
  ASSUME TypeOK
  PROVE  /\ Stream = usrbuf \o rio_buf \o wire \o Pending
         /\ usrbuf \in Seq(Char) /\ rio_buf \in Seq(Char) /\ wire \in Seq(Char)
         /\ Pending \in Seq(Char) /\ out \in Seq(Char)
         /\ Stream \in Seq(Char)
         /\ Len(Stream) = Len(usrbuf) + Len(rio_buf) + Len(wire) + Len(Pending)
         /\ \A j \in 1..Len(usrbuf) : Stream[j] = usrbuf[j]
         /\ \A j \in 1..Len(rio_buf) : Stream[Len(usrbuf) + j] = rio_buf[j]
         /\ \A j \in 1..Len(wire) : Stream[Len(usrbuf) + Len(rio_buf) + j] = wire[j]
         /\ \A j \in 1..Len(Pending) :
              Stream[Len(usrbuf) + Len(rio_buf) + Len(wire) + j] = Pending[j]
<1>1. /\ usrbuf \in Seq(Char) /\ rio_buf \in Seq(Char) /\ wire \in Seq(Char)
      /\ out \in Seq(Char) /\ Pending \in Seq(Char)
  BY DEF TypeOK, Pending
<1>2. Stream = usrbuf \o rio_buf \o wire \o Pending
  BY DEF Stream, Pending
<1> HIDE DEF Pending
<1>3. PICK w : w = usrbuf \o rio_buf \o wire \o Pending
  OBVIOUS
<1>4. w \in Seq(Char) /\ Len(w) = Len(usrbuf) + Len(rio_buf) + Len(wire) + Len(Pending)
  BY <1>1, <1>3, Joined
<1>5. \A j \in 1..Len(usrbuf) : w[j] = usrbuf[j]
  BY <1>1, <1>3, Joined
<1>6. \A j \in 1..Len(rio_buf) : w[Len(usrbuf) + j] = rio_buf[j]
  BY <1>1, <1>3, Joined
<1>7. \A j \in 1..Len(wire) : w[Len(usrbuf) + Len(rio_buf) + j] = wire[j]
  BY <1>1, <1>3, Joined
<1>8. \A j \in 1..Len(Pending) : w[Len(usrbuf) + Len(rio_buf) + Len(wire) + j] = Pending[j]
  BY <1>1, <1>3, Joined
<1>9. w = Stream
  BY <1>2, <1>3
<1> QED BY <1>1, <1>2, <1>4, <1>5, <1>6, <1>7, <1>8, <1>9

-----------------------------------------------------------------------------
(***************************************************************************)
(* What a step does to the stream.                                         *)
(***************************************************************************)
\* Writing moves characters inside the stream.
LEMMA WriteMoves == ASSUME TypeOK, Write PROVE Stream' = Stream
<1>1. PICK n \in 1..Len(out) : wire' = wire \o SubSeq(out, 1, n) /\ out' = Drop(out, n)
  BY DEF Write, Written
<1>2. end = "open" /\ end' = "open" /\ usrbuf' = usrbuf /\ rio_buf' = rio_buf
  BY DEF Write, Written, reader
<1>3. /\ usrbuf \in Seq(Char) /\ rio_buf \in Seq(Char) /\ wire \in Seq(Char) /\ out \in Seq(Char)
      /\ Stream = usrbuf \o rio_buf \o wire \o out
  BY <1>2, StreamParts DEF Pending
<1>4. PICK x \in Seq(Char), y \in Seq(Char) :
        x = SubSeq(out, 1, n) /\ y = Drop(out, n) /\ out = x \o y
  <2>1. out \in Seq(Char) /\ n \in 0..Len(out)
    BY <1>3
  <2>2. SubSeq(out, 1, n) \in Seq(Char) /\ Len(SubSeq(out, 1, n)) = n
    BY <2>1, Cut
  <2>3. Drop(out, n) \in Seq(Char)
    BY <2>1, Cut
  <2>4. out = SubSeq(out, 1, n) \o Drop(out, n)
    BY <2>1, Cut
  <2> QED BY <2>2, <2>3, <2>4
<1>5. Stream' = usrbuf \o rio_buf \o (wire \o x) \o y
  BY <1>1, <1>2, <1>4 DEF Stream
<1>6. usrbuf \o rio_buf \in Seq(Char)
  BY <1>3, ConcatProperties
<1>7. usrbuf \o rio_buf \o (wire \o x) \o y = usrbuf \o rio_buf \o wire \o (x \o y)
  <2>1. PICK r \in Seq(Char) : r = usrbuf \o rio_buf
    BY <1>6
  <2>2. wire \in Seq(Char) /\ r \o wire \in Seq(Char)
    BY <1>3, ConcatProperties
  <2>3. r \o (wire \o x) = (r \o wire) \o x
    BY <2>2, ConcatAssociative
  <2>4. PICK q \in Seq(Char) : q = r \o wire
    BY <2>2
  <2>5. (q \o x) \o y = q \o (x \o y)
    BY ConcatAssociative
  <2> QED BY <2>1, <2>3, <2>4, <2>5
<1> QED BY <1>3, <1>4, <1>5, <1>7

\* So does reading into the buffer.
LEMMA RefillMoves == ASSUME TypeOK, Refill PROVE Stream' = Stream
<1>1. PICK n \in 1..Len(wire) : rio_buf' = SubSeq(wire, 1, n) /\ wire' = Drop(wire, n)
  BY DEF Refill
<1>2. rio_buf = <<>> /\ Pending' = Pending /\ usrbuf' = usrbuf
  BY DEF Refill, writer, Pending
<1>3. /\ usrbuf \in Seq(Char) /\ wire \in Seq(Char) /\ Pending \in Seq(Char)
      /\ Stream = usrbuf \o rio_buf \o wire \o Pending
  BY StreamParts
<1>4. PICK x \in Seq(Char), y \in Seq(Char) :
        x = SubSeq(wire, 1, n) /\ y = Drop(wire, n) /\ wire = x \o y
  <2>1. wire \in Seq(Char) /\ n \in 0..Len(wire)
    BY <1>3
  <2>2. SubSeq(wire, 1, n) \in Seq(Char) /\ Len(SubSeq(wire, 1, n)) = n
    BY <2>1, Cut
  <2>3. Drop(wire, n) \in Seq(Char)
    BY <2>1, Cut
  <2>4. wire = SubSeq(wire, 1, n) \o Drop(wire, n)
    BY <2>1, Cut
  <2> QED BY <2>2, <2>3, <2>4
<1>5. Stream' = usrbuf \o x \o y \o Pending
  BY <1>1, <1>2, <1>4 DEF Stream, Pending
<1>6. Stream = usrbuf \o (x \o y) \o Pending
  BY <1>2, <1>3, <1>4, ConcatEmptySeq
<1>7. usrbuf \o (x \o y) = (usrbuf \o x) \o y
  <2>1. usrbuf \in Seq(Char)
    BY <1>3
  <2> QED BY <2>1, ConcatAssociative
<1> QED BY <1>5, <1>6, <1>7

\* The next character goes from the buffer to the line.
LEMMA TakeMoves ==
  ASSUME TypeOK, rio_buf # <<>>
  PROVE  /\ Append(usrbuf, Head(rio_buf)) \in Seq(Char) /\ Tail(rio_buf) \in Seq(Char)
         /\ Head(rio_buf) \in Char
         /\ Stream = Append(usrbuf, Head(rio_buf)) \o (Tail(rio_buf) \o wire \o Pending)
         /\ Stream = Append(usrbuf, Head(rio_buf)) \o Tail(rio_buf) \o wire \o Pending
         /\ Tail(rio_buf) \o wire \o Pending \in Seq(Char)
<1>1. /\ usrbuf \in Seq(Char) /\ rio_buf \in Seq(Char) /\ wire \in Seq(Char)
      /\ Pending \in Seq(Char)
      /\ Stream = usrbuf \o rio_buf \o wire \o Pending
  BY StreamParts
<1>2. PICK h \in Char, t \in Seq(Char) : h = Head(rio_buf) /\ t = Tail(rio_buf)
  BY <1>1, HeadTailProperties
<1>3. rio_buf = <<h>> \o t
  BY <1>1, <1>2
<1>4. PICK l \in Seq(Char) : l = Append(usrbuf, h) /\ l = usrbuf \o <<h>>
  BY <1>1, <1>2, AppendProperties, AppendIsConcat
<1>5. usrbuf \o rio_buf = l \o t
  BY <1>1, <1>2, <1>3, <1>4, ConcatAssociative
<1>6. Stream = l \o t \o wire \o Pending
  BY <1>1, <1>5
<1>7. t \o wire \o Pending \in Seq(Char) /\ t \o wire \in Seq(Char)
  BY <1>1, <1>2, ConcatProperties
<1>8. l \o t \o wire \o Pending = l \o (t \o wire \o Pending)
  <2>1. (l \o t) \o wire = l \o (t \o wire)
    BY <1>1, <1>2, <1>4, ConcatAssociative
  <2>2. (l \o (t \o wire)) \o Pending = l \o ((t \o wire) \o Pending)
    <3>1. Pending \in Seq(Char) /\ t \o wire \in Seq(Char)
      BY <1>1, <1>7
    <3> QED BY <3>1, ConcatAssociative
  <2> QED BY <2>1, <2>2
<1> QED BY <1>2, <1>4, <1>6, <1>7, <1>8

\* Sending puts a line at the end of the stream.
LEMMA SendMoves ==
  ASSUME TypeOK, Send
  PROVE  \E n \in 2..LongestLine :
           /\ sentLen' = Append(sentLen, n) /\ out' = Encode(Len(sentLen) + 1, n)
           /\ Encode(Len(sentLen) + 1, n) \in Seq(Char)
           /\ Stream' = Stream \o Encode(Len(sentLen) + 1, n)
<1>1. PICK n \in 2..LongestLine :
        sentLen' = Append(sentLen, n) /\ out' = Encode(Len(sentLen) + 1, n)
  BY DEF Send
<1>2. /\ end = "open" /\ end' = "open" /\ out = <<>> /\ Len(sentLen) < MaxMsgs
      /\ usrbuf' = usrbuf /\ rio_buf' = rio_buf /\ wire' = wire
  BY DEF Send, reader
<1>3. Encode(Len(sentLen) + 1, n) \in Seq(Char)
  <2>1. Len(sentLen) + 1 \in 1..MaxMsgs /\ n \in Nat
    BY <1>2, LenAssumption DEF TypeOK
  <2>2. \A i \in 1..n : <<Len(sentLen) + 1, IF i = n THEN 0 ELSE i>> \in Char
    BY <2>1, LenAssumption DEF Char
  <2> QED BY <2>1, <2>2 DEF Encode
<1>4. usrbuf \o rio_buf \o wire \in Seq(Char)
  BY ConcatProperties DEF TypeOK
<1>5. Stream = usrbuf \o rio_buf \o wire
  BY <1>2, <1>4, ConcatEmptySeq DEF Stream
<1>6. Stream' = usrbuf \o rio_buf \o wire \o Encode(Len(sentLen) + 1, n)
  BY <1>1, <1>2 DEF Stream
<1> QED BY <1>1, <1>3, <1>5, <1>6

\* The end of the writer takes away from the end of the stream.
LEMMA EndingCuts ==
  ASSUME TypeOK, Close \/ Reset
  PROVE  /\ end' \in {"closed", "reset"} /\ UNCHANGED <<writer, reader>>
         /\ wire' \in Seq(Char) /\ Len(wire') <= Len(wire)
         /\ Stream' \in Seq(Char)
         /\ \E lost \in Seq(Char) : Stream = Stream' \o lost
<1>1. /\ end' \in {"closed", "reset"} /\ UNCHANGED <<writer, reader>>
      /\ \E n \in 0..Len(wire) : wire' = SubSeq(wire, 1, n)
  <2>1. wire \in Seq(Char)
    BY DEF TypeOK
  <2>2. wire = SubSeq(wire, 1, Len(wire)) /\ Len(wire) \in 0..Len(wire)
    BY <2>1, SubSeqFull
  <2> QED BY <2>2 DEF Close, Reset
<1>2. PICK n \in 0..Len(wire) : wire' = SubSeq(wire, 1, n)
  BY <1>1
<1>3. /\ usrbuf \in Seq(Char) /\ rio_buf \in Seq(Char) /\ wire \in Seq(Char)
      /\ Pending \in Seq(Char) /\ Stream = usrbuf \o rio_buf \o wire \o Pending
  BY StreamParts
<1>4. PICK x \in Seq(Char), y \in Seq(Char) :
        x = SubSeq(wire, 1, n) /\ y = Drop(wire, n) /\ wire = x \o y /\ Len(x) = n
  <2>1. wire \in Seq(Char) /\ n \in 0..Len(wire)
    BY <1>3
  <2>2. SubSeq(wire, 1, n) \in Seq(Char) /\ Len(SubSeq(wire, 1, n)) = n
    BY <2>1, Cut
  <2>3. Drop(wire, n) \in Seq(Char)
    BY <2>1, Cut
  <2>4. wire = SubSeq(wire, 1, n) \o Drop(wire, n)
    BY <2>1, Cut
  <2> QED BY <2>2, <2>3, <2>4
<1>5. PICK r \in Seq(Char) : r = usrbuf \o rio_buf
  BY <1>3, ConcatProperties
<1>6. r \o x \in Seq(Char) /\ y \o Pending \in Seq(Char)
  BY <1>3, <1>4, <1>5, ConcatProperties
<1>7. Stream' = r \o x
  <2>1. Stream' = usrbuf \o rio_buf \o x \o <<>>
    BY <1>1, <1>2, <1>4 DEF Stream, reader
  <2> QED BY <1>5, <1>6, <2>1, ConcatEmptySeq
<1>8. r \o (x \o y) \o Pending = (r \o x) \o (y \o Pending)
  <2>1. Pending \in Seq(Char)
    BY <1>3
  <2>2. r \o (x \o y) = (r \o x) \o y
    BY ConcatAssociative
  <2>3. ((r \o x) \o y) \o Pending = (r \o x) \o (y \o Pending)
    BY <1>6, <2>1, ConcatAssociative
  <2> QED BY <2>2, <2>3
<1>9. Stream = (r \o x) \o (y \o Pending)
  BY <1>3, <1>4, <1>5, <1>8
<1>10. Len(wire') <= Len(wire) /\ wire' \in Seq(Char)
  BY <1>2, <1>4
<1> QED BY <1>1, <1>6, <1>7, <1>9, <1>10

-----------------------------------------------------------------------------
(***************************************************************************)
(* What a step does to what was handed out.                                *)
(***************************************************************************)
\* A receive hands out one more line, with n characters received for it.
LEMMA OneMoreLine ==
  ASSUME TypeOK, NEW line, NEW n, got' = Append(got, line), received' = Append(received, n)
  PROVE  /\ Len(got) \in Nat /\ Len(got') = Len(got) + 1 /\ got'[Len(got) + 1] = line
         /\ received'[Len(got) + 1] = n
         /\ \A a \in 1..Len(got') : a \in 1..Len(got) \/ a = Len(got) + 1
         /\ \A a \in 1..Len(got) : /\ got'[a] = got[a] /\ received'[a] = received[a]
                                   /\ a \in 1..Len(got') /\ a # Len(got) + 1
         /\ Len(got) + 1 \in 1..Len(got')
<1>1. got \in Seq(Seq(Char \cup {Stray})) /\ received \in Seq(Nat) /\ Len(received) = Len(got)
  BY DEF TypeOK
<1>2. Len(got) \in Nat /\ Len(got') = Len(got) + 1 /\ got'[Len(got) + 1] = line
  BY <1>1
<1>3. \A a \in 1..Len(got) : got'[a] = got[a]
  BY <1>1
<1>4. received'[Len(received) + 1] = n /\ \A a \in 1..Len(received) : received'[a] = received[a]
  BY <1>1
<1> QED BY <1>1, <1>2, <1>3, <1>4

\* Its number joins those of the lines that hold a character of its message.
LEMMA OneMorePiece ==
  ASSUME TypeOK, NEW line, NEW n, got' = Append(got, line), received' = Append(received, n),
         NEW k
  PROVE  /\ (\A j \in 1..n : line[j][1] # k) => PiecesOf(k)' = PiecesOf(k)
         /\ (\E j \in 1..n : line[j][1] = k) => PiecesOf(k)' = PiecesOf(k) \cup {Len(got) + 1}
<1>1. /\ got'[Len(got) + 1] = line /\ received'[Len(got) + 1] = n
      /\ \A a \in 1..Len(got') : a \in 1..Len(got) \/ a = Len(got) + 1
      /\ \A a \in 1..Len(got) : /\ got'[a] = got[a] /\ received'[a] = received[a]
                                /\ a \in 1..Len(got') /\ a # Len(got) + 1
      /\ Len(got) + 1 \in 1..Len(got')
  BY OneMoreLine
<1>2. PICK m : m = Len(got) + 1
  OBVIOUS
<1>3. PiecesOf(k)' = PiecesOf(k) \cup {a \in {m} : \E j \in 1..n : line[j][1] = k}
  <2> SUFFICES ASSUME NEW a
               PROVE  a \in PiecesOf(k)' <=>
                        (a \in PiecesOf(k) \/ (a = m /\ \E j \in 1..n : line[j][1] = k))
    OBVIOUS
  <2>1. CASE a \in 1..Len(got)
    <3>1. a \in 1..Len(got') /\ a # m /\ got'[a] = got[a] /\ received'[a] = received[a]
      BY <1>1, <1>2, <2>1
    <3> QED BY <2>1, <3>1 DEF PiecesOf
  <2>2. CASE a = m
    <3>1. /\ m \in 1..Len(got') /\ m \notin 1..Len(got)
          /\ got'[m] = line /\ received'[m] = n
      BY <1>1, <1>2
    <3> QED BY <2>2, <3>1 DEF PiecesOf
  <2>3. CASE a \notin 1..Len(got) /\ a # m
    <3>1. a \notin 1..Len(got')
      BY <1>1, <1>2, <2>3
    <3> QED BY <2>3, <3>1 DEF PiecesOf
  <2> QED BY <2>1, <2>2, <2>3
<1> QED BY <1>2, <1>3, Zenon

\* A line that was handed out whole stays so.
LEMMA WholeStays ==
  ASSUME TypeOK, NEW line, NEW n, got' = Append(got, line), received' = Append(received, n),
         sentLen' = sentLen, NEW k, ArrivesWhole(k), \A j \in 1..n : line[j][1] # k
  PROVE  ArrivesWhole(k)'
<1>1. PiecesOf(k)' = PiecesOf(k) /\ Text(k)' = Text(k)
  BY OneMorePiece DEF Text
<1>2. PICK a \in 1..Len(got) : PiecesOf(k) = {a} /\ got[a] = Text(k)
  BY DEF ArrivesWhole
<1>3. a \in 1..Len(got') /\ got'[a] = got[a]
  BY OneMoreLine
<1> QED BY <1>1, <1>2, <1>3 DEF ArrivesWhole

\* Order, when what is received for the new line is in order and comes after all
\* that was received before.
LEMMA OrderStays ==
  ASSUME TypeOK, InSequence, end # "gone", NEW line, NEW n,
         got' = Append(got, line), received' = Append(received, n),
         \A a \in 1..Len(got) : \A j \in 1..received[a], k \in 1..n : Before(got[a][j], line[k]),
         \A j, k \in 1..n : j < k => Before(line[j], line[k]),
         n = Len(line) \/ end' = "gone"
  PROVE  InSequence'
<1>1. /\ Len(got) \in Nat /\ Len(got') = Len(got) + 1
      /\ got'[Len(got) + 1] = line /\ received'[Len(got) + 1] = n
      /\ \A c \in 1..Len(got') : c \in 1..Len(got) \/ c = Len(got) + 1
      /\ \A c \in 1..Len(got) : got'[c] = got[c] /\ received'[c] = received[c]
  BY OneMoreLine
<1>2. ASSUME NEW a \in 1..Len(got'), NEW b \in 1..Len(got'),
             NEW i \in 1..received'[a], NEW j \in 1..received'[b], a < b \/ (a = b /\ i < j)
      PROVE  Before(got'[a][i], got'[b][j])
  <2>1. CASE b \in 1..Len(got)
    <3>1. a \in 1..Len(got)
      BY <1>1, <1>2, <2>1
    <3> QED BY <1>1, <1>2, <2>1, <3>1 DEF InSequence
  <2>2. CASE b = Len(got) + 1 /\ a \in 1..Len(got)
    BY <1>1, <2>2
  <2>3. CASE b = Len(got) + 1 /\ a = Len(got) + 1
    <3>1. i \in 1..n /\ j \in 1..n /\ i < j
      <4>1. received'[a] = n /\ received'[b] = n
        BY <1>1, <2>3
      <4>2. ~ (a < b)
        BY <1>1, <2>3
      <4> QED BY <1>2, <4>1, <4>2
    <3>2. got'[a] = line /\ got'[b] = line
      BY <1>1, <2>3
    <3> QED BY <3>1, <3>2
  <2> QED BY <1>1, <2>1, <2>2, <2>3
<1>3. ASSUME NEW a \in 1..Len(got'), received'[a] # Len(got'[a])
      PROVE  a = Len(got') /\ end' = "gone"
  <2>1. CASE a \in 1..Len(got)
    BY <1>1, <1>3, <2>1 DEF InSequence
  <2>2. CASE a = Len(got) + 1
    BY <1>1, <1>3, <2>2
  <2> QED BY <1>1, <2>1, <2>2
<1> QED BY <1>2, <1>3 DEF InSequence, Before, IsNewLine

\* What the last character says about a line.
LEMMA PoppedLine ==
  ASSUME NEW line \in Seq(Char), line # <<>>
  PROVE  /\ PopBack(line) \in Seq(Char) /\ Len(PopBack(line)) = Len(line) - 1
         /\ \A j \in 1..(Len(line) - 1) : PopBack(line)[j] = line[j]
<1>1. Len(line) \in Nat /\ Len(line) >= 1 /\ Len(line) - 1 \in 0..Len(line)
  OBVIOUS
<1> QED BY <1>1, Cut DEF PopBack

\* What was received for a request are characters.
LEMMA ReceivedIsChar ==
  ASSUME TypeOK, NEW a \in 1..Len(got), NEW j \in 1..received[a]
  PROVE  got[a][j] \in Char \cup {Stray} /\ got[a][j][1] \in Int
<1>1. /\ got \in Seq(Seq(Char \cup {Stray})) /\ received \in Seq(Nat)
      /\ Len(received) = Len(got) /\ received[a] <= Len(got[a])
  BY DEF TypeOK
<1>2. PICK l \in Seq(Char \cup {Stray}), n \in Nat : l = got[a] /\ n = received[a]
  BY <1>1, ElementOfSeq
<1>3. j \in 1..Len(l)
  BY <1>1, <1>2
<1>4. l[j] \in Char \cup {Stray}
  BY <1>3, ElementOfSeq
<1> QED BY <1>2, <1>4, LenAssumption DEF Char, Stray

-----------------------------------------------------------------------------
(***************************************************************************)
(* The writer's steps.                                                     *)
(***************************************************************************)
\* What holds while the reader's end is open.
Facts == TypeOK /\ done <= Len(sentLen) /\ StreamInv /\ LineInv /\ HandedOut

\* Whatever moves inside the stream changes nothing.
LEMMA SameStream ==
  ASSUME TypeOK, StreamInv, LineInv, HandedOut, Stream' = Stream,
         UNCHANGED <<sentLen, end, got, received, done>>,
         usrbuf' = usrbuf
  PROVE  StreamInv' /\ LineInv' /\ HandedOut'
<1>1. StreamInv'
  BY DEF StreamInv, Follows, MayFit
<1>2. LineInv'
  BY DEF LineInv, MayFit
<1>3. HandedOut'
  BY DEF HandedOut, Exhausted, MayFit, PiecesOf
<1> QED BY <1>1, <1>2, <1>3

\* A stream cut short is still one run.
LEMMA StreamCut ==
  ASSUME TypeOK, StreamInv, LineInv, HandedOut, NEW lost \in Seq(Char), Stream' \in Seq(Char),
         Stream = Stream' \o lost, end = "open", end' \in {"closed", "reset"},
         UNCHANGED <<sentLen, got, received, done, usrbuf>>
  PROVE  StreamInv' /\ LineInv' /\ HandedOut'
<1>1. PICK m \in Nat : m = Len(Stream')
  OBVIOUS
<1>2. Len(Stream) \in Nat /\ m <= Len(Stream) /\ \A j \in 1..m : Stream'[j] = Stream[j]
  BY <1>1
<1>3. StreamInv'
  <2>1. \A j \in 1..(m - 1) : Follows(Stream[j], Stream[j + 1])
    BY <1>2 DEF StreamInv
  <2>2. \A j \in 1..(Len(Stream') - 1) : Follows(Stream[j], Stream[j + 1])'
    <3> SUFFICES ASSUME NEW j \in 1..(m - 1) PROVE Follows(Stream[j], Stream[j + 1])'
      BY <1>1 DEF Follows
    <3>1. j \in 1..m /\ j + 1 \in 1..m
      BY <1>1
    <3>2. Stream'[j] = Stream[j] /\ Stream'[j + 1] = Stream[j + 1]
      BY <1>2, <3>1
    <3> QED BY <2>1, <3>2 DEF Follows
  <2>3. \A j, k \in 1..Len(Stream') : j < k => Before(Stream[j], Stream[k])'
    BY <1>1, <1>2 DEF StreamInv, Before, IsNewLine
  <2>4. \A j \in 1..Len(Stream') : /\ Stream'[j][1] \in (done' + 1)..Len(sentLen')
                                   /\ Stream'[j][2] < sentLen'[Stream'[j][1]]
    BY <1>1, <1>2 DEF StreamInv
  <2>5. Stream' # <<>> => /\ Stream'[1][1] = done' + 1
                          /\ MayFit(done + 1)' => Stream'[1][2] = 1
    <3> SUFFICES ASSUME Stream' # <<>>
                 PROVE  /\ Stream'[1][1] = done' + 1
                        /\ MayFit(done + 1)' => Stream'[1][2] = 1
      OBVIOUS
    <3>1. m >= 1 /\ Stream # <<>> /\ Stream'[1] = Stream[1]
      BY <1>1, <1>2
    <3> QED BY <3>1 DEF StreamInv, MayFit
  <2> QED BY <2>2, <2>3, <2>4, <2>5 DEF StreamInv
<1>4. LineInv'
  BY DEF LineInv, MayFit
<1>5. HandedOut'
  <2>1. \A a \in 1..Len(got') : \A j \in 1..received'[a], k \in 1..Len(Stream') :
           Before(got'[a][j], Stream'[k])
    BY <1>1, <1>2 DEF HandedOut
  <2>2. ~ Exhausted
    BY DEF Exhausted
  <2>3. \A k \in (done' + 1)..MaxMsgs : MayFit(k)' => PiecesOf(k)' = {}
    BY <2>2 DEF HandedOut, MayFit, PiecesOf
  <2> QED BY <2>1, <2>3 DEF HandedOut, Before, IsNewLine
<1> QED BY <1>3, <1>4, <1>5

\* One more line at the end of the stream continues the run.
LEMMA SendExtends ==
  ASSUME Facts, Send, readerEnd = "open", Sent
  PROVE  StreamInv' /\ LineInv' /\ HandedOut'
<1>1. /\ end = "open" /\ end' = "open" /\ usrbuf' = usrbuf /\ done' = done
      /\ got' = got /\ received' = received
      /\ TypeOK /\ StreamInv /\ LineInv /\ HandedOut /\ done <= Len(sentLen)
  BY DEF Send, reader, handed, Facts
<1>2. PICK n \in 2..LongestLine, E \in Seq(Char) :
        /\ E = Encode(Len(sentLen) + 1, n) /\ sentLen' = Append(sentLen, n)
        /\ Stream' = Stream \o E
  BY <1>1, SendMoves
<1>3. PICK L \in Nat, m \in Nat : L = Len(sentLen) /\ m = Len(Stream)
  BY <1>1, StreamParts DEF TypeOK
<1>4. n \in Nat /\ n >= 2 /\ done \in Nat /\ done <= L
  BY <1>1, <1>3, LenAssumption DEF TypeOK
<1>5. Len(E) = n /\ \A j \in 1..n : E[j] = <<L + 1, IF j = n THEN 0 ELSE j>>
  BY <1>2, <1>3, <1>4 DEF Encode
<1>6. /\ Len(sentLen') = L + 1 /\ sentLen'[L + 1] = n
      /\ \A k \in 1..L : sentLen'[k] = sentLen[k]
  BY <1>1, <1>2, <1>3 DEF TypeOK
<1>7. /\ Stream \in Seq(Char) /\ Len(Stream') = m + n
      /\ \A j \in 1..m : Stream'[j] = Stream[j]
      /\ \A j \in 1..n : Stream'[m + j] = E[j]
  <2>1. PICK s \in Seq(Char) : s = Stream
    BY <1>1, StreamParts
  <2>2. Len(s \o E) = Len(s) + Len(E)
    OBVIOUS
  <2>3. \A j \in 1..Len(s) : (s \o E)[j] = s[j]
    OBVIOUS
  <2>4. \A j \in 1..Len(E) : (s \o E)[Len(s) + j] = E[j]
    OBVIOUS
  <2> QED BY <1>2, <1>3, <1>5, <2>1, <2>2, <2>3, <2>4
<1>8. \A j \in 1..(m + n) : j \in 1..m \/ \E k \in 1..n : j = m + k
  <2> SUFFICES ASSUME NEW j \in 1..(m + n), j \notin 1..m PROVE \E k \in 1..n : j = m + k
    OBVIOUS
  <2>1. j - m \in 1..n /\ j = m + (j - m)
    BY <1>4
  <2> QED BY <2>1
<1>9. \A j \in 1..m : Stream[j][1] \in (done + 1)..L /\ Stream[j][2] < sentLen[Stream[j][1]]
  BY <1>1, <1>3 DEF StreamInv
<1>10. \A k \in Nat \ {0} : MayFit(k)' => MayFit(k)
  <2> SUFFICES ASSUME NEW k \in Nat \ {0}, MayFit(k)', k <= L PROVE MayFit(k)
    BY <1>3 DEF MayFit
  <2>1. k \in 1..L /\ ~ (k > L + 1)
    BY <1>3
  <2>2. sentLen'[k] < MaxLen
    BY <1>6, <2>1 DEF MayFit
  <2> QED BY <1>6, <2>1, <2>2 DEF MayFit
<1>11. StreamInv'
  <2>1. \A j \in 1..(Len(Stream') - 1) : Follows(Stream[j], Stream[j + 1])'
    <3> SUFFICES ASSUME NEW j \in 1..(m + n - 1) PROVE Follows(Stream[j], Stream[j + 1])'
      BY <1>7
    <3>1. CASE j + 1 \in 1..m
      <4>1. j \in 1..m /\ j \in 1..(m - 1)
        BY <3>1
      <4>2. Stream'[j] = Stream[j] /\ Stream'[j + 1] = Stream[j + 1]
        BY <1>7, <3>1, <4>1
      <4>3. Follows(Stream[j], Stream[j + 1])
        BY <1>1, <1>3, <4>1 DEF StreamInv
      <4>4. Stream[j][1] \in 1..L
        BY <1>4, <1>9, <4>1
      <4> QED BY <1>6, <4>2, <4>3, <4>4 DEF Follows
    <3>2. CASE j = m
      <4>1. m >= 1 /\ Stream # <<>> /\ Stream[m] = <<L, 0>>
        BY <1>1, <1>3, <1>7, <3>2 DEF StreamInv
      <4>2. Stream'[j] = <<L, 0>> /\ Stream'[j + 1] = <<L + 1, 1>>
        <5>1. m \in 1..m /\ 1 \in 1..n /\ 1 # n
          BY <1>4, <4>1
        <5>2. Stream'[m] = Stream[m] /\ Stream'[m + 1] = E[1] /\ E[1] = <<L + 1, 1>>
          BY <1>5, <1>7, <5>1
        <5> QED BY <3>2, <4>1, <5>2
      <4> QED BY <4>2 DEF Follows, IsNewLine
    <3>3. CASE j > m
      <4>1. PICK k \in 1..(n - 1) : j = m + k /\ j + 1 = m + (k + 1)
        <5>1. j - m \in 1..(n - 1) /\ j = m + (j - m) /\ j + 1 = m + ((j - m) + 1)
          BY <1>4, <3>3
        <5> QED BY <5>1
      <4>2. k \in 1..n /\ k + 1 \in 1..n /\ k # n /\ k # 0
        BY <1>4
      <4>3. Stream'[j] = <<L + 1, k>> /\ Stream'[j + 1] = <<L + 1, IF k + 1 = n THEN 0 ELSE k + 1>>
        BY <1>5, <1>7, <4>1, <4>2
      <4> QED BY <1>6, <4>2, <4>3 DEF Follows, IsNewLine
    <3>4. j \in Nat
      OBVIOUS
    <3> QED BY <3>1, <3>2, <3>3, <3>4
  <2>2. \A j, k \in 1..Len(Stream') : j < k => Before(Stream[j], Stream[k])'
    <3> SUFFICES ASSUME NEW j \in 1..(m + n), NEW k \in 1..(m + n), j < k
                 PROVE  Before(Stream'[j], Stream'[k])
      BY <1>7 DEF Before, IsNewLine
    <3>1. CASE k \in 1..m
      <4>1. j \in 1..m
        BY <3>1
      <4> QED BY <1>1, <1>3, <1>7, <3>1, <4>1 DEF StreamInv
    <3>2. CASE j \in 1..m /\ k \notin 1..m
      <4>1. Stream'[j][1] <= L /\ Stream'[j][1] \in Int
        <5>1. Stream'[j] = Stream[j]
          BY <1>7, <3>2
        <5>2. Stream[j][1] \in (done + 1)..L
          BY <1>9, <3>2
        <5>3. PICK c : c = Stream[j][1]
          OBVIOUS
        <5>4. c <= L /\ c \in Int
          BY <1>4, <5>2, <5>3
        <5> QED BY <5>1, <5>3, <5>4
      <4>2. Stream'[k][1] = L + 1
        <5>1. PICK u \in 1..n : k = m + u
          BY <1>8, <3>2
        <5>2. Stream'[k] = <<L + 1, IF u = n THEN 0 ELSE u>>
          BY <1>5, <1>7, <5>1
        <5> QED BY <5>2
      <4> QED BY <4>1, <4>2 DEF Before
    <3>3. CASE j \notin 1..m
      <4>1. PICK u \in 1..n : j = m + u
        BY <1>8, <3>3
      <4>2. PICK v \in 1..n : k = m + v
        <5>1. k \notin 1..m
          BY <3>3
        <5> QED BY <1>8, <5>1
      <4>3. u < v /\ u # n /\ u # 0
        BY <1>4, <4>1, <4>2
      <4>4. Stream'[j] = <<L + 1, u>> /\ Stream'[k] = <<L + 1, IF v = n THEN 0 ELSE v>>
        BY <1>5, <1>7, <4>1, <4>2, <4>3
      <4> QED BY <4>3, <4>4 DEF Before, IsNewLine
    <3> QED BY <3>1, <3>2, <3>3
  <2>3. \A j \in 1..Len(Stream') : /\ Stream'[j][1] \in (done' + 1)..Len(sentLen')
                                   /\ Stream'[j][2] < sentLen'[Stream'[j][1]]
    <3> SUFFICES ASSUME NEW j \in 1..(m + n)
                 PROVE  /\ Stream'[j][1] \in (done + 1)..(L + 1)
                        /\ Stream'[j][2] < sentLen'[Stream'[j][1]]
      BY <1>1, <1>6, <1>7
    <3>1. CASE j \in 1..m
      <4>1. PICK c : c = Stream[j][1]
        OBVIOUS
      <4>2. c \in (done + 1)..L /\ Stream[j][2] < sentLen[c] /\ Stream'[j] = Stream[j]
        BY <1>7, <1>9, <3>1, <4>1
      <4>3. c \in 1..L /\ c \in (done + 1)..(L + 1)
        BY <1>4, <4>2
      <4> QED BY <1>6, <4>1, <4>2, <4>3
    <3>2. CASE j \notin 1..m
      <4>1. PICK k \in 1..n : j = m + k
        BY <1>8, <3>2
      <4>2. Stream'[j] = <<L + 1, IF k = n THEN 0 ELSE k>>
        BY <1>5, <1>7, <4>1
      <4>3. L + 1 \in (done + 1)..(L + 1)
        BY <1>4
      <4> QED BY <1>4, <1>6, <4>2, <4>3
    <3> QED BY <3>1, <3>2
  <2>4. Stream' # <<>> => /\ Stream'[1][1] = done' + 1
                          /\ MayFit(done + 1)' => Stream'[1][2] = 1
    <3>1. CASE m = 0
      <4>1. Stream = <<>>
        BY <1>3, <1>7, <3>1, EmptySeq
      <4>2. done = L
        BY <1>1, <1>3, <4>1 DEF StreamInv
      <4>3. Stream'[1] = <<L + 1, 1>>
        <5>1. 1 \in 1..n /\ 1 # n /\ m + 1 = 1
          BY <1>4, <3>1
        <5> QED BY <1>5, <1>7, <5>1
      <4> QED BY <1>1, <4>2, <4>3
    <3>2. CASE m # 0
      <4>1. Stream # <<>> /\ Stream'[1] = Stream[1]
        BY <1>3, <1>7, <3>2
      <4>2. Stream[1][1] = done + 1 /\ (MayFit(done + 1) => Stream[1][2] = 1)
        BY <1>1, <4>1 DEF StreamInv
      <4>3. MayFit(done + 1)' => MayFit(done + 1)
        <5>1. PICK d \in Nat \ {0} : d = done + 1
          BY <1>4
        <5>2. MayFit(d)' => MayFit(d)
          BY <1>10
        <5> QED BY <1>1, <5>1, <5>2
      <4> QED BY <1>1, <4>1, <4>2, <4>3
    <3> QED BY <3>1, <3>2
  <2>5. Stream' # <<>> /\ Stream'[Len(Stream')] = <<Len(sentLen'), 0>>
    <3>1. n \in 1..n
      BY <1>4
    <3>2. Stream'[m + n] = <<L + 1, 0>>
      BY <1>5, <1>7, <3>1
    <3>3. Stream' # <<>>
      BY <1>4, <1>7
    <3> QED BY <1>6, <1>7, <3>2, <3>3
  <2> QED BY <2>1, <2>2, <2>3, <2>4, <2>5 DEF StreamInv
<1>12. LineInv'
  <2>1. MayFit(done + 1)' => MayFit(done + 1)
    <3>1. PICK d \in Nat \ {0} : d = done + 1
      BY <1>4
    <3>2. MayFit(d)' => MayFit(d)
      BY <1>10
    <3> QED BY <1>1, <3>1, <3>2
  <2> QED BY <1>1, <2>1 DEF LineInv, IsNewLine
<1>13. HandedOut'
  <2>1. ASSUME NEW a \in 1..Len(got), NEW j \in 1..received[a], NEW k \in 1..(m + n)
        PROVE  Before(got[a][j], Stream'[k])
    <3>1. CASE k \in 1..m
      BY <1>1, <1>3, <1>7, <3>1 DEF HandedOut
    <3>2. CASE k \notin 1..m
      <4>1. Stream'[k][1] = L + 1
        <5>1. PICK u \in 1..n : k = m + u
          BY <1>8, <3>2
        <5>2. Stream'[k] = <<L + 1, IF u = n THEN 0 ELSE u>>
          BY <1>5, <1>7, <5>1
        <5> QED BY <5>2
      <4>2. got[a][j][1] <= L /\ got[a][j][1] \in Int
        <5>1. got[a][j][1] <= L
          BY <1>3 DEF Sent
        <5> QED BY <1>1, <5>1, ReceivedIsChar
      <4> QED BY <4>1, <4>2 DEF Before
    <3> QED BY <3>1, <3>2
  <2>2. \A k \in (done + 1)..MaxMsgs : MayFit(k)' => PiecesOf(k)' = {}
    <3> SUFFICES ASSUME NEW k \in (done + 1)..MaxMsgs, MayFit(k)' PROVE PiecesOf(k)' = {}
      OBVIOUS
    <3>1. k \in Nat \ {0}
      BY <1>4
    <3>2. PiecesOf(k) = {}
      BY <1>1, <1>10, <3>1 DEF HandedOut, Exhausted
    <3> QED BY <1>1, <3>2 DEF PiecesOf
  <2> QED BY <1>1, <1>7, <2>1, <2>2 DEF HandedOut, Before, IsNewLine
<1> QED BY <1>11, <1>12, <1>13

-----------------------------------------------------------------------------
(***************************************************************************)
(* The reader's steps.                                                     *)
(***************************************************************************)
\* The next character belongs to the next message; if that one fits, it is the
\* next one of it.
LEMMA NextCharacter ==
  ASSUME Facts, rio_buf # <<>>, NEW h, h = Head(rio_buf)
  PROVE  /\ h \in Char /\ h[1] = done + 1 /\ done + 1 \in 1..Len(sentLen)
         /\ h[2] < sentLen[done + 1]
         /\ MayFit(done + 1) => /\ h[2] \in {0, Len(usrbuf) + 1}
                                /\ IsNewLine(h) => Len(usrbuf) + 1 = sentLen[done + 1]
                                /\ Len(usrbuf) + 1 <= sentLen[done + 1]
<1>1. /\ TypeOK /\ StreamInv /\ LineInv /\ usrbuf \in Seq(Char) /\ rio_buf \in Seq(Char)
      /\ Len(rio_buf) \in Nat /\ Len(rio_buf) # 0 /\ h = rio_buf[1] /\ h \in Char
  BY StreamParts DEF Facts
<1>2. PICK m \in Nat, L \in Nat : m = Len(usrbuf) /\ L = Len(sentLen)
  BY <1>1 DEF TypeOK
<1>3. Len(Stream) \in Nat /\ m + 1 <= Len(Stream) /\ Stream[m + 1] = h
  <2>1. /\ Len(Stream) = Len(usrbuf) + Len(rio_buf) + Len(wire) + Len(Pending)
        /\ Len(wire) \in Nat /\ Len(Pending) \in Nat
    BY <1>1, StreamParts
  <2>2. \A j \in 1..Len(rio_buf) : Stream[Len(usrbuf) + j] = rio_buf[j]
    BY <1>1, StreamParts
  <2>3. 1 \in 1..Len(rio_buf)
    BY <1>1
  <2> QED BY <1>1, <1>2, <2>1, <2>2, <2>3
<1>4. h[1] \in (done + 1)..L /\ h[2] < sentLen[h[1]] /\ done \in Nat
  BY <1>1, <1>2, <1>3 DEF StreamInv, TypeOK
<1>5. done + 1 <= L /\ sentLen[done + 1] \in Nat /\ sentLen[done + 1] >= 2
  <2>1. done + 1 <= L
    BY <1>4
  <2> QED BY <1>1, <1>2, <1>4, <2>1, LenAssumption DEF TypeOK
<1>6. CASE m = 0
  <2>1. Stream # <<>> /\ Stream[1] = h
    BY <1>3, <1>6
  <2>2. h[1] = done + 1 /\ (MayFit(done + 1) => h[2] = 1)
    BY <1>1, <2>1 DEF StreamInv
  <2> QED BY <1>1, <1>2, <1>4, <1>5, <1>6, <2>2 DEF IsNewLine
<1>7. CASE m # 0
  <2>1. m \in 1..m /\ m \in 1..(Len(Stream) - 1)
    BY <1>3, <1>7
  <2>2. Stream[m] = usrbuf[m]
    BY <1>1, <1>2, <2>1, StreamParts
  <2>3. Follows(usrbuf[m], h)
    BY <1>1, <1>3, <2>1, <2>2 DEF StreamInv
  <2>4. /\ usrbuf[m][1] = done + 1 /\ ~IsNewLine(usrbuf[m])
        /\ MayFit(done + 1) => usrbuf[m][2] = m
    BY <1>1, <1>2, <2>1 DEF LineInv
  <2>5. h = <<done + 1, IF usrbuf[m][2] + 1 = sentLen[done + 1] THEN 0 ELSE usrbuf[m][2] + 1>>
    BY <2>3, <2>4 DEF Follows
  <2>6. h[1] = done + 1
    BY <2>5
  <2>7. MayFit(done + 1) => h[2] = IF m + 1 = sentLen[done + 1] THEN 0 ELSE m + 1
    BY <2>4, <2>5
  <2>8. m < sentLen[done + 1] \/ ~ MayFit(done + 1)
    <3>1. Stream[m][1] = done + 1 /\ Stream[m][2] < sentLen[Stream[m][1]]
      BY <1>1, <1>3, <2>1, <2>2, <2>4 DEF StreamInv
    <3> QED BY <2>2, <2>4, <3>1
  <2> QED BY <1>1, <1>2, <1>4, <1>5, <2>6, <2>7, <2>8 DEF IsNewLine
<1> QED BY <1>2, <1>6, <1>7

\* A line at the head of the stream, and what is behind it.
LEMMA LineAndRest ==
  ASSUME NEW line \in Seq(Char), NEW rest \in Seq(Char), Stream = line \o rest
  PROVE  /\ Len(line) \in Nat /\ Len(rest) \in Nat /\ Len(Stream) = Len(line) + Len(rest)
         /\ \A j \in 1..Len(line) : Stream[j] = line[j] /\ j \in 1..Len(Stream)
         /\ \A j \in 1..Len(rest) : /\ Stream[Len(line) + j] = rest[j]
                                    /\ Len(line) + j \in 1..Len(Stream)
<1>1. Len(line) \in Nat /\ Len(rest) \in Nat
  OBVIOUS
<1>2. Len(line \o rest) = Len(line) + Len(rest)
  OBVIOUS
<1>3. \A j \in 1..Len(line) : (line \o rest)[j] = line[j]
  OBVIOUS
<1>4. \A j \in 1..Len(rest) : (line \o rest)[Len(line) + j] = rest[j]
  OBVIOUS
<1>5. \A j \in 1..Len(line) : j \in 1..(Len(line) + Len(rest))
  BY <1>1
<1>6. \A j \in 1..Len(rest) : Len(line) + j \in 1..(Len(line) + Len(rest))
  BY <1>1
<1> QED BY <1>1, <1>2, <1>3, <1>4, <1>5, <1>6

\* What is left of the stream when a line has been taken from its head.
LEMMA RestIsRun ==
  ASSUME Facts, NEW line \in Seq(Char), NEW rest \in Seq(Char), Stream = line \o rest,
         line # <<>>
  PROVE  /\ \A j \in 1..(Len(rest) - 1) : Follows(rest[j], rest[j + 1])
         /\ \A j, k \in 1..Len(rest) : j < k => Before(rest[j], rest[k])
         /\ \A j \in 1..Len(rest) : /\ rest[j][1] \in (done + 1)..Len(sentLen)
                                    /\ rest[j][2] < sentLen[rest[j][1]]
         /\ \A j \in 1..Len(line), k \in 1..Len(rest) : Before(line[j], rest[k])
         /\ rest # <<>> => Follows(line[Len(line)], rest[1])
         /\ end = "open" => IF rest = <<>> THEN line[Len(line)] = <<Len(sentLen), 0>>
                            ELSE rest[Len(rest)] = <<Len(sentLen), 0>>
<1>1. PICK m \in Nat, r \in Nat : m = Len(line) /\ r = Len(rest) /\ m # 0
  BY LineAndRest
<1>2. /\ Len(Stream) = m + r
      /\ \A j \in 1..m : Stream[j] = line[j]
      /\ \A j \in 1..r : Stream[m + j] = rest[j]
  BY <1>1, LineAndRest
<1>3. StreamInv
  BY DEF Facts
<1>4. \A j \in 1..(r - 1) : Follows(rest[j], rest[j + 1])
  <2> SUFFICES ASSUME NEW j \in 1..(r - 1) PROVE Follows(rest[j], rest[j + 1])
    OBVIOUS
  <2>1. /\ m + j \in 1..(m + r - 1) /\ j \in 1..r /\ j + 1 \in 1..r
        /\ m + (j + 1) = (m + j) + 1
    BY <1>1
  <2>2. Follows(Stream[m + j], Stream[(m + j) + 1])
    BY <1>2, <1>3, <2>1 DEF StreamInv
  <2> QED BY <1>2, <2>1, <2>2
<1>5. \A j, k \in 1..r : j < k => Before(rest[j], rest[k])
  <2> SUFFICES ASSUME NEW j \in 1..r, NEW k \in 1..r, j < k PROVE Before(rest[j], rest[k])
    OBVIOUS
  <2>1. m + j \in 1..(m + r) /\ m + k \in 1..(m + r) /\ m + j < m + k
    BY <1>1
  <2>2. Before(Stream[m + j], Stream[m + k])
    BY <1>2, <1>3, <2>1 DEF StreamInv
  <2> QED BY <1>2, <2>2
<1>6. \A j \in 1..r : /\ rest[j][1] \in (done + 1)..Len(sentLen)
                      /\ rest[j][2] < sentLen[rest[j][1]]
  <2> SUFFICES ASSUME NEW j \in 1..r PROVE /\ rest[j][1] \in (done + 1)..Len(sentLen)
                                           /\ rest[j][2] < sentLen[rest[j][1]]
    OBVIOUS
  <2>1. m + j \in 1..(m + r) /\ Stream[m + j] = rest[j]
    BY <1>1, <1>2
  <2> QED BY <1>2, <1>3, <2>1 DEF StreamInv
<1>7. \A j \in 1..m, k \in 1..r : Before(line[j], rest[k])
  <2> SUFFICES ASSUME NEW j \in 1..m, NEW k \in 1..r PROVE Before(line[j], rest[k])
    OBVIOUS
  <2>1. j \in 1..(m + r) /\ m + k \in 1..(m + r) /\ j < m + k
    BY <1>1
  <2>2. Before(Stream[j], Stream[m + k])
    BY <1>2, <1>3, <2>1 DEF StreamInv
  <2> QED BY <1>2, <2>2
<1>8. r # 0 => Follows(line[m], rest[1])
  <2> SUFFICES ASSUME r # 0 PROVE Follows(line[m], rest[1])
    OBVIOUS
  <2>1. m \in 1..(m + r - 1) /\ m \in 1..m /\ 1 \in 1..r
    BY <1>1
  <2>2. Follows(Stream[m], Stream[m + 1])
    BY <1>2, <1>3, <2>1 DEF StreamInv
  <2> QED BY <1>2, <2>1, <2>2
<1>9. end = "open" => IF r = 0 THEN line[m] = <<Len(sentLen), 0>>
                      ELSE rest[r] = <<Len(sentLen), 0>>
  <2> SUFFICES ASSUME end = "open"
               PROVE  IF r = 0 THEN line[m] = <<Len(sentLen), 0>>
                      ELSE rest[r] = <<Len(sentLen), 0>>
    OBVIOUS
  <2>1. Stream # <<>>
    BY <1>1, <1>2
  <2>2. Stream[m + r] = <<Len(sentLen), 0>>
    BY <1>2, <1>3, <2>1 DEF StreamInv
  <2>3. m \in 1..m /\ (r = 0 \/ r \in 1..r)
    BY <1>1
  <2> QED BY <1>1, <1>2, <2>2, <2>3
<1>10. rest = <<>> <=> r = 0
  BY <1>1, EmptySeq
<1> QED BY <1>1, <1>4, <1>5, <1>6, <1>7, <1>8, <1>9, <1>10

\* A request is handed out, of which n characters are the beginning of the line
\* at the head of the stream, which is of the next message.
LEMMA Handed ==
  ASSUME Facts, Sent, InSequence, FitsArrivesWhole, end # "gone",
         NEW line \in Seq(Char), NEW rest \in Seq(Char), Stream = line \o rest,
         \A j \in 1..Len(line) : line[j][1] = done + 1,
         line # <<>> => done + 1 <= Len(sentLen),
         NEW l, NEW n \in 0..Len(line), \A j \in 1..n : l[j] = line[j],
         n = Len(l) \/ end' = "gone",
         got' = Append(got, l), received' = Append(received, n), sentLen' = sentLen
  PROVE  /\ InSequence' /\ Sent'
         /\ \A k \in 1..done : sentLen[k] < MaxLen => ArrivesWhole(k)'
         /\ \A a \in 1..Len(got') : \A j \in 1..received'[a], k \in 1..Len(rest) :
              Before(got'[a][j], rest[k])
         /\ \A k : k # done + 1 => PiecesOf(k)' = PiecesOf(k)
<1>1. TypeOK /\ StreamInv /\ HandedOut /\ done \in Nat
  BY DEF Facts, TypeOK
<1>2. /\ Len(line) \in Nat /\ Len(rest) \in Nat /\ Len(Stream) = Len(line) + Len(rest)
      /\ \A j \in 1..Len(line) : Stream[j] = line[j] /\ j \in 1..Len(Stream)
      /\ \A j \in 1..Len(rest) : /\ Stream[Len(line) + j] = rest[j]
                                 /\ Len(line) + j \in 1..Len(Stream)
  BY LineAndRest
<1>3. \A j \in 1..n : /\ j \in 1..Len(line) /\ j \in 1..Len(Stream)
                      /\ l[j] = line[j] /\ l[j] = Stream[j] /\ l[j][1] = done + 1
  BY <1>2
<1>4. /\ Len(got') = Len(got) + 1 /\ got'[Len(got) + 1] = l /\ received'[Len(got) + 1] = n
      /\ \A a \in 1..Len(got') : a \in 1..Len(got) \/ a = Len(got) + 1
      /\ \A a \in 1..Len(got) : got'[a] = got[a] /\ received'[a] = received[a]
  BY <1>1, OneMoreLine
<1>5. \A a \in 1..Len(got) : \A j \in 1..received[a], k \in 1..Len(Stream) :
        Before(got[a][j], Stream[k])
  BY <1>1 DEF HandedOut
<1>6. InSequence'
  <2>1. \A a \in 1..Len(got) : \A j \in 1..received[a], k \in 1..n : Before(got[a][j], l[k])
    BY <1>3, <1>5
  <2>2. \A j, k \in 1..n : j < k => Before(l[j], l[k])
    BY <1>1, <1>3 DEF StreamInv
  <2> QED BY <1>1, <2>1, <2>2, OrderStays
<1>7. Sent'
  <2> SUFFICES ASSUME NEW a \in 1..Len(got'), NEW j \in 1..received'[a]
               PROVE  got'[a][j][1] <= Len(sentLen)
    BY DEF Sent
  <2>1. CASE a \in 1..Len(got)
    BY <1>4, <2>1 DEF Sent
  <2>2. CASE a = Len(got) + 1
    <3>1. j \in 1..n /\ got'[a] = l
      BY <1>4, <2>2
    <3>2. j \in 1..Len(line) /\ l[j][1] = done + 1
      BY <1>3, <3>1
    <3>3. line # <<>>
      BY <3>2
    <3> QED BY <3>1, <3>2, <3>3
  <2> QED BY <1>4, <2>1, <2>2
<1>8. ASSUME NEW k \in 1..done, sentLen[k] < MaxLen PROVE ArrivesWhole(k)'
  <2>1. \A j \in 1..n : l[j][1] # k
    BY <1>1, <1>3
  <2>2. ArrivesWhole(k)
    BY <1>8 DEF FitsArrivesWhole
  <2> QED BY <1>1, <2>1, <2>2, WholeStays
<1>9. ASSUME NEW a \in 1..Len(got'), NEW j \in 1..received'[a], NEW k \in 1..Len(rest)
      PROVE  Before(got'[a][j], rest[k])
  <2>1. Stream[Len(line) + k] = rest[k] /\ Len(line) + k \in 1..Len(Stream)
    BY <1>2
  <2>2. CASE a \in 1..Len(got)
    <3>1. Before(got[a][j], Stream[Len(line) + k])
      BY <1>4, <1>5, <2>1, <2>2
    <3> QED BY <1>4, <2>1, <2>2, <3>1
  <2>3. CASE a = Len(got) + 1
    <3>1. /\ j \in 1..Len(line) /\ j \in 1..Len(Stream)
          /\ got'[a][j] = Stream[j]
      <4>1. j \in 1..n /\ got'[a] = l
        BY <1>4, <2>3
      <4> QED BY <1>3, <4>1
    <3>2. j < Len(line) + k
      BY <1>2, <3>1
    <3>3. Before(Stream[j], Stream[Len(line) + k])
      BY <1>1, <2>1, <3>1, <3>2 DEF StreamInv
    <3> QED BY <2>1, <3>1, <3>3
  <2> QED BY <1>4, <2>2, <2>3
<1>10. ASSUME NEW k, k # done + 1 PROVE PiecesOf(k)' = PiecesOf(k)
  <2>1. \A j \in 1..n : l[j][1] # k
    BY <1>3, <1>10
  <2> QED BY <1>1, <2>1, OneMorePiece
<1> QED BY <1>6, <1>7, <1>8, <1>9, <1>10

\* A whole line is handed out, but for its last character.
LEMMA LineHanded ==
  ASSUME Facts, Sent, InSequence, FitsArrivesWhole, end # "gone",
         NEW line \in Seq(Char), NEW rest \in Seq(Char), Stream = line \o rest,
         line # <<>>, \A j \in 1..Len(line) : line[j][1] = done + 1, done + 1 <= Len(sentLen),
         got' = Append(got, PopBack(line)), received' = Append(received, Len(line) - 1),
         sentLen' = sentLen
  PROVE  /\ InSequence' /\ Sent'
         /\ \A k \in 1..done : sentLen[k] < MaxLen => ArrivesWhole(k)'
         /\ \A a \in 1..Len(got') : \A j \in 1..received'[a], k \in 1..Len(rest) :
              Before(got'[a][j], rest[k])
         /\ \A k : k # done + 1 => PiecesOf(k)' = PiecesOf(k)
<1>1. PICK l \in Seq(Char), n \in 0..Len(line) :
        /\ l = PopBack(line) /\ n = Len(line) - 1 /\ n = Len(l)
        /\ \A j \in 1..n : l[j] = line[j]
  <2>1. Len(line) - 1 \in 0..Len(line)
    OBVIOUS
  <2>2. PICK n : n = Len(line) - 1
    OBVIOUS
  <2>3. /\ PopBack(line) \in Seq(Char) /\ n = Len(PopBack(line))
        /\ \A j \in 1..n : PopBack(line)[j] = line[j]
    BY <2>2, PoppedLine
  <2> QED BY <2>1, <2>2, <2>3
<1>2. got' = Append(got, l) /\ received' = Append(received, n)
  BY <1>1
<1>3. InSequence' /\ Sent'
  BY <1>1, <1>2, Handed
<1>4. \A k \in 1..done : sentLen[k] < MaxLen => ArrivesWhole(k)'
  BY <1>1, <1>2, Handed
<1>5. \A a \in 1..Len(got') : \A j \in 1..received'[a], k \in 1..Len(rest) :
        Before(got'[a][j], rest[k])
  BY <1>1, <1>2, Handed
<1>6. \A k : k # done + 1 => PiecesOf(k)' = PiecesOf(k)
  BY <1>1, <1>2, Handed
<1> QED BY <1>3, <1>4, <1>5, <1>6

\* What is handed out before the rest of the stream.
LEMMA StillToCome ==
  ASSUME NEW rest \in Seq(Char), Stream' = rest, end' # "gone",
         \A a \in 1..Len(got') : \A j \in 1..received'[a], k \in 1..Len(rest) :
           Before(got'[a][j], rest[k]),
         \A k \in (done' + 1)..MaxMsgs : MayFit(k)' => PiecesOf(k)' = {}
  PROVE  HandedOut'
<1>1. \A a \in 1..Len(got') : \A j \in 1..received'[a], k \in 1..Len(Stream') :
        Before(got'[a][j], Stream'[k])
  OBVIOUS
<1> QED BY <1>1 DEF HandedOut, Before, IsNewLine

\* The newline of a message: what follows it is the next message, and one that
\* fits has been handed out whole.
LEMMA NewLineTaken ==
  ASSUME Facts, Sent, InSequence, FitsArrivesWhole,
         rio_buf # <<>>, NEW h, h = Head(rio_buf), IsNewLine(h),
         NEW line \in Seq(Char), line = Append(usrbuf, h),
         NEW rest \in Seq(Char), Stream = line \o rest, Stream' = rest,
         got' = Append(got, PopBack(line)), received' = Append(received, Len(line) - 1),
         usrbuf' = <<>>, done' = done + 1, sentLen' = sentLen, end' = end, end # "gone"
  PROVE  StreamInv' /\ LineInv' /\ HandedOut' /\ FitsArrivesWhole' /\ InSequence' /\ Sent'
<1>1. /\ h \in Char /\ h[1] = done + 1 /\ h[2] = 0 /\ done + 1 \in 1..Len(sentLen)
      /\ MayFit(done + 1) => Len(usrbuf) + 1 = sentLen[done + 1]
  BY NextCharacter DEF IsNewLine
<1>facts. TypeOK /\ LineInv /\ HandedOut /\ usrbuf \in Seq(Char) /\ Len(usrbuf) \in Nat
  BY StreamParts DEF Facts
<1>2. /\ TypeOK /\ LineInv /\ HandedOut /\ done \in Nat /\ Len(sentLen) \in Nat
      /\ usrbuf \in Seq(Char) /\ Len(usrbuf) \in Nat
  <2>1. sentLen \in Seq(2..LongestLine) /\ done \in 0..MaxMsgs
    BY <1>facts DEF TypeOK
  <2> QED BY <1>facts, <2>1, LenAssumption
<1>3. /\ Len(line) = Len(usrbuf) + 1 /\ line # <<>> /\ line[Len(line)] = h
      /\ \A j \in 1..Len(usrbuf) : line[j] = usrbuf[j]
      /\ \A j \in 1..Len(line) : j \in 1..Len(usrbuf) \/ j = Len(line)
  BY <1>1, <1>2
<1>4. \A j \in 1..Len(line) : line[j][1] = done + 1
  BY <1>1, <1>2, <1>3 DEF LineInv
<1>run. done + 1 <= Len(sentLen) /\ line # <<>> /\ \A j \in 1..Len(line) : line[j][1] = done + 1
  BY <1>1, <1>2, <1>3, <1>4
<1>order. InSequence' /\ Sent'
  BY <1>run, LineHanded
<1>whole. \A k \in 1..done : sentLen[k] < MaxLen => ArrivesWhole(k)'
  BY <1>run, LineHanded
<1>before. \A a \in 1..Len(got') : \A j \in 1..received'[a], k \in 1..Len(rest) :
             Before(got'[a][j], rest[k])
  BY <1>run, LineHanded
<1>pieces. \A k : k # done + 1 => PiecesOf(k)' = PiecesOf(k)
  BY <1>run, LineHanded
<1>6. /\ \A j \in 1..(Len(rest) - 1) : Follows(rest[j], rest[j + 1])
      /\ \A j, k \in 1..Len(rest) : j < k => Before(rest[j], rest[k])
      /\ \A j \in 1..Len(rest) : /\ rest[j][1] \in (done + 1)..Len(sentLen)
                                 /\ rest[j][2] < sentLen[rest[j][1]]
      /\ \A k \in 1..Len(rest) : Before(h, rest[k])
      /\ rest # <<>> => Follows(h, rest[1])
      /\ end = "open" => IF rest = <<>> THEN h = <<Len(sentLen), 0>>
                         ELSE rest[Len(rest)] = <<Len(sentLen), 0>>
  <2>1. Len(line) \in 1..Len(line)
    BY <1>2, <1>3
  <2> QED BY <1>3, <2>1, RestIsRun
<1>7. StreamInv'
  <2>1. \A j \in 1..Len(rest) : /\ rest[j][1] \in (done' + 1)..Len(sentLen')
                                /\ rest[j][2] < sentLen'[rest[j][1]]
    <3> SUFFICES ASSUME NEW j \in 1..Len(rest) PROVE rest[j][1] \in (done' + 1)..Len(sentLen)
      BY <1>6
    <3>1. Before(h, rest[j]) /\ rest[j][1] \in (done + 1)..Len(sentLen)
      BY <1>6
    <3>2. h[1] < rest[j][1]
      BY <1>1, <3>1 DEF Before, IsNewLine
    <3> QED BY <1>1, <1>2, <3>1, <3>2
  <2>2. rest # <<>> => rest[1][1] = done' + 1 /\ rest[1][2] = 1
    <3>1. rest # <<>> => rest[1] = <<h[1] + 1, 1>>
      BY <1>6 DEF Follows
    <3> QED BY <1>1, <3>1
  <2>3. end' = "open" => IF rest = <<>> THEN done' = Len(sentLen')
                         ELSE rest[Len(rest)] = <<Len(sentLen'), 0>>
    <3>1. h = <<Len(sentLen), 0>> => done + 1 = Len(sentLen)
      BY <1>1
    <3> QED BY <1>6, <3>1
  <2>4. \A j \in 1..(Len(Stream') - 1) : Follows(Stream[j], Stream[j + 1])'
    BY <1>6 DEF Follows
  <2>5. \A j, k \in 1..Len(Stream') : j < k => Before(Stream[j], Stream[k])'
    BY <1>6 DEF Before, IsNewLine
  <2> QED BY <2>1, <2>2, <2>3, <2>4, <2>5 DEF StreamInv
<1>8. LineInv'
  BY DEF LineInv
<1>9. HandedOut'
  <2>1. ~ Exhausted
    <3>1. Stream # <<>>
      BY <1>2, <1>3, LineAndRest
    <3> QED BY <3>1 DEF Exhausted
  <2>2. \A k \in (done' + 1)..MaxMsgs : MayFit(k)' => PiecesOf(k)' = {}
    <3> SUFFICES ASSUME NEW k \in (done' + 1)..MaxMsgs, MayFit(k)' PROVE PiecesOf(k)' = {}
      OBVIOUS
    <3>1. k \in (done + 1)..MaxMsgs /\ k # done + 1 /\ MayFit(k)
      BY <1>2 DEF MayFit
    <3>2. PiecesOf(k) = {}
      BY <1>2, <2>1, <3>1 DEF HandedOut
    <3> QED BY <1>pieces, <3>1, <3>2
  <2> QED BY <2>2, <1>before, StillToCome
<1>10. FitsArrivesWhole'
  <2> SUFFICES ASSUME NEW k \in 1..(done + 1), sentLen[k] < MaxLen PROVE ArrivesWhole(k)'
    BY <1>2 DEF FitsArrivesWhole
  <2>1. CASE k \in 1..done
    BY <1>whole, <2>1
  <2>2. CASE k = done + 1
    <3>1. MayFit(k) /\ k \in (done + 1)..MaxMsgs
      <4>1. MayFit(k)
        BY DEF MayFit
      <4>2. PICK L \in Nat : L = Len(sentLen) /\ L <= MaxMsgs
        BY <1>2 DEF TypeOK
      <4>3. k <= L /\ MaxMsgs \in Nat /\ k \in Nat
        BY <1>1, <1>2, <2>2, <4>2, LenAssumption
      <4> QED BY <1>2, <2>2, <4>1, <4>2, <4>3
    <3>2. PiecesOf(k) = {}
      <4>1. ~ Exhausted
        <5>1. Stream # <<>>
          BY <1>2, <1>3, LineAndRest
        <5> QED BY <5>1 DEF Exhausted
      <4> QED BY <1>2, <3>1, <4>1 DEF HandedOut
    <3>3. PopBack(line) = usrbuf
      <4>1. /\ PopBack(line) \in Seq(Char) /\ Len(PopBack(line)) = Len(usrbuf)
            /\ \A j \in 1..Len(usrbuf) : PopBack(line)[j] = usrbuf[j]
        <5>1. /\ PopBack(line) \in Seq(Char) /\ Len(PopBack(line)) = Len(line) - 1
              /\ \A j \in 1..(Len(line) - 1) : PopBack(line)[j] = line[j]
          BY <1>3, PoppedLine
        <5>2. Len(line) - 1 = Len(usrbuf)
          BY <1>2, <1>3
        <5> QED BY <1>3, <5>1, <5>2
      <4> QED BY <1>2, <4>1, SeqEqual
    <3>4. Len(usrbuf) = sentLen[k] - 1 /\ sentLen[k] \in Nat /\ sentLen[k] >= 2
      <4>1. k \in 1..Len(sentLen) /\ sentLen \in Seq(2..LongestLine)
        BY <1>1, <1>2, <2>2 DEF TypeOK
      <4>2. sentLen[k] \in 2..LongestLine
        BY <4>1, ElementOfSeq
      <4>3. PICK x \in 2..LongestLine : x = sentLen[k]
        BY <4>2
      <4>4. x \in Nat /\ x >= 2
        BY LenAssumption
      <4>5. Len(usrbuf) + 1 = x
        BY <1>1, <2>2, <3>1, <4>3
      <4> QED BY <1>2, <4>3, <4>4, <4>5
    <3>5. usrbuf = Text(k)
      <4>1. \A j \in 1..Len(usrbuf) : usrbuf[j] = <<k, j>>
        <5> SUFFICES ASSUME NEW j \in 1..Len(usrbuf) PROVE usrbuf[j] = <<k, j>>
          OBVIOUS
        <5>1. usrbuf[j][1] = k /\ usrbuf[j][2] = j
          BY <1>2, <2>2, <3>1 DEF LineInv
        <5>2. usrbuf[j] \in Char
          BY <1>2
        <5> QED BY <5>1, <5>2 DEF Char
      <4>2. usrbuf = [j \in 1..Len(usrbuf) |-> usrbuf[j]]
        BY <1>2
      <4>3. usrbuf = [j \in 1..Len(usrbuf) |-> <<k, j>>]
        BY <4>1, <4>2
      <4> QED BY <3>4, <4>3 DEF Text
    <3>6. Len(line) - 1 = Len(usrbuf) /\ \E j \in 1..Len(usrbuf) : usrbuf[j][1] = k
      <4>1. 1 \in 1..Len(usrbuf)
        BY <1>2, <3>4
      <4> QED BY <1>2, <1>3, <2>2, <4>1 DEF LineInv
    <3>7. PiecesOf(k)' = {Len(got) + 1}
      BY <1>2, <3>2, <3>3, <3>6, OneMorePiece
    <3>8. Len(got) + 1 \in 1..Len(got') /\ got'[Len(got) + 1] = Text(k)'
      BY <1>2, <3>3, <3>5, <3>6, OneMoreLine DEF Text
    <3> QED BY <3>7, <3>8 DEF ArrivesWhole
  <2> QED BY <1>2, <2>1, <2>2
<1> QED BY <1>order, <1>7, <1>8, <1>9, <1>10

\* The same when the line is cut because the buffer is full: its message does
\* not fit, and goes on.
LEMMA CutTaken ==
  ASSUME Facts, Sent, InSequence, FitsArrivesWhole,
         rio_buf # <<>>, NEW h, h = Head(rio_buf), ~ IsNewLine(h),
         NEW line \in Seq(Char), line = Append(usrbuf, h), Len(line) = MaxLen - 1,
         NEW rest \in Seq(Char), Stream = line \o rest, Stream' = rest,
         got' = Append(got, PopBack(line)), received' = Append(received, Len(line) - 1),
         usrbuf' = <<>>, done' = done, sentLen' = sentLen, end' = end, end # "gone"
  PROVE  StreamInv' /\ LineInv' /\ HandedOut' /\ FitsArrivesWhole' /\ InSequence' /\ Sent'
<1>1. /\ h \in Char /\ h[1] = done + 1 /\ done + 1 \in 1..Len(sentLen)
      /\ h[2] < sentLen[done + 1]
      /\ MayFit(done + 1) => h[2] \in {0, Len(usrbuf) + 1}
  BY NextCharacter
<1>facts. TypeOK /\ LineInv /\ HandedOut /\ usrbuf \in Seq(Char) /\ Len(usrbuf) \in Nat
  BY StreamParts DEF Facts
<1>2. /\ TypeOK /\ LineInv /\ HandedOut /\ done \in Nat /\ Len(sentLen) \in Nat
      /\ usrbuf \in Seq(Char) /\ Len(usrbuf) \in Nat
  <2>1. sentLen \in Seq(2..LongestLine) /\ done \in 0..MaxMsgs
    BY <1>facts DEF TypeOK
  <2> QED BY <1>facts, <2>1, LenAssumption
<1>3. /\ Len(line) = Len(usrbuf) + 1 /\ line # <<>> /\ line[Len(line)] = h
      /\ \A j \in 1..Len(usrbuf) : line[j] = usrbuf[j]
      /\ \A j \in 1..Len(line) : j \in 1..Len(usrbuf) \/ j = Len(line)
  BY <1>1, <1>2
<1>4. \A j \in 1..Len(line) : line[j][1] = done + 1
  BY <1>1, <1>2, <1>3 DEF LineInv
<1>5. ~ MayFit(done + 1)
  <2>1. SUFFICES ASSUME MayFit(done + 1) PROVE FALSE
    OBVIOUS
  <2>2. h[2] = MaxLen - 1
    BY <1>1, <1>3, <2>1 DEF IsNewLine
  <2>3. PICK x \in 2..LongestLine : x = sentLen[done + 1]
    BY <1>1, <1>2, ElementOfSeq DEF TypeOK
  <2>4. x < MaxLen /\ x \in Nat /\ MaxLen \in Nat
    BY <1>1, <1>2, <2>1, <2>3, LenAssumption DEF MayFit
  <2> QED BY <1>1, <2>2, <2>3, <2>4
<1>run. done + 1 <= Len(sentLen) /\ line # <<>> /\ \A j \in 1..Len(line) : line[j][1] = done + 1
  BY <1>1, <1>2, <1>3, <1>4
<1>order. InSequence' /\ Sent'
  BY <1>run, LineHanded
<1>whole. \A k \in 1..done : sentLen[k] < MaxLen => ArrivesWhole(k)'
  BY <1>run, LineHanded
<1>before. \A a \in 1..Len(got') : \A j \in 1..received'[a], k \in 1..Len(rest) :
             Before(got'[a][j], rest[k])
  BY <1>run, LineHanded
<1>pieces. \A k : k # done + 1 => PiecesOf(k)' = PiecesOf(k)
  BY <1>run, LineHanded
<1>7. /\ \A j \in 1..(Len(rest) - 1) : Follows(rest[j], rest[j + 1])
      /\ \A j, k \in 1..Len(rest) : j < k => Before(rest[j], rest[k])
      /\ \A j \in 1..Len(rest) : /\ rest[j][1] \in (done + 1)..Len(sentLen)
                                 /\ rest[j][2] < sentLen[rest[j][1]]
      /\ rest # <<>> => Follows(h, rest[1])
      /\ end = "open" => IF rest = <<>> THEN h = <<Len(sentLen), 0>>
                         ELSE rest[Len(rest)] = <<Len(sentLen), 0>>
  BY <1>3, RestIsRun
<1>8. StreamInv'
  <2>1. \A j \in 1..(Len(Stream') - 1) : Follows(Stream[j], Stream[j + 1])'
    BY <1>7 DEF Follows
  <2>2. \A j, k \in 1..Len(Stream') : j < k => Before(Stream[j], Stream[k])'
    BY <1>7 DEF Before, IsNewLine
  <2>3. \A j \in 1..Len(Stream') : /\ Stream'[j][1] \in (done' + 1)..Len(sentLen')
                                   /\ Stream'[j][2] < sentLen'[Stream'[j][1]]
    BY <1>7
  <2>4. rest # <<>> => rest[1][1] = done + 1
    BY <1>1, <1>7 DEF Follows
  <2>5. ~ MayFit(done + 1)'
    BY <1>5 DEF MayFit
  <2>6. end' = "open" => rest # <<>> /\ rest[Len(rest)] = <<Len(sentLen'), 0>>
    BY <1>7 DEF IsNewLine
  <2> QED BY <2>1, <2>2, <2>3, <2>4, <2>5, <2>6 DEF StreamInv
<1>9. LineInv'
  BY DEF LineInv
<1>10. HandedOut'
  <2>1. ~ Exhausted
    <3>1. Stream # <<>>
      BY <1>2, <1>3, LineAndRest
    <3> QED BY <3>1 DEF Exhausted
  <2>2. \A k \in (done' + 1)..MaxMsgs : MayFit(k)' => PiecesOf(k)' = {}
    <3> SUFFICES ASSUME NEW k \in (done + 1)..MaxMsgs, MayFit(k)' PROVE PiecesOf(k)' = {}
      OBVIOUS
    <3>1. k # done + 1 /\ MayFit(k)
      BY <1>5 DEF MayFit
    <3>2. PiecesOf(k) = {}
      BY <1>2, <2>1, <3>1 DEF HandedOut
    <3> QED BY <1>pieces, <3>1, <3>2
  <2> QED BY <2>2, <1>before, StillToCome
<1>11. FitsArrivesWhole'
  BY <1>whole DEF FitsArrivesWhole
<1> QED BY <1>order, <1>8, <1>9, <1>10, <1>11

\* A character that does not complete the line joins it.
LEMMA CharacterKept ==
  ASSUME Facts, rio_buf # <<>>, NEW h, h = Head(rio_buf), ~ IsNewLine(h),
         usrbuf' = Append(usrbuf, h), Stream' = Stream, UNCHANGED <<sentLen, end, got, received, done>>
  PROVE  StreamInv' /\ LineInv' /\ HandedOut'
<1>1. /\ h \in Char /\ h[1] = done + 1
      /\ MayFit(done + 1) => h[2] \in {0, Len(usrbuf) + 1}
  BY NextCharacter
<1>2. TypeOK /\ StreamInv /\ LineInv /\ HandedOut /\ usrbuf \in Seq(Char) /\ Len(usrbuf) \in Nat
  BY StreamParts DEF Facts
<1>3. StreamInv'
  BY <1>2 DEF StreamInv, Follows, MayFit
<1>4. HandedOut'
  BY <1>2 DEF HandedOut, Exhausted, MayFit, PiecesOf
<1>5. LineInv'
  <2>1. /\ Len(usrbuf') = Len(usrbuf) + 1 /\ usrbuf'[Len(usrbuf) + 1] = h
        /\ \A j \in 1..Len(usrbuf) : usrbuf'[j] = usrbuf[j]
        /\ \A j \in 1..Len(usrbuf') : j \in 1..Len(usrbuf) \/ j = Len(usrbuf) + 1
    BY <1>1, <1>2
  <2>2. MayFit(done + 1)' => MayFit(done + 1)
    BY DEF MayFit
  <2> SUFFICES ASSUME NEW j \in 1..Len(usrbuf')
               PROVE  /\ usrbuf'[j][1] = done' + 1 /\ ~ IsNewLine(usrbuf'[j])
                      /\ MayFit(done + 1)' => usrbuf'[j][2] = j
    BY DEF LineInv, IsNewLine
  <2>3. CASE j \in 1..Len(usrbuf)
    BY <1>2, <2>1, <2>2, <2>3 DEF LineInv
  <2>4. CASE j = Len(usrbuf) + 1
    BY <1>1, <2>1, <2>2, <2>4 DEF IsNewLine
  <2> QED BY <2>1, <2>3, <2>4
<1> QED BY <1>3, <1>4, <1>5

\* At the end of the stream what was assembled is handed out.
LEMMA LastTaken ==
  ASSUME Facts, Sent, InSequence, FitsArrivesWhole,
         usrbuf # <<>>, Stream = usrbuf, end = "closed", end' = end, Stream' = <<>>,
         got' = Append(got, PopBack(usrbuf)), received' = Append(received, Len(usrbuf) - 1),
         usrbuf' = <<>>, done' = done, sentLen' = sentLen
  PROVE  StreamInv' /\ LineInv' /\ HandedOut' /\ FitsArrivesWhole' /\ InSequence' /\ Sent'
<1>1. /\ TypeOK /\ StreamInv /\ LineInv /\ HandedOut /\ done \in Nat /\ Len(sentLen) \in Nat
      /\ usrbuf \in Seq(Char) /\ Len(usrbuf) \in Nat
  BY StreamParts DEF Facts, TypeOK
<1>2. PICK line \in Seq(Char), rest \in Seq(Char) :
        line = usrbuf /\ rest = <<>> /\ Stream = line \o rest /\ line # <<>>
  <2>1. usrbuf \o <<>> = usrbuf /\ <<>> \in Seq(Char)
    BY <1>1, ConcatEmptySeq
  <2> QED BY <1>1, <2>1
<1>3. \A j \in 1..Len(line) : line[j][1] = done + 1
  BY <1>1, <1>2 DEF LineInv
<1>4. done + 1 <= Len(sentLen)
  <2>1. 1 \in 1..Len(Stream)
    BY <1>1
  <2> QED BY <1>1, <2>1 DEF StreamInv
<1>5. /\ InSequence' /\ Sent'
      /\ \A k \in 1..done : sentLen[k] < MaxLen => ArrivesWhole(k)'
  <2>1. got' = Append(got, PopBack(line)) /\ received' = Append(received, Len(line) - 1)
    BY <1>2
  <2>2. InSequence' /\ Sent'
    BY <1>2, <1>3, <1>4, <2>1, LineHanded
  <2>3. \A k \in 1..done : sentLen[k] < MaxLen => ArrivesWhole(k)'
    BY <1>2, <1>3, <1>4, <2>1, LineHanded
  <2> QED BY <2>2, <2>3
<1>6. Exhausted' /\ Len(Stream') = 0
  BY DEF Exhausted
<1>7. StreamInv'
  BY <1>6 DEF StreamInv, Exhausted
<1>8. LineInv'
  BY DEF LineInv
<1>9. HandedOut'
  BY <1>5, <1>6 DEF HandedOut
<1>10. FitsArrivesWhole'
  BY <1>5 DEF FitsArrivesWhole
<1> QED BY <1>5, <1>7, <1>8, <1>9, <1>10

\* A failed read hands out what was received of the line, and makes up the rest;
\* it is the last to do so.
LEMMA ErrorTaken ==
  ASSUME Facts, Sent, InSequence, FitsArrivesWhole,
         Stream = usrbuf, end = "reset", end' = "gone", Stream' = <<>>,
         NEW l, NEW n \in 0..Len(usrbuf), \A j \in 1..n : l[j] = usrbuf[j],
         got' = Append(got, l), received' = Append(received, n), usrbuf' = <<>>,
         done' = done, sentLen' = sentLen
  PROVE  StreamInv' /\ LineInv' /\ HandedOut' /\ FitsArrivesWhole' /\ InSequence' /\ Sent'
<1>1. /\ TypeOK /\ StreamInv /\ LineInv /\ done \in Nat /\ usrbuf \in Seq(Char)
  BY StreamParts DEF Facts, TypeOK
<1>2. PICK line \in Seq(Char), rest \in Seq(Char) :
        line = usrbuf /\ rest = <<>> /\ Stream = line \o rest
  <2>1. usrbuf \o <<>> = usrbuf /\ <<>> \in Seq(Char)
    BY <1>1, ConcatEmptySeq
  <2> QED BY <1>1, <2>1
<1>3. \A j \in 1..Len(line) : line[j][1] = done + 1
  BY <1>1, <1>2 DEF LineInv
<1>4. line # <<>> => done + 1 <= Len(sentLen)
  <2> SUFFICES ASSUME line # <<>> PROVE done + 1 <= Len(sentLen)
    OBVIOUS
  <2>1. 1 \in 1..Len(Stream)
    BY <1>1, <1>2
  <2> QED BY <1>1, <2>1 DEF StreamInv
<1>5. n \in 0..Len(line) /\ \A j \in 1..n : l[j] = line[j]
  BY <1>2
<1>6. InSequence' /\ Sent'
  BY <1>2, <1>3, <1>4, <1>5, Handed
<1>7. \A k \in 1..done : sentLen[k] < MaxLen => ArrivesWhole(k)'
  BY <1>2, <1>3, <1>4, <1>5, Handed
<1>8. FitsArrivesWhole'
  BY <1>7 DEF FitsArrivesWhole
<1>9. Exhausted' /\ Len(Stream') = 0
  BY DEF Exhausted
<1>10. StreamInv' /\ LineInv' /\ HandedOut'
  BY <1>9 DEF StreamInv, LineInv, HandedOut, Exhausted
<1> QED BY <1>6, <1>8, <1>10

-----------------------------------------------------------------------------
(***************************************************************************)
(* The invariant, step by step.                                            *)
(***************************************************************************)
\* The invariant taken apart, and put together again.
LEMMA Unfolded ==
  ASSUME ConnectionIInv
  PROVE  /\ TypeOK /\ done <= Len(sentLen) /\ Sent /\ FitsArrivesWhole /\ InSequence
         /\ readerEnd = "open" => Facts
BY DEF ConnectionIInv, Sent, Facts, Reading

\* A state that has the parts has the whole.
LEMMA Folded ==
  ASSUME TypeOK', done' <= Len(sentLen'), Sent', FitsArrivesWhole', InSequence',
         readerEnd' = "open" => StreamInv' /\ LineInv' /\ HandedOut'
  PROVE  ConnectionIInv'
BY DEF ConnectionIInv, Sent, Reading

\* What was handed out does not change when a line is sent.
LEMMA SendKeepsOld ==
  ASSUME ConnectionIInv, UNCHANGED <<got, received, done>>, end = "gone" => end' = "gone",
         Len(sentLen') >= Len(sentLen),
         \A k \in 1..Len(sentLen) : sentLen'[k] = sentLen[k], Len(sentLen') \in Nat
  PROVE  done' <= Len(sentLen') /\ Sent' /\ FitsArrivesWhole' /\ InSequence'
<1>1. /\ TypeOK /\ done <= Len(sentLen) /\ Sent /\ FitsArrivesWhole /\ InSequence
      /\ done \in Nat /\ Len(sentLen) \in Nat
  BY Unfolded DEF TypeOK
<1>2. InSequence'
  <2>1. got' = got /\ received' = received /\ (end = "gone" => end' = "gone")
    OBVIOUS
  <2>2. \A a, b \in 1..Len(got) : \A i \in 1..received[a], j \in 1..received[b] :
           a < b \/ (a = b /\ i < j) => Before(got[a][i], got[b][j])
    BY <1>1 DEF InSequence
  <2>3. \A a \in 1..Len(got) : received[a] # Len(got[a]) => a = Len(got) /\ end = "gone"
    BY <1>1 DEF InSequence
  <2>4. \A a \in 1..Len(got') : received'[a] # Len(got'[a]) => a = Len(got') /\ end' = "gone"
    BY <2>1, <2>3
  <2> QED BY <2>1, <2>2, <2>4 DEF InSequence, Before, IsNewLine
<1>3. Sent'
  <2> SUFFICES ASSUME NEW a \in 1..Len(got), NEW j \in 1..received[a]
               PROVE  got[a][j][1] <= Len(sentLen')
    BY DEF Sent
  <2>1. got[a][j][1] <= Len(sentLen)
    BY <1>1 DEF Sent
  <2>2. got[a][j][1] \in Int
    BY <1>1, ReceivedIsChar
  <2> QED BY <1>1, <2>1, <2>2
<1>4. FitsArrivesWhole'
  <2> SUFFICES ASSUME NEW k \in 1..done, sentLen'[k] < MaxLen PROVE ArrivesWhole(k)'
    BY DEF FitsArrivesWhole
  <2>1. k \in 1..Len(sentLen) /\ sentLen'[k] = sentLen[k]
    BY <1>1
  <2>2. ArrivesWhole(k)
    BY <1>1, <2>1 DEF FitsArrivesWhole
  <2> QED BY <2>1, <2>2 DEF ArrivesWhole, PiecesOf, Text
<1> QED BY <1>1, <1>2, <1>3, <1>4

\* One more request, and what is left in new_msg, are of their types.
LEMMA HandedType ==
  ASSUME TypeOK, NEW l \in Seq(Char \cup {Stray}), NEW n \in 0..Len(l),
         got' = Append(got, l), received' = Append(received, n)
  PROVE  /\ got' \in Seq(Seq(Char \cup {Stray})) /\ received' \in Seq(Nat)
         /\ Len(received') = Len(got')
         /\ \A a \in 1..Len(got') : received'[a] <= Len(got'[a])
<1>1. /\ got \in Seq(Seq(Char \cup {Stray})) /\ received \in Seq(Nat) /\ Len(received) = Len(got)
      /\ \A a \in 1..Len(got) : received[a] <= Len(got[a])
  BY DEF TypeOK
<1>2. n \in Nat /\ n <= Len(l)
  OBVIOUS
<1>3. got' \in Seq(Seq(Char \cup {Stray})) /\ Len(got') = Len(got) + 1
  BY <1>1, AppendProperties
<1>4. received' \in Seq(Nat) /\ Len(received') = Len(received) + 1
  BY <1>1, <1>2, AppendProperties
<1>5. /\ got'[Len(got) + 1] = l /\ received'[Len(got) + 1] = n
      /\ \A a \in 1..Len(got') : a \in 1..Len(got) \/ a = Len(got) + 1
      /\ \A a \in 1..Len(got) : got'[a] = got[a] /\ received'[a] = received[a]
  BY OneMoreLine
<1> QED BY <1>1, <1>2, <1>3, <1>4, <1>5

\* A request that is a line but for its last character is of its type too.
LEMMA LineType ==
  ASSUME TypeOK, NEW line \in Seq(Char), line # <<>>,
         got' = Append(got, PopBack(line)), received' = Append(received, Len(line) - 1),
         new_msg' = line
  PROVE  /\ got' \in Seq(Seq(Char \cup {Stray})) /\ received' \in Seq(Nat)
         /\ Len(received') = Len(got')
         /\ \A a \in 1..Len(got') : received'[a] <= Len(got'[a])
         /\ new_msg' \in Seq(Char \cup {Stray})
<1>1. Seq(Char) \subseteq Seq(Char \cup {Stray})
  OBVIOUS
<1>2. PICK l \in Seq(Char \cup {Stray}), n \in Nat :
        l = PopBack(line) /\ n = Len(line) - 1 /\ n \in 0..Len(l)
  <2>1. PopBack(line) \in Seq(Char) /\ Len(PopBack(line)) = Len(line) - 1
    BY PoppedLine
  <2>2. PICK l \in Seq(Char) : l = PopBack(line) /\ Len(l) = Len(line) - 1
    BY <2>1
  <2>3. l \in Seq(Char \cup {Stray}) /\ Len(l) \in Nat /\ Len(l) \in 0..Len(l)
    BY <1>1, <2>2
  <2> QED BY <2>2, <2>3
<1>3. got' = Append(got, l) /\ received' = Append(received, n)
  BY <1>2
<1>4. l \in Seq(Char \cup {Stray}) /\ n \in 0..Len(l)
  BY <1>2
<1>5. new_msg' \in Seq(Char \cup {Stray})
  BY <1>1
<1> QED BY <1>3, <1>4, <1>5, HandedType

\* Connection::send formats a message into a new line.
LEMMA SendKeeps == ASSUME ConnectionIInv, Send PROVE ConnectionIInv'
<1>1. TypeOK /\ Len(sentLen) \in Nat /\ Len(sentLen) < MaxMsgs
  BY Unfolded DEF Send, TypeOK
<1>2. PICK n \in 2..LongestLine : /\ sentLen' = Append(sentLen, n)
                                  /\ out' = Encode(Len(sentLen) + 1, n)
                                  /\ Encode(Len(sentLen) + 1, n) \in Seq(Char)
  BY <1>1, SendMoves
<1>3. /\ UNCHANGED <<sendResult, wire, end, readerEnd, rio_buf, usrbuf>>
      /\ UNCHANGED <<new_msg, m_last_result, got, received, done>>
  BY DEF Send, reader, handed
<1>4. /\ sentLen' \in Seq(2..LongestLine) /\ Len(sentLen') = Len(sentLen) + 1
      /\ \A k \in 1..Len(sentLen) : sentLen'[k] = sentLen[k]
  <2>1. sentLen \in Seq(2..LongestLine)
    BY <1>1 DEF TypeOK
  <2> QED BY <1>2, <2>1, AppendProperties
<1>5. TypeOK'
  <2>1. out' \in Seq(Char) /\ sentLen' \in Seq(2..LongestLine)
    BY <1>2, <1>4
  <2>2. Len(sentLen') <= MaxMsgs
    BY <1>1, <1>4, LenAssumption
  <2> QED BY <1>1, <1>3, <2>1, <2>2 DEF TypeOK
<1>6. readerEnd' = "open" => StreamInv' /\ LineInv' /\ HandedOut'
  <2>1. Sent /\ (readerEnd = "open" => Facts)
    BY Unfolded
  <2> QED BY <1>3, <2>1, SendExtends
<1>7. done' <= Len(sentLen') /\ Sent' /\ FitsArrivesWhole' /\ InSequence'
  BY <1>1, <1>3, <1>4, SendKeepsOld
<1> QED BY <1>5, <1>6, <1>7, Folded

\* A write moves characters into the socket.
LEMMA WriteKeeps == ASSUME ConnectionIInv, Write PROVE ConnectionIInv'
<1>1. TypeOK /\ readerEnd = "open" /\ Facts
  BY Unfolded DEF Write
<1>2. PICK n \in 1..Len(out) : /\ Len(wire) + n <= SocketSize
                               /\ wire' = wire \o SubSeq(out, 1, n) /\ Written(n)
  BY DEF Write
<1>3. /\ UNCHANGED <<sentLen, end, readerEnd, rio_buf, usrbuf>>
      /\ UNCHANGED <<new_msg, m_last_result, got, received, done>>
  BY <1>2 DEF Written, reader, handed
<1>4. TypeOK'
  <2>1. out \in Seq(Char) /\ wire \in Seq(Char) /\ n \in 0..Len(out)
    BY <1>1 DEF TypeOK
  <2>2. SubSeq(out, 1, n) \in Seq(Char) /\ Len(SubSeq(out, 1, n)) = n
    BY <2>1, Cut
  <2>3. Drop(out, n) \in Seq(Char)
    BY <2>1, Cut
  <2>4. wire' \in Seq(Char) /\ Len(wire') <= SocketSize
    BY <1>2, <2>1, <2>2, ConcatProperties
  <2>5. sendResult' \in {"SUCCESS", "EOF_OR_ERROR"} /\ out' \in Seq(Char)
    BY <1>1, <1>2, <2>3 DEF Written, TypeOK
  <2> QED BY <1>1, <1>3, <2>4, <2>5 DEF TypeOK
<1>5. StreamInv' /\ LineInv' /\ HandedOut'
  <2>1. Stream' = Stream
    BY <1>1, WriteMoves
  <2> QED BY <1>1, <1>3, <2>1, SameStream DEF Facts
<1>6. done' <= Len(sentLen') /\ Sent' /\ FitsArrivesWhole' /\ InSequence'
  BY <1>1, <1>3, SendKeepsOld DEF TypeOK
<1> QED BY <1>4, <1>5, <1>6, Folded

\* A write that nobody will read.
LEMMA WriteToNobodyKeeps == ASSUME ConnectionIInv, WriteToNobody PROVE ConnectionIInv'
<1>1. TypeOK /\ readerEnd = "closed"
  BY Unfolded DEF WriteToNobody
<1>2. /\ UNCHANGED <<sentLen, wire, end, readerEnd, rio_buf, usrbuf>>
      /\ UNCHANGED <<new_msg, m_last_result, got, received, done>>
  BY DEF WriteToNobody, Written, reader, handed
<1>3. out' \in Seq(Char) /\ sendResult' \in {"SUCCESS", "EOF_OR_ERROR"}
  <2>1. out \in Seq(Char) /\ sendResult \in {"SUCCESS", "EOF_OR_ERROR"}
    BY <1>1 DEF TypeOK
  <2>2. CASE out' = <<>> /\ sendResult' = "EOF_OR_ERROR"
    BY <2>2
  <2>3. CASE \E n \in 1..Len(out) : Written(n)
    <3>1. PICK n \in 1..Len(out) : Written(n)
      BY <2>3
    <3>2. n \in 0..Len(out)
      BY <2>1
    <3>3. Drop(out, n) \in Seq(Char)
      BY <2>1, <3>2, Cut
    <3> QED BY <2>1, <3>1, <3>3 DEF Written
  <2> QED BY <2>2, <2>3 DEF WriteToNobody
<1>4. TypeOK'
  BY <1>1, <1>2, <1>3 DEF TypeOK
<1>5. done' <= Len(sentLen') /\ Sent' /\ FitsArrivesWhole' /\ InSequence'
  BY <1>1, <1>2, SendKeepsOld DEF TypeOK
<1> QED BY <1>1, <1>2, <1>4, <1>5, Folded

\* The writer's end is closed or reset.
LEMMA EndKeeps == ASSUME ConnectionIInv, Close \/ Reset PROVE ConnectionIInv'
<1>1. TypeOK /\ (readerEnd = "open" => Facts) /\ end = "open"
  BY Unfolded DEF Close, Reset
<1>2. /\ end' \in {"closed", "reset"}
      /\ UNCHANGED <<sentLen, out, sendResult, readerEnd>>
      /\ UNCHANGED <<rio_buf, usrbuf, new_msg, m_last_result, got, received, done>>
      /\ wire' \in Seq(Char) /\ Len(wire') <= Len(wire)
      /\ Stream' \in Seq(Char)
      /\ \E lost \in Seq(Char) : Stream = Stream' \o lost
  BY <1>1, EndingCuts DEF writer, reader, handed
<1>3. TypeOK'
  <2>1. Len(wire') <= SocketSize
    BY <1>1, <1>2, LenAssumption DEF TypeOK
  <2> QED BY <1>1, <1>2, <2>1 DEF TypeOK
<1>4. readerEnd' = "open" => StreamInv' /\ LineInv' /\ HandedOut'
  <2> SUFFICES ASSUME readerEnd = "open" PROVE StreamInv' /\ LineInv' /\ HandedOut'
    BY <1>2
  <2>1. PICK lost \in Seq(Char) : Stream = Stream' \o lost
    BY <1>2
  <2> QED BY <1>1, <1>2, <2>1, StreamCut DEF Facts
<1>5. done' <= Len(sentLen') /\ Sent' /\ FitsArrivesWhole' /\ InSequence'
  BY <1>1, <1>2, SendKeepsOld DEF TypeOK
<1> QED BY <1>3, <1>4, <1>5, Folded

\* The reader gives up.
LEMMA CloseReaderKeeps == ASSUME ConnectionIInv, CloseReader PROVE ConnectionIInv'
<1>1. TypeOK
  BY Unfolded
<1>2. /\ readerEnd' = "closed" /\ wire' = <<>>
      /\ UNCHANGED <<sentLen, out, sendResult, end, rio_buf, usrbuf>>
      /\ UNCHANGED <<new_msg, m_last_result, got, received, done>>
  BY DEF CloseReader, writer, handed
<1>3. TypeOK'
  BY <1>1, <1>2, LenAssumption DEF TypeOK
<1>4. done' <= Len(sentLen') /\ Sent' /\ FitsArrivesWhole' /\ InSequence'
  BY <1>1, <1>2, SendKeepsOld DEF TypeOK
<1> QED BY <1>2, <1>3, <1>4, Folded

\* rio_read refills its buffer.
LEMMA RefillKeeps ==
  ASSUME ConnectionIInv, readerEnd = "open", Refill PROVE ConnectionIInv'
<1>1. TypeOK /\ Facts
  BY Unfolded
<1>2. PICK n \in 1..Len(wire) : /\ n <= RioSize /\ rio_buf' = SubSeq(wire, 1, n)
                                /\ wire' = Drop(wire, n)
  BY DEF Refill
<1>3. /\ UNCHANGED <<sentLen, out, sendResult, end, readerEnd, usrbuf>>
      /\ UNCHANGED <<new_msg, m_last_result, got, received, done>>
  BY DEF Refill, writer, handed
<1>4. TypeOK'
  <2>1. wire \in Seq(Char) /\ n \in 0..Len(wire) /\ Len(wire) \in Nat
    BY <1>1 DEF TypeOK
  <2>2. rio_buf' \in Seq(Char) /\ Len(rio_buf') = n
    BY <1>2, <2>1, Cut
  <2>3. wire' \in Seq(Char) /\ Len(wire') = Len(wire) - n
    BY <1>2, <2>1, Cut
  <2>4. Len(wire') <= SocketSize
    BY <1>1, <2>1, <2>3, LenAssumption DEF TypeOK
  <2> QED BY <1>1, <1>2, <1>3, <2>2, <2>3, <2>4 DEF TypeOK
<1>5. StreamInv' /\ LineInv' /\ HandedOut'
  <2>1. Stream' = Stream
    BY <1>1, RefillMoves
  <2> QED BY <1>1, <1>3, <2>1, SameStream DEF Facts
<1>6. done' <= Len(sentLen') /\ Sent' /\ FitsArrivesWhole' /\ InSequence'
  BY <1>1, <1>3, SendKeepsOld DEF TypeOK
<1> QED BY <1>4, <1>5, <1>6, Folded

\* rio_readlineb takes a character, and may complete the line with it.
LEMMA TakeKeeps ==
  ASSUME ConnectionIInv, readerEnd = "open", TakeChar PROVE ConnectionIInv'
<1>1. /\ TypeOK /\ Facts /\ Sent /\ InSequence /\ FitsArrivesWhole /\ done <= Len(sentLen)
      /\ rio_buf # <<>>
  BY Unfolded DEF TakeChar
<1>2. PICK h : h = Head(rio_buf)
  OBVIOUS
<1>3. /\ h \in Char /\ h[1] = done + 1 /\ done + 1 \in 1..Len(sentLen)
  BY <1>1, <1>2, NextCharacter
<1>4. PICK line \in Seq(Char), rest \in Seq(Char) :
        /\ line = Append(usrbuf, h) /\ Stream = line \o rest
        /\ rest = Tail(rio_buf) \o wire \o Pending
        /\ Stream = line \o Tail(rio_buf) \o wire \o Pending
        /\ Tail(rio_buf) \in Seq(Char)
  BY <1>1, <1>2, TakeMoves
<1>5. /\ rio_buf' = Tail(rio_buf)
      /\ done' = IF IsNewLine(h) THEN done + 1 ELSE done
      /\ IF LineComplete(line)
         THEN Return(line, Len(line) - 1)
         ELSE usrbuf' = line /\ UNCHANGED handed
      /\ UNCHANGED <<sentLen, out, sendResult, wire, end, readerEnd>>
  BY <1>2, <1>4 DEF TakeChar, writer
<1>6. /\ usrbuf \in Seq(Char) /\ Len(usrbuf) \in Nat /\ Len(sentLen) \in Nat /\ done \in Nat
      /\ wire \in Seq(Char) /\ Pending' = Pending /\ Pending \in Seq(Char)
      /\ rio_buf \in Seq(Char)
  BY <1>1, <1>5, StreamParts DEF TypeOK, Pending
<1>7. Len(line) = Len(usrbuf) + 1 /\ line[Len(line)] = h /\ line # <<>>
  <2>1. PICK u \in Seq(Char), x \in Char : u = usrbuf /\ x = h
    BY <1>3, <1>6
  <2>2. Len(Append(u, x)) = Len(u) + 1 /\ Append(u, x)[Len(u) + 1] = x /\ Append(u, x) # <<>>
    OBVIOUS
  <2> QED BY <1>4, <2>1, <2>2
<1>8. ~ LineComplete(line) => ~ IsNewLine(h) /\ Len(line) # MaxLen - 1
  BY <1>7 DEF LineComplete
<1>9. end # "gone"
  <2>1. Stream # <<>>
    BY <1>4, <1>7, LineAndRest
  <2> QED BY <1>1, <2>1 DEF Facts, HandedOut, Exhausted
<1>10. LineComplete(line) => /\ usrbuf' = <<>> /\ Stream' = rest /\ new_msg' = line
                             /\ got' = Append(got, PopBack(line))
                             /\ received' = Append(received, Len(line) - 1)
  <2> SUFFICES ASSUME LineComplete(line)
               PROVE  /\ usrbuf' = <<>> /\ Stream' = rest /\ new_msg' = line
                      /\ got' = Append(got, PopBack(line))
                      /\ received' = Append(received, Len(line) - 1)
    OBVIOUS
  <2>1. /\ usrbuf' = <<>> /\ got' = Append(got, PopBack(line)) /\ new_msg' = line
        /\ received' = Append(received, Len(line) - 1)
    BY <1>5 DEF Return
  <2>2. Stream' = <<>> \o Tail(rio_buf) \o wire \o Pending
    BY <1>5, <1>6, <2>1 DEF Stream, Pending
  <2>3. <<>> \o Tail(rio_buf) = Tail(rio_buf)
    BY <1>4, ConcatEmptySeq
  <2> QED BY <1>4, <2>1, <2>2, <2>3
<1>11. TypeOK'
  <2>1. Len(rio_buf') <= RioSize /\ rio_buf' \in Seq(Char)
    <3>1. Len(Tail(rio_buf)) = Len(rio_buf) - 1
      BY <1>1, <1>6, HeadTailProperties
    <3> QED BY <1>1, <1>4, <1>5, <1>6, <3>1, LenAssumption DEF TypeOK
  <2>2. usrbuf' \in Seq(Char) /\ Len(usrbuf') + 1 < MaxLen
    <3>1. CASE LineComplete(line)
      BY <1>10, <3>1, LenAssumption
    <3>2. CASE ~ LineComplete(line)
      <4>1. usrbuf' = line /\ Len(line) # MaxLen - 1 /\ Len(usrbuf) + 1 < MaxLen
        BY <1>1, <1>5, <1>8, <3>2 DEF TypeOK
      <4>2. PICK a \in Nat, b \in Nat : a = Len(usrbuf) /\ b = MaxLen
        BY <1>6, LenAssumption
      <4>3. Len(line) = a + 1 /\ a + 1 # b - 1 /\ a + 1 < b
        BY <1>7, <4>1, <4>2
      <4>4. (a + 1) + 1 < b
        BY <4>3
      <4> QED BY <1>4, <4>1, <4>2, <4>3, <4>4
    <3> QED BY <3>1, <3>2
  <2>3. /\ new_msg' \in Seq(Char \cup {Stray}) /\ got' \in Seq(Seq(Char \cup {Stray}))
        /\ received' \in Seq(Nat) /\ Len(received') = Len(got')
        /\ \A a \in 1..Len(got') : received'[a] <= Len(got'[a])
        /\ m_last_result' \in {"SUCCESS", "EOF_OR_ERROR"}
    <3>1. CASE LineComplete(line)
      BY <1>1, <1>5, <1>7, <1>10, <3>1, LineType DEF Return
    <3>2. CASE ~ LineComplete(line)
      BY <1>1, <1>5, <3>2 DEF handed, TypeOK
    <3> QED BY <3>1, <3>2
  <2>4. done' \in 0..MaxMsgs
    <3>1. Len(sentLen) <= MaxMsgs
      BY <1>1 DEF TypeOK
    <3> QED BY <1>3, <1>5, <1>6, <3>1, LenAssumption
  <2> QED BY <1>1, <1>5, <2>1, <2>2, <2>3, <2>4 DEF TypeOK
<1>12. /\ StreamInv' /\ LineInv' /\ HandedOut'
       /\ Sent' /\ FitsArrivesWhole' /\ InSequence'
  <2>1. CASE IsNewLine(h)
    <3>1. LineComplete(line)
      BY <1>7, <2>1 DEF LineComplete
    <3>2. /\ got' = Append(got, PopBack(line)) /\ received' = Append(received, Len(line) - 1)
          /\ usrbuf' = <<>> /\ Stream' = rest
          /\ done' = done + 1 /\ sentLen' = sentLen /\ end' = end
      BY <1>5, <1>10, <2>1, <3>1
    <3> QED BY <1>1, <1>2, <1>4, <1>9, <2>1, <3>2, NewLineTaken
  <2>2. CASE ~ IsNewLine(h) /\ LineComplete(line)
    <3>1. Len(line) = MaxLen - 1
      BY <1>7, <2>2 DEF LineComplete
    <3>2. /\ got' = Append(got, PopBack(line)) /\ received' = Append(received, Len(line) - 1)
          /\ usrbuf' = <<>> /\ Stream' = rest
          /\ done' = done /\ sentLen' = sentLen /\ end' = end
      BY <1>5, <1>10, <2>2
    <3> QED BY <1>1, <1>2, <1>4, <1>9, <2>2, <3>1, <3>2, CutTaken
  <2>3. CASE ~ LineComplete(line)
    <3>1. /\ usrbuf' = Append(usrbuf, h) /\ ~ IsNewLine(h)
          /\ UNCHANGED <<sentLen, end, got, received, done>>
      BY <1>4, <1>5, <1>8, <2>3 DEF handed
    <3>2. Stream' = Stream
      <4>1. Stream' = line \o Tail(rio_buf) \o wire \o Pending
        BY <1>4, <1>5, <1>6, <3>1 DEF Stream, Pending
      <4> QED BY <1>4, <4>1
    <3>3. StreamInv' /\ LineInv' /\ HandedOut'
      BY <1>1, <1>2, <3>1, <3>2, CharacterKept
    <3>4. Sent' /\ FitsArrivesWhole' /\ InSequence'
      BY <1>6, <3>1, SendKeepsOld
    <3> QED BY <3>3, <3>4
  <2> QED BY <2>1, <2>2, <2>3
<1>13. done' <= Len(sentLen')
  BY <1>1, <1>3, <1>5
<1> QED BY <1>11, <1>12, <1>13, Folded

\* The end of the stream.
LEMMA EofKeeps ==
  ASSUME ConnectionIInv, readerEnd = "open", ReadEof PROVE ConnectionIInv'
<1>1. /\ TypeOK /\ Facts /\ Sent /\ InSequence /\ FitsArrivesWhole /\ done <= Len(sentLen)
      /\ end \in {"closed", "gone"} /\ wire = <<>> /\ rio_buf = <<>>
  BY Unfolded DEF ReadEof
<1>2. UNCHANGED <<sentLen, out, sendResult, wire, end, readerEnd, rio_buf, done>>
  BY DEF ReadEof, writer
<1>3. usrbuf \in Seq(Char) /\ Stream = usrbuf /\ done \in Nat /\ Len(sentLen) \in Nat
  <2>1. usrbuf \in Seq(Char)
    BY <1>1, StreamParts
  <2>2. Stream = usrbuf \o <<>> \o <<>> \o <<>>
    BY <1>1 DEF Stream
  <2> QED BY <1>1, <2>1, <2>2, ConcatEmptySeq DEF TypeOK
<1>4. CASE usrbuf # <<>>
  <2>1. /\ got' = Append(got, PopBack(usrbuf)) /\ received' = Append(received, Len(usrbuf) - 1)
        /\ new_msg' = usrbuf /\ usrbuf' = <<>> /\ m_last_result' = "SUCCESS"
    BY <1>4 DEF ReadEof, Return
  <2>2. Stream' = <<>>
    <3>1. Stream' = <<>> \o <<>> \o <<>> \o <<>>
      BY <1>1, <1>2, <2>1 DEF Stream
    <3>2. <<>> \in Seq(Char)
      OBVIOUS
    <3> QED BY <3>1, <3>2, ConcatEmptySeq
  <2>3. end = "closed"
    BY <1>1, <1>3, <1>4 DEF Facts, HandedOut, Exhausted
  <2>4. /\ StreamInv' /\ LineInv' /\ HandedOut'
        /\ FitsArrivesWhole' /\ InSequence' /\ Sent'
    BY <1>1, <1>2, <1>3, <1>4, <2>1, <2>2, <2>3, LastTaken
  <2>5. TypeOK'
    <3>2. /\ new_msg' \in Seq(Char \cup {Stray}) /\ got' \in Seq(Seq(Char \cup {Stray}))
          /\ received' \in Seq(Nat) /\ Len(received') = Len(got')
          /\ \A a \in 1..Len(got') : received'[a] <= Len(got'[a])
      BY <1>1, <1>3, <1>4, <2>1, LineType
    <3>3. usrbuf' \in Seq(Char) /\ Len(usrbuf') + 1 < MaxLen
      BY <2>1, LenAssumption
    <3> QED BY <1>1, <1>2, <2>1, <3>2, <3>3 DEF TypeOK
  <2> QED BY <1>1, <1>2, <2>4, <2>5, Folded
<1>5. CASE usrbuf = <<>>
  <2>1. UNCHANGED <<usrbuf, new_msg, got, received>> /\ m_last_result' = "EOF_OR_ERROR"
    BY <1>5 DEF ReadEof
  <2>2. Stream' = Stream
    BY <1>2, <2>1 DEF Stream
  <2>3. StreamInv' /\ LineInv' /\ HandedOut'
    BY <1>1, <1>2, <2>1, <2>2, SameStream DEF Facts
  <2>4. done' <= Len(sentLen') /\ Sent' /\ FitsArrivesWhole' /\ InSequence'
    BY <1>2, <1>3, <2>1, SendKeepsOld
  <2>5. TypeOK'
    BY <1>1, <1>2, <2>1 DEF TypeOK
  <2> QED BY <2>3, <2>4, <2>5, Folded
<1> QED BY <1>4, <1>5

\* A read that fails.
LEMMA ErrorKeeps ==
  ASSUME ConnectionIInv, readerEnd = "open", ReadError PROVE ConnectionIInv'
<1>1. /\ TypeOK /\ Facts /\ Sent /\ InSequence /\ FitsArrivesWhole /\ done <= Len(sentLen)
      /\ end = "reset" /\ wire = <<>> /\ rio_buf = <<>>
  BY Unfolded DEF ReadError
<1>r. PICK rest \in Uninitialized(Len(usrbuf)) :
        /\ got' = Append(got, PopBack(usrbuf \o rest))
        /\ received' = Append(received, IF rest = <<>> /\ usrbuf # <<>> THEN Len(usrbuf) - 1
                                                                      ELSE Len(usrbuf))
        /\ new_msg' = usrbuf \o rest /\ usrbuf' = <<>> /\ m_last_result' = "SUCCESS"
  BY DEF ReadError, Return
<1>2. PICK n :
        /\ n = IF rest = <<>> /\ usrbuf # <<>> THEN Len(usrbuf) - 1 ELSE Len(usrbuf)
        /\ got' = Append(got, PopBack(usrbuf \o rest)) /\ received' = Append(received, n)
        /\ new_msg' = usrbuf \o rest /\ usrbuf' = <<>> /\ m_last_result' = "SUCCESS"
  BY <1>r
<1>3. UNCHANGED <<sentLen, out, sendResult, wire, readerEnd, rio_buf, done>> /\ end' = "gone"
  BY DEF ReadError, writer
<1>4. /\ usrbuf \in Seq(Char) /\ usrbuf \in Seq(Char \cup {Stray}) /\ Len(usrbuf) \in Nat
      /\ usrbuf = <<>> <=> Len(usrbuf) = 0
  BY <1>1, StreamParts
<1>5. rest \in Seq(Char \cup {Stray})
  <2>1. <<>> \in Seq(Char \cup {Stray}) /\ <<Stray>> \in Seq(Char \cup {Stray})
    OBVIOUS
  <2>2. Drop(new_msg, Len(usrbuf)) \in Seq(Char \cup {Stray})
    <3>1. PICK s \in Seq(Char \cup {Stray}), m \in Nat : s = new_msg /\ m = Len(usrbuf)
      BY <1>1, <1>4 DEF TypeOK
    <3>2. \A j \in (m + 1)..Len(s) : s[j] \in Char \cup {Stray}
      OBVIOUS
    <3>3. SubSeq(s, m + 1, Len(s)) \in Seq(Char \cup {Stray})
      BY <3>2, SubSeqProperties
    <3> QED BY <3>1, <3>3 DEF Drop
  <2> QED BY <2>1, <2>2 DEF Uninitialized
<1>6. PICK u \in Nat, r \in Nat, w \in Seq(Char \cup {Stray}) :
        /\ u = Len(usrbuf) /\ r = Len(rest) /\ w = usrbuf \o rest /\ Len(w) = u + r
        /\ \A j \in 1..u : w[j] = usrbuf[j]
        /\ u = 0 <=> usrbuf = <<>>
        /\ r = 0 <=> rest = <<>>
  <2>1. PICK x \in Seq(Char \cup {Stray}), y \in Seq(Char \cup {Stray}) :
          x = usrbuf /\ y = rest
    BY <1>4, <1>5
  <2>2. /\ x \o y \in Seq(Char \cup {Stray}) /\ Len(x \o y) = Len(x) + Len(y)
        /\ \A j \in 1..Len(x) : (x \o y)[j] = x[j]
    OBVIOUS
  <2>3. /\ Len(x) \in Nat /\ Len(y) \in Nat
        /\ Len(x) = 0 <=> x = <<>>
        /\ Len(y) = 0 <=> y = <<>>
    BY EmptySeq
  <2> QED BY <2>1, <2>2, <2>3
<1>7. PICK l \in Seq(Char \cup {Stray}) :
        /\ l = PopBack(w) /\ Len(l) = IF u + r = 0 THEN 0 ELSE u + r - 1
        /\ \A j \in 1..Len(l) : l[j] = w[j]
  <2>1. CASE u + r = 0
    <3>1. PopBack(w) = <<>>
      <4>1. Len(w) - 1 < 1 /\ Len(w) - 1 \in Int
        BY <1>6, <2>1
      <4>2. SubSeq(w, 1, Len(w) - 1) = <<>>
        BY <4>1, SubSeqEmpty
      <4> QED BY <4>2 DEF PopBack
    <3>2. <<>> \in Seq(Char \cup {Stray}) /\ Len(<<>>) = 0
      OBVIOUS
    <3>3. PICK l \in Seq(Char \cup {Stray}) : l = PopBack(w) /\ Len(l) = 0
      BY <3>1, <3>2
    <3>4. \A j \in 1..Len(l) : l[j] = w[j]
      BY <3>3
    <3> QED BY <2>1, <3>3, <3>4
  <2>2. CASE u + r # 0
    <3>1. Len(w) - 1 \in 0..Len(w)
      BY <1>6, <2>2
    <3>2. /\ PopBack(w) \in Seq(Char \cup {Stray}) /\ Len(PopBack(w)) = Len(w) - 1
          /\ \A j \in 1..(Len(w) - 1) : PopBack(w)[j] = w[j]
      BY <3>1, Cut DEF PopBack
    <3>3. Len(w) - 1 = u + r - 1
      BY <1>6
    <3> QED BY <2>2, <3>2, <3>3
  <2>3. u + r = 0 \/ u + r # 0
    OBVIOUS
  <2> QED BY <2>1, <2>2, <2>3
<1>8. /\ n \in 0..u /\ n \in 0..Len(l)
      /\ \A j \in 1..n : j \in 1..Len(l) /\ j \in 1..u
  BY <1>2, <1>6, <1>7
<1>9. \A j \in 1..n : l[j] = usrbuf[j]
  BY <1>6, <1>7, <1>8
<1>10. got' = Append(got, l) /\ received' = Append(received, n) /\ new_msg' = w
  BY <1>2, <1>6, <1>7
<1>11. Stream = usrbuf /\ Stream' = <<>>
  <2>1. Stream' = <<>> \o <<>> \o <<>> \o <<>>
    BY <1>1, <1>2, <1>3 DEF Stream
  <2>2. Stream = usrbuf \o <<>> \o <<>> \o <<>>
    BY <1>1 DEF Stream
  <2>3. <<>> \in Seq(Char)
    OBVIOUS
  <2> QED BY <1>4, <2>1, <2>2, <2>3, ConcatEmptySeq
<1>12. /\ StreamInv' /\ LineInv' /\ HandedOut'
       /\ FitsArrivesWhole' /\ InSequence' /\ Sent'
  <2>1. n \in 0..Len(usrbuf)
    BY <1>6, <1>8
  <2> QED BY <1>1, <1>2, <1>3, <1>9, <1>10, <1>11, <2>1, ErrorTaken
<1>13. TypeOK'
  <2>1. /\ got' \in Seq(Seq(Char \cup {Stray})) /\ received' \in Seq(Nat)
        /\ Len(received') = Len(got')
        /\ \A a \in 1..Len(got') : received'[a] <= Len(got'[a])
    BY <1>1, <1>8, <1>10, HandedType
  <2>2. usrbuf' \in Seq(Char) /\ Len(usrbuf') + 1 < MaxLen
    BY <1>2, LenAssumption
  <2> QED BY <1>1, <1>2, <1>3, <1>10, <2>1, <2>2 DEF TypeOK
<1> QED BY <1>1, <1>3, <1>12, <1>13, Folded

\* Nothing is sent yet.
LEMMA ConnectionInit == Init => ConnectionIInv
<1> SUFFICES ASSUME Init PROVE ConnectionIInv
  OBVIOUS
<1>1. TypeOK
  BY LenAssumption DEF Init, TypeOK
<1>2. Stream = <<>> /\ Len(Stream) = 0
  <2>1. Stream = <<>> \o <<>> \o <<>> \o <<>>
    BY DEF Init, Stream
  <2>2. <<>> \in Seq(Char)
    OBVIOUS
  <2> QED BY <2>1, <2>2, ConcatEmptySeq
<1>3. Len(got) = 0 /\ Len(usrbuf) = 0 /\ Len(sentLen) = 0 /\ done = 0 /\ end = "open"
  BY DEF Init
<1>4. StreamInv
  BY <1>2, <1>3 DEF StreamInv
<1>5. LineInv /\ HandedOut
  BY <1>2, <1>3 DEF LineInv, HandedOut, PiecesOf
<1>6. FitsArrivesWhole /\ InSequence /\ Sent
  BY <1>3 DEF FitsArrivesWhole, InSequence, Sent
<1> QED BY <1>1, <1>3, <1>4, <1>5, <1>6 DEF ConnectionIInv, Reading, Sent

\* Every step of either end keeps the invariant.
LEMMA ConnectionStep == ConnectionIInv /\ [Next]_vars => ConnectionIInv'
<1> SUFFICES ASSUME ConnectionIInv, [Next]_vars PROVE ConnectionIInv'
  OBVIOUS
<1>1. CASE Send
  BY <1>1, SendKeeps
<1>2. CASE Write
  BY <1>2, WriteKeeps
<1>3. CASE WriteToNobody
  BY <1>3, WriteToNobodyKeeps
<1>4. CASE Close \/ Reset
  BY <1>4, EndKeeps
<1>5. CASE CloseReader
  BY <1>5, CloseReaderKeeps
<1>6. CASE Receive
  BY <1>6, RefillKeeps, TakeKeeps, EofKeeps, ErrorKeeps DEF Receive
<1>7. CASE UNCHANGED vars
  <2>1. /\ UNCHANGED <<sentLen, out, sendResult, wire, end, readerEnd>>
        /\ UNCHANGED <<rio_buf, usrbuf, new_msg, m_last_result, got, received, done>>
    BY <1>7 DEF vars, writer, reader, handed
  <2>2. TypeOK /\ Len(sentLen) \in Nat /\ (readerEnd = "open" => Facts)
    BY Unfolded DEF TypeOK
  <2>3. TypeOK'
    BY <2>1, <2>2 DEF TypeOK
  <2>4. Stream' = Stream
    BY <2>1 DEF Stream
  <2>5. readerEnd' = "open" => StreamInv' /\ LineInv' /\ HandedOut'
    BY <2>1, <2>2, <2>4, SameStream DEF Facts
  <2>6. done' <= Len(sentLen') /\ Sent' /\ FitsArrivesWhole' /\ InSequence'
    BY <2>1, <2>2, SendKeepsOld
  <2> QED BY <2>3, <2>5, <2>6, Folded
<1> QED BY <1>1, <1>2, <1>3, <1>4, <1>5, <1>6, <1>7 DEF Next

-----------------------------------------------------------------------------
(***************************************************************************)
(* The theorems.                                                           *)
(***************************************************************************)
\* Connection::send and Connection::receive keep the stream one run: the line
\* in hand, the buffer of rio_read, the socket and the rest of the write are
\* together the characters that follow those handed out.
THEOREM ConnectionInvariant == Spec => []ConnectionIInv
BY ConnectionInit, ConnectionStep, PTL DEF Spec

\* rio_readlineb never assembles more than the MaxLen characters of receive's
\* buffer, and rio_read never holds more than RIO_BUFSIZE.
THEOREM ConnectionTypeOK == Spec => []TypeOK
<1>1. ConnectionIInv => TypeOK
  BY DEF ConnectionIInv
<1> QED BY <1>1, ConnectionInvariant, PTL

\* Whatever the sizes of the writes and reads, a message whose line and NUL fit
\* the buffer arrives as one request that is exactly what was sent.
THEOREM ConnectionFits == Spec => []FitsArrivesWhole
<1>1. ConnectionIInv => FitsArrivesWhole
  BY DEF ConnectionIInv
<1> QED BY <1>1, ConnectionInvariant, PTL

\* Requests come in the order they were sent, no character is received twice, and
\* a request holds what was received for it and no more, but for the last one when
\* a read error has made it (connection.cpp:72-83).
THEOREM ConnectionOrder == Spec => []InSequence
<1>1. ConnectionIInv => InSequence
  BY DEF ConnectionIInv
<1> QED BY <1>1, ConnectionInvariant, PTL
=============================================================================
