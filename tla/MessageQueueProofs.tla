------------------------- MODULE MessageQueueProofs -------------------------
(***************************************************************************)
(* For any finite set of consumers, any producers and any bound: the       *)
(* mutex discipline, the count kept by the semaphore, and that the queue   *)
(* implements FifoQueue.                                                   *)
(***************************************************************************)
EXTENDS MessageQueue, FiniteSetTheorems, SequenceTheorems, TLAPS

\* Tail and SubSeq facts used for the steps that change the deque.
LEMMA DequeFacts ==
  ASSUME NEW q \in Seq(Message)
  PROVE  /\ q # <<>> <=> Len(q) > 0
         /\ q # <<>> => Head(q) \in Message /\ Tail(q) \in Seq(Message)
                        /\ Len(Tail(q)) = Len(q) - 1
         /\ \A m \in Message : Append(q, m) \in Seq(Message)
                               /\ Len(Append(q, m)) = Len(q) + 1
OBVIOUS

\* A consumer that takes a unit of the semaphore is one more claimer, one that
\* pops is one fewer.
LEMMA ClaimersCount ==
  ASSUME TypeOK
  PROVE  /\ IsFiniteSet(Claimers)
         /\ Cardinality(Claimers) \in Nat
         /\ Claimers # {} => Cardinality(Claimers) > 0
         /\ \A c : c \notin Claimers
                   => Cardinality(Claimers \cup {c}) = Cardinality(Claimers) + 1
         /\ \A c \in Claimers :
                   Cardinality(Claimers \ {c}) = Cardinality(Claimers) - 1
<1>1. IsFiniteSet(Claimers)
  <2>1. Claimers \subseteq Consumers
    BY DEF Claimers
  <2> QED BY <2>1, FS_Subset, ThreadAssumption
<1>2. Cardinality(Claimers) \in Nat
  BY <1>1, FS_CardinalityType
<1>3. Claimers # {} => Cardinality(Claimers) > 0
  BY <1>1, <1>2, FS_EmptySet
<1>4. \A c : c \notin Claimers
             => Cardinality(Claimers \cup {c}) = Cardinality(Claimers) + 1
  BY <1>1, FS_AddElement
<1>5. \A c \in Claimers : Cardinality(Claimers \ {c}) = Cardinality(Claimers) - 1
  BY <1>1, FS_RemoveElement
<1> QED BY <1>1, <1>2, <1>3, <1>4, <1>5

\* At most one producer is past push_back: while one is, the deque is its own.
LEMMA OnePosting ==
  ASSUME TypeOK, LockInv, NEW t \in Thread, m_lock = t
  PROVE  \A u \in Thread : pc[u] \in InEnqueue \cup InDequeue => u = t
BY DEF LockInv

LEMMA InitIInv == Init => IInv
<1> SUFFICES ASSUME Init PROVE IInv
  OBVIOUS
<1>1. TypeOK
  BY ThreadAssumption, BoundAssumption DEF Init, TypeOK, Thread, InEnqueue, InDequeue
<1>2. LockInv
  BY ThreadAssumption DEF Init, LockInv, InEnqueue, InDequeue
<1>3. SemCount
  <2>1. Claimers = {} /\ ~Posting
    BY DEF Init, Claimers, Posting, Thread
  <2> QED BY <2>1, FS_EmptySet DEF Init, SemCount
<1> QED BY <1>1, <1>2, <1>3 DEF IInv

-----------------------------------------------------------------------------
\* Steps of a producer.
LEMMA EnqPreserves ==
  ASSUME IInv, NEW p \in Producers, EnqCall(p) \/ EnqStep(p)
  PROVE  IInv'
<1> USE DEF IInv
<1>0. p \in Thread /\ p \notin Consumers /\ Free \notin Thread
  BY ThreadAssumption DEF Thread
<1>a. ASSUME pc'[p] \notin {"deqLock", "pop"}, \A t \in Thread : t # p => pc'[t] = pc[t]
      PROVE  Claimers' = Claimers
  BY <1>a, <1>0 DEF Claimers, Thread
<1>1. CASE EnqCall(p)
  <2> USE <1>1 DEF EnqCall, Goto
  <2>1. TypeOK'
    BY <1>0, BoundAssumption DEF TypeOK, InEnqueue, InDequeue, Thread
  <2>2. LockInv'
    BY <1>0 DEF LockInv, TypeOK, InEnqueue, InDequeue
  <2>3. Claimers' = Claimers /\ Posting' = Posting
    BY <1>0, <1>a DEF TypeOK, Posting, Thread
  <2> QED BY <2>1, <2>2, <2>3 DEF SemCount
<1>2. CASE EnqLock(p)
  <2> USE <1>2 DEF EnqLock, Goto, Acquire
  <2>1. TypeOK'
    BY <1>0 DEF TypeOK, InEnqueue, InDequeue, Thread
  <2>2. LockInv'
    BY <1>0 DEF LockInv, TypeOK, InEnqueue, InDequeue
  <2>3. Claimers' = Claimers /\ Posting' = Posting
    BY <1>0, <1>a DEF TypeOK, Posting, Thread
  <2> QED BY <2>1, <2>2, <2>3 DEF SemCount
<1>3. CASE EnqPush(p)
  <2> USE <1>3 DEF EnqPush, Goto
  <2>0. <<p, sent[p]>> \in Message
    BY DEF TypeOK, Message, InEnqueue
  <2>1. TypeOK'
    BY <1>0, <2>0, DequeFacts DEF TypeOK, InEnqueue, InDequeue, Thread
  <2>2. LockInv'
    BY <1>0 DEF LockInv, TypeOK, InEnqueue, InDequeue
  <2>3. Claimers' = Claimers
    BY <1>0, <1>a DEF TypeOK
  <2>4. ~Posting /\ Posting'
    BY <1>0 DEF Posting, TypeOK, LockInv, InEnqueue, Thread
  <2>5. Len(m_messages') = Len(m_messages) + 1
    BY <2>0, DequeFacts DEF TypeOK
  <2> QED BY <2>1, <2>2, <2>3, <2>4, <2>5, ClaimersCount DEF SemCount, TypeOK
<1>4. CASE EnqPost(p)
  <2> USE <1>4 DEF EnqPost, Goto
  <2>1. TypeOK'
    BY <1>0 DEF TypeOK, InEnqueue, InDequeue, Thread
  <2>2. LockInv'
    BY <1>0 DEF LockInv, TypeOK, InEnqueue, InDequeue
  <2>3. Claimers' = Claimers
    BY <1>0, <1>a DEF TypeOK
  <2>4. Posting /\ ~Posting'
    BY <1>0 DEF Posting, TypeOK, LockInv, InEnqueue, Thread
  <2> QED BY <2>1, <2>2, <2>3, <2>4, ClaimersCount DEF SemCount, TypeOK
<1>5. CASE EnqUnlock(p)
  <2> USE <1>5 DEF EnqUnlock, Goto, Release
  <2>1. TypeOK'
    BY <1>0 DEF TypeOK, InEnqueue, InDequeue, Thread
  <2>2. LockInv'
    BY <1>0 DEF LockInv, TypeOK, InEnqueue, InDequeue
  <2>3. Claimers' = Claimers /\ Posting' = Posting
    BY <1>0, <1>a DEF TypeOK, Posting, Thread
  <2> QED BY <2>1, <2>2, <2>3 DEF SemCount
<1> QED BY <1>1, <1>2, <1>3, <1>4, <1>5 DEF EnqStep

-----------------------------------------------------------------------------
\* Steps of a consumer.  SemCount is what makes the deque of a pop non-empty.
LEMMA DeqPreserves ==
  ASSUME IInv, NEW c \in Consumers, DeqStep(c)
  PROVE  IInv'
<1> USE DEF IInv
<1>0. c \in Thread /\ c \notin Producers /\ Free \notin Thread
  BY ThreadAssumption DEF Thread
<1>a. ASSUME \A t \in Thread : t # c => pc'[t] = pc[t]
      PROVE  Posting' = Posting
  BY <1>a, <1>0 DEF Posting, Thread
<1>1. CASE DeqCall(c)
  <2> USE <1>1 DEF DeqCall, Goto
  <2>1. TypeOK'
    BY <1>0 DEF TypeOK, InEnqueue, InDequeue, Thread
  <2>2. LockInv'
    BY <1>0 DEF LockInv, TypeOK, InEnqueue, InDequeue
  <2>3. Claimers' = Claimers /\ Posting' = Posting
    BY <1>0, <1>a DEF TypeOK, Claimers, Thread
  <2> QED BY <2>1, <2>2, <2>3 DEF SemCount
<1>2. CASE DeqWait(c)
  <2> USE <1>2 DEF DeqWait, Goto
  <2>1. TypeOK'
    BY <1>0 DEF TypeOK, InEnqueue, InDequeue, Thread
  <2>2. LockInv'
    BY <1>0 DEF LockInv, TypeOK, InEnqueue, InDequeue
  <2>3. Posting' = Posting
    BY <1>0, <1>a DEF TypeOK
  <2>4. c \notin Claimers /\ Claimers' = Claimers \cup {c}
    BY <1>0 DEF TypeOK, Claimers, Thread
  <2>5. Cardinality(Claimers') = Cardinality(Claimers) + 1
    BY <2>4, ClaimersCount
  <2> QED BY <2>1, <2>2, <2>3, <2>5, ClaimersCount DEF SemCount, TypeOK
<1>3. CASE DeqTimeout(c)
  <2> USE <1>3 DEF DeqTimeout, Goto
  <2>1. TypeOK'
    BY <1>0 DEF TypeOK, InEnqueue, InDequeue, Thread
  <2>2. LockInv'
    BY <1>0 DEF LockInv, TypeOK, InEnqueue, InDequeue
  <2>3. Claimers' = Claimers /\ Posting' = Posting
    BY <1>0, <1>a DEF TypeOK, Claimers, Thread
  <2> QED BY <2>1, <2>2, <2>3 DEF SemCount
<1>4. CASE DeqLock(c)
  <2> USE <1>4 DEF DeqLock, Goto, Acquire
  <2>1. TypeOK'
    BY <1>0 DEF TypeOK, InEnqueue, InDequeue, Thread
  <2>2. LockInv'
    BY <1>0 DEF LockInv, TypeOK, InEnqueue, InDequeue
  <2>3. Claimers' = Claimers /\ Posting' = Posting
    BY <1>0, <1>a DEF TypeOK, Claimers, Thread
  <2> QED BY <2>1, <2>2, <2>3 DEF SemCount
<1>5. CASE DeqPop(c)
  <2> USE <1>5 DEF DeqPop, Goto
  <2>1. c \in Claimers /\ Claimers' = Claimers \ {c}
    BY <1>0 DEF TypeOK, Claimers, Thread
  <2>2. Cardinality(Claimers') = Cardinality(Claimers) - 1 /\ Cardinality(Claimers) > 0
    BY <2>1, ClaimersCount
  <2>3. m_messages # <<>>
    BY <2>2, ClaimersCount, DequeFacts DEF SemCount, TypeOK
  <2>4. /\ Head(m_messages) \in Message /\ Tail(m_messages) \in Seq(Message)
        /\ Len(m_messages') = Len(m_messages) - 1
        /\ m_messages' = Tail(m_messages)
        /\ msg' = [msg EXCEPT ![c] = Head(m_messages)]
        /\ got' \in Seq(Message)
    BY <2>3, DequeFacts DEF TypeOK, FrontOf, PopFront
  <2>5. TypeOK'
    BY <1>0, <2>4 DEF TypeOK, InEnqueue, InDequeue, Thread
  <2>6. LockInv'
    BY <1>0 DEF LockInv, TypeOK, InEnqueue, InDequeue
  <2>7. Posting' = Posting
    BY <1>0, <1>a DEF TypeOK
  <2> QED BY <2>2, <2>4, <2>5, <2>6, <2>7, ClaimersCount DEF SemCount, TypeOK
<1>6. CASE DeqUnlock(c)
  <2> USE <1>6 DEF DeqUnlock, Goto, Release
  <2>1. TypeOK'
    BY <1>0 DEF TypeOK, InEnqueue, InDequeue, Thread
  <2>2. LockInv'
    BY <1>0 DEF LockInv, TypeOK, InEnqueue, InDequeue
  <2>3. Claimers' = Claimers /\ Posting' = Posting
    BY <1>0, <1>a DEF TypeOK, Claimers, Thread
  <2> QED BY <2>1, <2>2, <2>3 DEF SemCount
<1> QED BY <1>1, <1>2, <1>3, <1>4, <1>5, <1>6 DEF DeqStep

LEMMA NextPreserves == IInv /\ [Next]_vars => IInv'
<1> SUFFICES ASSUME IInv, [Next]_vars PROVE IInv'
  OBVIOUS
<1>1. CASE UNCHANGED vars
  BY <1>1 DEF vars, IInv, TypeOK, LockInv, SemCount, Claimers, Posting
<1>2. CASE \E p \in Producers : EnqCall(p) \/ EnqStep(p)
  BY <1>2, EnqPreserves
<1>3. CASE \E c \in Consumers : DeqStep(c)
  BY <1>3, DeqPreserves
<1> QED BY <1>1, <1>2, <1>3 DEF Next

\* In every behaviour of enqueue and dequeue, with any number of producers and
\* consumers, the mutex excludes, the semaphore counts the deque, and every
\* dequeue returns nullptr or a real message (message_queue.cpp:25-60).
THEOREM QueueInvariant == Spec => []IInv
BY InitIInv, NextPreserves, PTL DEF Spec

-----------------------------------------------------------------------------
(***************************************************************************)
(* Refinement.  An enqueue takes effect at its sem_post, a dequeue is a    *)
(* claim at its sem_timedwait and takes the message at its pop_front; all  *)
(* the other steps stutter.                                                *)
(***************************************************************************)
\* A prefix of a deque is a deque.
LEMMA PrefixIsSeq ==
  ASSUME NEW q \in Seq(Message), NEW n \in 0..Len(q)
  PROVE  /\ SubSeq(q, 1, n) \in Seq(Message)
         /\ Len(SubSeq(q, 1, n)) = n
         /\ \A i \in 1..n : SubSeq(q, 1, n)[i] = q[i]
<1>1. n \in Int /\ 1 \in Int /\ \A i \in 1..n : q[i] \in Message
  OBVIOUS
<1>2. /\ SubSeq(q, 1, n) \in Seq(Message)
      /\ Len(SubSeq(q, 1, n)) = IF 1 <= n THEN n - 1 + 1 ELSE 0
      /\ \A i \in 1..(n - 1 + 1) : SubSeq(q, 1, n)[i] = q[1 + i - 1]
  BY <1>1, SubSeqProperties
<1>3. n - 1 + 1 = n /\ (~(1 <= n) => n = 0) /\ \A i \in 1..n : 1 + i - 1 = i
  OBVIOUS
<1> QED BY <1>2, <1>3

\* push_back, then dropping the last, gives the deque back.
LEMMA PrefixOfAppend ==
  ASSUME NEW q \in Seq(Message), NEW m \in Message
  PROVE  SubSeq(Append(q, m), 1, Len(Append(q, m)) - 1) = q
<1>1. /\ Append(q, m) \in Seq(Message) /\ Len(q) \in Nat
      /\ Len(Append(q, m)) - 1 = Len(q)
      /\ \A i \in 1..Len(q) : Append(q, m)[i] = q[i]
  OBVIOUS
<1> DEFINE s == SubSeq(Append(q, m), 1, Len(q))
<1>2. Len(q) \in 0..Len(Append(q, m))
  BY <1>1
<1>3. /\ s \in Seq(Message) /\ Len(s) = Len(q)
      /\ \A i \in 1..Len(q) : s[i] = Append(q, m)[i]
  BY <1>1, <1>2, PrefixIsSeq
<1> HIDE DEF s
<1>4. s = q
  BY <1>1, <1>3, SeqEqual
<1>5. SubSeq(Append(q, m), 1, Len(Append(q, m)) - 1) = s
  BY <1>1, Zenon DEF s
<1> QED BY <1>4, <1>5

\* A deque that is not empty is its prefix and its last message.
LEMMA PrefixAndLast ==
  ASSUME NEW q \in Seq(Message), Len(q) > 0
  PROVE  /\ q[Len(q)] \in Message
         /\ Len(SubSeq(q, 1, Len(q) - 1)) = Len(q) - 1
         /\ q = Append(SubSeq(q, 1, Len(q) - 1), q[Len(q)])
<1> DEFINE n == Len(q) - 1
           s == SubSeq(q, 1, n)
<1>1. n \in 0..Len(q) /\ Len(q) = n + 1 /\ q[Len(q)] \in Message
  OBVIOUS
<1>2. /\ s \in Seq(Message) /\ Len(s) = n
      /\ \A i \in 1..n : s[i] = q[i]
  BY <1>1, PrefixIsSeq
<1> HIDE DEF s, n
<1>3. /\ Append(s, q[Len(q)]) \in Seq(Message)
      /\ Len(Append(s, q[Len(q)])) = Len(q)
      /\ \A i \in 1..Len(q) : Append(s, q[Len(q)])[i] = q[i]
  BY <1>1, <1>2
<1>4. Append(s, q[Len(q)]) = q
  BY <1>3, SeqEqual
<1> QED BY <1>1, <1>2, <1>4 DEF s, n

\* The announced part of the deque is what the semaphore accounts for.
LEMMA AnnouncedLen ==
  ASSUME IInv
  PROVE  /\ Len(Announced) = m_avail + Cardinality(Claimers)
         /\ m_avail \in Nat /\ Cardinality(Claimers) \in Nat
         /\ Fifo!Cardinality(Fifo!Claimers) = Cardinality(Claimers)
<1> USE DEF IInv
<1>1. m_avail \in Nat /\ Cardinality(Claimers) \in Nat
  BY ClaimersCount DEF TypeOK
<1>2. Len(Announced) = m_avail + Cardinality(Claimers)
  <2>1. CASE Posting
    BY <2>1, <1>1, PrefixAndLast DEF SemCount, TypeOK, Announced
  <2>2. CASE ~Posting
    BY <2>2, <1>1 DEF SemCount, TypeOK, Announced
  <2> QED BY <2>1, <2>2
<1>3. Fifo!Claimers = Claimers
  BY DEF Fifo!Claimers, Claimers, CallBar
<1>4. Fifo!Cardinality(Claimers) = Cardinality(Claimers)
  BY DEF Fifo!Cardinality, Cardinality
<1> QED BY <1>1, <1>2, <1>3, <1>4

LEMMA RefInit == Init => Fifo!Init
<1> SUFFICES ASSUME Init PROVE Fifo!Init
  OBVIOUS
<1>1. ~Posting
  BY DEF Init, Posting, Thread
<1> QED BY <1>1 DEF Init, Fifo!Init, Announced, CallBar, Thread

LEMMA RefEnq ==
  ASSUME IInv, NEW p \in Producers, EnqCall(p) \/ EnqStep(p)
  PROVE  Fifo!Enqueue \/ UNCHANGED Fifo!vars
<1> USE DEF IInv
<1>0. p \in Thread /\ p \notin Consumers /\ Free \notin Thread
  BY ThreadAssumption DEF Thread
<1>a. ASSUME \A t \in Thread : t # p => pc'[t] = pc[t]
      PROVE  CallBar' = CallBar
  BY <1>a, <1>0 DEF CallBar, Thread
<1>1. CASE EnqCall(p) \/ EnqLock(p) \/ EnqUnlock(p)
  <2>1. CallBar' = CallBar
    BY <1>1, <1>a, <1>0 DEF EnqCall, EnqLock, EnqUnlock, Goto, TypeOK
  <2>2. Posting' = Posting
    BY <1>1, <1>0 DEF EnqCall, EnqLock, EnqUnlock, Goto, TypeOK, Posting, Thread
  <2> QED BY <1>1, <2>1, <2>2 DEF EnqCall, EnqLock, EnqUnlock, Announced, Fifo!vars
<1>2. CASE EnqPush(p)
  <2> USE <1>2 DEF EnqPush, Goto
  <2>1. CallBar' = CallBar
    BY <1>a, <1>0 DEF TypeOK
  <2>2. ~Posting /\ Posting'
    BY <1>0 DEF Posting, TypeOK, LockInv, InEnqueue, Thread
  <2>3. <<p, sent[p]>> \in Message
    BY DEF TypeOK, Message, InEnqueue
  <2>4. Announced' = Announced
    BY <2>2, <2>3, PrefixOfAppend DEF Announced, TypeOK
  <2> QED BY <2>1, <2>4 DEF Fifo!vars
<1>3. CASE EnqPost(p)
  <2> USE <1>3 DEF EnqPost, Goto
  <2>1. CallBar' = CallBar
    BY <1>a, <1>0 DEF TypeOK
  <2>2. Posting /\ ~Posting'
    BY <1>0 DEF Posting, TypeOK, LockInv, InEnqueue, Thread
  <2>3. Len(m_messages) > 0
    BY <2>2, ClaimersCount DEF SemCount, TypeOK
  <2>4. /\ m_messages[Len(m_messages)] \in Message
        /\ m_messages = Append(SubSeq(m_messages, 1, Len(m_messages) - 1),
                               m_messages[Len(m_messages)])
    BY <2>3, PrefixAndLast DEF TypeOK
  <2>5. Announced' = Append(Announced, m_messages[Len(m_messages)])
    BY <2>2, <2>4 DEF Announced
  <2> QED BY <2>1, <2>4, <2>5 DEF Fifo!Enqueue
<1> QED BY <1>1, <1>2, <1>3 DEF EnqStep

LEMMA RefDeq ==
  ASSUME IInv, NEW c \in Consumers, DeqStep(c)
  PROVE  \/ Fifo!Begin(c) \/ Fifo!Claim(c) \/ Fifo!GiveUp(c) \/ Fifo!Take(c)
         \/ UNCHANGED Fifo!vars
<1> USE DEF IInv
<1>0. c \in Thread /\ c \notin Producers /\ Free \notin Thread
  BY ThreadAssumption DEF Thread
<1>a. ASSUME \A t \in Thread : t # c => pc'[t] = pc[t]
      PROVE  Posting' = Posting
  BY <1>a, <1>0 DEF Posting, Thread
<1>1. CASE DeqCall(c)
  <2> USE <1>1 DEF DeqCall, Goto
  <2>1. CallBar[c] = "idle" /\ CallBar' = [CallBar EXCEPT ![c] = "trying"]
    BY <1>0 DEF CallBar, TypeOK, Thread
  <2>2. Announced' = Announced
    BY <1>a DEF Announced, TypeOK
  <2> QED BY <2>1, <2>2 DEF Fifo!Begin
<1>2. CASE DeqWait(c)
  <2> USE <1>2 DEF DeqWait, Goto
  <2>1. CallBar[c] = "trying" /\ CallBar' = [CallBar EXCEPT ![c] = "claimed"]
    BY <1>0 DEF CallBar, TypeOK, Thread
  <2>2. Announced' = Announced
    BY <1>a DEF Announced, TypeOK
  <2>3. Fifo!Cardinality(Fifo!Claimers) < Len(Announced)
    BY AnnouncedLen
  <2> QED BY <2>1, <2>2, <2>3 DEF Fifo!Claim
<1>3. CASE DeqTimeout(c)
  <2> USE <1>3 DEF DeqTimeout, Goto
  <2>1. CallBar[c] = "trying" /\ CallBar' = [CallBar EXCEPT ![c] = "idle"]
    BY <1>0 DEF CallBar, TypeOK, Thread
  <2>2. Announced' = Announced
    BY <1>a DEF Announced, TypeOK
  <2>3. Fifo!Cardinality(Fifo!Claimers) = Len(Announced)
    BY AnnouncedLen
  <2> QED BY <2>1, <2>2, <2>3 DEF Fifo!GiveUp
<1>4. CASE DeqLock(c) \/ DeqUnlock(c)
  <2>1. CallBar' = CallBar
    BY <1>4, <1>0 DEF DeqLock, DeqUnlock, Goto, CallBar, TypeOK, Thread
  <2>2. Announced' = Announced
    BY <1>4, <1>a DEF DeqLock, DeqUnlock, Goto, Announced, TypeOK
  <2> QED BY <1>4, <2>1, <2>2 DEF DeqLock, DeqUnlock, Fifo!vars
<1>5. CASE DeqPop(c)
  <2> USE <1>5 DEF DeqPop, Goto
  <2>1. CallBar[c] = "claimed" /\ CallBar' = [CallBar EXCEPT ![c] = "idle"]
    BY <1>0 DEF CallBar, TypeOK, Thread
  <2>2. ~Posting /\ ~Posting'
    BY <1>0, <1>a DEF Posting, LockInv, TypeOK, InEnqueue, InDequeue, Thread
  <2>3. m_messages # <<>>
    <3>1. c \in Claimers
      BY <1>0 DEF Claimers
    <3> QED BY <3>1, ClaimersCount, DequeFacts DEF SemCount, TypeOK
  <2>4. /\ Announced = m_messages /\ Announced' = Tail(m_messages)
        /\ msg' = [msg EXCEPT ![c] = Head(m_messages)]
    BY <2>2, <2>3 DEF Announced, FrontOf, PopFront
  <2> QED BY <2>1, <2>3, <2>4 DEF Fifo!Take
<1> QED BY <1>1, <1>2, <1>3, <1>4, <1>5 DEF DeqStep

\* The mutex-and-semaphore queue implements the FIFO queue: a message is
\* announced atomically, messages come out oldest first and once each, and a
\* dequeue returns nullptr only when nothing announced was left for it.
THEOREM QueueRefinesFifo == Spec => FifoSpec
<1>1. IInv /\ [Next]_vars => [Fifo!Next]_(Fifo!vars)
  <2> SUFFICES ASSUME IInv, [Next]_vars PROVE [Fifo!Next]_(Fifo!vars)
    OBVIOUS
  <2>1. CASE UNCHANGED vars
    BY <2>1 DEF vars, Fifo!vars, Announced, Posting, CallBar
  <2>2. CASE \E p \in Producers : EnqCall(p) \/ EnqStep(p)
    BY <2>2, RefEnq DEF Fifo!Next
  <2>3. CASE \E c \in Consumers : DeqStep(c)
    BY <2>3, RefDeq DEF Fifo!Next
  <2> QED BY <2>1, <2>2, <2>3 DEF Next
<1>2. Spec => []IInv
  BY InitIInv, NextPreserves, PTL DEF Spec
<1> QED BY <1>1, <1>2, RefInit, PTL DEF Spec, FifoSpec, Fifo!Spec
=============================================================================
