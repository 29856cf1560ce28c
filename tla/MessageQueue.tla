---------------------------- MODULE MessageQueue ----------------------------
(***************************************************************************)
(* class MessageQueue (hw5/message_queue.cpp): a std::deque of messages    *)
(* under a mutex (m_lock), and a semaphore (m_avail) on which dequeue      *)
(* waits for at most one second.  Producers are the worker threads that    *)
(* broadcast into the queue; the consumers run the loop of                 *)
(* chat_with_receiver, which calls dequeue for ever.  One step is one      *)
(* operation on shared state, so every interleaving of the calls is        *)
(* explored.                                                               *)
(***************************************************************************)
EXTENDS Integers, Sequences, FiniteSets

CONSTANTS Producers,    \* threads that call enqueue
          Consumers,    \* threads that call dequeue
          MaxSend,      \* bound: messages one producer enqueues
          Null,         \* nullptr
          Free          \* the mutex has no holder

Thread  == Producers \cup Consumers
Message == Producers \X (1..MaxSend)
Garbage == <<"front() of an empty deque">>

ASSUME ThreadAssumption ==
  /\ Producers \cap Consumers = {}
  /\ IsFiniteSet(Consumers)
  /\ Free \notin Thread
ASSUME BoundAssumption == MaxSend \in Nat
ASSUME NullAssumption  == Null \notin Message

VARIABLES m_lock,       \* holder of the mutex, or Free
          m_avail,      \* value of the semaphore
          m_messages,   \* the deque, front first
          pc,           \* where each thread is
          sent,         \* sent[p]: messages p has called enqueue for
          msg,          \* msg[c]: what c's last dequeue returned
          got           \* history: every message popped, in pop order

vars == <<m_lock, m_avail, m_messages, pc, sent, msg, got>>

-----------------------------------------------------------------------------
Init == /\ m_lock = Free
        /\ m_avail = 0
        /\ m_messages = <<>>
        /\ pc = [t \in Thread |-> "idle"]
        /\ sent = [p \in Producers |-> 0]
        /\ msg = [c \in Consumers |-> Null]
        /\ got = <<>>

Goto(t, from, to) == /\ pc[t] = from
                     /\ pc' = [pc EXCEPT ![t] = to]

\* Guard's constructor and destructor.
Acquire(t) == m_lock = Free /\ m_lock' = t
Release(t) == m_lock = t /\ m_lock' = Free

\* front() and pop_front(); on an empty deque both are undefined.
FrontOf(q)  == IF q = <<>> THEN Garbage ELSE Head(q)
PopFront(q) == IF q = <<>> THEN <<>> ELSE Tail(q)

-----------------------------------------------------------------------------
(***************************************************************************)
(* Plausible wrong versions of the steps below.  No specification uses     *)
(* them: each is put in the place of the step it is named for to see that  *)
(* a property notices.                                                     *)
(***************************************************************************)

\* The post is forgotten.
EnqPostForgotten(p) == /\ Goto(p, "post", "enqUnlock")
                       /\ UNCHANGED <<m_lock, m_avail, m_messages, sent, msg, got>>

\* The semaphore is posted before the message is in the deque and again after.
EnqLockAndPost(p) == /\ Goto(p, "enqLock", "push")
                     /\ Acquire(p)
                     /\ m_avail' = m_avail + 1
                     /\ UNCHANGED <<m_messages, sent, msg, got>>

\* The result of sem_timedwait is not looked at.
DeqTimeoutIgnored(c) == /\ Goto(c, "wait", "deqLock")
                        /\ m_avail = 0
                        /\ UNCHANGED <<m_lock, m_avail, m_messages, sent, msg, got>>

-----------------------------------------------------------------------------
\* enqueue(msg): the message is the producer's next one.
EnqCall(p) == /\ Goto(p, "idle", "enqLock")
              /\ sent[p] < MaxSend
              /\ sent' = [sent EXCEPT ![p] = @ + 1]
              /\ UNCHANGED <<m_lock, m_avail, m_messages, msg, got>>

EnqLock(p) == /\ Goto(p, "enqLock", "push")
              /\ Acquire(p)
              /\ UNCHANGED <<m_avail, m_messages, sent, msg, got>>

EnqPush(p) == /\ Goto(p, "push", "post")
              /\ m_messages' = Append(m_messages, <<p, sent[p]>>)
              /\ UNCHANGED <<m_lock, m_avail, sent, msg, got>>

EnqPost(p) == /\ Goto(p, "post", "enqUnlock")
              /\ m_avail' = m_avail + 1
              /\ UNCHANGED <<m_lock, m_messages, sent, msg, got>>

EnqUnlock(p) == /\ Goto(p, "enqUnlock", "idle")
                /\ Release(p)
                /\ UNCHANGED <<m_avail, m_messages, sent, msg, got>>

\* The loop of chat_with_receiver calls dequeue again; it has deleted the
\* message of the previous call.
DeqCall(c) == /\ Goto(c, "idle", "wait")
              /\ msg' = [msg EXCEPT ![c] = Null]
              /\ UNCHANGED <<m_lock, m_avail, m_messages, sent, got>>

\* sem_timedwait succeeds at once when the semaphore is positive.
DeqWait(c) == /\ Goto(c, "wait", "deqLock")
              /\ m_avail > 0
              /\ m_avail' = m_avail - 1
              /\ UNCHANGED <<m_lock, m_messages, sent, msg, got>>

\* It fails only when the second has passed with nothing to decrement; the
\* call then returns nullptr without taking the mutex.
DeqTimeout(c) == /\ Goto(c, "wait", "idle")
                 /\ m_avail = 0
                 /\ UNCHANGED <<m_lock, m_avail, m_messages, sent, msg, got>>

DeqLock(c) == /\ Goto(c, "deqLock", "pop")
              /\ Acquire(c)
              /\ UNCHANGED <<m_avail, m_messages, sent, msg, got>>

DeqPop(c) == /\ Goto(c, "pop", "deqUnlock")
             /\ msg' = [msg EXCEPT ![c] = FrontOf(m_messages)]
             /\ m_messages' = PopFront(m_messages)
             /\ got' = Append(got, FrontOf(m_messages))
             /\ UNCHANGED <<m_lock, m_avail, sent>>

DeqUnlock(c) == /\ Goto(c, "deqUnlock", "idle")
                /\ Release(c)
                /\ UNCHANGED <<m_avail, m_messages, sent, msg, got>>

EnqStep(p) == EnqLock(p) \/ EnqPush(p) \/ EnqPost(p) \/ EnqUnlock(p)
DeqStep(c) == \/ DeqCall(c) \/ DeqWait(c) \/ DeqTimeout(c)
              \/ DeqLock(c) \/ DeqPop(c) \/ DeqUnlock(c)

Next == \/ \E p \in Producers : EnqCall(p) \/ EnqStep(p)
        \/ \E c \in Consumers : DeqStep(c)

\* A thread inside a call keeps running, and a receiver's loop never stops
\* calling dequeue; nobody is obliged to enqueue.
Fairness == /\ \A p \in Producers : WF_vars(EnqStep(p))
            /\ \A c \in Consumers : WF_vars(DeqStep(c))

Spec == Init /\ [][Next]_vars /\ Fairness

-----------------------------------------------------------------------------
InEnqueue == {"push", "post", "enqUnlock"}
InDequeue == {"pop", "deqUnlock"}

\* Every variable keeps to its type; in particular dequeue returns nullptr or
\* a real message, never what front() yields on an empty deque.
TypeOK ==
  /\ m_lock \in Thread \cup {Free}
  /\ m_avail \in Nat
  /\ m_messages \in Seq(Message)
  /\ pc \in [Thread -> {"idle", "enqLock", "wait", "deqLock"}
                          \cup InEnqueue \cup InDequeue]
  /\ \A p \in Producers : pc[p] \in {"idle", "enqLock"} \cup InEnqueue
  /\ \A c \in Consumers : pc[c] \in {"idle", "wait", "deqLock"} \cup InDequeue
  /\ sent \in [Producers -> 0..MaxSend]
  /\ \A p \in Producers : pc[p] \in {"enqLock"} \cup InEnqueue => sent[p] > 0
  /\ msg \in [Consumers -> Message \cup {Null}]
  /\ got \in Seq(Message)

\* The mutex is held exactly by the thread between a Guard's constructor and
\* destructor.
LockInv == \A t \in Thread :
             (m_lock = t) <=> (pc[t] \in InEnqueue \cup InDequeue)

\* Consumers that have taken a unit of the semaphore and not yet popped.
Claimers == {c \in Consumers : pc[c] \in {"deqLock", "pop"}}

\* A message is in the deque and its sem_post is still to come.
Posting == \E p \in Producers : pc[p] = "post"

\* The semaphore counts the deque (message_queue.cpp:28-31 and 49-57, which
\* update the two apart): every message is announced by one unit, still in
\* the semaphore or taken by a consumer on its way to the mutex, except the
\* one whose producer is between push_back and sem_post.
SemCount == Len(m_messages) = m_avail + Cardinality(Claimers)
                              + (IF Posting THEN 1 ELSE 0)

\* The inductive invariant: the mutex excludes (guard.h), and every message of
\* the deque is announced once, between any two steps of enqueue and dequeue.
IInv == TypeOK /\ LockInv /\ SemCount

\* The deque's announced messages, and what each consumer is doing, implement
\* the blocking FIFO queue of FifoQueue: in particular a dequeue that returns
\* nullptr had nothing left to wait for, and a pop never finds the deque empty.
Announced == IF Posting THEN SubSeq(m_messages, 1, Len(m_messages) - 1)
                        ELSE m_messages
CallBar == [c \in Consumers |-> CASE pc[c] = "wait" -> "trying"
                                   [] pc[c] \in {"deqLock", "pop"} -> "claimed"
                                   [] OTHER -> "idle"]
Fifo == INSTANCE FifoQueue WITH queue <- Announced, call <- CallBar, held <- msg
FifoSpec == Fifo!Spec

\* Every message whose enqueue was called is popped in the end, by a consumer
\* whose waits time out any number of times before.
EventuallyPopped ==
  \A m \in Message :
    (sent[m[1]] >= m[2]) ~> (\E i \in 1..Len(got) : got[i] = m)
=============================================================================
