-------------------------------- MODULE Room --------------------------------
(***************************************************************************)
(* class Room (hw5/room.cpp): a set of members under a mutex.  Its callers *)
(* are the worker threads of the server, one per user: a sender's worker   *)
(* joins, broadcasts and leaves (chat_with_sender), a receiver's worker    *)
(* joins once, dequeues, and removes itself when a delivery fails          *)
(* (chat_with_receiver).  broadcast_message holds the mutex while it walks *)
(* the live set and enqueues to one member after the other, so the walk    *)
(* interleaves with the members' dequeues and with other workers waiting   *)
(* for the mutex.  Enqueue and dequeue are single steps here: MessageQueue *)
(* is shown to behave so (FifoQueue).                                      *)
(***************************************************************************)
EXTENDS Naturals, Sequences

CONSTANTS Senders, Receivers,   \* users, each with its worker thread
          Name,                 \* Name[u]: username
          MaxBcast,             \* bound: broadcasts of one sender
          Free                  \* the mutex has no holder

Users   == Senders \cup Receivers
Message == Senders \X (1..MaxBcast)

ASSUME UserAssumption  == Senders \cap Receivers = {} /\ Free \notin Users
ASSUME BoundAssumption == MaxBcast \in Nat

VARIABLES lock,         \* holder of the room's mutex, or Free
          members,      \* the std::set the room keeps
          mqueue,       \* mqueue[u]: u's message queue
          pc,           \* where each worker is
          inRoom,       \* inRoom[u]: u's users_room is this room
          visited,      \* members the walk under the mutex is done with
          sent,         \* sent[s]: broadcasts s has called
          log           \* history: log[u], all that was enqueued for u

vars == <<lock, members, mqueue, pc, inRoom, visited, sent, log>>

-----------------------------------------------------------------------------
Init == /\ lock = Free
        /\ members = {}
        /\ mqueue = [u \in Users |-> <<>>]
        /\ pc = [u \in Users |-> "idle"]
        /\ inRoom = [u \in Users |-> FALSE]
        /\ visited = {}
        /\ sent = [s \in Senders |-> 0]
        /\ log = [u \in Users |-> <<>>]

Goto(u, from, to) == pc[u] = from /\ pc' = [pc EXCEPT ![u] = to]
Acquire(u) == lock = Free /\ lock' = u
Release(u) == lock = u /\ lock' = Free

-----------------------------------------------------------------------------
(***************************************************************************)
(* Plausible wrong versions of the steps below, used by no specification.  *)
(***************************************************************************)
\* remove_member does not take the mutex.
RemoveLockSkipped(u) == /\ Goto(u, "removeLock", "erase")
                        /\ UNCHANGED <<lock, members, mqueue, inRoom, visited, sent, log>>

\* The walk stops at the sender's own entry instead of skipping it.
WalkEndsEarly(s) == /\ Goto(s, "walk", "unlock")
                    /\ \/ members \subseteq visited
                       \/ s \in visited
                    /\ visited' = {}
                    /\ UNCHANGED <<lock, members, mqueue, inRoom, sent, log>>

\* The walk does not advance past a member with the sender's name.
WalkStuck(s) ==
  /\ pc[s] = "walk"
  /\ \E u \in members \ visited :
       LET m == <<s, sent[s]>> IN
       IF Name[u] # Name[s]
       THEN /\ mqueue' = [mqueue EXCEPT ![u] = Append(@, m)]
            /\ log' = [log EXCEPT ![u] = Append(@, m)]
            /\ visited' = visited \cup {u}
       ELSE UNCHANGED <<mqueue, log, visited>>
  /\ UNCHANGED <<lock, members, pc, inRoom, sent>>

\* users_room is not reset after remove_member.
EraseOnly(u) == /\ Goto(u, "erase", "unlock")
                /\ members' = members \ {u}
                /\ UNCHANGED <<lock, mqueue, inRoom, visited, sent, log>>

-----------------------------------------------------------------------------
(***************************************************************************)
(* Calls made by the workers.                                              *)
(***************************************************************************)
\* A sender may join again while it is in the room; a receiver joins once.
CallAdd(u) == /\ Goto(u, "idle", "addLock")
              /\ u \in Receivers => ~inRoom[u]
              /\ UNCHANGED <<lock, members, mqueue, inRoom, visited, sent, log>>

\* leave and quit.
CallRemove(s) == /\ Goto(s, "idle", "removeLock")
                 /\ inRoom[s]
                 /\ UNCHANGED <<lock, members, mqueue, inRoom, visited, sent, log>>

\* sendall.
CallBroadcast(s) == /\ Goto(s, "idle", "bcastLock")
                    /\ inRoom[s] /\ sent[s] < MaxBcast
                    /\ sent' = [sent EXCEPT ![s] = @ + 1]
                    /\ UNCHANGED <<lock, members, mqueue, inRoom, visited, log>>

\* A receiver's worker takes a message and has it on its hands...
Dequeue(r) == /\ inRoom[r]
              /\ Goto(r, "idle", "deliver")
              /\ mqueue[r] # <<>>
              /\ mqueue' = [mqueue EXCEPT ![r] = Tail(@)]
              /\ UNCHANGED <<lock, members, inRoom, visited, sent, log>>

\* ... sends it, or cannot and leaves the room, only to go on dequeuing.
Delivered(r) == /\ Goto(r, "deliver", "idle")
                /\ UNCHANGED <<lock, members, mqueue, inRoom, visited, sent, log>>
Undeliverable(r) == /\ Goto(r, "deliver", "removeLock")
                    /\ UNCHANGED <<lock, members, mqueue, inRoom, visited, sent, log>>

(***************************************************************************)
(* Room's methods.                                                         *)
(***************************************************************************)
AddLock(u) == /\ Goto(u, "addLock", "insert")
              /\ Acquire(u)
              /\ UNCHANGED <<members, mqueue, inRoom, visited, sent, log>>

\* The caller then sets its users_room, which no other thread reads.
Insert(u) == /\ Goto(u, "insert", "unlock")
             /\ members' = members \cup {u}
             /\ inRoom' = [inRoom EXCEPT ![u] = TRUE]
             /\ UNCHANGED <<lock, mqueue, visited, sent, log>>

RemoveLock(u) == /\ Goto(u, "removeLock", "erase")
                 /\ Acquire(u)
                 /\ UNCHANGED <<members, mqueue, inRoom, visited, sent, log>>

\* A sender clears its users_room, a receiver keeps its room variable.
Erase(u) == /\ Goto(u, "erase", "unlock")
            /\ members' = members \ {u}
            /\ inRoom' = [inRoom EXCEPT ![u] = u \in Receivers]
            /\ UNCHANGED <<lock, mqueue, visited, sent, log>>

BcastLock(s) == /\ Goto(s, "bcastLock", "walk")
                /\ Acquire(s)
                /\ visited' = {}
                /\ UNCHANGED <<members, mqueue, inRoom, sent, log>>

\* The set is ordered by address, so the next member may be any.
Walk(s) ==
  /\ pc[s] = "walk"
  /\ \E u \in members \ visited :
       LET m == <<s, sent[s]>> IN
       /\ visited' = visited \cup {u}
       /\ IF Name[u] # Name[s]
          THEN /\ mqueue' = [mqueue EXCEPT ![u] = Append(@, m)]
               /\ log' = [log EXCEPT ![u] = Append(@, m)]
          ELSE UNCHANGED <<mqueue, log>>
  /\ UNCHANGED <<lock, members, pc, inRoom, sent>>

WalkDone(s) == /\ Goto(s, "walk", "unlock")
               /\ members \subseteq visited
               /\ visited' = {}
               /\ UNCHANGED <<lock, members, mqueue, inRoom, sent, log>>

Unlock(u) == /\ Goto(u, "unlock", "idle")
             /\ Release(u)
             /\ UNCHANGED <<members, mqueue, inRoom, visited, sent, log>>

-----------------------------------------------------------------------------
Critical(u) == \/ Insert(u) \/ Erase(u) \/ Unlock(u)
               \/ u \in Senders /\ (Walk(u) \/ WalkDone(u))

Next ==
  \/ \E u \in Users : CallAdd(u) \/ AddLock(u) \/ RemoveLock(u) \/ Critical(u)
  \/ \E s \in Senders : CallRemove(s) \/ CallBroadcast(s) \/ BcastLock(s)
  \/ \E r \in Receivers : Dequeue(r) \/ Delivered(r) \/ Undeliverable(r)

\* Only the thread inside the critical section must make progress: a receiver
\* may sit in a blocked send for ever, and the mutex need not be fair.
Fairness == \A u \in Users : WF_vars(Critical(u))

Spec == Init /\ [][Next]_vars /\ Fairness

-----------------------------------------------------------------------------
InCritical == {"insert", "erase", "walk", "unlock"}
Idle == {"idle", "addLock", "removeLock"}

\* Every variable keeps to its type.
TypeOK ==
  /\ lock \in Users \cup {Free}
  /\ members \subseteq Users
  /\ mqueue \in [Users -> Seq(Message)]
  /\ pc \in [Users -> Idle \cup InCritical \cup {"bcastLock", "deliver"}]
  /\ \A u \in Users : pc[u] \in {"bcastLock", "walk"} => u \in Senders /\ sent[u] > 0
  /\ inRoom \in [Users -> BOOLEAN]
  /\ visited \subseteq Users
  /\ sent \in [Senders -> 0..MaxBcast]
  /\ log \in [Users -> Seq(Message)]

\* The mutex is held exactly by the worker between a Guard's constructor and
\* destructor.
LockInv == \A u \in Users : (lock = u) <=> (pc[u] \in InCritical)

\* Every user whose users_room is this room is a member, except a receiver
\* that removed itself: a sender never broadcasts to, or leaves, a room it is
\* not in (server.cpp:90-135 keeps users_room and the members apart).
MembersMatch == \A s \in Senders : inRoom[s] => s \in members

\* The inductive invariant: the mutex excludes, and whoever is in the room is a
\* member of it at every step of every call (room.cpp:18-40).
IInv == TypeOK /\ LockInv /\ MembersMatch

\* The members do not change under a walk: insert and erase would invalidate
\* the iterator of the range-for at room.cpp:33.
WalkStable ==
  [][members' # members => \A s \in Senders : pc[s] # "walk"]_vars

\* The room implements AtomicRoom: a broadcast takes effect for all members at
\* once when it gets the mutex, and what the walk still owes a member counts
\* as enqueued already.
Walking == lock # Free /\ pc[lock] = "walk"
QueueBar ==
  [u \in Users |-> IF Walking /\ u \in members \ visited /\ Name[u] # Name[lock]
                   THEN Append(mqueue[u], <<lock, sent[lock]>>)
                   ELSE mqueue[u]]
Atomic == INSTANCE AtomicRoom WITH mqueue <- QueueBar
AtomicSpec == Atomic!Spec

\* The mutex is given back in the end, whatever the receivers' connections do.
LockReleased == \A u \in Users : (lock = u) ~> (lock # u)
=============================================================================
