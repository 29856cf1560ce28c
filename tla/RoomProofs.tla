----------------------------- MODULE RoomProofs -----------------------------
(***************************************************************************)
(* For any senders, receivers, usernames and bound: the room's mutex       *)
(* excludes, its members agree with the senders' users_room, no walk sees  *)
(* the members change, and the room implements AtomicRoom.  For any        *)
(* workers, names and objects: one worker at a time is in the map of the   *)
(* rooms, no room that was made is lost, and find_or_create_room with its  *)
(* lock implements one that finds or creates in a single step.             *)
(***************************************************************************)
EXTENDS Room, RoomDirectory, SequenceTheorems, TLAPS

LEMMA InitIInv == Init => IInv
BY UserAssumption, BoundAssumption
   DEF Init, IInv, TypeOK, LockInv, MembersMatch, Users, Idle, InCritical

\* The worker calls: they take no mutex and change no member.
LEMMA CallPreserves ==
  ASSUME IInv,
         \/ \E u \in Users : CallAdd(u)
         \/ \E s \in Senders : CallRemove(s) \/ CallBroadcast(s)
         \/ \E r \in Receivers : Dequeue(r) \/ Delivered(r) \/ Undeliverable(r)
  PROVE  IInv'
<1> USE DEF IInv
<1>1. ASSUME NEW u \in Users, CallAdd(u) PROVE IInv'
  BY <1>1 DEF CallAdd, Goto, TypeOK, LockInv, MembersMatch, Idle, InCritical
<1>2. ASSUME NEW s \in Senders, CallRemove(s) PROVE IInv'
  BY <1>2 DEF CallRemove, Goto, TypeOK, LockInv, MembersMatch, Idle, InCritical, Users
<1>3. ASSUME NEW s \in Senders, CallBroadcast(s) PROVE IInv'
  BY <1>3, BoundAssumption
     DEF CallBroadcast, Goto, TypeOK, LockInv, MembersMatch, Idle, InCritical, Users
<1>4. ASSUME NEW r \in Receivers, Dequeue(r) PROVE IInv'
  <2>1. r \in Users /\ mqueue[r] \in Seq(Message) /\ mqueue[r] # <<>>
    BY <1>4 DEF Dequeue, TypeOK, Users
  <2>2. Tail(mqueue[r]) \in Seq(Message)
    BY <2>1, HeadTailProperties
  <2>3. mqueue' \in [Users -> Seq(Message)]
    BY <1>4, <2>1, <2>2 DEF Dequeue, TypeOK
  <2> QED BY <1>4, <2>1, <2>3
             DEF Dequeue, Goto, TypeOK, LockInv, MembersMatch, Idle, InCritical
<1>5. ASSUME NEW r \in Receivers, Delivered(r) PROVE IInv'
  BY <1>5 DEF Delivered, Goto, TypeOK, LockInv, MembersMatch, Idle, InCritical, Users
<1>6. ASSUME NEW r \in Receivers, Undeliverable(r) PROVE IInv'
  BY <1>6 DEF Undeliverable, Goto, TypeOK, LockInv, MembersMatch, Idle, InCritical, Users
<1> QED BY <1>1, <1>2, <1>3, <1>4, <1>5, <1>6

\* The steps of add_member, remove_member and broadcast_message.
LEMMA MethodPreserves ==
  ASSUME IInv,
         \/ \E u \in Users : AddLock(u) \/ RemoveLock(u) \/ Critical(u)
         \/ \E s \in Senders : BcastLock(s)
  PROVE  IInv'
<1> USE DEF IInv
<1>0. Free \notin Users /\ Senders \subseteq Users /\ Senders \cap Receivers = {}
  BY UserAssumption DEF Users
<1>1. ASSUME NEW u \in Users, AddLock(u) PROVE IInv'
  BY <1>1, <1>0 DEF AddLock, Acquire, Goto, TypeOK, LockInv, MembersMatch, Idle, InCritical
<1>2. ASSUME NEW u \in Users, RemoveLock(u) PROVE IInv'
  BY <1>2, <1>0 DEF RemoveLock, Acquire, Goto, TypeOK, LockInv, MembersMatch, Idle, InCritical
<1>3. ASSUME NEW s \in Senders, BcastLock(s) PROVE IInv'
  BY <1>3, <1>0 DEF BcastLock, Acquire, Goto, TypeOK, LockInv, MembersMatch, Idle, InCritical
<1>4. ASSUME NEW u \in Users, Insert(u) PROVE IInv'
  BY <1>4, <1>0 DEF Insert, Goto, TypeOK, LockInv, MembersMatch, Idle, InCritical
<1>5. ASSUME NEW u \in Users, Erase(u) PROVE IInv'
  <2> USE <1>5, <1>0 DEF Erase, Goto
  <2>1. inRoom' \in [Users -> BOOLEAN]
    <3>1. (u \in Receivers) \in BOOLEAN
      OBVIOUS
    <3> HIDE <1>0
    <3> QED BY <3>1, Zenon DEF TypeOK
  <2>2. TypeOK'
    BY <2>1 DEF TypeOK, Idle, InCritical
  <2>3. LockInv'
    BY DEF TypeOK, LockInv, Idle, InCritical
  <2>4. MembersMatch'
    <3>1. \A v \in Users : v # u => inRoom'[v] = inRoom[v]
      BY DEF TypeOK
    <3>2. u \in Senders => ~inRoom'[u]
      BY DEF TypeOK
    <3> QED BY <3>1, <3>2 DEF MembersMatch
  <2> QED BY <2>2, <2>3, <2>4
<1>6. ASSUME NEW u \in Users, Unlock(u) PROVE IInv'
  BY <1>6, <1>0 DEF Unlock, Release, Goto, TypeOK, LockInv, MembersMatch, Idle, InCritical
<1>7. ASSUME NEW s \in Senders, Walk(s) PROVE IInv'
  <2>1. PICK u \in members \ visited :
          LET m == <<s, sent[s]>> IN
          /\ visited' = visited \cup {u}
          /\ IF Name[u] # Name[s]
             THEN /\ mqueue' = [mqueue EXCEPT ![u] = Append(@, m)]
                  /\ log' = [log EXCEPT ![u] = Append(@, m)]
             ELSE UNCHANGED <<mqueue, log>>
    BY <1>7 DEF Walk
  <2>2. <<s, sent[s]>> \in Message /\ u \in Users /\ pc[s] = "walk"
    BY <1>7, <1>0 DEF Walk, TypeOK, Message
  <2>3. mqueue' \in [Users -> Seq(Message)] /\ log' \in [Users -> Seq(Message)]
    <3>1. /\ Append(mqueue[u], <<s, sent[s]>>) \in Seq(Message)
          /\ Append(log[u], <<s, sent[s]>>) \in Seq(Message)
      BY <2>2, AppendProperties DEF TypeOK
    <3>2. CASE Name[u] # Name[s]
      BY <2>1, <2>2, <3>1, <3>2 DEF TypeOK
    <3>3. CASE Name[u] = Name[s]
      BY <2>1, <3>3 DEF TypeOK
    <3> QED BY <3>2, <3>3
  <2>4. TypeOK'
    BY <1>7, <2>1, <2>2, <2>3 DEF Walk, TypeOK
  <2>5. UNCHANGED <<lock, members, pc, inRoom>>
    BY <1>7 DEF Walk
  <2>6. LockInv' /\ MembersMatch'
    BY <2>5 DEF LockInv, MembersMatch
  <2> QED BY <2>4, <2>6
<1>8. ASSUME NEW s \in Senders, WalkDone(s) PROVE IInv'
  BY <1>8, <1>0 DEF WalkDone, Goto, TypeOK, LockInv, MembersMatch, Idle, InCritical
<1> QED BY <1>1, <1>2, <1>3, <1>4, <1>5, <1>6, <1>7, <1>8 DEF Critical

LEMMA NextPreserves == IInv /\ [Next]_vars => IInv'
<1> SUFFICES ASSUME IInv, [Next]_vars PROVE IInv'
  OBVIOUS
<1>1. CASE UNCHANGED vars
  BY <1>1 DEF vars, IInv, TypeOK, LockInv, MembersMatch
<1>2. CASE Next
  BY <1>2, CallPreserves, MethodPreserves DEF Next
<1> QED BY <1>1, <1>2

\* Whatever the workers call, and in any order: types, mutual exclusion, and a
\* sender whose users_room is the room is one of its members.
THEOREM RoomInvariant == Spec => []IInv
BY InitIInv, NextPreserves, PTL DEF Spec

\* insert and erase never happen under a walk of the set (room.cpp:33).
THEOREM RoomWalkStable == Spec => WalkStable
<1>1. IInv /\ [Next]_vars
      => [members' # members => \A s \in Senders : pc[s] # "walk"]_vars
  <2> SUFFICES ASSUME IInv, Next, members' # members, NEW s \in Senders, pc[s] = "walk"
               PROVE  FALSE
    BY DEF vars
  <2>1. s \in Users /\ lock = s
    BY DEF IInv, LockInv, Users, InCritical
  <2>2. PICK u \in Users : Insert(u) \/ Erase(u)
    BY DEF Next, Critical, CallAdd, AddLock, RemoveLock, Unlock, Walk, WalkDone,
           CallRemove, CallBroadcast, BcastLock, Dequeue, Delivered, Undeliverable
  <2>3. pc[u] \in {"insert", "erase"} /\ lock = u
    BY <2>2 DEF Insert, Erase, Goto, IInv, LockInv, InCritical
  <2> QED BY <2>1, <2>3
<1>2. Spec => []IInv
  BY InitIInv, NextPreserves, PTL DEF Spec
<1> QED BY <1>1, <1>2, PTL DEF Spec, WalkStable

-----------------------------------------------------------------------------
(***************************************************************************)
(* Refinement.  Only five steps change what AtomicRoom sees: insert,       *)
(* erase, the pop of a dequeue, and the acquisition of the mutex by a      *)
(* broadcast, which is where it takes effect for everybody.                *)
(***************************************************************************)
\* No walk is under way while another worker is in its critical section.
LEMMA NotWalking ==
  ASSUME IInv
  PROVE  /\ lock = Free => ~Walking
         /\ \A u \in Users : pc[u] \in InCritical \ {"walk"} => ~Walking /\ lock = u
         /\ Walking => lock \in Senders /\ pc[lock] = "walk"
BY DEF IInv, TypeOK, LockInv, Walking, InCritical, Users

LEMMA BarIdle ==
  ASSUME IInv, ~Walking
  PROVE  QueueBar = mqueue
BY DEF QueueBar, IInv, TypeOK

LEMMA RefInit == Init => Atomic!Init
BY DEF Init, Atomic!Init, QueueBar, Walking

LEMMA RefInsert ==
  ASSUME IInv, IInv', NEW u \in Users, Insert(u)
  PROVE  Atomic!Join(u)
<1>1. ~Walking /\ ~Walking'
  <2>1. pc[u] = "insert" /\ pc'[u] = "unlock"
    BY DEF Insert, Goto, IInv, TypeOK
  <2>2. lock = u /\ lock' = u
    BY <2>1, NotWalking DEF Insert, InCritical
  <2> QED BY <2>1, <2>2 DEF Walking
<1>2. QueueBar = mqueue /\ QueueBar' = mqueue'
  BY <1>1 DEF QueueBar, IInv, TypeOK
<1> QED BY <1>2 DEF Insert, Atomic!Join

LEMMA RefErase ==
  ASSUME IInv, IInv', NEW u \in Users, Erase(u)
  PROVE  Atomic!Leave(u)
<1>1. ~Walking /\ ~Walking'
  <2>1. pc[u] = "erase" /\ pc'[u] = "unlock"
    BY DEF Erase, Goto, IInv, TypeOK
  <2>2. lock = u /\ lock' = u
    BY <2>1, NotWalking DEF Erase, InCritical
  <2> QED BY <2>1, <2>2 DEF Walking
<1>2. QueueBar = mqueue /\ QueueBar' = mqueue'
  BY <1>1 DEF QueueBar, IInv, TypeOK
<1> QED BY <1>2 DEF Erase, Atomic!Leave

LEMMA RefBcastLock ==
  ASSUME IInv, IInv', NEW s \in Senders, BcastLock(s)
  PROVE  /\ <<s, sent[s]>> \in Message
         /\ Atomic!Broadcast(s, <<s, sent[s]>>)
<1>0. s \in Users /\ s # Free
  BY UserAssumption DEF Users
<1>1. <<s, sent[s]>> \in Message
  BY <1>0 DEF BcastLock, Goto, IInv, TypeOK, Message
<1>2. ~Walking /\ QueueBar = mqueue
  BY NotWalking, BarIdle DEF BcastLock, Acquire
<1>3. Walking' /\ lock' = s /\ visited' = {} /\ sent' = sent
  BY <1>0 DEF BcastLock, Acquire, Goto, Walking, IInv, TypeOK
<1>4. QueueBar' = Atomic!Deliver(mqueue, members, s, <<s, sent[s]>>)
  BY <1>3 DEF QueueBar, Atomic!Deliver, BcastLock
<1> QED BY <1>1, <1>2, <1>4 DEF Atomic!Broadcast, BcastLock

LEMMA RefWalk ==
  ASSUME IInv, IInv', NEW s \in Senders, Walk(s)
  PROVE  UNCHANGED Atomic!vars
<1>0. s \in Users /\ s # Free /\ pc[s] = "walk" /\ lock = s /\ Walking /\ Walking'
  BY UserAssumption DEF Users, Walk, Walking, IInv, LockInv, InCritical
<1>1. PICK u \in members \ visited :
        LET m == <<s, sent[s]>> IN
        /\ visited' = visited \cup {u}
        /\ IF Name[u] # Name[s]
           THEN /\ mqueue' = [mqueue EXCEPT ![u] = Append(@, m)]
                /\ log' = [log EXCEPT ![u] = Append(@, m)]
           ELSE UNCHANGED <<mqueue, log>>
  BY DEF Walk
<1>2. u \in Users /\ mqueue \in [Users -> Seq(Message)]
  BY DEF IInv, TypeOK
<1>3. UNCHANGED <<lock, members, sent>>
  BY DEF Walk
<1>4. ASSUME NEW v \in Users PROVE QueueBar'[v] = QueueBar[v]
  <2>1. CASE v = u
    BY <2>1, <1>0, <1>1, <1>2, <1>3 DEF QueueBar
  <2>2. CASE v # u
    <3>1. mqueue'[v] = mqueue[v] /\ (v \in members \ visited' <=> v \in members \ visited)
      BY <2>2, <1>1, <1>2
    <3> QED BY <3>1, <1>0, <1>3 DEF QueueBar
  <2> QED BY <2>1, <2>2
<1>5. QueueBar' = QueueBar
  BY <1>4 DEF QueueBar
<1> QED BY <1>3, <1>5 DEF Atomic!vars

LEMMA RefWalkDone ==
  ASSUME IInv, IInv', NEW s \in Senders, WalkDone(s)
  PROVE  UNCHANGED Atomic!vars
<1>0. s \in Users /\ lock = s /\ pc[s] = "walk" /\ pc'[s] = "unlock" /\ lock' = s
  BY DEF Users, WalkDone, Goto, IInv, LockInv, InCritical, TypeOK
<1>1. ~Walking' /\ QueueBar' = mqueue'
  BY <1>0 DEF Walking, QueueBar, IInv, TypeOK
<1>2. QueueBar = mqueue
  <2>1. members \ visited = {}
    BY DEF WalkDone
  <2> QED BY <2>1 DEF QueueBar, IInv, TypeOK
<1> QED BY <1>1, <1>2 DEF WalkDone, Atomic!vars

LEMMA RefDequeue ==
  ASSUME IInv, IInv', NEW r \in Receivers, Dequeue(r)
  PROVE  r \in Users /\ Atomic!Dequeue(r)
<1>0. r \in Users /\ mqueue \in [Users -> Seq(Message)] /\ mqueue[r] # <<>>
  BY DEF Users, Dequeue, IInv, TypeOK
<1>1. /\ UNCHANGED <<lock, members, visited, sent>> /\ Walking' = Walking
      /\ mqueue' = [mqueue EXCEPT ![r] = Tail(@)]
  BY <1>0, NotWalking DEF Dequeue, Goto, Walking, IInv, TypeOK
<1>2. \A m \in Message : /\ Append(mqueue[r], m) # <<>>
                         /\ Tail(Append(mqueue[r], m)) = Append(Tail(mqueue[r]), m)
  BY <1>0, HeadTailAppend, AppendProperties
<1>3. Walking => <<lock, sent[lock]>> \in Message
  BY NotWalking DEF IInv, TypeOK, Message, Users
<1>4. QueueBar[r] # <<>> /\ QueueBar'[r] = Tail(QueueBar[r])
  BY <1>0, <1>1, <1>2, <1>3 DEF QueueBar
<1>5. ASSUME NEW v \in Users, v # r PROVE QueueBar'[v] = QueueBar[v]
  BY <1>0, <1>1, <1>5 DEF QueueBar
<1>6. QueueBar' = [QueueBar EXCEPT ![r] = Tail(@)]
  BY <1>0, <1>4, <1>5 DEF QueueBar
<1> QED BY <1>0, <1>1, <1>4, <1>6 DEF Atomic!Dequeue

\* Every other step leaves the queues and any walk alone.
LEMMA RefStutter ==
  ASSUME IInv, IInv',
         \/ \E u \in Users : CallAdd(u) \/ AddLock(u) \/ RemoveLock(u) \/ Unlock(u)
         \/ \E s \in Senders : CallRemove(s) \/ CallBroadcast(s)
         \/ \E r \in Receivers : Delivered(r) \/ Undeliverable(r)
  PROVE  UNCHANGED Atomic!vars
<1>0. UNCHANGED <<members, mqueue, visited>>
  BY DEF CallAdd, AddLock, RemoveLock, Unlock, CallRemove, CallBroadcast,
         Delivered, Undeliverable
<1>1. PICK u \in Users :
        /\ pc[u] # "walk" /\ pc'[u] # "walk"
        /\ \A v \in Users : v # u => pc'[v] = pc[v]
        /\ \A s \in Senders : s # u => sent'[s] = sent[s]
        /\ \/ lock' = lock
           \/ lock = Free /\ lock' = u
           \/ lock = u /\ lock' = Free
  <2>1. ASSUME NEW u \in Users, CallAdd(u) \/ AddLock(u) \/ RemoveLock(u) \/ Unlock(u)
        PROVE  /\ pc[u] # "walk" /\ pc'[u] # "walk"
               /\ \A v \in Users : v # u => pc'[v] = pc[v]
               /\ \A s \in Senders : s # u => sent'[s] = sent[s]
               /\ lock' = lock \/ (lock = Free /\ lock' = u) \/ (lock = u /\ lock' = Free)
    BY <2>1 DEF CallAdd, AddLock, RemoveLock, Unlock, Goto, Acquire, Release, IInv, TypeOK
  <2>2. ASSUME NEW u \in Senders, CallRemove(u) \/ CallBroadcast(u)
        PROVE  /\ pc[u] # "walk" /\ pc'[u] # "walk"
               /\ \A v \in Users : v # u => pc'[v] = pc[v]
               /\ \A s \in Senders : s # u => sent'[s] = sent[s]
               /\ lock' = lock
    BY <2>2 DEF CallRemove, CallBroadcast, Goto, IInv, TypeOK, Users
  <2>3. ASSUME NEW u \in Receivers, Delivered(u) \/ Undeliverable(u)
        PROVE  /\ pc[u] # "walk" /\ pc'[u] # "walk"
               /\ \A v \in Users : v # u => pc'[v] = pc[v]
               /\ sent' = sent /\ lock' = lock
    BY <2>3 DEF Delivered, Undeliverable, Goto, IInv, TypeOK, Users
  <2> QED BY <2>1, <2>2, <2>3 DEF Users
<1>2. CASE Walking
  <2>1. lock \in Senders /\ lock # u /\ lock # Free
    BY <1>1, <1>2, NotWalking DEF Walking
  <2>2. lock' = lock /\ Walking' /\ sent'[lock] = sent[lock]
    BY <1>1, <1>2, <2>1 DEF Walking, Users
  <2>3. QueueBar' = QueueBar
    BY <1>0, <1>2, <2>2 DEF QueueBar
  <2> QED BY <1>0, <2>3 DEF Atomic!vars
<1>3. CASE ~Walking
  <2>1. ~Walking'
    BY <1>1, <1>3, UserAssumption DEF Walking, IInv, TypeOK
  <2>2. QueueBar = mqueue /\ QueueBar' = mqueue'
    BY <1>3, <2>1 DEF QueueBar, IInv, TypeOK
  <2> QED BY <1>0, <2>2 DEF Atomic!vars
<1> QED BY <1>2, <1>3

\* A room whose broadcasts enqueue one by one under the mutex is
\* indistinguishable from one that delivers to all members at once
\* (room.cpp:18-40): this is what lets ChatServer use single steps.
THEOREM RoomRefinesAtomic == Spec => AtomicSpec
<1>1. IInv /\ IInv' /\ [Next]_vars => [Atomic!Next]_(Atomic!vars)
  <2> SUFFICES ASSUME IInv, IInv', [Next]_vars PROVE [Atomic!Next]_(Atomic!vars)
    OBVIOUS
  <2>1. CASE UNCHANGED vars
    BY <2>1 DEF vars, Atomic!vars, QueueBar, Walking
  <2>2. ASSUME NEW u \in Users, Critical(u) PROVE [Atomic!Next]_(Atomic!vars)
    BY <2>2, RefInsert, RefErase, RefWalk, RefWalkDone, RefStutter DEF Critical, Atomic!Next
  <2>3. ASSUME NEW s \in Senders, BcastLock(s) PROVE [Atomic!Next]_(Atomic!vars)
    BY <2>3, RefBcastLock DEF Atomic!Next, Users
  <2>4. ASSUME NEW r \in Receivers, Dequeue(r) PROVE [Atomic!Next]_(Atomic!vars)
    BY <2>4, RefDequeue DEF Atomic!Next
  <2>5. CASE \/ \E u \in Users : CallAdd(u) \/ AddLock(u) \/ RemoveLock(u)
             \/ \E s \in Senders : CallRemove(s) \/ CallBroadcast(s)
             \/ \E r \in Receivers : Delivered(r) \/ Undeliverable(r)
    BY <2>5, RefStutter
  <2> QED BY <2>1, <2>2, <2>3, <2>4, <2>5 DEF Next
<1>2. Spec => []IInv
  BY InitIInv, NextPreserves, PTL DEF Spec
<1> QED BY <1>1, <1>2, RefInit, PTL DEF Spec, AtomicSpec, Atomic!Spec

-----------------------------------------------------------------------------
(***************************************************************************)
(* The map of the rooms.                                                   *)
(***************************************************************************)
\* Nobody is in the map at first, and it is empty.
LEMMA LookupBegins == LookupInit => LookupInv
BY DirectoryAssumption DEF LookupInit, LookupInv, LookupType, Holding

\* A step of one worker: the map and the rooms change only in its hands.
LEMMA LookupPreserves ==
  ASSUME LookupInv, NEW w \in Workers, Call(w) \/ Step(w)
  PROVE  LookupInv'
<1> USE DirectoryAssumption DEF LookupInv, LookupType, Proceed, Holding, Named
<1>1. CASE Call(w) BY <1>1 DEF Call
<1>2. CASE Lock(w) BY <1>2 DEF Lock
<1>3. CASE Look(w) BY <1>3 DEF Look
<1>4. CASE Make(w) BY <1>4 DEF Make
<1>5. CASE Place(w) BY <1>5 DEF Place
<1>6. CASE Link(w) BY <1>6 DEF Link
<1>7. CASE Return(w) BY <1>7 DEF Return
<1>8. CASE Leave(w) BY <1>8 DEF Leave
<1> QED BY <1>1, <1>2, <1>3, <1>4, <1>5, <1>6, <1>7, <1>8 DEF Step

\* The mutex keeps the workers out of each other's way in the map, and every Room
\* that is made is found under its name (server.cpp:256-267).
THEOREM DirectoryInvariant == LookupSpec => []LookupInv
<1>1. LookupInv /\ [LookupNext]_lookupVars => LookupInv'
  <2> SUFFICES ASSUME LookupInv, [LookupNext]_lookupVars PROVE LookupInv'
    OBVIOUS
  <2>1. CASE UNCHANGED lookupVars BY <2>1 DEF lookupVars, LookupInv, LookupType, Named
  <2> QED BY <2>1, LookupPreserves DEF LookupNext
<1> QED BY <1>1, LookupBegins, PTL DEF LookupSpec

\* A worker that links a node has the one room of that name made; one that finds
\* the name has what was linked.
LEMMA LookupRefines ==
  ASSUME LookupInv, LookupInv', NEW w \in Workers, Call(w) \/ Step(w)
  PROVE  D!Find(w, room_name[w]) \/ UNCHANGED <<m_rooms, Found>>
<1> USE DirectoryAssumption DEF LookupInv, LookupType, Proceed, Holding, Named, Found
<1>1. CASE Link(w)
  <2>1. /\ stage[w] = "link" /\ stage' = [stage EXCEPT ![w] = "at"]
        /\ m_rooms' = [m_rooms EXCEPT ![room_name[w]] = new_room[w]]
        /\ UNCHANGED <<room_name, result>>
    BY <1>1 DEF Link
  <2>2. \A v \in Workers : v # w => stage[v] # "at"
    BY <2>1
  <2>3. Found' = [Found EXCEPT ![w] = m_rooms'[room_name[w]]]
    BY <2>1, <2>2
  <2>4. new_room[w] \in Objects \ {m_rooms[k] : k \in RoomNames} /\ m_rooms[room_name[w]] = NoRoom
    BY <2>1
  <2>5. D!Find(w, room_name[w])
    BY <2>1, <2>3, <2>4 DEF D!Find
  <2> QED BY <2>5
<1>2. CASE (Look(w) \/ Place(w)) /\ Named(w) # NoRoom
  <2>1. /\ stage' = [stage EXCEPT ![w] = "at"] /\ stage[w] \in {"find", "insert"}
        /\ UNCHANGED <<m_rooms, room_name, result>>
    BY <1>2 DEF Look, Place
  <2>2. Found' = [Found EXCEPT ![w] = m_rooms[room_name[w]]]
    BY <2>1
  <2>3. D!Find(w, room_name[w])
    BY <1>2, <2>1, <2>2 DEF D!Find
  <2> QED BY <2>3
<1>3. CASE (Look(w) \/ Place(w)) /\ Named(w) = NoRoom
  <2>1. /\ stage[w] # "at" /\ stage'[w] # "at" /\ \A v \in Workers : v # w => stage'[v] = stage[v]
        /\ UNCHANGED <<m_rooms, room_name, result>>
    BY <1>3 DEF Look, Place
  <2>2. Found' = Found
    BY <2>1
  <2> QED BY <2>1, <2>2
<1>4. CASE Call(w)
  <2>1. /\ stage[w] # "at" /\ stage'[w] # "at"
        /\ \A v \in Workers : v # w => stage'[v] = stage[v] /\ room_name'[v] = room_name[v]
        /\ UNCHANGED <<m_rooms, result>>
    BY <1>4 DEF Call
  <2>2. Found' = Found
    BY <2>1
  <2> QED BY <2>1, <2>2
<1>5. CASE Lock(w) BY <1>5 DEF Lock
<1>6. CASE Make(w) BY <1>6 DEF Make
<1>7. CASE Return(w) BY <1>7 DEF Return
<1>8. CASE Leave(w) BY <1>8 DEF Leave
<1> QED BY <1>1, <1>2, <1>3, <1>4, <1>5, <1>6, <1>7, <1>8 DEF Step

\* However many workers call find_or_create_room at once, a name has one room for
\* ever and every caller gets it (server.cpp:256-267).
THEOREM DirectoryRefines == LookupSpec => DirectorySpec
<1>1. LookupInit => D!Init
  BY DEF LookupInit, D!Init, Found
<1>2. LookupInv /\ LookupInv' /\ [LookupNext]_lookupVars => [D!Next]_(D!vars)
  <2> SUFFICES ASSUME LookupInv, LookupInv', [LookupNext]_lookupVars PROVE [D!Next]_(D!vars)
    OBVIOUS
  <2>1. CASE UNCHANGED lookupVars BY <2>1 DEF lookupVars, D!vars, Found, Named
  <2>2. ASSUME NEW w \in Workers, Call(w) \/ Step(w) PROVE [D!Next]_(D!vars)
    <3>1. room_name[w] \in RoomNames
      BY DEF LookupInv, LookupType
    <3> QED BY <2>2, <3>1, LookupRefines DEF D!Next, D!vars
  <2> QED BY <2>1, <2>2 DEF LookupNext
<1> QED BY <1>1, <1>2, DirectoryInvariant, PTL DEF LookupSpec, DirectorySpec, D!Spec
=============================================================================
