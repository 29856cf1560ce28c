----------------------------- MODULE AtomicRoom -----------------------------
(***************************************************************************)
(* What a chat room promises to the worker threads that use it: add,       *)
(* remove and broadcast happen one at a time, and a broadcast reaches, in  *)
(* one step, the queue of every member whose name is not the sender's.     *)
(***************************************************************************)
EXTENDS Delivery

CONSTANT Message        \* what may be broadcast

VARIABLES members,      \* the users in the room
          mqueue        \* mqueue[u]: messages waiting for u, oldest first

vars == <<members, mqueue>>

Init == /\ members = {}
        /\ mqueue = [u \in Users |-> <<>>]

Join(u)  == members' = members \cup {u} /\ UNCHANGED mqueue
Leave(u) == members' = members \ {u} /\ UNCHANGED mqueue

Broadcast(w, m) == /\ mqueue' = Deliver(mqueue, members, w, m)
                   /\ UNCHANGED members

Dequeue(u) == /\ mqueue[u] # <<>>
              /\ mqueue' = [mqueue EXCEPT ![u] = Tail(@)]
              /\ UNCHANGED members

Next == \E u \in Users : \/ Join(u) \/ Leave(u) \/ Dequeue(u)
                         \/ \E m \in Message : Broadcast(u, m)

Spec == Init /\ [][Next]_vars
=============================================================================
