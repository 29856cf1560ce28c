------------------------------ MODULE Delivery ------------------------------
(***************************************************************************)
(* The effect of one broadcast on the users' message queues, shared by     *)
(* AtomicRoom and ChatServer.                                              *)
(***************************************************************************)
EXTENDS Sequences

CONSTANTS Users,        \* the User objects
          Name          \* Name[u]: u's username (two users may share one)

\* The queues after w's message m has gone to the users in set: everyone
\* whose username is not w's, so w's other logins are left out too.
Deliver(queues, set, w, m) ==
  [u \in Users |-> IF u \in set /\ Name[u] # Name[w]
                   THEN Append(queues[u], m) ELSE queues[u]]
=============================================================================
