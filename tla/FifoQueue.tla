----------------------------- MODULE FifoQueue -----------------------------
(***************************************************************************)
(* What a MessageQueue promises to the threads that use it, with no lock   *)
(* and no semaphore: a FIFO queue whose dequeue either hands over the      *)
(* oldest message or gives up, and gives up only when every announced      *)
(* message is already spoken for by another dequeue.                       *)
(***************************************************************************)
EXTENDS Sequences, Naturals, FiniteSets

CONSTANTS Message,      \* everything that may be enqueued
          Consumers,    \* the threads that call dequeue
          Null          \* nullptr, "no message"

VARIABLES queue,        \* the announced messages, oldest first
          call,         \* call[c]: "idle", "trying", or "claimed" a message
          held          \* held[c]: what c's last dequeue returned

vars == <<queue, call, held>>

Claimers == {c \in Consumers : call[c] = "claimed"}

Init == /\ queue = <<>>
        /\ call = [c \in Consumers |-> "idle"]
        /\ held = [c \in Consumers |-> Null]

Enqueue == /\ \E m \in Message : queue' = Append(queue, m)
           /\ UNCHANGED <<call, held>>

\* The caller has disposed of the message of its previous call.
Begin(c) == /\ call[c] = "idle"
            /\ call' = [call EXCEPT ![c] = "trying"]
            /\ held' = [held EXCEPT ![c] = Null]
            /\ UNCHANGED queue

Claim(c) == /\ call[c] = "trying"
            /\ Cardinality(Claimers) < Len(queue)
            /\ call' = [call EXCEPT ![c] = "claimed"]
            /\ UNCHANGED <<queue, held>>

GiveUp(c) == /\ call[c] = "trying"
             /\ Cardinality(Claimers) = Len(queue)
             /\ call' = [call EXCEPT ![c] = "idle"]
             /\ UNCHANGED <<queue, held>>

Take(c) == /\ call[c] = "claimed"
           /\ queue # <<>>
           /\ held' = [held EXCEPT ![c] = Head(queue)]
           /\ queue' = Tail(queue)
           /\ call' = [call EXCEPT ![c] = "idle"]

Next == \/ Enqueue
        \/ \E c \in Consumers : Begin(c) \/ Claim(c) \/ GiveUp(c) \/ Take(c)

Spec == Init /\ [][Next]_vars
=============================================================================
