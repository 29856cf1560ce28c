---------------------------- MODULE MCChatServer ----------------------------
(***************************************************************************)
(* Instances of ChatServer.  Each cfg picks who connects: senders alice    *)
(* and bob, a receiver carol, a second login of alice that listens, and a  *)
(* stranger that does not log in.                                          *)
(***************************************************************************)
EXTENDS ChatServer, TLC

CONSTANTS alice, bob, carol, alice2, stranger

Who(set) == [c \in set |-> CASE c \in {alice, bob}    -> "slogin"
                             [] c \in {carol, alice2} -> "rlogin"
                             [] OTHER                 -> "other"]
Username(set) == [c \in set |-> CASE c \in {alice, alice2} -> "alice"
                                  [] c = bob               -> "bob"
                                  [] c = carol             -> "carol"
                                  [] OTHER                 -> "stranger"]

\* Chat: two senders, a receiver under the name of one of them, which may
\* leave, and a stranger.
ChatClients == {alice, bob, alice2, stranger}
ChatRole    == Who(ChatClients)
ChatName    == Username(ChatClients)

\* Leak: one sender, one receiver, which may leave.
PairClients == {bob, carol}
PairRole    == Who(PairClients)
PairName    == Username(PairClients)

\* The rooms' names play no part; used where no liveness is checked.
RoomSymmetry == Permutations(RoomNames)
=============================================================================
