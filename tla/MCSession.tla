----------------------------- MODULE MCSession ------------------------------
(***************************************************************************)
(* The instance of Session: bob types into sender, carol runs receiver.    *)
(***************************************************************************)
EXTENDS Session

CONSTANTS bob, carol, r1, r2

MCClients == {bob, carol}
MCRole    == [c \in MCClients |-> IF c = bob THEN "slogin" ELSE "rlogin"]
MCName    == [c \in MCClients |-> IF c = bob THEN "bob" ELSE "carol"]
MCRoomArg == [c \in {carol} |-> r1]
=============================================================================
