------------------------------- MODULE MCRoom -------------------------------
(***************************************************************************)
(* Two senders and two receivers; one person both sends (a1) and listens   *)
(* (a2) under one username, the case the name filter at room.cpp:34 is for.*)
(***************************************************************************)
EXTENDS Room

CONSTANTS a1, b, a2, c

MCSenders   == {a1, b}
MCReceivers == {a2, c}
MCName == [u \in {a1, b, a2, c} |-> CASE u \in {a1, a2} -> "alice"
                                      [] u = b -> "bob"
                                      [] u = c -> "carol"]
=============================================================================
