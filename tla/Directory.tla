----------------------------- MODULE Directory ------------------------------
(***************************************************************************)
(* What find_or_create_room promises to the workers: one call at a time    *)
(* finds the room of a name, which is made by the first call for the name  *)
(* and is the same for ever after.                                         *)
(***************************************************************************)
CONSTANTS Workers, RoomNames, Objects, NoRoom

VARIABLES rooms,        \* rooms[n]: the Room object of that name, or NoRoom
          found         \* found[w]: what w's last call returned

vars == <<rooms, found>>

Init == /\ rooms = [n \in RoomNames |-> NoRoom]
        /\ found = [w \in Workers |-> NoRoom]

Find(w, n) == /\ IF rooms[n] = NoRoom
                 THEN \E o \in Objects \ {rooms[k] : k \in RoomNames} :
                        rooms' = [rooms EXCEPT ![n] = o]
                 ELSE UNCHANGED rooms
              /\ found' = [found EXCEPT ![w] = rooms'[n]]

Next == \E w \in Workers, n \in RoomNames : Find(w, n)

Spec == Init /\ [][Next]_vars
=============================================================================
