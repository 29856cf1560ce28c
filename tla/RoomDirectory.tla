--------------------------- MODULE RoomDirectory ----------------------------
(***************************************************************************)
(* Server::find_or_create_room (hw5/server.cpp): the map of the rooms      *)
(* under the server's mutex, called by the workers of all clients that     *)
(* join.  An insert into the std::map looks for the place of the name and  *)
(* then links its node there; nothing in the map keeps two threads apart.  *)
(***************************************************************************)
CONSTANTS Workers,      \* the threads that call
          RoomNames,
          Objects,      \* the addresses of Room objects
          NoRoom,       \* nullptr
          Unlocked      \* the mutex has no holder

ASSUME DirectoryAssumption == NoRoom \notin Objects /\ Unlocked \notin Workers

VARIABLES m_lock,       \* the server's mutex
          m_rooms,      \* the map
          made,         \* the Room objects there are
          stage,        \* where each worker is
          room_name,    \* the argument of its call
          new_room,     \* what it has made
          result        \* what its last call returned

lookupVars == <<m_lock, m_rooms, made, stage, room_name, new_room, result>>

LookupInit == /\ m_lock = Unlocked
              /\ m_rooms = [n \in RoomNames |-> NoRoom]
              /\ made = {}
              /\ stage = [w \in Workers |-> "idle"]
              /\ room_name \in [Workers -> RoomNames]
              /\ new_room = [w \in Workers |-> NoRoom]
              /\ result = [w \in Workers |-> NoRoom]

Proceed(w, from, to) == stage[w] = from /\ stage' = [stage EXCEPT ![w] = to]
Named(w) == m_rooms[room_name[w]]

\* A plausible wrong version, used by no specification: the guard is forgotten.
LockForgotten(w) == /\ Proceed(w, "lock", "find")
                    /\ UNCHANGED <<m_lock, m_rooms, made, room_name, new_room, result>>

Call(w) == /\ Proceed(w, "idle", "lock")
           /\ \E n \in RoomNames : room_name' = [room_name EXCEPT ![w] = n]
           /\ UNCHANGED <<m_lock, m_rooms, made, new_room, result>>

Lock(w) == /\ Proceed(w, "lock", "find")
           /\ m_lock = Unlocked /\ m_lock' = w
           /\ UNCHANGED <<m_rooms, made, room_name, new_room, result>>

Look(w) == /\ Proceed(w, "find", IF Named(w) = NoRoom THEN "make" ELSE "at")
           /\ UNCHANGED <<m_lock, m_rooms, made, room_name, new_room, result>>

Make(w) == /\ Proceed(w, "make", "insert")
           /\ \E o \in Objects \ made : /\ made' = made \cup {o}
                                        /\ new_room' = [new_room EXCEPT ![w] = o]
           /\ UNCHANGED <<m_lock, m_rooms, room_name, result>>

\* Nothing is inserted for a name that is there.
Place(w) == /\ Proceed(w, "insert", IF Named(w) = NoRoom THEN "link" ELSE "at")
            /\ UNCHANGED <<m_lock, m_rooms, made, room_name, new_room, result>>

Link(w) == /\ Proceed(w, "link", "at")
           /\ m_rooms' = [m_rooms EXCEPT ![room_name[w]] = new_room[w]]
           /\ UNCHANGED <<m_lock, made, room_name, new_room, result>>

\* The mutex is released after the result is there.
Return(w) == /\ Proceed(w, "at", "unlock")
             /\ result' = [result EXCEPT ![w] = Named(w)]
             /\ UNCHANGED <<m_lock, m_rooms, made, room_name, new_room>>

Leave(w) == /\ Proceed(w, "unlock", "idle")
            /\ m_lock' = Unlocked
            /\ UNCHANGED <<m_rooms, made, room_name, new_room, result>>

Step(w) == \/ Lock(w) \/ Look(w) \/ Make(w) \/ Place(w) \/ Link(w) \/ Return(w) \/ Leave(w)

LookupNext == \E w \in Workers : Call(w) \/ Step(w)

LookupSpec == LookupInit /\ [][LookupNext]_lookupVars

-----------------------------------------------------------------------------
Holding == {"find", "make", "insert", "link", "at", "unlock"}

LookupType ==
  /\ m_lock \in Workers \cup {Unlocked}
  /\ m_rooms \in [RoomNames -> Objects \cup {NoRoom}]
  /\ made \subseteq Objects
  /\ stage \in [Workers -> {"idle", "lock"} \cup Holding]
  /\ room_name \in [Workers -> RoomNames]
  /\ new_room \in [Workers -> Objects \cup {NoRoom}]
  /\ result \in [Workers -> Objects \cup {NoRoom}]

\* One worker at a time is in the map; what it is about to insert is a room of
\* its own, and its name has none; all rooms that were made are in the map or
\* in its hands.
LookupInv ==
  /\ LookupType
  /\ \A w \in Workers : stage[w] \in Holding <=> m_lock = w
  /\ \A n \in RoomNames : m_rooms[n] # NoRoom => m_rooms[n] \in made
  /\ \A w \in Workers :
       /\ stage[w] \in {"make", "insert", "link"} => Named(w) = NoRoom
       /\ stage[w] \in {"insert", "link"} => /\ new_room[w] \in made
                                          /\ \A n \in RoomNames : m_rooms[n] # new_room[w]
       /\ stage[w] = "at" => Named(w) # NoRoom
  /\ \A o \in made : \/ \E n \in RoomNames : m_rooms[n] = o
                     \/ \E w \in Workers : stage[w] \in {"insert", "link"} /\ new_room[w] = o

\* A call takes effect when the name is found, or its node linked.
Found == [w \in Workers |-> IF stage[w] = "at" THEN Named(w) ELSE result[w]]

D == INSTANCE Directory WITH rooms <- m_rooms, found <- Found

\* However many workers call at once, a name has one room, for ever, and every
\* caller gets it (server.cpp:256-267).
DirectorySpec == D!Spec
=============================================================================
