---------------------------- MODULE CachePolicy ----------------------------
(***************************************************************************)
(* What a replacement policy promises, without time stamps or slots: each  *)
(* set of the cache keeps its blocks in a line, the next to be evicted in  *)
(* front.  A block joins at the back; under LRU a hit sends it there too.  *)
(***************************************************************************)
EXTENDS Naturals, SequencesExt

CONSTANTS Sets,         \* the indices of the sets
          Tags,         \* the tags a block may have
          Ways          \* blocks per set

VARIABLES line,         \* line[x]: the tags held by set x
          lru           \* TRUE for LRU, FALSE for FIFO

vars == <<line, lru>>

Held(x) == {line[x][n] : n \in 1..Len(line[x])}

Init == /\ line = [x \in Sets |-> <<>>]
        /\ lru \in BOOLEAN

Hit(x, t) == \E n \in 1..Len(line[x]) :
               /\ line[x][n] = t
               /\ line' = [line EXCEPT ![x] = IF lru THEN Append(RemoveAt(@, n), t) ELSE @]
               /\ UNCHANGED lru

Fill(x, t) == /\ t \notin Held(x)
              /\ line' = [line EXCEPT ![x] =
                            Append(IF Len(@) = Ways THEN Tail(@) ELSE @, t)]
              /\ UNCHANGED lru

Next == \E x \in Sets, t \in Tags : Hit(x, t) \/ Fill(x, t)

Spec == Init /\ [][Next]_vars
=============================================================================
