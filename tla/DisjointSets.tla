---------------------------- MODULE DisjointSets ----------------------------
(***************************************************************************)
(* What the UnionFind interface promises: every item has a label, the same *)
(* for two items exactly when they are in one set; union merges the two    *)
(* sets, under the label of either, and says whether there was anything to *)
(* merge; count is the number of sets.                                     *)
(*                                                                         *)
(* A call is a request and then its answer, which is computed from the     *)
(* labels at the moment of the answer.                                     *)
(***************************************************************************)
EXTENDS Integers, FiniteSets

CONSTANT Items

VARIABLES label,    \* the label of each item
          number,   \* how many sets there are
          request,  \* the call that is being answered, or NoRequest
          answer    \* what the last call returned

NoRequest == [op |-> "none"]
NoAnswer == [none |-> TRUE]
Requests == [op : {"find"}, item : Items] \cup [op : {"union"}, item1 : Items, item2 : Items]

vars == <<label, number, request, answer>>

Init == /\ label = [i \in Items |-> i]
        /\ number = Cardinality(Items)
        /\ request = NoRequest
        /\ answer = NoAnswer

Call == /\ request = NoRequest
        /\ request' \in Requests
        /\ UNCHANGED <<label, number, answer>>

Find == /\ request.op = "find"
        /\ answer' = [label |-> label[request.item]]
        /\ request' = NoRequest
        /\ UNCHANGED <<label, number>>

\* The set labelled b joins the set labelled a.
Relabelled(a, b) == [i \in Items |-> IF label[i] = b THEN a ELSE label[i]]

Merge == /\ request.op = "union"
         /\ LET l1 == label[request.item1]
                l2 == label[request.item2]
            IN  /\ l1 # l2
                /\ label' \in {Relabelled(l1, l2), Relabelled(l2, l1)}
         /\ number' = number - 1
         /\ answer' = [merged |-> TRUE]
         /\ request' = NoRequest

Together == /\ request.op = "union"
            /\ label[request.item1] = label[request.item2]
            /\ answer' = [merged |-> FALSE]
            /\ request' = NoRequest
            /\ UNCHANGED <<label, number>>

Next == Call \/ Find \/ Merge \/ Together

Spec == Init /\ [][Next]_vars
=============================================================================
