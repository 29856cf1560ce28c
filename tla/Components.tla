----------------------------- MODULE Components -----------------------------
(***************************************************************************)
(* The reference the two image programs are compared with: the connected   *)
(* components an undirected set of edges makes of a set of nodes.          *)
(***************************************************************************)
EXTENDS FiniteSetsExt

Partition(nodes, E) ==
    LET Absorb(e, parts) ==
            LET met == {P \in parts : P \cap {e.from, e.to} # {}}
            IN  (parts \ met) \cup {UNION met}
    IN  FoldSet(Absorb, {{n} : n \in nodes}, E)

\* No edge leads out of C: what the proofs know components by.
NoneLeaves(C, E) == \A e \in E : e.from \in C <=> e.to \in C
=============================================================================
