----------------------------- MODULE MCParSort -----------------------------
(***************************************************************************)
(* Instances of ParSort: files of six elements, with duplicates, in and    *)
(* out of order; both halves of three are split again, unevenly.           *)
(***************************************************************************)
EXTENDS ParSort

File(s) == [k \in Index |-> s[k + 1]]
Files == {File(<<2, 1, 1, 0, 1, 0>>), File(<<0, 5, 4, 3, 2, 1>>)}
=============================================================================
