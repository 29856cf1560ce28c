--------------------------- MODULE ParSortProofs ----------------------------
(***************************************************************************)
(* For any file, threshold and depth of the tree, and any number of forks  *)
(* that fail and processes that die: a process that writes has its part of *)
(* the file for itself, an exit status of 0 means a sorted range with the  *)
(* values it had, no value is lost but in an unfinished copy, and the only *)
(* orphans are those of a dead parent or of a failed second fork.          *)
(*                                                                         *)
(* All of it follows from one inductive invariant, SortIInv.  Its parts    *)
(* are kept in the order of the sections below: the tree of processes, the *)
(* parts of the file, and the data in them.  The steps are dealt with in   *)
(* two groups, forks and the others, which change one process only.        *)
(***************************************************************************)
EXTENDS ParSort, SequenceTheorems, FunctionTheorems, FiniteSetTheorems, TLAPS

(***************************************************************************)
(* Processes as paths.                                                     *)
(***************************************************************************)
\* A process is a path of at most MaxDepth turns.
LEMMA ProcIsPath ==
  ASSUME NEW p \in Procs
  PROVE  /\ p \in Seq({0, 1}) /\ Len(p) \in 0..MaxDepth /\ Len(p) \in Nat
         /\ p \in [1..Len(p) -> {0, 1}]
<1>1. PICK n \in 0..MaxDepth : p \in [1..n -> {0, 1}]
  BY DEF Procs
<1>2. n \in Nat
  BY BoundAssumption
<1>3. p \in Seq({0, 1}) /\ Len(p) = n
  BY <1>1, <1>2
<1> QED BY <1>1, <1>2, <1>3

\* Every path that is not too long is a process.
LEMMA PathIsProc ==
  ASSUME NEW p \in Seq({0, 1}), Len(p) <= MaxDepth
  PROVE  p \in Procs
<1>1. Len(p) \in 0..MaxDepth /\ p \in [1..Len(p) -> {0, 1}]
  BY BoundAssumption
<1> QED BY <1>1 DEF Procs

\* The program itself is a process, and every other process is below it.
LEMMA MainIsTop ==
  /\ Main \in Procs /\ Len(Main) = 0 /\ Ancestors(Main) = {}
  /\ \A p \in Procs \ {Main} : Main \in Ancestors(p)
<1>1. Main \in Seq({0, 1}) /\ Len(Main) = 0 /\ 0 <= MaxDepth
  BY BoundAssumption DEF Main
<1>2. Main \in Procs
  BY <1>1, PathIsProc
<1>3. \A q \in Procs : ~ Above(q, Main)
  BY <1>1, ProcIsPath DEF Above
<1>4. ASSUME NEW p \in Procs, p # Main PROVE Above(Main, p)
  <2>1. Len(p) # 0
    BY <1>4, ProcIsPath, EmptySeq DEF Main
  <2> QED BY <1>1, <2>1, ProcIsPath DEF Above
<1> QED BY <1>1, <1>2, <1>3, <1>4 DEF Ancestors

\* The path to a child is one turn longer.
LEMMA ChildIsPath ==
  ASSUME NEW p \in Procs, NEW side \in {0, 1}
  PROVE  /\ Child(p, side) \in Seq({0, 1}) /\ Len(Child(p, side)) = Len(p) + 1
         /\ Child(p, side)[Len(p) + 1] = side
         /\ \A k \in 1..Len(p) : Child(p, side)[k] = p[k]
BY ProcIsPath DEF Child

\* A child is a process of the tree, one deeper than its parent, and is the
\* child of no other.
LEMMA ChildIsProcess ==
  ASSUME NEW p \in Procs, NEW side \in {0, 1}, Len(p) < MaxDepth
  PROVE  /\ Child(p, side) \in Procs
         /\ Child(p, side) # Main
         /\ Child(p, side) # p
<1>1. Len(p) \in Nat /\ Len(p) + 1 <= MaxDepth
  BY ProcIsPath, BoundAssumption
<1>2. Child(p, side) \in Procs
  BY <1>1, ChildIsPath, PathIsProc
<1> QED BY <1>1, <1>2, ChildIsPath, MainIsTop

\* A process has one parent and one side.
LEMMA OneParent ==
  ASSUME NEW p \in Procs, NEW q \in Procs, NEW s \in {0, 1}, NEW t \in {0, 1},
         Child(p, s) = Child(q, t)
  PROVE  p = q /\ s = t
<1>1. Len(p) = Len(q)
  BY ChildIsPath, ProcIsPath
<1>2. \A k \in 1..Len(p) : p[k] = q[k]
  BY <1>1, ChildIsPath
<1>3. p = q
  BY <1>1, <1>2, ProcIsPath, SeqEqual
<1> QED BY <1>1, <1>3, ChildIsPath

\* Every process but the program itself is a child.
LEMMA ParentIsProcess ==
  ASSUME NEW p \in Procs, p # Main
  PROVE  LET parent == SubSeq(p, 1, Len(p) - 1) IN
           /\ parent \in Procs /\ Len(parent) < MaxDepth
           /\ \E side \in {0, 1} : p = Child(parent, side)
<1>1. Len(p) # 0
  BY ProcIsPath, EmptySeq DEF Main
<1> DEFINE m == Len(p) - 1
           parent == SubSeq(p, 1, m)
<1>2. /\ parent \in Seq({0, 1}) /\ Len(parent) = Len(p) - 1
      /\ \A k \in 1..(Len(p) - 1) : parent[k] = p[k]
  <2>1. m \in Int /\ Len(p) = m + 1 /\ m >= 0 /\ \A k \in 1..m : p[k] \in {0, 1}
    BY <1>1, ProcIsPath
  <2> HIDE DEF m
  <2> QED BY <2>1, SubSeqProperties
<1> HIDE DEF parent
<1>3. parent \in Procs /\ Len(parent) < MaxDepth
  BY <1>1, <1>2, ProcIsPath, PathIsProc, BoundAssumption
<1>4. p[Len(p)] \in {0, 1}
  BY <1>1, ProcIsPath
<1>5. p = Child(parent, p[Len(p)])
  <2> DEFINE c == Child(parent, p[Len(p)])
  <2>1. c \in Seq({0, 1}) /\ Len(c) = Len(p)
    BY <1>2, <1>3, <1>4, ChildIsPath, ProcIsPath
  <2>2. \A k \in 1..Len(parent) : c[k] = parent[k]
    BY <1>3, <1>4, ChildIsPath
  <2>3. c[Len(p)] = p[Len(p)]
    <3>1. c[Len(parent) + 1] = p[Len(p)]
      BY <1>3, <1>4, ChildIsPath
    <3>2. Len(parent) + 1 = Len(p)
      BY <1>2, ProcIsPath
    <3> QED BY <3>1, <3>2
  <2> HIDE DEF c
  <2>4. \A k \in 1..Len(p) : c[k] = p[k]
    BY <1>2, <2>2, <2>3, ProcIsPath
  <2>5. c = p
    BY <2>1, <2>4, ProcIsPath, SeqEqual
  <2> QED BY <2>5 DEF c
<1> USE DEF parent
<1> QED BY <1>3, <1>4, <1>5

\* Being above is an order: of two processes at most one is above the other.
LEMMA AboveOrder ==
  ASSUME NEW p \in Procs, NEW q \in Procs, NEW r \in Procs
  PROVE  /\ ~ (Above(p, q) /\ Above(q, p))
         /\ ~ Above(p, p)
         /\ Above(p, q) /\ Above(q, r) => Above(p, r)
BY ProcIsPath DEF Above

\* Above a child are its parent and who is above that.
LEMMA AboveChild ==
  ASSUME NEW p \in Procs, NEW side \in {0, 1}, NEW q \in Procs
  PROVE  Above(q, Child(p, side)) <=> q = p \/ Above(q, p)
<1> DEFINE c == Child(p, side)
<1>1. Len(c) = Len(p) + 1 /\ \A k \in 1..Len(p) : c[k] = p[k]
  BY ChildIsPath
<1> HIDE DEF c
<1>2. ASSUME q = p \/ Above(q, p) PROVE Above(q, c)
  BY <1>1, <1>2, ProcIsPath DEF Above
<1>3. ASSUME Above(q, c) PROVE q = p \/ Above(q, p)
  <2>1. CASE Len(q) < Len(p)
    BY <1>1, <1>3, <2>1, ProcIsPath DEF Above
  <2>2. CASE Len(q) = Len(p)
    <3>1. \A k \in 1..Len(q) : q[k] = p[k]
      BY <1>1, <1>3, <2>2, ProcIsPath DEF Above
    <3> QED BY <2>2, <3>1, ProcIsPath, SeqEqual
  <2> QED BY <1>1, <1>3, <2>1, <2>2, ProcIsPath DEF Above
<1> USE DEF c
<1> QED BY <1>2, <1>3

\* Who is below a process is a child of it or below a child.
LEMMA BelowChild ==
  ASSUME NEW p \in Procs, NEW q \in Procs, Above(p, q)
  PROVE  /\ Len(p) < MaxDepth
         /\ \E side \in {0, 1} : Child(p, side) = q \/ Above(Child(p, side), q)
<1>1. Len(p) \in Nat /\ Len(p) + 1 <= Len(q) /\ Len(q) <= MaxDepth /\ Len(q) \in Nat
  BY ProcIsPath DEF Above
<1>2. q[Len(p) + 1] \in {0, 1}
  BY <1>1, ProcIsPath
<1> DEFINE c == Child(p, q[Len(p) + 1])
<1>3. c \in Seq({0, 1}) /\ Len(c) = Len(p) + 1 /\ \A k \in 1..Len(c) : c[k] = q[k]
  <2>1. /\ c \in Seq({0, 1}) /\ Len(c) = Len(p) + 1 /\ c[Len(p) + 1] = q[Len(p) + 1]
        /\ \A k \in 1..Len(p) : c[k] = p[k]
    BY <1>2, ChildIsPath
  <2> HIDE DEF c
  <2> QED BY <1>1, <2>1 DEF Above
<1> HIDE DEF c
<1>4. CASE Len(q) = Len(p) + 1
  <2>1. c = q
    BY <1>3, <1>4, ProcIsPath, SeqEqual
  <2> QED BY <1>1, <1>2, <2>1, BoundAssumption DEF c
<1>5. CASE Len(q) # Len(p) + 1
  <2>1. Above(c, q)
    BY <1>1, <1>3, <1>5 DEF Above
  <2> QED BY <1>1, <1>2, <2>1, BoundAssumption DEF c
<1> QED BY <1>4, <1>5

-----------------------------------------------------------------------------
(***************************************************************************)
(* The steps of Next, told apart by what they change.                      *)
(***************************************************************************)

\* p goes on, or ends, and has written nothing.
Quiet(p) ==
  /\ UNCHANGED <<input, arr, part, merging, i>>
  /\ \/ p = Main /\ pc[p] = "open" /\ Goto(p, "start")
     \/ pc[p] = "start" /\ begin[p] >= end[p] /\ Sorted(p)
     \/ pc[p] = "start" /\ begin[p] < end[p] /\ Goto(p, "fork0")
     \/ pc[p] = "wait0" /\ status[Child(p, 0)] = "zero" /\ Goto(p, "wait1")
     \/ pc[p] = "wait0" /\ Ended(Child(p, 0)) /\ Goto(p, "reap1")
     \/ p = Main /\ pc[p] = "unmap" /\ Exit(p, "zero")
     \/ pc[p] = "unmap" /\ p = Main /\ Exit(p, "one")
     \/ pc[p] \in {"open", "fork0"} /\ Exit(p, "one")
     \/ pc[p] = "fork1" /\ Exit(p, "one")
     \/ /\ pc[p] = "reap1" /\ Ended(Child(p, 1)) /\ Exit(p, "one")
     \/ /\ pc[p] = "wait1" /\ Ended(Child(p, 1)) /\ Exit(p, "one")
     \/ Live(p) /\ Exit(p, "killed")

\* p gets a child.
Forked(p, side) == /\ pc[p] = IF side = 0 THEN "fork0" ELSE "fork1"
                   /\ Forks(p, side, IF side = 0 THEN "fork1" ELSE "wait0")
                   /\ UNCHANGED <<input, arr, merging, i>>

\* Both children of p have succeeded.
MergeStarts(p) == /\ pc[p] = "wait1" /\ status[Child(p, 1)] = "zero"
                  /\ StartMerge(p)
                  /\ UNCHANGED <<input, arr, part>>

\* Every step but a fork that succeeds.
Alone(p) == \/ Quiet(p) \/ CallQsort(p) \/ QsortMoves(p) \/ Qsort(p)
            \/ MergeStarts(p) \/ Merge(p) \/ Copy(p) \/ CopyDone(p)

\* Every step is one process's alone, or a fork.
LEMMA Steps ==
  ASSUME TypeOK, Next
  PROVE  /\ failures' \in 0..MaxFailures
         /\ \E p \in Procs : Alone(p) \/ \E side \in {0, 1} : Forked(p, side)
<1>0. Main \in Procs /\ failures \in 0..MaxFailures /\ failures + 1 \in Int
  BY MainIsTop, BoundAssumption DEF TypeOK
<1>1. Fail => failures' \in 0..MaxFailures
  BY <1>0, BoundAssumption DEF Fail
<1>2. CASE Map \/ Unmap
  <2>1. Quiet(Main)
    BY <1>2 DEF Map, Unmap, Quiet
  <2> QED BY <1>0, <1>1, <1>2, <2>1 DEF Map, Unmap, Alone
<1>3. ASSUME NEW p \in Procs, Proc(p) \/ QsortMoves(p) \/ Dies(p)
      PROVE  /\ failures' \in 0..MaxFailures
             /\ Alone(p) \/ \E side \in {0, 1} : Forked(p, side)
  <2>1. CASE Start(p)
    BY <1>0, <2>1 DEF Start, Quiet, Alone
  <2>2. CASE Qsort(p) \/ Merge(p) \/ Copy(p) \/ CopyDone(p)
    BY <1>0, <2>2 DEF Qsort, Merge, Copy, CopyDone, Alone
  <2>8. CASE CallQsort(p) \/ QsortMoves(p)
    BY <1>0, <2>8 DEF CallQsort, QsortMoves, Alone
  <2>3. CASE WaitFirst(p) \/ ReapSecond(p)
    BY <1>0, <2>3 DEF WaitFirst, ReapSecond, Quiet, Alone
  <2>4. CASE WaitSecond(p)
    BY <1>0, <2>4 DEF WaitSecond, MergeStarts, Quiet, Alone
  <2>5. CASE ForkFirst(p)
    BY <1>0, <1>1, <2>5 DEF ForkFirst, Fork, Forked, Quiet, Alone
  <2>6. CASE ForkSecond(p)
    BY <1>0, <1>1, <2>6 DEF ForkSecond, Fork, Forked, Quiet, Alone
  <2>7. CASE Dies(p)
    BY <1>1, <2>7 DEF Dies, Quiet, Alone
  <2> QED BY <1>3, <2>1, <2>2, <2>3, <2>4, <2>5, <2>6, <2>7, <2>8 DEF Proc
<1> QED BY <1>0, <1>2, <1>3 DEF Next

\* p is the only process that a step of p's concerns.
Acts(p) ==
  /\ Live(p) /\ status[p] = "none"
  /\ pc'[p] \in Doing \cup {"ended"}
  /\ status'[p] \in {"none", "zero", "one", "killed"}
  /\ (status'[p] # "none") <=> (pc'[p] = "ended")
  /\ pc[p] = "copy" => pc'[p] \in {"copy", "unmap", "ended"}
  /\ pc[p] = "unmap" => pc'[p] = "ended"
  /\ pc' \in [Procs -> {"none", "ended"} \cup Doing]
  /\ status' \in [Procs -> {"none", "zero", "one", "killed"}]
  /\ \A q \in Procs : q # p =>
       /\ pc'[q] = pc[q] /\ status'[q] = status[q]
       /\ leftIndex'[q] = leftIndex[q] /\ rightIndex'[q] = rightIndex[q]
       /\ temparr'[q] = temparr[q] /\ i'[q] = i[q]
  /\ UNCHANGED <<input, begin, end>>

\* A step that is no fork leaves the other processes where they are.
LEMMA AloneActs ==
  ASSUME TypeOK, NEW p \in Procs, Alone(p)
  PROVE  Acts(p)
<1>1. /\ pc \in [Procs -> {"none", "ended"} \cup Doing]
      /\ status \in [Procs -> {"none", "zero", "one", "killed"}]
      /\ (status[p] # "none") <=> (pc[p] = "ended")
  BY DEF TypeOK, Ended
<1>2. /\ Live(p)
      /\ \E to \in Doing \cup {"ended"}, result \in {"none", "zero", "one", "killed"} :
           /\ pc' = [pc EXCEPT ![p] = to] /\ status' = [status EXCEPT ![p] = result]
           /\ (result # "none") <=> (to = "ended")
           /\ pc[p] = "copy" => to \in {"copy", "unmap", "ended"}
           /\ pc[p] = "unmap" => to = "ended"
  <2>1. CASE Quiet(p)
    BY <1>1, <2>1 DEF Quiet, Sorted, Goto, Exit, Live, Doing
  <2>2. CASE Qsort(p) \/ CopyDone(p)
    BY <1>1, <2>2 DEF Qsort, CopyDone, Sorted, Goto, Exit, Live, Doing
  <2>3. CASE MergeStarts(p)
    BY <1>1, <2>3 DEF MergeStarts, StartMerge, Goto, Live, Doing
  <2>4. CASE Merge(p)
    <3>1. pc[p] = "merge" /\ (Goto(p, "copy") \/ UNCHANGED <<pc, status>>)
      BY <2>4 DEF Merge
    <3>2. pc' = [pc EXCEPT ![p] = pc'[p]] /\ pc'[p] \in {"merge", "copy"} /\ UNCHANGED status
      BY <1>1, <3>1 DEF Goto
    <3> QED BY <1>1, <3>1, <3>2 DEF Live, Doing
  <2>5. CASE Copy(p)
    BY <1>1, <2>5 DEF Copy, Live, Doing
  <2>6. CASE CallQsort(p)
    BY <1>1, <2>6 DEF CallQsort, Goto, Live, Doing
  <2>7. CASE QsortMoves(p)
    BY <1>1, <2>7 DEF QsortMoves, Live, Doing
  <2> QED BY <2>1, <2>2, <2>3, <2>4, <2>5, <2>6, <2>7 DEF Alone
<1>3. \A q \in Procs : q # p =>
       /\ leftIndex'[q] = leftIndex[q] /\ rightIndex'[q] = rightIndex[q]
       /\ temparr'[q] = temparr[q] /\ i'[q] = i[q]
  <2> USE DEF TypeOK, merging
  <2>1. CASE Quiet(p) BY <2>1 DEF Quiet
  <2>2. CASE Qsort(p) BY <2>2 DEF Qsort
  <2>3. CASE MergeStarts(p) BY <2>3 DEF MergeStarts, StartMerge
  <2>4. CASE Merge(p) BY <2>4 DEF Merge
  <2>5. CASE Copy(p) \/ CopyDone(p) BY <2>5 DEF Copy, CopyDone
  <2>6. CASE CallQsort(p) \/ QsortMoves(p) BY <2>6 DEF CallQsort, QsortMoves
  <2> QED BY <2>1, <2>2, <2>3, <2>4, <2>5, <2>6 DEF Alone
<1>4. UNCHANGED <<input, begin, end>>
  BY DEF Alone, Quiet, CallQsort, QsortMoves, Qsort, MergeStarts, Merge, Copy, CopyDone, part
<1>5. /\ pc' \in [Procs -> {"none", "ended"} \cup Doing]
      /\ status' \in [Procs -> {"none", "zero", "one", "killed"}]
      /\ \A q \in Procs : q # p => pc'[q] = pc[q] /\ status'[q] = status[q]
      /\ pc'[p] \in Doing \cup {"ended"}
      /\ status'[p] \in {"none", "zero", "one", "killed"}
      /\ (status'[p] # "none") <=> (pc'[p] = "ended")
      /\ pc[p] = "copy" => pc'[p] \in {"copy", "unmap", "ended"}
      /\ pc[p] = "unmap" => pc'[p] = "ended"
  BY <1>1, <1>2
<1> QED BY <1>1, <1>2, <1>3, <1>4, <1>5 DEF Acts, Live

-----------------------------------------------------------------------------
(***************************************************************************)
(* The tree: a process that moves has to agree with its children, and its  *)
(* parent still agrees with it.                                            *)
(***************************************************************************)

\* At the start there is only the program.
LEMMA InitTree == Init => TreeInv
<1> SUFFICES ASSUME Init PROVE TreeInv
  OBVIOUS
<1>1. TreeTypeOK
  BY DEF Init, TreeTypeOK, Ended, Doing
<1>2. ASSUME NEW p \in Procs, Len(p) < MaxDepth PROVE AllowsKids(p)
  <2>1. Childless(p)
    BY <1>2, ChildIsProcess DEF Init, Childless
  <2> QED BY <1>2, <2>1 DEF Init, AllowsKids
<1> QED BY <1>1, <1>2 DEF TreeInv

\* A step keeps the tree if the process that takes it agrees with its children.
LEMMA ActsKeepsTree ==
  ASSUME TreeInv, NEW p \in Procs, Acts(p), Len(p) < MaxDepth => AllowsKids(p)'
  PROVE  TreeInv'
<1>1. TreeTypeOK /\ pc[p] \notin {"none", "ended"} /\ status[p] = "none"
  BY DEF Acts, Live, TreeInv
<1>2. TreeTypeOK'
  BY <1>1 DEF Acts, TreeTypeOK, Ended
<1>3. ASSUME NEW q \in Procs, Len(q) < MaxDepth, q # p PROVE AllowsKids(q)'
  <2>1. AllowsKids(q)
    BY <1>3 DEF TreeInv
  <2>2. pc'[q] = pc[q] /\ status'[q] = status[q]
    BY <1>3 DEF Acts
  <2>3. ASSUME NEW side \in {0, 1}
        PROVE  /\ Child(q, side) \in Procs
               /\ Child(q, side) # p => /\ pc'[Child(q, side)] = pc[Child(q, side)]
                                        /\ status'[Child(q, side)] = status[Child(q, side)]
    BY <1>3, ChildIsProcess DEF Acts
  <2>4. CASE p \notin {Child(q, 0), Child(q, 1)}
    BY <2>1, <2>2, <2>3, <2>4 DEF AllowsKids, Childless, Succeeded, Ended
  <2>5. CASE p \in {Child(q, 0), Child(q, 1)}
    <3>1. ~Childless(q) /\ ~Succeeded(q)
      BY <1>1, <2>5 DEF Childless, Succeeded
    <3>2. /\ pc[q] \notin {"none", "open", "start", "qsort", "fork0", "merge", "copy", "unmap"}
          /\ status[q] # "zero"
      BY <2>1, <3>1 DEF AllowsKids
    <3>3. CASE p = Child(q, 0)
      <4>1. Child(q, 1) # p
        BY <1>3, <3>3, OneParent
      <4> QED BY <1>1, <2>1, <2>2, <2>3, <3>2, <3>3, <4>1 DEF AllowsKids, Ended
    <3>4. CASE p = Child(q, 1)
      <4>1. Child(q, 0) # p
        BY <1>3, <3>4, OneParent
      <4> QED BY <1>1, <2>1, <2>2, <2>3, <3>2, <3>4, <4>1 DEF AllowsKids, Ended
    <3> QED BY <2>5, <3>3, <3>4
  <2> QED BY <2>4, <2>5
<1> QED BY <1>2, <1>3 DEF TreeInv

\* Each of the steps that are no fork does.
LEMMA AloneKeepsTree ==
  ASSUME TypeOK, TreeInv, NEW p \in Procs, Alone(p)
  PROVE  TreeInv'
<1>1. Acts(p)
  BY AloneActs
<1>2. ASSUME Len(p) < MaxDepth PROVE AllowsKids(p)'
  <2>1. AllowsKids(p) /\ TreeTypeOK
    BY <1>2 DEF TreeInv
  <2>2. \A side \in {0, 1} : /\ pc'[Child(p, side)] = pc[Child(p, side)]
                            /\ status'[Child(p, side)] = status[Child(p, side)]
                            /\ Child(p, side) \in Procs
    BY <1>1, <1>2, ChildIsProcess DEF Acts
  <2> USE <2>1, <2>2 DEF TreeTypeOK, AllowsKids, Goto, Exit, Ended
  <2>3. CASE Quiet(p)
    BY <2>3, <1>1 DEF Quiet, Sorted, Childless, Succeeded, Live, Acts
  <2>4. CASE Qsort(p) BY <2>4 DEF Qsort, Sorted, Childless
  <2>10. CASE CallQsort(p) BY <2>10 DEF CallQsort, Childless
  <2>11. CASE QsortMoves(p) BY <2>11 DEF QsortMoves, Childless
  <2>5. CASE MergeStarts(p) BY <2>5 DEF MergeStarts, StartMerge, Succeeded
  <2>6. CASE Merge(p)
    <3>1. Succeeded(p) /\ (Goto(p, "copy") \/ UNCHANGED <<pc, status>>)
      BY <2>6 DEF Merge
    <3> QED BY <2>6, <3>1 DEF Merge, Succeeded
  <2>7. CASE Copy(p) BY <2>7 DEF Copy, Succeeded
  <2>8. CASE CopyDone(p) BY <2>8 DEF CopyDone, Sorted, Succeeded
  <2> QED BY <2>3, <2>4, <2>5, <2>6, <2>7, <2>8, <2>10, <2>11 DEF Alone
<1> QED BY <1>1, <1>2, ActsKeepsTree

\* What a fork finds and leaves.
LEMMA ForkedActs ==
  ASSUME TypeOK, TreeInv, NEW p \in Procs, NEW side \in {0, 1}, Forked(p, side)
  PROVE  LET c == Child(p, side) IN
    /\ Len(p) < MaxDepth /\ c \in Procs /\ c # p /\ c # Main
    /\ pc[c] = "none" /\ status[c] = "none" /\ status[p] = "none" /\ status' = status
    /\ pc[p] = IF side = 0 THEN "fork0" ELSE "fork1"
    /\ side = 0 => pc[Child(p, 1)] = "none"
    /\ pc' \in [Procs -> {"none", "ended"} \cup Doing]
    /\ pc'[p] = (IF side = 0 THEN "fork1" ELSE "wait0") /\ pc'[c] = "start"
    /\ \A q \in Procs : q \notin {p, c} => pc'[q] = pc[q]
    /\ \A q \in Procs : q # c => begin'[q] = begin[q] /\ end'[q] = end[q]
    /\ <<begin'[c], end'[c]>> = HalfOf(p, side)
    /\ begin' = [begin EXCEPT ![c] = HalfOf(p, side)[1]]
    /\ end' = [end EXCEPT ![c] = HalfOf(p, side)[2]]
    /\ UNCHANGED <<input, arr, leftIndex, rightIndex, temparr, i>>
<1> DEFINE c == Child(p, side)
<1>1. /\ Len(p) < MaxDepth /\ UNCHANGED status
      /\ pc[p] = IF side = 0 THEN "fork0" ELSE "fork1"
      /\ pc' = [pc EXCEPT ![p] = IF side = 0 THEN "fork1" ELSE "wait0", ![c] = "start"]
      /\ begin' = [begin EXCEPT ![c] = HalfOf(p, side)[1]]
      /\ end' = [end EXCEPT ![c] = HalfOf(p, side)[2]]
      /\ UNCHANGED <<input, arr, leftIndex, rightIndex, temparr, i>>
  BY DEF Forked, Forks, merging
<1>2. c \in Procs /\ c # p /\ c # Main
  BY <1>1, ChildIsProcess
<1>3. /\ pc \in [Procs -> {"none", "ended"} \cup Doing]
      /\ \A q \in Procs : (status[q] # "none") <=> (pc[q] = "ended")
      /\ begin \in [Procs -> 0..N] /\ end \in [Procs -> 0..N]
  BY DEF TypeOK, Ended
<1>4. AllowsKids(p)
  BY <1>1 DEF TreeInv
<1>5. pc[c] = "none" /\ (side = 0 => pc[Child(p, 1)] = "none")
  <2>1. CASE side = 0
    BY <1>1, <1>4, <2>1 DEF AllowsKids, Childless
  <2>2. CASE side = 1
    BY <1>1, <1>4, <2>2 DEF AllowsKids
  <2> QED BY <2>1, <2>2
<1>6. status[c] = "none" /\ status[p] = "none"
  BY <1>1, <1>2, <1>3, <1>5
<1> HIDE DEF c
<1>7. /\ pc' \in [Procs -> {"none", "ended"} \cup Doing]
      /\ pc'[p] = (IF side = 0 THEN "fork1" ELSE "wait0") /\ pc'[c] = "start"
      /\ \A q \in Procs : q \notin {p, c} => pc'[q] = pc[q]
  BY <1>1, <1>2, <1>3 DEF Doing
<1>8. /\ begin'[c] = HalfOf(p, side)[1] /\ end'[c] = HalfOf(p, side)[2]
      /\ \A q \in Procs : q # c => begin'[q] = begin[q] /\ end'[q] = end[q]
  BY <1>1, <1>2, <1>3
<1>9. <<begin'[c], end'[c]>> = HalfOf(p, side)
  BY <1>8 DEF HalfOf
<1> QED BY <1>1, <1>2, <1>5, <1>6, <1>7, <1>8, <1>9 DEF c

\* A fork brings its child to life, whose own children there are none of yet.
LEMMA ForkedKeepsTree ==
  ASSUME TypeOK, TreeInv, NEW p \in Procs, NEW side \in {0, 1}, Forked(p, side)
  PROVE  TreeInv'
<1> DEFINE c == Child(p, side)
<1>1. /\ Len(p) < MaxDepth /\ c \in Procs /\ c # p
      /\ pc[c] = "none" /\ status[c] = "none" /\ status[p] = "none" /\ status' = status
      /\ pc[p] = IF side = 0 THEN "fork0" ELSE "fork1"
      /\ side = 0 => pc[Child(p, 1)] = "none"
  BY ForkedActs
<1>2. /\ pc' \in [Procs -> {"none", "ended"} \cup Doing]
      /\ pc'[p] = (IF side = 0 THEN "fork1" ELSE "wait0") /\ pc'[c] = "start"
      /\ \A q \in Procs : q \notin {p, c} => pc'[q] = pc[q]
  BY ForkedActs
<1>3. TreeTypeOK /\ TreeTypeOK'
  <2>1. TreeTypeOK
    BY DEF TreeInv
  <2> HIDE DEF c
  <2> QED BY <1>1, <1>2, <2>1 DEF TreeTypeOK, Ended
<1>4. \A s \in {0, 1} : Child(p, s) = c => s = side
  BY OneParent
<1>5. \A q \in Procs \ {p} : \A s \in {0, 1} : Child(q, s) # c
  BY OneParent
<1> HIDE DEF c
<1>6. ASSUME NEW q \in Procs, Len(q) < MaxDepth PROVE AllowsKids(q)'
  <2>1. AllowsKids(q) /\ Child(q, 0) \in Procs /\ Child(q, 1) \in Procs
    BY <1>6, ChildIsProcess DEF TreeInv
  <2>2. CASE q = p
    <3>1. side = 0 => pc'[Child(p, 1)] = "none"
      <4>1. Child(p, 1) # p
        BY <1>1, ChildIsProcess
      <4> QED BY <1>1, <1>2, <1>4, <2>1, <2>2, <4>1
    <3> QED BY <1>1, <1>2, <2>2, <3>1 DEF AllowsKids
  <2>3. CASE q = c
    <3>1. Childless(c)
      BY <1>1, <2>1, <2>3 DEF AllowsKids
    <3>2. Child(c, 0) \notin {c, p} /\ Child(c, 1) \notin {c, p}
      BY <1>1, <1>6, <2>3, <3>1, ChildIsProcess DEF Childless
    <3>3. Childless(c)'
      BY <1>2, <2>1, <2>3, <3>1, <3>2 DEF Childless
    <3> QED BY <1>1, <1>2, <2>3, <3>3 DEF AllowsKids
  <2>4. CASE q \notin {p, c}
    <3>1. Child(q, 0) # c /\ Child(q, 1) # c
      BY <1>5, <2>4
    <3>2. pc'[q] = pc[q] /\ status' = status
      BY <1>1, <1>2, <2>4
    <3>3. CASE p \notin {Child(q, 0), Child(q, 1)}
      BY <1>2, <2>1, <3>1, <3>2, <3>3 DEF AllowsKids, Childless, Succeeded, Ended
    <3>4. CASE p \in {Child(q, 0), Child(q, 1)}
      <4>1. ~Childless(q) /\ ~Succeeded(q)
        BY <1>1, <3>4 DEF Childless, Succeeded
      <4>2. /\ pc[q] \notin {"none", "open", "start", "qsort", "fork0", "merge", "copy", "unmap"}
            /\ status[q] # "zero"
        BY <2>1, <4>1 DEF AllowsKids
      <4>3. \A s \in {0, 1} : Child(q, s) # p => pc'[Child(q, s)] = pc[Child(q, s)]
        BY <1>2, <2>1, <3>1
      <4>4. /\ pc[Child(q, 1)] = "none" => pc'[Child(q, 1)] = "none"
            /\ pc[Child(q, 0)] = "ended" => pc'[Child(q, 0)] = "ended"
            /\ pc[Child(q, 1)] = "ended" => pc'[Child(q, 1)] = "ended"
        BY <1>1, <4>3
      <4> QED BY <2>1, <3>2, <4>2, <4>4 DEF AllowsKids, Ended
    <3> QED BY <3>3, <3>4
  <2> QED BY <2>2, <2>3, <2>4
<1> QED BY <1>3, <1>6 DEF TreeInv

-----------------------------------------------------------------------------
(***************************************************************************)
(* Parts and their owners: who is there, which part of the file each has,  *)
(* and that a process that writes has its part for itself.                 *)
(***************************************************************************)
Shape == TypeOK /\ TreeInv /\ Rooted /\ Placed /\ Settled

\* At the start the program has the whole file.
LEMMA InitShape == Init => Shape
<1> SUFFICES ASSUME Init PROVE Shape
  OBVIOUS
<1>1. TypeOK
  BY SizeAssumption, InputAssumption, BoundAssumption DEF Init, TypeOK, Ended, Doing
<1>2. \A p \in Procs : pc[p] = IF p = Main THEN "open" ELSE "none"
  BY DEF Init
<1>3. \A p, q \in Procs : Above(p, q) => pc[q] = "none"
  BY <1>2, MainIsTop DEF Ancestors
<1>4. Rooted
  BY <1>2, MainIsTop DEF Init, Rooted, Exists
<1>5. Placed
  <2>1. \A p \in Procs : Exists(p) => p = Main
    BY <1>2 DEF Exists
  <2>2. \A p \in Procs, side \in {0, 1} : Len(p) < MaxDepth => ~ Exists(Child(p, side))
    BY <2>1, ChildIsProcess
  <2>3. begin[Main] = 0 /\ end[Main] = N /\ pc[Main] = "open"
    BY MainIsTop DEF Init
  <2>4. \A q \in Procs : ~ Above(q, Main)
    BY MainIsTop DEF Ancestors
  <2> QED BY <1>2, <2>1, <2>2, <2>3, <2>4, MainIsTop, SizeAssumption DEF Placed, Splitting
<1> QED BY <1>1, <1>3, <1>4, <1>5, InitTree DEF Shape, Settled

\* A process that has not forked has nobody below it.
LEMMA NobodyBelow ==
  ASSUME TreeInv, Rooted, NEW p \in Procs, NEW q \in Procs, Above(p, q),
         pc[p] \in {"none", "open", "start", "qsort", "fork0"}
  PROVE  pc[q] = "none"
<1>1. PICK side \in {0, 1} : Child(p, side) = q \/ Above(Child(p, side), q)
  BY BelowChild
<1>2. Len(p) < MaxDepth /\ Child(p, side) \in Procs
  BY BelowChild, ChildIsProcess
<1>3. pc[Child(p, side)] = "none"
  BY <1>2 DEF TreeInv, AllowsKids, Childless
<1> QED BY <1>1, <1>2, <1>3 DEF Rooted, Ancestors, Exists

\* Between its forks a process has nobody in its second half.
LEMMA SecondHalfFree ==
  ASSUME TreeInv, Rooted, NEW p \in Procs, NEW q \in Procs, Above(p, q), Exists(q),
         pc[p] = "fork1"
  PROVE  Child(p, 0) = q \/ Above(Child(p, 0), q)
<1>1. PICK side \in {0, 1} : Child(p, side) = q \/ Above(Child(p, side), q)
  BY BelowChild
<1>2. Len(p) < MaxDepth /\ Child(p, side) \in Procs
  BY BelowChild, ChildIsProcess
<1>3. pc[Child(p, 1)] = "none"
  BY <1>2 DEF TreeInv, AllowsKids
<1> QED BY <1>1, <1>2, <1>3 DEF Rooted, Ancestors, Exists

\* Two processes have an element in common only if one is above the other.
LEMMA Overlap ==
  ASSUME TypeOK, Placed, NEW p \in Procs, NEW q \in Procs, Exists(p), Exists(q),
         NEW k \in Span(p) \cap Span(q)
  PROVE  p = q \/ Above(p, q) \/ Above(q, p)
<1>1. begin[p] \in Int /\ end[p] \in Int /\ begin[q] \in Int /\ end[q] \in Int
  BY DEF TypeOK
<1>2. ~ Disjoint(q, p)
  BY <1>1 DEF Disjoint, Span
<1> QED BY <1>2 DEF Placed

\* What shares an element with the part of a process that writes is a process
\* that has succeeded below it, or one above it that waits, or forks the other
\* half, or has ended before its time.
LEMMA WriterAlone ==
  ASSUME Shape, NEW p \in Procs, NEW q \in Procs, p # q,
         pc[p] \in {"qsort", "merge", "copy"}, Exists(q), NEW k \in Span(p) \cap Span(q)
  PROVE  \/ Above(p, q) /\ pc[p] # "qsort" /\ status[q] = "zero"
         \/ /\ Above(q, p) /\ pc[q] \in {"fork1", "wait0", "wait1", "reap1", "ended"}
            /\ status[q] # "zero" /\ ~ Settling(q)
            /\ pc[q] = "fork1" => k \notin Mid(q)..(end[q] - 1)
<1> USE DEF Shape
<1>1. Exists(p) /\ status[p] = "none"
  BY DEF Exists, TypeOK, Ended
<1>2. CASE Above(p, q)
  <2>1. pc[p] # "qsort"
    BY <1>2, NobodyBelow DEF Exists
  <2>2. Settling(p)
    BY <2>1 DEF Settling, Overwriting
  <2> QED BY <1>2, <2>1, <2>2 DEF Settled, Exists
<1>3. CASE Above(q, p)
  <2>1. pc[q] \notin {"none", "open", "start", "qsort", "fork0"}
    BY <1>1, <1>3, NobodyBelow DEF Exists
  <2>2. ~ Settling(q)
    BY <1>1, <1>3 DEF Settled, Exists
  <2>3. pc[q] \notin {"merge", "copy", "unmap"} /\ status[q] # "zero"
    BY <2>2 DEF Settling, Overwriting
  <2>4. pc[q] \in {"fork1", "wait0", "wait1", "reap1", "ended"}
    BY <2>1, <2>3 DEF TypeOK, Doing
  <2>5. ASSUME pc[q] = "fork1" PROVE k \notin Mid(q)..(end[q] - 1)
    <3> DEFINE c == Child(q, 0)
    <3>1. c = p \/ Above(c, p)
      BY <1>1, <1>3, <2>5, SecondHalfFree
    <3>2. Len(q) < MaxDepth /\ c \in Procs
      BY <1>3, BelowChild, ChildIsProcess
    <3>3. Exists(c)
      BY <1>1, <3>1, <3>2 DEF Rooted, Ancestors
    <3>4. end[c] = Mid(q)
      BY <3>2, <3>3 DEF Placed, HalfOf
    <3>5. end[p] <= end[c]
      BY <1>1, <3>1, <3>2, <3>3 DEF Placed, Nested, TypeOK
    <3>6. end[p] <= Mid(q)
      BY <3>4, <3>5
    <3> QED BY <3>6 DEF Span, TypeOK, Mid
  <2> QED BY <1>3, <2>2, <2>3, <2>4, <2>5
<1> QED BY <1>1, <1>2, <1>3, Overlap

-----------------------------------------------------------------------------
\* Nobody comes into the tree but by a fork, and nobody leaves it.
LEMMA ExistsStays ==
  ASSUME NEW p \in Procs, Acts(p), NEW q \in Procs
  PROVE  Exists(q)' <=> Exists(q)
BY DEF Acts, Exists, Doing, Live

\* No step but a fork changes who is there.
LEMMA AloneKeepsRooted ==
  ASSUME TypeOK, Rooted, NEW p \in Procs, Alone(p)
  PROVE  Rooted'
<1>1. Acts(p)
  BY AloneActs
<1>2. \A q \in Procs : Exists(q)' <=> Exists(q)
  BY <1>1, ExistsStays
<1>3. begin' = begin /\ end' = end
  BY <1>1 DEF Acts
<1> QED BY <1>2, <1>3, MainIsTop DEF Rooted, Ancestors

\* Nor which part each has.
LEMMA AloneKeepsPlaced ==
  ASSUME TypeOK, Placed, NEW p \in Procs, Alone(p)
  PROVE  Placed'
<1>1. Acts(p)
  BY AloneActs
<1>2. \A q \in Procs : Exists(q)' <=> Exists(q)
  BY <1>1, ExistsStays
<1>3. begin' = begin /\ end' = end /\ \A q \in Procs : q # p => pc'[q] = pc[q]
  BY <1>1 DEF Acts
<1>4. /\ pc'[p] \in {"qsort", "fork0"} \cup Splitting => begin[p] < end[p]
      /\ pc'[p] \in Splitting => Len(p) < MaxDepth
  <2>1. /\ pc[p] \in {"qsort", "fork0"} \cup Splitting => begin[p] < end[p]
        /\ pc[p] \in Splitting => Len(p) < MaxDepth
    BY DEF Placed
  <2>2. pc \in [Procs -> {"none", "ended"} \cup Doing]
    BY DEF TypeOK
  <2> USE <2>1, <2>2 DEF Splitting
  <2>3. CASE Quiet(p) BY <2>3 DEF Quiet, Sorted, Goto, Exit
  <2>4. CASE Qsort(p) BY <2>4 DEF Qsort, Sorted, Goto, Exit
  <2>5. CASE CallQsort(p) \/ QsortMoves(p) BY <2>5 DEF CallQsort, QsortMoves, Goto
  <2>6. CASE MergeStarts(p) \/ Merge(p) \/ Copy(p) \/ CopyDone(p)
    BY <2>6 DEF MergeStarts, Merge, Copy, CopyDone
  <2> QED BY <2>3, <2>4, <2>5, <2>6 DEF Alone
<1>5. \A q \in Procs : /\ pc'[q] \in {"qsort", "fork0"} \cup Splitting => begin'[q] < end'[q]
                       /\ pc'[q] \in Splitting => Len(q) < MaxDepth
  BY <1>3, <1>4 DEF Placed
<1>6. \A q \in Procs, side \in {0, 1} : HalfOf(q, side)' = HalfOf(q, side)
  BY <1>3 DEF HalfOf, Mid
<1>8. \A q \in Procs : Exists(q)' => begin'[q] <= end'[q]
  BY <1>2, <1>3 DEF Placed
<1>9. ASSUME NEW q \in Procs, NEW side \in {0, 1}, Len(q) < MaxDepth, Exists(Child(q, side))'
      PROVE  <<begin'[Child(q, side)], end'[Child(q, side)]>> = HalfOf(q, side)'
  <2>1. Exists(Child(q, side))
    BY <1>2, <1>9, ChildIsProcess
  <2> QED BY <1>3, <1>6, <1>9, <2>1 DEF Placed
<1>10. ASSUME NEW r \in Procs, NEW q \in Procs, Exists(r)', Exists(q)'
       PROVE  /\ Above(q, r) => Nested(q, r)'
              /\ r = q \/ Above(q, r) \/ Above(r, q) \/ Disjoint(q, r)'
  <2>1. Exists(r) /\ Exists(q)
    BY <1>2, <1>10
  <2>2. /\ Above(q, r) => Nested(q, r)
        /\ r = q \/ Above(q, r) \/ Above(r, q) \/ Disjoint(q, r)
    BY <2>1 DEF Placed
  <2> QED BY <1>3, <2>2 DEF Nested, Disjoint
<1> QED BY <1>5, <1>8, <1>9, <1>10 DEF Placed

\* Only who is done with its own, or has two children that are, settles.
LEMMA AloneKeepsSettled ==
  ASSUME Shape, \A q \in Procs : MergeInv(q), NEW p \in Procs, Alone(p)
  PROVE  Settled'
<1> USE DEF Shape
<1>1. Acts(p)
  BY AloneActs
<1>2. ASSUME NEW q \in Procs, q # p, Settling(q)' PROVE Settling(q)
  BY <1>1, <1>2 DEF Acts, Settling, Overwriting
<1>3. ASSUME NEW q \in Procs, pc[q] = "none" \/ status[q] = "zero"
      PROVE  pc'[q] = "none" \/ status'[q] = "zero"
  <2>1. q # p
    BY <1>1, <1>3 DEF Acts, Live
  <2> QED BY <1>1, <1>3, <2>1 DEF Acts
<1>4. ASSUME Settling(p)', NEW q \in Procs, Above(p, q)
      PROVE  pc[q] = "none" \/ status[q] = "zero"
  <2>1. CASE Settling(p)
    BY <1>4, <2>1 DEF Settled
  <2>2. CASE pc[p] \in {"open", "start", "qsort", "fork0"}
    BY <1>4, <2>2, NobodyBelow
  <2>3. CASE MergeStarts(p)
    <3>1. Len(p) < MaxDepth
      BY <1>4, BelowChild
    <3>2. Succeeded(p)
      BY <2>3, <3>1 DEF MergeStarts, Succeeded, TreeInv, AllowsKids
    <3>3. PICK side \in {0, 1} : Child(p, side) = q \/ Above(Child(p, side), q)
      BY <1>4, BelowChild
    <3>4. Settling(Child(p, side)) /\ Child(p, side) \in Procs
      BY <3>1, <3>2, ChildIsProcess DEF Succeeded, Settling
    <3> QED BY <3>2, <3>3, <3>4 DEF Settled, Succeeded
  <2>4. CASE Quiet(p) /\ ~ Settling(p) /\ pc[p] \notin {"open", "start", "qsort", "fork0"}
    <3>1. pc'[p] \in {"wait1", "reap1"} \/ Exit(p, "one") \/ Exit(p, "killed")
      BY <1>1, <2>4 DEF Quiet, Settling, Overwriting, Goto, Acts, TypeOK
    <3>2. pc[p] \notin {"merge", "copy", "ended"}
      BY <1>1, <2>4 DEF Settling, Overwriting, Acts, Live
    <3>3. temparr[p] = <<>> /\ temparr'[p] = <<>> /\ begin' = begin /\ end' = end
      BY <2>4, <3>2 DEF MergeInv, Quiet, merging, part
    <3>4. ~ Overwriting(p)'
      BY <3>1, <3>3, <1>1, <2>4 DEF Overwriting, Acts, Exit, TypeOK
    <3> QED BY <1>1, <1>4, <3>1, <3>4 DEF Settling, Exit, Acts, TypeOK
  <2>5. Settling(p) \/ MergeStarts(p) \/ Quiet(p) \/ pc[p] \in {"start", "qsort"}
    BY DEF Alone, CallQsort, QsortMoves, Qsort, Merge, Copy, CopyDone, Settling, Overwriting
  <2> QED BY <2>1, <2>2, <2>3, <2>4, <2>5
<1> QED BY <1>2, <1>3, <1>4 DEF Settled

\* A fork gives half of a part away that nobody else has.
LEMMA ForkedKeepsShape ==
  ASSUME Shape, NEW p \in Procs, NEW side \in {0, 1}, Forked(p, side), TypeOK'
  PROVE  Shape'
<1> USE DEF Shape
<1>0. PICK c : c = Child(p, side)
  OBVIOUS
<1>1. /\ Len(p) < MaxDepth /\ c \in Procs /\ c # p /\ c # Main
      /\ pc[c] = "none" /\ status[c] = "none" /\ status[p] = "none" /\ status' = status
      /\ pc[p] = (IF side = 0 THEN "fork0" ELSE "fork1")
      /\ pc'[p] = (IF side = 0 THEN "fork1" ELSE "wait0") /\ pc'[c] = "start"
      /\ \A q \in Procs : q \notin {p, c} => pc'[q] = pc[q]
      /\ \A q \in Procs : q # c => begin'[q] = begin[q] /\ end'[q] = end[q]
      /\ <<begin'[c], end'[c]>> = HalfOf(p, side)
      /\ temparr' = temparr
  BY <1>0, ForkedActs
<1>2. \A q \in Procs : Above(q, c) <=> q = p \/ Above(q, p)
  BY <1>0, AboveChild
<1>3. ASSUME NEW q \in Procs, Above(c, q) PROVE ~ Exists(q)
  BY <1>1, <1>3, NobodyBelow DEF Exists
<1>4. ASSUME NEW q \in Procs, Above(p, q), Exists(q), side = 1
      PROVE  Child(p, 0) = q \/ Above(Child(p, 0), q)
  BY <1>1, <1>4, SecondHalfFree
<1>5. ASSUME NEW q \in Procs, Above(p, q), side = 0 PROVE ~ Exists(q)
  BY <1>1, <1>5, NobodyBelow DEF Exists
<1>7. \A s \in {0, 1}, q \in Procs : Child(q, s) = c => q = p /\ s = side
  BY <1>0, OneParent
<1>8. Exists(p) /\ \A q \in Procs : Exists(q)' <=> q = c \/ Exists(q)
  BY <1>1 DEF Exists
<1>9. Rooted'
  <2>1. Exists(Main)' /\ begin'[Main] = 0 /\ end'[Main] = N
    BY <1>1, <1>8, MainIsTop DEF Rooted
  <2>2. ASSUME NEW q \in Procs, Exists(q)', NEW r \in Ancestors(q) PROVE Exists(r)'
    BY <1>2, <1>8, <2>2 DEF Rooted, Ancestors
  <2> QED BY <2>1, <2>2 DEF Rooted
<1>10. Settled'
  <2>1. ASSUME NEW q \in Procs, Settling(q)' PROVE Settling(q) /\ q # c /\ q # p
    BY <1>1, <2>1 DEF Settling, Overwriting
  <2>2. ASSUME NEW q \in Procs, Settling(q) PROVE ~ Above(q, c)
    <3>1. q # p
      BY <1>1, <2>2 DEF Settling, Overwriting
    <3>2. ~ Above(q, p)
      BY <1>1, <2>2 DEF Settled
    <3> QED BY <1>2, <3>1, <3>2
  <2>3. ASSUME NEW q \in Procs, NEW r \in Procs, Settling(q), Above(q, r)
        PROVE  r # p /\ r # c
    BY <1>1, <2>2, <2>3 DEF Settled
  <2> QED BY <1>1, <2>1, <2>3 DEF Settled
<1>11. begin[p] < end[p] /\ begin[p] \in Nat /\ end[p] \in Nat
  BY <1>1 DEF Placed, Splitting, TypeOK
<1>12. /\ side = 0 => begin'[c] = begin[p] /\ end'[c] = Mid(p)
       /\ side = 1 => begin'[c] = Mid(p) /\ end'[c] = end[p]
       /\ begin[p] <= Mid(p) /\ Mid(p) <= end[p] /\ Mid(p) \in Nat
  BY <1>1, <1>11 DEF HalfOf, Mid
<1>13. begin'[c] <= end'[c] /\ begin[p] <= begin'[c] /\ end'[c] <= end[p]
  BY <1>11, <1>12
<1>14. ASSUME NEW q \in Procs, Exists(q), q # c
       PROVE  /\ Above(q, c) => Nested(q, c)'
              /\ ~ Above(c, q)
              /\ Above(q, c) \/ (Disjoint(q, c)' /\ Disjoint(c, q)')
  <2>1. begin[q] \in Nat /\ end[q] \in Nat /\ begin'[q] = begin[q] /\ end'[q] = end[q]
    BY <1>1, <1>14 DEF TypeOK
  <2>2. ~ Above(c, q)
    BY <1>3, <1>14
  <2>3. CASE q = p
    BY <1>2, <1>11, <1>12, <1>13, <2>1, <2>2, <2>3 DEF Nested
  <2>4. CASE Above(q, p)
    <3>1. begin[q] <= begin[p] /\ end[p] <= end[q]
      BY <1>8, <1>14, <2>4 DEF Placed, Nested
    <3> QED BY <1>2, <1>11, <1>12, <1>13, <2>1, <2>2, <2>4, <3>1 DEF Nested
  <2>5. CASE Above(p, q)
    <3>1. side = 1
      BY <1>5, <1>14, <2>5
    <3>0. PICK d : d = Child(p, 0)
      OBVIOUS
    <3>2. d = q \/ Above(d, q)
      BY <1>4, <1>14, <2>5, <3>0, <3>1
    <3>3. d \in Procs
      BY <1>1, <3>0, ChildIsProcess
    <3>4. Exists(d)
      BY <1>14, <3>2, <3>3 DEF Rooted, Ancestors
    <3>5. begin[d] = begin[p] /\ end[d] = Mid(p)
      BY <1>1, <3>0, <3>3, <3>4 DEF Placed, HalfOf
    <3>6. end[q] <= end[d]
      <4>1. end[d] \in Nat
        BY <3>3 DEF TypeOK
      <4>2. CASE d = q
        BY <4>1, <4>2
      <4>3. CASE Above(d, q)
        BY <1>14, <3>3, <3>4, <4>3 DEF Placed, Nested
      <4> QED BY <3>2, <4>2, <4>3
    <3>7. begin'[c] = Mid(p)
      BY <1>12, <3>1
    <3>8. ~ Above(q, c)
      BY <1>2, <2>5, AboveOrder
    <3> QED BY <2>1, <2>2, <3>5, <3>6, <3>7, <3>8 DEF Disjoint
  <2>6. CASE q # p /\ ~ Above(q, p) /\ ~ Above(p, q)
    <3>1. end[p] <= begin[q] \/ end[q] <= begin[p]
      BY <1>8, <1>14, <2>6 DEF Placed, Disjoint
    <3>2. end'[c] <= begin'[q] \/ end'[q] <= begin'[c]
      BY <1>11, <1>12, <1>13, <2>1, <3>1
    <3>3. ~ Above(q, c)
      BY <1>2, <2>6
    <3> QED BY <2>2, <3>2, <3>3 DEF Disjoint
  <2> QED BY <2>3, <2>4, <2>5, <2>6
<1>15. Placed'
  <2>1. \A q \in Procs : Exists(q)' => begin'[q] <= end'[q]
    BY <1>1, <1>8, <1>13 DEF Placed
  <2>2. \A q \in Procs :
           /\ pc'[q] \in {"qsort", "fork0"} \cup Splitting => begin'[q] < end'[q]
           /\ pc'[q] \in Splitting => Len(q) < MaxDepth
    <3>1. begin'[p] < end'[p]
      BY <1>1, <1>11
    <3> QED BY <1>1, <3>1 DEF Placed, Splitting
  <2>3. ASSUME NEW q \in Procs, NEW s \in {0, 1}, Len(q) < MaxDepth, Exists(Child(q, s))'
        PROVE  <<begin'[Child(q, s)], end'[Child(q, s)]>> = HalfOf(q, s)'
    <3>1. Child(q, s) \in Procs
      BY <2>3, ChildIsProcess
    <3>2. q # c
      <4>1. CASE q = c
        <5>1. Above(c, Child(q, s))
          BY <2>3, <4>1, <3>1, AboveChild
        <5>2. Child(q, s) # c
          BY <2>3, ChildIsProcess, <4>1
        <5> QED BY <1>3, <1>8, <2>3, <3>1, <5>1, <5>2
      <4> QED BY <4>1
    <3>3. HalfOf(q, s)' = HalfOf(q, s)
      BY <1>1, <3>2 DEF HalfOf, Mid
    <3>4. CASE Child(q, s) = c
      BY <1>1, <1>7, <2>3, <3>3, <3>4
    <3>5. CASE Child(q, s) # c
      BY <1>1, <1>8, <2>3, <3>1, <3>3, <3>5 DEF Placed
    <3> QED BY <3>4, <3>5
  <2>4. ASSUME NEW q \in Procs, NEW r \in Procs, Exists(q)', Exists(r)'
        PROVE  /\ Above(q, r) => Nested(q, r)'
               /\ r = q \/ Above(q, r) \/ Above(r, q) \/ Disjoint(q, r)'
    <3>1. CASE q # c /\ r # c
      <4>1. Nested(q, r)' <=> Nested(q, r)
        BY <1>1, <3>1 DEF Nested
      <4>2. Disjoint(q, r)' <=> Disjoint(q, r)
        BY <1>1, <3>1 DEF Disjoint
      <4> QED BY <1>8, <2>4, <3>1, <4>1, <4>2 DEF Placed
    <3>2. CASE q # c /\ r = c
      BY <1>8, <1>14, <2>4, <3>2
    <3>3. CASE q = c /\ r # c
      BY <1>8, <1>14, <2>4, <3>3
    <3>4. CASE q = c /\ r = c
      BY <1>1, <3>4, AboveOrder
    <3> QED BY <3>1, <3>2, <3>3, <3>4
  <2> QED BY <2>1, <2>2, <2>3, <2>4 DEF Placed
<1> QED BY <1>9, <1>10, <1>15, ForkedKeepsTree

-----------------------------------------------------------------------------
(***************************************************************************)
(* Rearrangements: what bijections of a part of the file make possible.    *)
(***************************************************************************)

\* A bijection, in terms of its values.
LEMMA BijectionFacts ==
  ASSUME NEW S, NEW T, NEW f
  PROVE  f \in Bijection(S, T) <=>
           /\ f \in [S -> T]
           /\ \A x, y \in S : f[x] = f[y] => x = y
           /\ \A t \in T : \E x \in S : f[x] = t
BY DEF Bijection, Injection, Surjection, IsInjective

\* Staying in place is a rearrangement.
LEMMA Identity == ASSUME NEW S PROVE [x \in S |-> x] \in Bijection(S, S)
BY BijectionFacts

\* A rearrangement of a part rearranges the whole.
LEMMA Extended ==
  ASSUME NEW S, NEW T, S \subseteq T, NEW g \in Bijection(S, S)
  PROVE  [x \in T |-> IF x \in S THEN g[x] ELSE x] \in Bijection(T, T)
<1> DEFINE h == [x \in T |-> IF x \in S THEN g[x] ELSE x]
<1>1. /\ g \in [S -> S] /\ \A x, y \in S : g[x] = g[y] => x = y
      /\ \A t \in S : \E x \in S : g[x] = t
  BY BijectionFacts
<1>2. h \in [T -> T] /\ \A x \in T : h[x] = IF x \in S THEN g[x] ELSE x
  BY <1>1
<1> HIDE DEF h
<1>3. \A x, y \in T : h[x] = h[y] => x = y
  BY <1>1, <1>2
<1>4. \A t \in T : \E x \in T : h[x] = t
  BY <1>1, <1>2
<1>5. h \in Bijection(T, T)
  BY <1>2, <1>3, <1>4, BijectionFacts
<1> QED BY <1>5 DEF h

\* One more element, one more place.
LEMMA OneMore ==
  ASSUME NEW n \in Nat, NEW U, NEW g \in Bijection(1..n, U), NEW x, x \notin U
  PROVE  [j \in 1..(n + 1) |-> IF j = n + 1 THEN x ELSE g[j]]
           \in Bijection(1..(n + 1), U \cup {x})
<1> DEFINE h == [j \in 1..(n + 1) |-> IF j = n + 1 THEN x ELSE g[j]]
<1>1. /\ g \in [1..n -> U] /\ \A j, k \in 1..n : g[j] = g[k] => j = k
      /\ \A t \in U : \E j \in 1..n : g[j] = t
  BY BijectionFacts
<1>2. /\ h[n + 1] = x /\ \A j \in 1..n : h[j] = g[j]
      /\ \A j \in 1..(n + 1) : j = n + 1 \/ j \in 1..n
      /\ \A j \in 1..n : j \in 1..(n + 1) /\ j # n + 1
      /\ n + 1 \in 1..(n + 1)
  OBVIOUS
<1>3. h \in [1..(n + 1) -> U \cup {x}]
  BY <1>1
<1> HIDE DEF h
<1>4. \A j, k \in 1..(n + 1) : h[j] = h[k] => j = k
  BY <1>1, <1>2
<1>5. \A t \in U \cup {x} : \E j \in 1..(n + 1) : h[j] = t
  BY <1>1, <1>2
<1>6. h \in Bijection(1..(n + 1), U \cup {x})
  BY <1>3, <1>4, <1>5, BijectionFacts
<1> QED BY <1>6 DEF h

\* Numbering a part from its first place.
LEMMA Shifted ==
  ASSUME NEW a \in Int, NEW b \in Int, NEW g \in Bijection(1..(b - a), a..(b - 1))
  PROVE  [k \in a..(b - 1) |-> g[k - a + 1]] \in Bijection(a..(b - 1), a..(b - 1))
<1> DEFINE h == [k \in a..(b - 1) |-> g[k - a + 1]]
<1>1. /\ g \in [1..(b - a) -> a..(b - 1)]
      /\ \A j, k \in 1..(b - a) : g[j] = g[k] => j = k
      /\ \A t \in a..(b - 1) : \E j \in 1..(b - a) : g[j] = t
  <2> DEFINE S == 1..(b - a)
             T == a..(b - 1)
  <2>1. g \in Bijection(S, T)
    OBVIOUS
  <2> HIDE DEF S, T
  <2>2. /\ g \in [S -> T] /\ \A j, k \in S : g[j] = g[k] => j = k
        /\ \A t \in T : \E j \in S : g[j] = t
    BY <2>1, BijectionFacts
  <2> QED BY <2>2 DEF S, T
<1>2. \A k \in a..(b - 1) : k - a + 1 \in 1..(b - a)
  OBVIOUS
<1>3. h \in [a..(b - 1) -> a..(b - 1)] /\ \A k \in a..(b - 1) : h[k] = g[k - a + 1]
  BY <1>1, <1>2
<1> HIDE DEF h
<1>4. \A j, k \in a..(b - 1) : h[j] = h[k] => j = k
  <2> SUFFICES ASSUME NEW j \in a..(b - 1), NEW k \in a..(b - 1), h[j] = h[k] PROVE j = k
    OBVIOUS
  <2>1. j - a + 1 = k - a + 1
    BY <1>1, <1>2, <1>3
  <2> QED BY <2>1
<1>5. \A t \in a..(b - 1) : \E k \in a..(b - 1) : h[k] = t
  <2> SUFFICES ASSUME NEW t \in a..(b - 1) PROVE \E k \in a..(b - 1) : h[k] = t
    OBVIOUS
  <2>1. PICK j \in 1..(b - a) : g[j] = t
    BY <1>1
  <2>2. a + j - 1 \in a..(b - 1) /\ (a + j - 1) - a + 1 = j
    OBVIOUS
  <2> QED BY <1>3, <2>1, <2>2
<1>6. h \in Bijection(a..(b - 1), a..(b - 1))
  <2> DEFINE T == a..(b - 1)
  <2>1. /\ h \in [T -> T] /\ \A j, k \in T : h[j] = h[k] => j = k
        /\ \A t \in T : \E k \in T : h[k] = t
    BY <1>3, <1>4, <1>5
  <2> HIDE DEF T
  <2>2. h \in Bijection(T, T)
    BY <2>1, BijectionFacts
  <2> QED BY <2>2 DEF T
<1> QED BY <1>6 DEF h

\* A rearrangement holds each value as often.
LEMMA RearrangedHasSameValues ==
  ASSUME NEW S, IsFiniteSet(S), NEW f, NEW g, NEW from \in Bijection(S, S),
         \A k \in S : f[k] = g[from[k]]
  PROVE  SameValues(f, g, S)
<1> SUFFICES ASSUME NEW v
             PROVE  Cardinality({k \in S : f[k] = v}) = Cardinality({k \in S : g[k] = v})
  BY DEF SameValues
<1> DEFINE F == {k \in S : f[k] = v}
           G == {k \in S : g[k] = v}
           h == [k \in F |-> from[k]]
<1>1. /\ from \in [S -> S] /\ \A x, y \in S : from[x] = from[y] => x = y
      /\ \A t \in S : \E x \in S : from[x] = t
  BY BijectionFacts
<1>2. h \in [F -> G]
  BY <1>1
<1>3. \A x, y \in F : h[x] = h[y] => x = y
  BY <1>1
<1>4. \A t \in G : \E x \in F : h[x] = t
  <2> SUFFICES ASSUME NEW t \in G PROVE \E x \in F : h[x] = t
    OBVIOUS
  <2>1. PICK x \in S : from[x] = t
    BY <1>1
  <2> QED BY <2>1
<1>5. IsFiniteSet(F)
  BY FS_Subset
<1> HIDE DEF F, G, h
<1>6. h \in Bijection(F, G)
  BY <1>2, <1>3, <1>4, BijectionFacts
<1>7. Cardinality(G) = Cardinality(F)
  BY <1>5, <1>6, FS_Bijection DEF ExistsBijection
<1> QED BY <1>7 DEF F, G

-----------------------------------------------------------------------------
(***************************************************************************)
(* Data: what a step writes, and what nobody else may rely on after it.    *)
(***************************************************************************)

\* What a process may rely on in the data it works on.
Data == Untouched /\ InOrder /\ \A p \in Procs : MergeInv(p) /\ CopyInv(p) /\ Kept(p)

\* At the start every place holds what the file held.
LEMMA InitData == Init => Data
<1> SUFFICES ASSUME Init PROVE Data
  OBVIOUS
<1>1. /\ \A p \in Procs : pc[p] \in {"none", "open"} /\ status[p] = "none" /\ temparr[p] = <<>>
      /\ \A p \in Procs : p # Main => pc[p] = "none"
      /\ arr = input
  BY DEF Init
<1>2. Untouched /\ InOrder /\ \A p \in Procs : MergeInv(p) /\ CopyInv(p)
  BY <1>1 DEF Untouched, InOrder, MergeInv, CopyInv, Overwriting
<1>3. ASSUME NEW p \in Procs PROVE Kept(p)
  <2>1. \A k \in Span(p) : Holds(k, input[k])
    BY <1>1 DEF Holds, Covers, Overwriting
  <2>2. [k \in Span(p) |-> k] \in Bijection(Span(p), Span(p))
    BY Identity
  <2> QED BY <2>1, <2>2 DEF Kept
<1> QED BY <1>2, <1>3 DEF Data

\* The bounds of a part are places of the file.
LEMMA Places ==
  ASSUME TypeOK, NEW p \in Procs
  PROVE  /\ begin[p] \in Nat /\ end[p] \in Nat /\ Mid(p) \in Nat
         /\ Span(p) \subseteq Index
         /\ begin[p] <= end[p] => begin[p] <= Mid(p) /\ Mid(p) <= end[p]
         /\ begin[p] < end[p] => Mid(p) < end[p]
<1>1. N \in Nat /\ begin[p] \in 0..N /\ end[p] \in 0..N
  BY SizeAssumption DEF TypeOK
<1>2. PICK a \in 0..N, b \in 0..N : a = begin[p] /\ b = end[p]
  BY <1>1
<1>3. (a + b) \div 2 \in Nat
  BY <1>1, <1>2
<1>4. /\ a <= b => a <= (a + b) \div 2 /\ (a + b) \div 2 <= b
      /\ a < b => (a + b) \div 2 < b
  BY <1>1, <1>2
<1>5. a..(b - 1) \subseteq Index
  BY <1>1, <1>2 DEF Index
<1> QED BY <1>1, <1>2, <1>3, <1>4, <1>5 DEF Mid, Span

\* Who has begun to copy does not come back.
LEMMA CleanStays ==
  ASSUME TypeOK, NEW p \in Procs, Alone(p), NEW q \in Procs, Clean(q)'
  PROVE  Clean(q)
<1>1. Acts(p)
  BY AloneActs
<1>2. \A r \in Ancestors(q) : r \in Procs /\ pc'[r] \notin {"copy", "unmap", "ended"}
  BY DEF Clean, Ancestors
<1>3. \A r \in Procs : pc'[r] \notin {"copy", "unmap", "ended"} =>
                       pc[r] \notin {"copy", "unmap", "ended"}
  BY <1>1 DEF Acts, Live
<1> QED BY <1>2, <1>3 DEF Clean

\* A step writes in the part of the process that steps.
LEMMA Writes ==
  ASSUME TypeOK, NEW p \in Procs, CopyInv(p), Alone(p), NEW k \in Index, arr'[k] # arr[k]
  PROVE  k \in Span(p) /\ pc[p] \in {"qsort", "copy"}
<1>1. arr \in [Index -> Int]
  BY DEF TypeOK
<1>2. QsortMoves(p) \/ Qsort(p) \/ Copy(p)
  BY DEF Alone, Quiet, CallQsort, MergeStarts, Merge, CopyDone
<1>5. CASE QsortMoves(p)
  BY <1>1, <1>5 DEF QsortMoves
<1>3. CASE Qsort(p)
  BY <1>1, <1>3 DEF Qsort
<1>4. CASE Copy(p)
  <2>1. k = i[p] /\ pc[p] = "copy" /\ i[p] < end[p]
    BY <1>1, <1>4 DEF Copy
  <2>2. i[p] \in begin[p]..end[p]
    BY <2>1 DEF CopyInv
  <2> QED BY <1>4, <2>1, <2>2, Places DEF Span
<1> QED BY <1>2, <1>3, <1>4, <1>5

\* The part of a process that merges or copies, or has not forked, or has
\* succeeded and is not being copied over, is not written by another.
LEMMA OthersKeepOut ==
  ASSUME Shape, Data, NEW p \in Procs, Alone(p), NEW q \in Procs, q # p, Exists(q),
         \/ pc[q] \in {"open", "start", "qsort", "fork0", "merge", "copy", "unmap"}
         \/ status[q] = "zero" /\ Clean(q)
  PROVE  \A k \in Span(q) : arr'[k] = arr[k]
<1> SUFFICES ASSUME NEW k \in Span(q), arr'[k] # arr[k] PROVE FALSE
  OBVIOUS
<1>1. k \in Index /\ CopyInv(p)
  BY Places DEF Shape, Data
<1>2. k \in Span(p) /\ pc[p] \in {"qsort", "copy"}
  BY <1>1, Writes DEF Shape
<1>3. status[q] = "none" \/ (status[q] = "zero" /\ Clean(q) /\ pc[q] = "ended")
  BY DEF Shape, TypeOK, Ended
<1>4. CASE Above(p, q) /\ pc[p] = "copy" /\ status[q] = "zero"
  BY <1>3, <1>4 DEF Clean, Ancestors
<1>5. CASE pc[q] \in {"fork1", "wait0", "wait1", "reap1", "ended"} /\ status[q] # "zero"
  BY <1>3, <1>5 DEF Shape, TypeOK, Ended
<1>6. \/ Above(p, q) /\ pc[p] # "qsort" /\ status[q] = "zero"
      \/ pc[q] \in {"fork1", "wait0", "wait1", "reap1", "ended"} /\ status[q] # "zero"
  BY <1>2, WriterAlone
<1> QED BY <1>2, <1>4, <1>5, <1>6

\* Nobody writes in a part that has not been given away but its owner, at the end.
LEMMA AloneKeepsUntouched ==
  ASSUME Shape, Data, NEW p \in Procs, Alone(p)
  PROVE  Untouched'
<1>1. Acts(p) /\ input' = input /\ begin' = begin /\ end' = end
  BY AloneActs DEF Shape, Acts
<1>2. \A q \in Procs : Span(q)' = Span(q) /\ Mid(q)' = Mid(q)
  BY <1>1 DEF Span, Mid
<1>3. ASSUME NEW q \in Procs, q # p, pc'[q] \in {"open", "start", "fork0"},
             NEW k \in Span(q)
      PROVE  arr'[k] = input'[k]
  <2>1. pc[q] = pc'[q] /\ Exists(q)
    BY <1>1, <1>3 DEF Acts, Exists
  <2>2. arr'[k] = arr[k]
    BY <1>3, <2>1, OthersKeepOut
  <2> QED BY <1>1, <1>3, <2>1, <2>2 DEF Data, Untouched
<1>4. ASSUME NEW q \in Procs, q # p, pc'[q] = "fork1", NEW k \in Mid(q)..(end[q] - 1)
      PROVE  arr'[k] = input'[k]
  <2>1. pc[q] = "fork1" /\ Exists(q) /\ begin[q] < end[q]
    BY <1>1, <1>4 DEF Acts, Exists, Shape, Placed, Splitting
  <2>2. k \in Span(q) /\ k \in Index
    BY <2>1, Places DEF Shape, Span
  <2>3. arr'[k] = arr[k]
    <3> SUFFICES ASSUME arr'[k] # arr[k] PROVE FALSE
      OBVIOUS
    <3>1. k \in Span(p) /\ pc[p] \in {"qsort", "copy"}
      BY <2>2, Writes DEF Shape, Data
    <3>2. status[q] # "zero"
      BY <2>1 DEF Shape, TypeOK, Ended
    <3> QED BY <1>4, <2>1, <2>2, <3>1, <3>2, WriterAlone
  <2> QED BY <1>1, <1>4, <2>1, <2>3 DEF Data, Untouched
<1>5. pc'[p] \in {"open", "start", "fork0"} =>
        pc[p] \in {"open", "start", "fork0"} /\ arr' = arr
  <2>1. pc \in [Procs -> {"none", "ended"} \cup Doing]
    BY DEF Shape, TypeOK
  <2>2. CASE Quiet(p)
    BY <2>1, <2>2 DEF Quiet, Sorted, Goto, Exit
  <2>3. CASE Qsort(p) \/ MergeStarts(p) \/ CopyDone(p)
    BY <2>1, <2>3 DEF Qsort, MergeStarts, StartMerge, CopyDone, Sorted, Goto, Exit
  <2>6. CASE CallQsort(p) \/ QsortMoves(p)
    BY <2>1, <2>6 DEF CallQsort, QsortMoves, Goto
  <2>4. CASE Merge(p)
    BY <2>1, <2>4 DEF Merge, Goto
  <2>5. CASE Copy(p)
    BY <2>1, <2>5 DEF Copy
  <2> QED BY <2>2, <2>3, <2>4, <2>5, <2>6 DEF Alone
<1>6. pc'[p] # "fork1"
  <2>1. pc \in [Procs -> {"none", "ended"} \cup Doing]
    BY DEF Shape, TypeOK
  <2>2. CASE Quiet(p)
    BY <2>1, <2>2 DEF Quiet, Sorted, Goto, Exit
  <2>3. CASE Qsort(p) \/ MergeStarts(p) \/ CopyDone(p)
    BY <2>1, <2>3 DEF Qsort, MergeStarts, StartMerge, CopyDone, Sorted, Goto, Exit
  <2>6. CASE CallQsort(p) \/ QsortMoves(p)
    BY <2>1, <2>6 DEF CallQsort, QsortMoves, Goto
  <2>4. CASE Merge(p) \/ Copy(p)
    BY <2>1, <2>4 DEF Merge, Copy, Goto
  <2> QED BY <2>2, <2>3, <2>4, <2>6 DEF Alone
<1>7. pc'[p] \in {"open", "start", "fork0"} => \A k \in Span(p) : arr'[k] = input'[k]
  BY <1>1, <1>5 DEF Data, Untouched
<1>8. \A q \in Procs : pc'[q] \in {"open", "start", "fork0"} =>
        \A k \in Span(q) : arr'[k] = input'[k]
  BY <1>3, <1>7
<1>9. \A q \in Procs : pc'[q] = "fork1" => \A k \in Mid(q)..(end[q] - 1) : arr'[k] = input'[k]
  BY <1>4, <1>6
<1> QED BY <1>1, <1>2, <1>8, <1>9 DEF Untouched

\* What was copied is the array, which was in order.
LEMMA CopiedInOrder ==
  ASSUME Shape, Data, NEW p \in Procs, CopyDone(p), Clean(p)
  PROVE  SortedOn(arr, Span(p))
<1>1. /\ pc[p] = "copy" /\ i[p] = end[p] /\ Len(temparr[p]) = end[p] - begin[p]
      /\ \A k \in begin[p]..(i[p] - 1) : arr[k] = temparr[p][k - begin[p] + 1]
      /\ InOrderUpTo(temparr[p])
  BY DEF CopyDone, Data, CopyInv, Overwriting
<1> SUFFICES ASSUME NEW k \in Span(p), NEW l \in Span(p), k < l PROVE arr[k] <= arr[l]
  BY DEF SortedOn
<1>2. /\ k - begin[p] + 1 \in 1..Len(temparr[p]) /\ l - begin[p] + 1 \in 1..Len(temparr[p])
      /\ k - begin[p] + 1 < l - begin[p] + 1
  BY <1>1, Places DEF Span, Shape
<1>3. arr[k] = temparr[p][k - begin[p] + 1] /\ arr[l] = temparr[p][l - begin[p] + 1]
  BY <1>1 DEF Span
<1> QED BY <1>1, <1>2, <1>3 DEF InOrderUpTo

\* What was sorted stays so until somebody above copies over it.
LEMMA AloneKeepsInOrder ==
  ASSUME Shape, Data, NEW p \in Procs, Alone(p)
  PROVE  InOrder'
<1>1. Acts(p) /\ begin' = begin /\ end' = end
  BY AloneActs DEF Shape, Acts
<1>2. \A q \in Procs : Span(q)' = Span(q)
  BY <1>1 DEF Span
<1>3. ASSUME NEW q \in Procs, pc'[q] = "unmap" \/ status'[q] = "zero", Clean(q)'
      PROVE  SortedOn(arr', Span(q))
  <2>1. Clean(q)
    BY <1>3, CleanStays DEF Shape
  <2>2. CASE q # p
    <3>1. pc[q] = "unmap" \/ status[q] = "zero"
      BY <1>1, <1>3, <2>2 DEF Acts
    <3>2. Exists(q)
      BY <3>1 DEF Exists, Shape, TypeOK, Ended
    <3>3. \A k \in Span(q) : arr'[k] = arr[k]
      BY <2>1, <2>2, <3>1, <3>2, OthersKeepOut
    <3>4. SortedOn(arr, Span(q))
      BY <2>1, <3>1 DEF Data, InOrder
    <3> QED BY <3>3, <3>4 DEF SortedOn
  <2>3. CASE q = p
    <3>0. pc \in [Procs -> {"none", "ended"} \cup Doing]
          /\ status \in [Procs -> {"none", "zero", "one", "killed"}]
          /\ status[p] = "none"
      BY <1>1 DEF Shape, TypeOK, Acts
    <3>1. CASE Quiet(p)
      <4>1. \/ (pc[p] = "unmap" /\ arr' = arr)
            \/ begin[p] >= end[p]
        BY <1>3, <2>3, <3>0, <3>1 DEF Quiet, Goto, Exit, Sorted
      <4>2. CASE pc[p] = "unmap" /\ arr' = arr
        BY <2>1, <2>3, <4>2 DEF Data, InOrder
      <4>3. CASE begin[p] >= end[p]
        <5>1. Span(p) = {}
          BY <4>3, Places DEF Shape, Span
        <5> QED BY <2>3, <5>1 DEF SortedOn
      <4> QED BY <4>1, <4>2, <4>3
    <3>2. CASE Qsort(p)
      BY <2>3, <3>2 DEF Qsort
    <3>3. CASE CopyDone(p)
      <4>1. arr' = arr
        BY <3>3 DEF CopyDone
      <4> QED BY <2>1, <2>3, <3>3, <4>1, CopiedInOrder
    <3>4. CASE CallQsort(p) \/ QsortMoves(p) \/ MergeStarts(p) \/ Merge(p) \/ Copy(p)
      <4>1. pc'[p] # "unmap" /\ status'[p] = status[p] /\ pc[p] # "ended"
        BY <3>0, <3>4 DEF CallQsort, QsortMoves, MergeStarts, StartMerge, Merge, Copy, Goto
      <4> QED BY <1>3, <2>3, <4>1 DEF Shape, TypeOK, Ended
    <3> QED BY <3>1, <3>2, <3>3, <3>4 DEF Alone
  <2> QED BY <2>2, <2>3
<1> QED BY <1>2, <1>3 DEF InOrder

-----------------------------------------------------------------------------
(***************************************************************************)
(* The private arrays: what a merge takes, and what is in order after it.  *)
(***************************************************************************)

\* The private arrays of the others, and what these say, stay.
LEMMA OthersArraysStay ==
  ASSUME Shape, Data, NEW p \in Procs, Alone(p), NEW q \in Procs, q # p
  PROVE  MergeInv(q)' /\ CopyInv(q)'
<1>1. Acts(p)
  BY AloneActs DEF Shape
<1>2. /\ pc'[q] = pc[q] /\ status'[q] = status[q] /\ temparr'[q] = temparr[q] /\ i'[q] = i[q]
      /\ leftIndex'[q] = leftIndex[q] /\ rightIndex'[q] = rightIndex[q]
      /\ begin' = begin /\ end' = end
  BY <1>1 DEF Acts
<1>3. MergeInv(q) /\ CopyInv(q)
  BY DEF Data
<1>4. Clean(q)' => Clean(q)
  BY CleanStays DEF Shape
<1>5. pc[q] \in {"merge", "copy"} => \A k \in Span(q) : arr'[k] = arr[k]
  BY OthersKeepOut DEF Exists
<1>6. Span(q)' = Span(q) /\ Mid(q)' = Mid(q)
  BY <1>2 DEF Span, Mid
<1>7. Used(q)' = Used(q)
  BY <1>2, <1>6 DEF Used
<1>8. CopyInv(q)'
  <2>1. Overwriting(q)' <=> Overwriting(q)
    BY <1>2 DEF Overwriting
  <2>2. ASSUME pc[q] = "copy", NEW k \in begin[q]..(i[q] - 1) PROVE arr'[k] = arr[k]
    <3>1. i[q] \in begin[q]..end[q]
      BY <1>3, <2>2 DEF CopyInv
    <3>2. k \in Span(q)
      BY <2>2, <3>1, Places DEF Shape, Span
    <3> QED BY <1>5, <2>2, <3>2
  <2> QED BY <1>2, <1>3, <1>4, <2>1, <2>2 DEF CopyInv, InOrderUpTo
<1>9. MergeInv(q)'
  <2>1. CASE pc[q] # "merge"
    BY <1>2, <1>3, <2>1 DEF MergeInv
  <2>2. CASE pc[q] = "merge"
    <3>1. /\ leftIndex[q] \in begin[q]..Mid(q) /\ rightIndex[q] \in Mid(q)..end[q]
          /\ Len(temparr[q]) = (leftIndex[q] - begin[q]) + (rightIndex[q] - Mid(q))
          /\ Len(temparr[q]) < end[q] - begin[q]
      BY <1>3, <2>2 DEF MergeInv
    <3>2. PICK from \in Bijection(1..Len(temparr[q]), Used(q)) :
            \A j \in 1..Len(temparr[q]) : temparr[q][j] = arr[from[j]]
      BY <1>3, <2>2 DEF MergeInv
    <3>3. Used(q) \subseteq Span(q)
      BY <3>1, Places DEF Used, Span, Shape
    <3>4. \A j \in 1..Len(temparr[q]) : from[j] \in Span(q)
      BY <3>2, <3>3, BijectionFacts
    <3>5. \A j \in 1..Len(temparr[q]) : temparr[q][j] = arr'[from[j]]
      BY <1>5, <2>2, <3>2, <3>4
    <3>6. Clean(q)' => /\ InOrderUpTo(temparr[q])
                       /\ \A j \in 1..Len(temparr[q]), k \in Span(q) \ Used(q) :
                            temparr[q][j] <= arr'[k]
      BY <1>3, <1>4, <1>5, <2>2 DEF MergeInv
    <3> QED BY <1>2, <1>6, <1>7, <2>2, <3>1, <3>2, <3>5, <3>6 DEF MergeInv, InOrderUpTo
  <2> QED BY <2>1, <2>2
<1> QED BY <1>8, <1>9

\* A step that writes nothing leaves every array as it is.
LEMMA QuietArrays ==
  ASSUME Shape, Data, NEW p \in Procs, Quiet(p)
  PROVE  /\ MergeInv(p)' /\ CopyInv(p)'
         /\ Overwriting(p)' <=> Overwriting(p)
<1>0. Alone(p)
  BY DEF Alone
<1>1. Acts(p)
  BY <1>0, AloneActs DEF Shape
<1>2. /\ pc \in [Procs -> {"none", "ended"} \cup Doing]
      /\ status \in [Procs -> {"none", "zero", "one", "killed"}]
      /\ status[p] = "none" /\ pc[p] \notin {"none", "ended"}
  BY <1>1 DEF Shape, TypeOK, Acts, Live
<1>3. UNCHANGED <<arr, begin, end, leftIndex, rightIndex, temparr, i>>
  BY DEF Quiet, part, merging
<1>4. /\ pc[p] \notin {"qsort", "merge", "copy"} => temparr[p] = <<>>
      /\ pc[p] = "merge" => Len(temparr[p]) < end[p] - begin[p]
      /\ pc[p] \in {"qsort", "copy"} =>
           begin[p] < end[p] /\ Len(temparr[p]) = end[p] - begin[p]
  <2>1. MergeInv(p) /\ CopyInv(p) /\ (pc[p] \in {"qsort", "copy"} => begin[p] < end[p])
    BY DEF Shape, Placed, Splitting, Data
  <2> QED BY <1>2, <2>1 DEF MergeInv, CopyInv, Overwriting
<1>5. begin[p] \in Int /\ end[p] \in Int
  BY Places DEF Shape
<1>6. /\ pc'[p] \notin {"qsort", "merge", "copy"}
      /\ pc'[p] # "ended" => pc[p] \notin {"qsort", "merge", "copy"}
      /\ pc[p] \in {"qsort", "merge", "copy"} => status'[p] = "killed"
  BY <1>2 DEF Quiet, Goto, Exit, Sorted
<1>7. MergeInv(p)'
  BY <1>3, <1>4, <1>6 DEF MergeInv
<1>8. Overwriting(p)' <=> Overwriting(p)
  BY <1>2, <1>3, <1>4, <1>5, <1>6 DEF Overwriting
<1>9. CopyInv(p)'
  BY <1>3, <1>6, <1>8 DEF CopyInv, Data
<1> QED BY <1>7, <1>8, <1>9

\* A merge starts with an empty array.
LEMMA MergeStartsArrays ==
  ASSUME Shape, Data, NEW p \in Procs, MergeStarts(p)
  PROVE  /\ MergeInv(p)' /\ CopyInv(p)'
         /\ ~ Overwriting(p) /\ ~ Overwriting(p)'
<1>1. /\ pc \in [Procs -> {"none", "ended"} \cup Doing] /\ status[p] = "none" /\ status' = status
      /\ pc[p] = "wait1" /\ begin[p] < end[p]
  BY DEF Shape, TypeOK, Ended, MergeStarts, StartMerge, Goto, Placed, Splitting
<1>2. temparr[p] = <<>>
  BY <1>1 DEF Data, MergeInv
<1>3. /\ pc'[p] = "merge" /\ leftIndex'[p] = begin[p] /\ rightIndex'[p] = Mid(p)
      /\ begin' = begin /\ end' = end /\ temparr' = temparr /\ arr' = arr
  BY <1>1 DEF MergeStarts, StartMerge, Goto, part, Shape, TypeOK
<1>4. ~ Overwriting(p) /\ ~ Overwriting(p)'
  BY <1>1, <1>3 DEF Overwriting
<1>5. CopyInv(p)'
  BY <1>3, <1>4 DEF CopyInv
<1>6. /\ begin[p] \in Int /\ end[p] \in Int /\ Mid(p) \in Int
      /\ begin[p] <= Mid(p) /\ Mid(p) <= end[p] /\ Mid(p)' = Mid(p)
  BY <1>1, <1>3, Places DEF Shape, Mid
<1>7. Used(p)' = {}
  BY <1>3, <1>6 DEF Used
<1>8. \E from \in Bijection(1..0, {}) : TRUE
  <2>1. 1..0 = {}
    OBVIOUS
  <2> QED BY <2>1, Identity
<1>9. MergeInv(p)'
  <2>1. Len(<<>>) = 0 /\ 1..Len(<<>>) = 1..0 /\ \A j \in 1..0 : FALSE
    OBVIOUS
  <2>2. PICK from \in Bijection(1..0, {}) : TRUE
    BY <1>8
  <2>3. from \in Bijection(1..Len(temparr'[p]), Used(p)')
    BY <1>2, <1>3, <1>7, <2>1, <2>2
  <2>4. \A j \in 1..Len(temparr'[p]) : FALSE
    BY <1>2, <1>3, <2>1
  <2>5. /\ leftIndex'[p] \in begin'[p]..Mid(p)' /\ rightIndex'[p] \in Mid(p)'..end'[p]
        /\ Len(temparr'[p]) = (leftIndex'[p] - begin'[p]) + (rightIndex'[p] - Mid(p)')
        /\ Len(temparr'[p]) < end'[p] - begin'[p]
    BY <1>1, <1>2, <1>3, <1>6, <2>1
  <2> QED BY <1>3, <2>3, <2>4, <2>5 DEF MergeInv, InOrderUpTo
<1> QED BY <1>4, <1>5, <1>9

\* Both halves of a merge that nobody disturbs are in order.
LEMMA HalvesInOrder ==
  ASSUME Shape, Data, NEW p \in Procs, pc[p] = "merge", Clean(p)
  PROVE  SortedOn(arr, begin[p]..(Mid(p) - 1)) /\ SortedOn(arr, Mid(p)..(end[p] - 1))
<1> USE DEF Shape
<1>1. Len(p) < MaxDepth
  BY DEF Placed, Splitting
<1>2. Succeeded(p)
  BY <1>1 DEF TreeInv, AllowsKids
<1>3. ASSUME NEW side \in {0, 1} PROVE SortedOn(arr, HalfOf(p, side)[1]..(HalfOf(p, side)[2] - 1))
  <2>1. PICK c \in Procs : c = Child(p, side)
    BY <1>1, ChildIsProcess
  <2>2. status[c] = "zero"
    BY <1>2, <2>1 DEF Succeeded
  <2>3. \A q \in Procs : Above(q, c) => q = p \/ Above(q, p)
    BY <2>1, AboveChild
  <2>4. Clean(c)
    BY <2>3 DEF Clean, Ancestors
  <2>5. SortedOn(arr, Span(c))
    BY <2>2, <2>4 DEF Data, InOrder
  <2>6. Exists(c)
    BY <2>2 DEF Exists, TypeOK, Ended
  <2>7. <<begin[c], end[c]>> = HalfOf(p, side)
    BY <1>1, <2>1, <2>6 DEF Placed
  <2>8. begin[c] = HalfOf(p, side)[1] /\ end[c] = HalfOf(p, side)[2]
    BY <2>7 DEF HalfOf
  <2> QED BY <2>5, <2>8 DEF Span
<1>4. /\ HalfOf(p, 0)[1] = begin[p] /\ HalfOf(p, 0)[2] = Mid(p)
      /\ HalfOf(p, 1)[1] = Mid(p) /\ HalfOf(p, 1)[2] = end[p]
  BY DEF HalfOf
<1>5. SortedOn(arr, begin[p]..(Mid(p) - 1))
  BY <1>3, <1>4
<1>6. SortedOn(arr, Mid(p)..(end[p] - 1))
  BY <1>3, <1>4
<1> QED BY <1>5, <1>6

\* In a part in order, what comes first is least.
LEMMA FirstIsLeast ==
  ASSUME NEW f, NEW a \in Int, NEW b \in Int, \A k \in a..(b - 1) : f[k] \in Int,
         SortedOn(f, a..(b - 1)), NEW l \in Int, a <= l, NEW k \in l..(b - 1)
  PROVE  l \in a..(b - 1) /\ f[l] <= f[k]
<1>1. l \in a..(b - 1) /\ k \in a..(b - 1) /\ (k = l \/ l < k)
  OBVIOUS
<1> QED BY <1>1 DEF SortedOn

\* The element a merge takes.
Taken(p) == IF LeftFirst(p) THEN leftIndex[p] ELSE rightIndex[p]

\* It takes from the rest of the halves, and what is least there.
LEMMA MergeTakesLeast ==
  ASSUME Shape, Data, NEW p \in Procs, Merge(p)
  PROVE  /\ Taken(p) \in Span(p) \ Used(p)
         /\ temparr'[p] = Append(temparr[p], arr[Taken(p)])
         /\ Used(p)' = Used(p) \cup {Taken(p)}
         /\ leftIndex'[p] \in begin[p]..Mid(p) /\ rightIndex'[p] \in Mid(p)..end[p]
         /\ (leftIndex'[p] - begin[p]) + (rightIndex'[p] - Mid(p)) = Len(temparr[p]) + 1
         /\ Clean(p) => \A k \in Span(p) \ Used(p) : arr[Taken(p)] <= arr[k]
<1>1. PICK b \in Int, e \in Int, m \in Int, l \in Int, r \in Int :
        /\ b = begin[p] /\ e = end[p] /\ m = Mid(p) /\ l = leftIndex[p] /\ r = rightIndex[p]
        /\ 0 <= b /\ b <= m /\ m <= e /\ e <= N
  <2>1. begin[p] < end[p]
    BY DEF Merge, Shape, Placed, Splitting
  <2>2. leftIndex[p] \in Int /\ rightIndex[p] \in Int /\ end[p] <= N
    BY SizeAssumption DEF Shape, TypeOK
  <2> QED BY <2>1, <2>2, Places DEF Shape
<1>2. b <= l /\ l <= m /\ m <= r /\ r <= e /\ Len(temparr[p]) = (l - b) + (r - m)
      /\ Len(temparr[p]) < e - b
  BY <1>1 DEF Merge, Data, MergeInv
<1>0. r < e \/ l < m
  BY <1>2
<1>3. begin' = begin /\ end' = end /\ Mid(p)' = m
  BY <1>1 DEF Merge, part, Mid
<1>4. /\ leftIndex \in [Procs -> 0..N] /\ rightIndex \in [Procs -> 0..N]
      /\ temparr \in [Procs -> Seq(Int)] /\ \A k \in b..(e - 1) : arr[k] \in Int
  <2>1. \A k \in b..(e - 1) : k \in Index
    BY <1>1, SizeAssumption DEF Index
  <2> QED BY <2>1 DEF Shape, TypeOK
<1>5. Span(p) = b..(e - 1) /\ Used(p) = (b..(l - 1)) \cup (m..(r - 1))
  BY <1>1 DEF Span, Used
<1>6. \A k \in Span(p) \ Used(p) : k \in l..(m - 1) \/ k \in r..(e - 1)
  BY <1>1, <1>2, <1>5
<1>7. Clean(p) => SortedOn(arr, b..(m - 1)) /\ SortedOn(arr, m..(e - 1))
  BY <1>1, HalvesInOrder DEF Merge
<1>8. /\ \A k \in b..(m - 1) : arr[k] \in Int
      /\ \A k \in m..(e - 1) : arr[k] \in Int
  BY <1>1, <1>4
<1>9. CASE LeftFirst(p)
  <2>0. r < e => arr[l] <= arr[r]
    BY <1>1, <1>9 DEF LeftFirst
  <2>1. l < m
    BY <1>1, <1>9 DEF LeftFirst
  <2>2. /\ Taken(p) = l /\ temparr'[p] = Append(temparr[p], arr[l])
        /\ leftIndex'[p] = l + 1 /\ rightIndex'[p] = r
    BY <1>1, <1>4, <1>9 DEF Merge, Taken
  <2>3. Taken(p) \in Span(p) \ Used(p)
    BY <1>2, <1>5, <2>1, <2>2
  <2>4. Used(p)' = Used(p) \cup {Taken(p)}
    <3>1. b..((l + 1) - 1) = (b..(l - 1)) \cup {l}
      BY <1>1, <1>2
    <3> QED BY <1>1, <1>3, <1>5, <2>2, <3>1 DEF Used
  <2>5. ASSUME Clean(p), NEW k \in Span(p) \ Used(p) PROVE arr[Taken(p)] <= arr[k]
    <3>1. CASE k \in l..(m - 1)
      BY <1>2, <1>7, <1>8, <2>2, <2>5, <3>1, FirstIsLeast
    <3>2. CASE k \in r..(e - 1)
      <4>1. r < e /\ arr[r] <= arr[k] /\ r \in m..(e - 1)
        BY <1>2, <1>7, <1>8, <2>5, <3>2, FirstIsLeast
      <4>2. arr[l] \in Int /\ arr[r] \in Int /\ arr[k] \in Int
        BY <1>2, <1>4, <1>5, <2>1, <2>5, <4>1
      <4> QED BY <2>0, <2>2, <4>1, <4>2
    <3> QED BY <1>6, <2>5, <3>1, <3>2
  <2>6. /\ leftIndex'[p] \in b..m /\ rightIndex'[p] \in m..e
        /\ (leftIndex'[p] - b) + (rightIndex'[p] - m) = Len(temparr[p]) + 1
    BY <1>2, <2>1, <2>2
  <2> QED BY <1>1, <2>2, <2>3, <2>4, <2>5, <2>6
<1>10. CASE ~ LeftFirst(p)
  <2>0. l < m => ~ (arr[l] <= arr[r])
    BY <1>1, <1>2, <1>10 DEF LeftFirst
  <2>1. r < e
    BY <1>0, <1>1, <1>10 DEF LeftFirst
  <2>2. /\ Taken(p) = r /\ temparr'[p] = Append(temparr[p], arr[r])
        /\ rightIndex'[p] = r + 1 /\ leftIndex'[p] = l
    BY <1>1, <1>4, <1>10 DEF Merge, Taken
  <2>3. Taken(p) \in Span(p) \ Used(p)
    BY <1>2, <1>5, <2>1, <2>2
  <2>4. Used(p)' = Used(p) \cup {Taken(p)}
    <3>1. m..((r + 1) - 1) = (m..(r - 1)) \cup {r}
      BY <1>1, <1>2
    <3> QED BY <1>1, <1>3, <1>5, <2>2, <3>1 DEF Used
  <2>5. ASSUME Clean(p), NEW k \in Span(p) \ Used(p) PROVE arr[Taken(p)] <= arr[k]
    <3>1. CASE k \in r..(e - 1)
      BY <1>2, <1>7, <1>8, <2>2, <2>5, <3>1, FirstIsLeast
    <3>2. CASE k \in l..(m - 1)
      <4>1. l < m /\ arr[l] <= arr[k] /\ l \in b..(m - 1)
        BY <1>2, <1>7, <1>8, <2>5, <3>2, FirstIsLeast
      <4>2. arr[l] \in Int /\ arr[r] \in Int /\ arr[k] \in Int
        BY <1>2, <1>4, <1>5, <2>1, <2>5, <4>1
      <4> QED BY <2>0, <2>2, <4>1, <4>2
    <3> QED BY <1>6, <2>5, <3>1, <3>2
  <2>6. /\ leftIndex'[p] \in b..m /\ rightIndex'[p] \in m..e
        /\ (leftIndex'[p] - b) + (rightIndex'[p] - m) = Len(temparr[p]) + 1
    BY <1>2, <2>1, <2>2
  <2> QED BY <1>1, <2>2, <2>3, <2>4, <2>5, <2>6
<1> QED BY <1>9, <1>10

\* The array after the step: one element longer, in order if it has to be.
LEMMA MergeExtends ==
  ASSUME Shape, Data, NEW p \in Procs, Merge(p)
  PROVE  /\ Len(temparr'[p]) = Len(temparr[p]) + 1
         /\ \E from \in Bijection(1..Len(temparr'[p]), Used(p)') :
              \A j \in 1..Len(temparr'[p]) : temparr'[p][j] = arr[from[j]]
         /\ Clean(p) => /\ InOrderUpTo(temparr'[p])
                        /\ \A j \in 1..Len(temparr'[p]), k \in Span(p) \ (Used(p)') :
                             temparr'[p][j] <= arr[k]
<1>1. PICK n \in Nat : n = Len(temparr[p])
  BY DEF Shape, TypeOK
<1>2. PICK x : x = Taken(p)
  OBVIOUS
<1>3. /\ x \in Span(p) \ Used(p) /\ temparr'[p] = Append(temparr[p], arr[x])
      /\ Used(p)' = Used(p) \cup {x}
      /\ Clean(p) => \A k \in Span(p) \ Used(p) : arr[x] <= arr[k]
  BY <1>2, MergeTakesLeast
<1>4. temparr[p] \in Seq(Int) /\ arr[x] \in Int /\ \A k \in Span(p) : arr[k] \in Int
  BY <1>3, Places DEF Shape, TypeOK
<1>5. /\ Len(temparr'[p]) = n + 1 /\ temparr'[p][n + 1] = arr[x]
      /\ \A j \in 1..n : temparr'[p][j] = temparr[p][j]
      /\ \A j \in 1..(n + 1) : j = n + 1 \/ j \in 1..n
  BY <1>1, <1>3, <1>4
<1>6. PICK from \in Bijection(1..n, Used(p)) : \A j \in 1..n : temparr[p][j] = arr[from[j]]
  BY <1>1 DEF Merge, Data, MergeInv
<1> DEFINE h == [j \in 1..(n + 1) |-> IF j = n + 1 THEN x ELSE from[j]]
<1>7. h \in Bijection(1..(n + 1), Used(p) \cup {x})
  BY <1>3, <1>6, OneMore
<1>8. \A j \in 1..(n + 1) : temparr'[p][j] = arr[h[j]]
  BY <1>5, <1>6
<1>9. ASSUME Clean(p)
      PROVE  /\ InOrderUpTo(temparr'[p])
             /\ \A j \in 1..(n + 1), k \in Span(p) \ (Used(p) \cup {x}) : temparr'[p][j] <= arr[k]
  <2>1. /\ InOrderUpTo(temparr[p])
        /\ \A j \in 1..n, k \in Span(p) \ Used(p) : temparr[p][j] <= arr[k]
    BY <1>1, <1>9 DEF Merge, Data, MergeInv
  <2>2. \A j \in 1..n : temparr[p][j] <= arr[x]
    BY <1>3, <2>1
  <2>3. \A j, k \in 1..(n + 1) : j < k => temparr'[p][j] <= temparr'[p][k]
    <3> SUFFICES ASSUME NEW j \in 1..(n + 1), NEW k \in 1..(n + 1), j < k
                 PROVE  temparr'[p][j] <= temparr'[p][k]
      OBVIOUS
    <3>1. j \in 1..n
      OBVIOUS
    <3>2. CASE k = n + 1
      BY <1>5, <2>2, <3>1, <3>2
    <3>3. CASE k \in 1..n
      BY <1>1, <1>5, <2>1, <3>1, <3>3 DEF InOrderUpTo
    <3> QED BY <1>5, <3>2, <3>3
  <2>4. \A j \in 1..(n + 1), k \in Span(p) \ (Used(p) \cup {x}) : temparr'[p][j] <= arr[k]
    BY <1>3, <1>5, <1>9, <2>1
  <2> QED BY <1>5, <2>3, <2>4 DEF InOrderUpTo
<1> HIDE DEF h
<1> QED BY <1>1, <1>3, <1>5, <1>7, <1>8, <1>9

\* A round of a merge.
LEMMA MergeArrays ==
  ASSUME Shape, Data, NEW p \in Procs, Merge(p)
  PROVE  /\ MergeInv(p)' /\ CopyInv(p)'
         /\ pc'[p] # "copy" => ~ Overwriting(p)'
         /\ pc'[p] = "copy" => Used(p)' = Span(p) /\ Len(temparr'[p]) = end[p] - begin[p]
<1>1. PICK b \in Int, e \in Int, m \in Int, n \in Nat :
        /\ b = begin[p] /\ e = end[p] /\ m = Mid(p) /\ n = Len(temparr[p])
        /\ 0 <= b /\ b <= m /\ m <= e /\ b < e
  <2>1. begin[p] < end[p] /\ Len(temparr[p]) \in Nat
    BY DEF Merge, Shape, Placed, Splitting, TypeOK
  <2> QED BY <2>1, Places DEF Shape
<1>2. PICK l \in Int, r \in Int :
        /\ l = leftIndex'[p] /\ r = rightIndex'[p]
        /\ b <= l /\ l <= m /\ m <= r /\ r <= e /\ (l - b) + (r - m) = n + 1
  BY <1>1, MergeTakesLeast
<1>3. begin' = begin /\ end' = end /\ Mid(p)' = m /\ Span(p)' = Span(p) /\ arr' = arr
  BY <1>1 DEF Merge, part, Mid, Span
<1>4. /\ status'[p] = "none" /\ Len(temparr'[p]) = n + 1
      /\ pc \in [Procs -> {"none", "ended"} \cup Doing] /\ i \in [Procs -> 0..N]
  BY <1>1, MergeExtends DEF Shape, TypeOK, Ended, Merge, Goto
<1>5. Used(p)' = (b..(l - 1)) \cup (m..(r - 1)) /\ Span(p) = b..(e - 1)
  BY <1>1, <1>2, <1>3 DEF Used, Span
<1>6. Clean(p)' => Clean(p)
  BY CleanStays DEF Shape, Alone
<1>7. \/ l = m /\ r = e /\ pc'[p] = "copy" /\ i'[p] = b
      \/ ~ (l = m /\ r = e) /\ pc'[p] = "merge"
  <2>1. CASE l = m /\ r = e
    BY <1>1, <1>2, <1>4, <2>1 DEF Merge, Goto
  <2>2. CASE ~ (l = m /\ r = e)
    BY <1>1, <1>2, <1>4, <2>2 DEF Merge, Goto
  <2> QED BY <2>1, <2>2
<1>8. CASE l = m /\ r = e /\ pc'[p] = "copy" /\ i'[p] = b
  <2>1. Used(p)' = Span(p)
    BY <1>1, <1>5, <1>8
  <2>2. Len(temparr'[p]) = e - b
    BY <1>2, <1>4, <1>8
  <2>3. InOrderUpTo(temparr'[p]) \/ ~ Clean(p)'
    BY <1>6, MergeExtends
  <2>4. b \in b..e /\ b..(b - 1) = {}
    BY <1>1
  <2>5. CopyInv(p)'
    BY <1>1, <1>3, <1>8, <2>2, <2>3, <2>4 DEF CopyInv, InOrderUpTo
  <2>6. MergeInv(p)'
    BY <1>8 DEF MergeInv
  <2> QED BY <1>1, <1>8, <2>1, <2>2, <2>5, <2>6
<1>9. CASE ~ (l = m /\ r = e) /\ pc'[p] = "merge"
  <2>1. ~ Overwriting(p)'
    BY <1>4, <1>9 DEF Overwriting
  <2>2. CopyInv(p)'
    BY <1>9, <2>1 DEF CopyInv
  <2>3. n + 1 < e - b
    BY <1>2, <1>9
  <2>4. PICK from \in Bijection(1..Len(temparr'[p]), Used(p)') :
          \A j \in 1..Len(temparr'[p]) : temparr'[p][j] = arr[from[j]]
    BY MergeExtends
  <2>5. Clean(p)' => /\ InOrderUpTo(temparr'[p])
                     /\ \A j \in 1..Len(temparr'[p]), k \in Span(p) \ (Used(p)') :
                          temparr'[p][j] <= arr[k]
    BY <1>6, MergeExtends
  <2>6. l \in b..m /\ r \in m..e
    BY <1>2
  <2>7. /\ leftIndex'[p] \in begin'[p]..Mid(p)' /\ rightIndex'[p] \in Mid(p)'..end'[p]
        /\ Len(temparr'[p]) = (leftIndex'[p] - begin'[p]) + (rightIndex'[p] - Mid(p)')
        /\ Len(temparr'[p]) < end'[p] - begin'[p]
    BY <1>1, <1>2, <1>3, <1>4, <2>3, <2>6
  <2>8. MergeInv(p)'
    BY <1>3, <1>9, <2>4, <2>5, <2>7 DEF MergeInv, InOrderUpTo
  <2> QED BY <1>9, <2>1, <2>2, <2>8
<1> QED BY <1>7, <1>8, <1>9

\* Who calls qsort keeps what it calls it with.
LEMMA CallQsortArrays ==
  ASSUME Shape, Data, NEW p \in Procs, CallQsort(p)
  PROVE  /\ MergeInv(p)' /\ CopyInv(p)'
         /\ ~ Overwriting(p) /\ Overwriting(p)'
         /\ temparr'[p] \in Seq(Int)
         /\ \A k \in Span(p) : temparr'[p][k - begin[p] + 1] = arr[k]
<1>1. /\ pc \in [Procs -> {"none", "ended"} \cup Doing]
      /\ status[p] = "none" /\ pc[p] = "start" /\ pc'[p] = "qsort" /\ status' = status
      /\ begin' = begin /\ end' = end
  BY DEF Shape, TypeOK, Ended, CallQsort, Goto, part
<1>2. PICK b \in Int, e \in Int : b = begin[p] /\ e = end[p] /\ b < e
  BY Places DEF Shape, CallQsort
<1>3. temparr'[p] = [j \in 1..(e - b) |-> arr[b + j - 1]]
  BY <1>2 DEF CallQsort, Shape, TypeOK
<1>4. \A j \in 1..(e - b) : b + j - 1 \in b..(e - 1)
  OBVIOUS
<1>5. \A k \in b..(e - 1) : arr[k] \in Int
  BY <1>2, Places DEF Shape, TypeOK, Span
<1>6. e - b \in Nat /\ \A j \in 1..(e - b) : arr[b + j - 1] \in Int
  BY <1>2, <1>4, <1>5
<1>7. temparr'[p] \in Seq(Int) /\ Len(temparr'[p]) = e - b
  BY <1>3, <1>6
<1>8. \A k \in b..(e - 1) : k - b + 1 \in 1..(e - b) /\ b + (k - b + 1) - 1 = k
  OBVIOUS
<1>9. \A k \in b..(e - 1) : temparr'[p][k - b + 1] = arr[k]
  BY <1>3, <1>8
<1>10. ~ Overwriting(p) /\ Overwriting(p)'
  BY <1>1 DEF Overwriting
<1>11. MergeInv(p)' /\ CopyInv(p)'
  BY <1>1, <1>2, <1>7 DEF MergeInv, CopyInv
<1> QED BY <1>2, <1>7, <1>9, <1>10, <1>11 DEF Span

\* In qsort p writes in its part, and what it was called with stays.
LEMMA QsortMovesArrays ==
  ASSUME Shape, Data, NEW p \in Procs, QsortMoves(p)
  PROVE  /\ MergeInv(p)' /\ CopyInv(p)'
         /\ Overwriting(p) /\ Overwriting(p)'
         /\ arr' \in [Index -> Int]
         /\ \A k \in Index \ Span(p) : arr'[k] = arr[k]
<1>1. /\ pc[p] = "qsort" /\ UNCHANGED <<pc, status, temparr, begin, end>>
  BY DEF QsortMoves, part, merging
<1>2. MergeInv(p)' /\ CopyInv(p)'
  BY <1>1 DEF Data, MergeInv, CopyInv, Overwriting
<1>3. temparr[p] \in Seq(Int) /\ arr \in [Index -> Int]
  BY DEF Shape, TypeOK
<1>4. PICK k \in Span(p), j \in 1..Len(temparr[p]) : arr' = [arr EXCEPT ![k] = temparr[p][j]]
  BY DEF QsortMoves
<1>5. temparr[p][j] \in Int
  BY <1>3
<1>6. arr' \in [Index -> Int] /\ \A l \in Index \ Span(p) : arr'[l] = arr[l]
  BY <1>3, <1>4, <1>5
<1> QED BY <1>1, <1>2, <1>6 DEF Overwriting

\* Who has sorted has no array any more.
LEMMA QsortArrays ==
  ASSUME Shape, Data, NEW p \in Procs, Qsort(p)
  PROVE  /\ MergeInv(p)' /\ CopyInv(p)'
         /\ Overwriting(p) /\ ~ Overwriting(p)'
<1>1. /\ pc \in [Procs -> {"none", "ended"} \cup Doing]
      /\ status \in [Procs -> {"none", "zero", "one", "killed"}]
      /\ status[p] = "none" /\ pc[p] = "qsort"
  BY DEF Shape, TypeOK, Ended, Qsort
<1>2. temparr'[p] = <<>>
  BY DEF Qsort, Shape, TypeOK
<1>3. pc'[p] \in {"unmap", "ended"} /\ status'[p] # "killed"
  BY <1>1 DEF Qsort, Sorted, Goto, Exit
<1> QED BY <1>1, <1>2, <1>3 DEF MergeInv, CopyInv, Overwriting

\* A round of the copy back.
LEMMA CopyArrays ==
  ASSUME Shape, Data, NEW p \in Procs, Copy(p)
  PROVE  /\ MergeInv(p)' /\ CopyInv(p)'
         /\ Overwriting(p) /\ Overwriting(p)'
         /\ i[p] \in Span(p) /\ temparr[p][i[p] - begin[p] + 1] \in Int
         /\ \A k \in Index : arr'[k] = IF k = i[p] THEN temparr[p][i[p] - begin[p] + 1] ELSE arr[k]
<1>1. PICK b \in Int, e \in Int, j \in Int :
        /\ b = begin[p] /\ e = end[p] /\ j = i[p] /\ b <= j /\ j < e
  <2>1. begin[p] \in Int /\ end[p] \in Int
    BY Places DEF Shape
  <2> QED BY <2>1 DEF Copy, Data, CopyInv
<1>2. /\ pc[p] = "copy" /\ pc' = pc /\ status' = status /\ temparr' = temparr
      /\ begin' = begin /\ end' = end
  BY DEF Copy, part, merging
<1>3. Overwriting(p) /\ Overwriting(p)'
  BY <1>2 DEF Overwriting
<1>4. /\ Len(temparr[p]) = e - b /\ temparr[p] \in Seq(Int)
      /\ \A k \in b..(j - 1) : arr[k] = temparr[p][k - b + 1]
      /\ Clean(p) => InOrderUpTo(temparr[p])
  BY <1>1, <1>2, <1>3 DEF Data, CopyInv, Shape, TypeOK
<1>5. i'[p] = j + 1
  BY <1>1 DEF Copy, Shape, TypeOK
<1>6. j \in Span(p) /\ j \in Index /\ Span(p) \subseteq Index
  BY <1>1, Places DEF Span, Shape
<1>7. temparr[p][j - b + 1] \in Int
  BY <1>1, <1>4
<1>8. \A k \in Index : arr'[k] = IF k = j THEN temparr[p][j - b + 1] ELSE arr[k]
  BY <1>1 DEF Copy, Shape, TypeOK
<1>9. Clean(p)' => Clean(p)
  BY <1>2 DEF Clean
<1>10. \A k \in b..((j + 1) - 1) : arr'[k] = temparr[p][k - b + 1]
  <2> SUFFICES ASSUME NEW k \in b..((j + 1) - 1) PROVE arr'[k] = temparr[p][k - b + 1]
    OBVIOUS
  <2>1. k \in Index
    BY <1>1, <1>6, Places DEF Span, Shape
  <2>2. k = j \/ k \in b..(j - 1)
    BY <1>1
  <2> QED BY <1>4, <1>8, <2>1, <2>2
<1>11. CopyInv(p)'
  BY <1>1, <1>2, <1>4, <1>5, <1>9, <1>10 DEF CopyInv, InOrderUpTo
<1>12. MergeInv(p)'
  BY <1>2 DEF MergeInv
<1> QED BY <1>1, <1>3, <1>6, <1>7, <1>8, <1>11, <1>12

\* The end of the copy back: the part is the array.
LEMMA CopyDoneArrays ==
  ASSUME Shape, Data, NEW p \in Procs, CopyDone(p)
  PROVE  /\ MergeInv(p)' /\ CopyInv(p)'
         /\ Overwriting(p) /\ ~ Overwriting(p)'
         /\ \A k \in Span(p) : arr[k] = temparr[p][k - begin[p] + 1]
<1>1. /\ pc \in [Procs -> {"none", "ended"} \cup Doing]
      /\ status \in [Procs -> {"none", "zero", "one", "killed"}]
      /\ status[p] = "none" /\ pc[p] = "copy" /\ i[p] = end[p]
  BY DEF Shape, TypeOK, Ended, CopyDone
<1>2. pc'[p] \in {"unmap", "ended"} /\ status'[p] # "killed" /\ temparr'[p] = <<>>
  BY <1>1 DEF CopyDone, Sorted, Goto, Exit, Shape, TypeOK
<1>3. \A k \in Span(p) : arr[k] = temparr[p][k - begin[p] + 1]
  BY <1>1 DEF Data, CopyInv, Span
<1> QED BY <1>1, <1>2, <1>3 DEF MergeInv, CopyInv, Overwriting

\* So no step breaks what the private arrays promise.
LEMMA AloneKeepsArrays ==
  ASSUME Shape, Data, NEW p \in Procs, Alone(p), NEW q \in Procs
  PROVE  MergeInv(q)' /\ CopyInv(q)'
<1>1. CASE q # p
  BY <1>1, OthersArraysStay
<1>2. MergeInv(p)' /\ CopyInv(p)'
  BY QuietArrays, CallQsortArrays, QsortMovesArrays, QsortArrays, MergeStartsArrays, MergeArrays,
     CopyArrays, CopyDoneArrays DEF Alone
<1> QED BY <1>1, <1>2

-----------------------------------------------------------------------------
(***************************************************************************)
(* Types, and what each place of the file holds.                           *)
(***************************************************************************)

\* A step that is no fork keeps to the types.
LEMMA AloneKeepsType ==
  ASSUME Shape, Data, NEW p \in Procs, Alone(p), failures' \in 0..MaxFailures
  PROVE  TypeOK'
<1>1. Acts(p) /\ TypeOK
  BY AloneActs DEF Shape
<1>2. /\ input \in Inputs /\ arr \in [Index -> Int]
      /\ begin \in [Procs -> 0..N] /\ end \in [Procs -> 0..N] /\ i \in [Procs -> 0..N]
      /\ leftIndex \in [Procs -> 0..N] /\ rightIndex \in [Procs -> 0..N]
      /\ temparr \in [Procs -> Seq(Int)]
  BY <1>1 DEF TypeOK
<1>3. /\ pc' \in [Procs -> {"none", "ended"} \cup Doing]
      /\ status' \in [Procs -> {"none", "zero", "one", "killed"}]
      /\ \A q \in Procs : (status'[q] # "none") <=> pc'[q] = "ended"
      /\ input' \in Inputs /\ begin' \in [Procs -> 0..N] /\ end' \in [Procs -> 0..N]
  BY <1>1, <1>2 DEF Acts, TypeOK, Ended
<1>4. /\ arr' \in [Index -> Int] /\ i' \in [Procs -> 0..N]
      /\ leftIndex' \in [Procs -> 0..N] /\ rightIndex' \in [Procs -> 0..N]
      /\ temparr' \in [Procs -> Seq(Int)]
  <2>0. begin[p] \in 0..N /\ end[p] \in 0..N /\ Mid(p) \in 0..N /\ Span(p) \subseteq Index
    BY <1>2, Places, SizeAssumption DEF Shape, Mid
  <2>1. CASE Quiet(p)
    BY <1>2, <2>1 DEF Quiet, merging
  <2>2. CASE Qsort(p)
    <3>1. PICK from \in Bijection(Span(p), Span(p)) :
            arr' = [k \in Index |-> IF k \in Span(p) THEN temparr[p][from[k] - begin[p] + 1]
                                    ELSE arr[k]]
      BY <2>2 DEF Qsort
    <3>2. \A k \in Span(p) : from[k] \in Span(p)
      BY BijectionFacts
    <3>3. \A k \in Span(p) : temparr[p][k - begin[p] + 1] \in Int
      <4>1. Len(temparr[p]) = end[p] - begin[p]
        BY <2>2 DEF Qsort, Data, CopyInv, Overwriting
      <4>2. \A k \in Span(p) : k - begin[p] + 1 \in 1..Len(temparr[p])
        BY <2>0, <4>1, Places DEF Span, Shape
      <4> QED BY <1>2, <4>2
    <3>4. arr' \in [Index -> Int]
      BY <1>2, <3>1, <3>2, <3>3
    <3>5. <<>> \in Seq(Int)
      OBVIOUS
    <3> QED BY <1>2, <2>2, <3>4, <3>5 DEF Qsort
  <2>7. CASE CallQsort(p)
    <3>1. temparr'[p] \in Seq(Int) /\ temparr' = [temparr EXCEPT ![p] = temparr'[p]]
      BY <1>2, <2>7, CallQsortArrays DEF CallQsort
    <3>2. temparr' \in [Procs -> Seq(Int)]
      BY <1>2, <3>1
    <3> QED BY <1>2, <2>7, <3>2 DEF CallQsort
  <2>8. CASE QsortMoves(p)
    BY <1>2, <2>8, QsortMovesArrays DEF QsortMoves, merging
  <2>3. CASE MergeStarts(p)
    BY <1>2, <2>0, <2>3 DEF MergeStarts, StartMerge
  <2>4. CASE Merge(p)
    <3>1. /\ leftIndex'[p] \in begin[p]..Mid(p) /\ rightIndex'[p] \in Mid(p)..end[p]
          /\ temparr'[p] = Append(temparr[p], arr[Taken(p)]) /\ Taken(p) \in Index
      BY <2>0, <2>4, MergeTakesLeast
    <3>2. leftIndex'[p] \in 0..N /\ rightIndex'[p] \in 0..N /\ temparr'[p] \in Seq(Int)
      BY <1>2, <2>0, <3>1, SizeAssumption
    <3>3. /\ leftIndex' = [leftIndex EXCEPT ![p] = leftIndex'[p]]
          /\ rightIndex' = [rightIndex EXCEPT ![p] = rightIndex'[p]]
          /\ temparr' = [temparr EXCEPT ![p] = temparr'[p]]
      BY <1>2, <2>4 DEF Merge
    <3>4. i' = i \/ i' = [i EXCEPT ![p] = begin[p]]
      BY <2>4 DEF Merge
    <3>5. arr' = arr
      BY <2>4 DEF Merge
    <3>6. leftIndex' \in [Procs -> 0..N] /\ rightIndex' \in [Procs -> 0..N]
      BY <1>2, <3>2, <3>3
    <3>7. temparr' \in [Procs -> Seq(Int)]
      BY <1>2, <3>2, <3>3
    <3>8. i' \in [Procs -> 0..N]
      BY <1>2, <2>0, <3>4
    <3> QED BY <1>2, <3>5, <3>6, <3>7, <3>8
  <2>5. CASE Copy(p)
    <3>1. temparr[p][i[p] - begin[p] + 1] \in Int
      BY <2>5, CopyArrays
    <3>2. i[p] + 1 \in 0..N
      BY <1>2, <2>0, <2>5, SizeAssumption DEF Copy
    <3>3. arr' \in [Index -> Int] /\ i' \in [Procs -> 0..N]
      BY <1>2, <2>5, <3>1, <3>2 DEF Copy
    <3> QED BY <1>2, <2>5, <3>3 DEF Copy, merging
  <2>6. CASE CopyDone(p)
    <3>1. <<>> \in Seq(Int)
      OBVIOUS
    <3> QED BY <1>2, <2>6, <3>1 DEF CopyDone
  <2> QED BY <2>1, <2>2, <2>3, <2>4, <2>5, <2>6, <2>7, <2>8 DEF Alone
<1> QED BY <1>3, <1>4 DEF TypeOK, Ended

\* So does a fork.
LEMMA ForkedKeepsType ==
  ASSUME Shape, NEW p \in Procs, NEW side \in {0, 1}, Forked(p, side),
         failures' \in 0..MaxFailures
  PROVE  TypeOK'
<1> USE DEF Shape
<1>1. PICK c \in Procs : c = Child(p, side)
  BY ForkedActs
<1>2. /\ pc[c] = "none" /\ status[c] = "none" /\ status[p] = "none" /\ status' = status
      /\ pc' \in [Procs -> {"none", "ended"} \cup Doing]
      /\ pc'[p] = (IF side = 0 THEN "fork1" ELSE "wait0") /\ pc'[c] = "start"
      /\ \A q \in Procs : q \notin {p, c} => pc'[q] = pc[q]
      /\ begin' = [begin EXCEPT ![c] = HalfOf(p, side)[1]]
      /\ end' = [end EXCEPT ![c] = HalfOf(p, side)[2]]
      /\ UNCHANGED <<input, arr, leftIndex, rightIndex, temparr, i>>
  BY <1>1, ForkedActs
<1>3. \A q \in Procs : (status'[q] # "none") <=> pc'[q] = "ended"
  BY <1>1, <1>2 DEF TypeOK, Ended
<1>4. HalfOf(p, side)[1] \in 0..N /\ HalfOf(p, side)[2] \in 0..N
  <2>1. begin[p] \in 0..N /\ end[p] \in 0..N /\ Mid(p) \in 0..N
    BY SizeAssumption DEF TypeOK, Mid
  <2> QED BY <2>1 DEF HalfOf
<1>5. begin' \in [Procs -> 0..N] /\ end' \in [Procs -> 0..N]
  BY <1>2, <1>4 DEF TypeOK
<1> QED BY <1>2, <1>3, <1>5 DEF TypeOK, Ended

\* Nobody above or below writes where a process works for the first time.
LEMMA NoCover ==
  ASSUME Shape, NEW p \in Procs, pc[p] \in {"start", "merge"}, NEW k \in Span(p), NEW r \in Procs
  PROVE  ~ Covers(r, k)
<1> SUFFICES ASSUME Overwriting(r), k \in Span(r) PROVE FALSE
  BY DEF Covers
<1>1. /\ r # p /\ Exists(r) /\ pc[r] # "none" /\ status[r] # "zero" /\ Settling(r)
      /\ Exists(p) /\ pc[p] # "none" /\ status[p] # "zero"
  BY DEF Overwriting, Settling, Exists, Shape, TypeOK, Ended
<1>2. CASE Above(r, p)
  BY <1>1, <1>2 DEF Shape, Settled
<1>3. CASE Above(p, r) /\ pc[p] = "start"
  BY <1>1, <1>3, NobodyBelow DEF Shape
<1>4. CASE Above(p, r) /\ pc[p] = "merge"
  BY <1>1, <1>4 DEF Shape, Settled, Settling
<1> QED BY <1>1, <1>2, <1>3, <1>4, Overlap DEF Shape

\* What Kept(q) asks for, of the next state.
LEMMA KeptNext ==
  ASSUME NEW q \in Procs, input' = input, begin' = begin, end' = end,
         NEW from \in Bijection(Span(q), Span(q)),
         \A k \in Span(q) : \A v : v = input[from[k]] => Holds(k, v)'
  PROVE  Kept(q)'
<1>1. Span(q)' = Span(q)
  BY DEF Span
<1>2. \A k \in Span(q) : Holds(k, input[from[k]])'
  <2> SUFFICES ASSUME NEW k \in Span(q) PROVE Holds(k, input[from[k]])'
    OBVIOUS
  <2>1. PICK v : v = input[from[k]]
    OBVIOUS
  <2>2. Holds(k, v)'
    BY <2>1
  <2> QED BY <2>1, <2>2 DEF Holds
<1> QED BY <1>1, <1>2 DEF Kept

\* A step that rearranges the values of a part keeps what the whole has.
LEMMA RearrangingKeeps ==
  ASSUME Shape, Data, NEW p \in Procs, Alone(p),
         NEW g \in Bijection(Span(p), Span(p)),
         \A k \in Span(p) : \A v : Holds(g[k], v) => Holds(k, v)',
         \A k \in Index \ Span(p) : \A v : Holds(k, v) => Holds(k, v)',
         NEW q \in Procs, ~ Above(p, q)
  PROVE  Kept(q)'
<1>1. Acts(p) /\ begin' = begin /\ end' = end /\ input' = input
  BY AloneActs DEF Shape, Acts
<1>2. (Exists(q)' => Exists(q)) /\ (Clean(q)' => Clean(q))
  BY <1>1, ExistsStays, CleanStays DEF Shape
<1> SUFFICES ASSUME Exists(q), Clean(q) PROVE Kept(q)'
  BY <1>2 DEF Kept
<1>3. PICK from \in Bijection(Span(q), Span(q)) : \A k \in Span(q) : Holds(k, input[from[k]])
  BY DEF Data, Kept
<1>4. Span(q) \subseteq Index /\ Exists(p)
  BY <1>1, Places DEF Shape, Exists, Acts, Live
<1>5. CASE Span(p) \cap Span(q) = {}
  <2>1. \A k \in Span(q) : \A v : v = input[from[k]] => Holds(k, v)'
    BY <1>3, <1>4, <1>5
  <2> QED BY <1>1, <2>1, KeptNext
<1>6. CASE Span(p) \cap Span(q) # {}
  <2>1. q = p \/ Above(q, p)
    BY <1>4, <1>6, Overlap DEF Shape
  <2>2. Span(p) \subseteq Span(q)
    BY <1>4, <2>1, Places DEF Shape, Placed, Nested, Span
  <2> DEFINE h == [k \in Span(q) |-> IF k \in Span(p) THEN g[k] ELSE k]
             new == [k \in Span(q) |-> from[h[k]]]
  <2>3. h \in Bijection(Span(q), Span(q))
    BY <2>2, Extended
  <2>4. new \in Bijection(Span(q), Span(q))
    <3> HIDE DEF h
    <3> QED BY <2>3, Fun_BijTransitive
  <2>5. ASSUME NEW k \in Span(q), NEW v, v = input[new[k]] PROVE Holds(k, v)'
    <3>1. CASE k \in Span(p)
      <4>1. g[k] \in Span(p)
        BY <3>1, BijectionFacts
      <4>2. Holds(g[k], input[from[g[k]]])
        BY <1>3, <2>2, <4>1
      <4>3. v = input[from[g[k]]]
        BY <2>2, <2>5, <3>1
      <4> QED BY <3>1, <4>2, <4>3
    <3>2. CASE k \notin Span(p)
      <4>1. v = input[from[k]]
        BY <2>5, <3>2
      <4> QED BY <1>3, <1>4, <3>2, <4>1
    <3> QED BY <3>1, <3>2
  <2> HIDE DEF new
  <2>6. \A k \in Span(q) : \A v : v = input[new[k]] => Holds(k, v)'
    BY <2>5
  <2> QED BY <1>1, <2>4, <2>6, KeptNext
<1> QED BY <1>5, <1>6

\* A step changes nothing about what the others copy.
LEMMA OthersCover ==
  ASSUME TypeOK, NEW p \in Procs, Alone(p), NEW q \in Procs, q # p, NEW k
  PROVE  /\ Covers(q, k)' <=> Covers(q, k)
         /\ temparr'[q] = temparr[q] /\ begin' = begin /\ end' = end
BY AloneActs DEF Acts, Covers, Overwriting, Span

\* The steps that leave what each place holds.
LEMMA HoldsStays ==
  ASSUME Shape, Data, NEW p \in Procs,
         \/ Quiet(p) \/ CallQsort(p) \/ QsortMoves(p)
         \/ MergeStarts(p) \/ (Merge(p) /\ pc'[p] # "copy") \/ Copy(p) \/ CopyDone(p),
         NEW k \in Index, NEW v, Holds(k, v)
  PROVE  Holds(k, v)'
<1>1. Alone(p) /\ begin' = begin /\ end' = end /\ Span(p)' = Span(p)
  <2>1. Alone(p)
    BY DEF Alone
  <2> QED BY <2>1, AloneActs DEF Acts, Shape, Span
<1>2. \A q \in Procs : q # p => /\ Covers(q, k)' <=> Covers(q, k)
                               /\ temparr'[q] = temparr[q]
  BY <1>1, OthersCover DEF Shape
<1>3. CASE Quiet(p)
  <2>1. Covers(p, k)' <=> Covers(p, k)
    BY <1>1, <1>3, QuietArrays DEF Covers
  <2>2. temparr' = temparr /\ arr' = arr
    BY <1>3 DEF Quiet, merging
  <2> QED BY <1>1, <1>2, <2>1, <2>2 DEF Holds
<1>4. CASE MergeStarts(p) \/ (Merge(p) /\ pc'[p] # "copy")
  <2>1. ~ Covers(p, k) /\ ~ Covers(p, k)'
    <3>1. ~ Overwriting(p) /\ ~ Overwriting(p)'
      <4>1. CASE MergeStarts(p)
        BY <4>1, MergeStartsArrays
      <4>2. CASE Merge(p) /\ pc'[p] # "copy"
        BY <4>2, MergeArrays DEF Merge, Overwriting, Shape, TypeOK, Ended
      <4> QED BY <1>4, <4>1, <4>2
    <3> QED BY <3>1 DEF Covers
  <2>2. arr' = arr
    BY <1>4 DEF MergeStarts, Merge
  <2> QED BY <1>1, <1>2, <2>1, <2>2 DEF Holds
<1>5. CASE Copy(p)
  <2>1. Covers(p, k)' <=> Covers(p, k)
    BY <1>1, <1>5, CopyArrays DEF Covers
  <2>2. temparr' = temparr
    BY <1>5 DEF Copy, merging
  <2>3. arr'[k] = arr[k] \/ Covers(p, k)
    BY <1>5, CopyArrays DEF Covers
  <2> QED BY <1>1, <1>2, <2>1, <2>2, <2>3 DEF Holds
<1>6. CASE CopyDone(p)
  <2>1. ~ Covers(p, k)' /\ arr' = arr
    BY <1>6, CopyDoneArrays DEF Covers, CopyDone
  <2>2. Covers(p, k) => arr[k] = v
    BY <1>6, CopyDoneArrays DEF Covers, Holds
  <2> QED BY <1>1, <1>2, <2>1, <2>2 DEF Holds
<1>7. CASE CallQsort(p)
  <2>1. arr' = arr /\ pc[p] = "start"
    BY <1>7 DEF CallQsort
  <2>2. CASE k \in Span(p)
    <3>1. \A r \in Procs : ~ Covers(r, k)
      BY <2>1, <2>2, NoCover
    <3>2. Covers(p, k)' /\ temparr'[p][k - begin[p] + 1] = v
      BY <1>1, <1>7, <2>2, <3>1, CallQsortArrays DEF Covers, Holds
    <3> QED BY <1>1, <1>2, <3>1, <3>2 DEF Holds
  <2>3. CASE k \notin Span(p)
    <3>1. ~ Covers(p, k) /\ ~ Covers(p, k)'
      BY <1>1, <2>3 DEF Covers
    <3> QED BY <1>1, <1>2, <2>1, <3>1 DEF Holds
  <2> QED BY <2>2, <2>3
<1>8. CASE QsortMoves(p)
  <2>1. Covers(p, k)' <=> Covers(p, k)
    BY <1>1, <1>8, QsortMovesArrays DEF Covers
  <2>2. temparr' = temparr
    BY <1>8 DEF QsortMoves, merging
  <2>3. arr'[k] = arr[k] \/ Covers(p, k)
    BY <1>8, QsortMovesArrays DEF Covers
  <2> QED BY <1>1, <1>2, <2>1, <2>2, <2>3 DEF Holds
<1> QED BY <1>3, <1>4, <1>5, <1>6, <1>7, <1>8

\* What qsort leaves is what it was called with, rearranged.
LEMMA QsortKeeps ==
  ASSUME Shape, Data, NEW p \in Procs, Qsort(p), NEW q \in Procs
  PROVE  Kept(q)'
<1>1. Alone(p) /\ pc[p] = "qsort" /\ begin' = begin /\ end' = end /\ Span(p)' = Span(p)
  BY DEF Alone, Qsort, part, Span
<1>2. PICK g \in Bijection(Span(p), Span(p)) :
        arr' = [k \in Index |-> IF k \in Span(p) THEN temparr[p][g[k] - begin[p] + 1]
                                ELSE arr[k]]
  BY DEF Qsort
<1>3. Overwriting(p) /\ ~ Overwriting(p)'
  BY QsortArrays
<1>4. \A r \in Procs : \A k : r # p => /\ Covers(r, k)' <=> Covers(r, k)
                                      /\ temparr'[r] = temparr[r]
  BY <1>1, OthersCover DEF Shape
<1>5. \A k : ~ Covers(p, k)'
  BY <1>3 DEF Covers
<1>6. Span(p) \subseteq Index
  BY Places DEF Shape
<1>7. ASSUME NEW k \in Span(p), NEW v, Holds(g[k], v) PROVE Holds(k, v)'
  <2>0. g[k] \in Span(p)
    BY BijectionFacts
  <2>1. arr'[k] = v
    BY <1>2, <1>3, <1>6, <1>7, <2>0 DEF Holds, Covers
  <2>2. \A r \in Procs : r # p => ~ Covers(r, k)
    <3> SUFFICES ASSUME NEW r \in Procs, r # p, Overwriting(r), k \in Span(r) PROVE FALSE
      BY DEF Covers
    <3>1. Exists(r) /\ status[r] # "zero" /\ Settling(r)
      BY DEF Overwriting, Settling, Exists, Shape, TypeOK, Ended
    <3> QED BY <1>1, <3>1, WriterAlone
  <2> QED BY <1>4, <1>5, <2>1, <2>2 DEF Holds
<1>8. ASSUME NEW k \in Index \ Span(p), NEW v, Holds(k, v) PROVE Holds(k, v)'
  <2>1. arr'[k] = arr[k]
    BY <1>2, <1>8
  <2>2. ~ Covers(p, k)
    BY <1>8 DEF Covers
  <2> QED BY <1>1, <1>4, <1>5, <1>8, <2>1, <2>2 DEF Holds
<1>9. CASE Above(p, q)
  <2>1. pc[q] = "none" /\ q # p
    BY <1>1, <1>9, NobodyBelow, AboveOrder DEF Shape
  <2>2. ~ Exists(q)'
    BY <1>1, <2>1, AloneActs DEF Shape, Acts, Exists
  <2> QED BY <2>2 DEF Kept
<1>10. CASE ~ Above(p, q)
  BY <1>1, <1>7, <1>8, <1>10, RearrangingKeeps
<1> QED BY <1>9, <1>10

\* The last round of a merge: the array holds the two halves, rearranged.
LEMMA LastMergeKeeps ==
  ASSUME Shape, Data, NEW p \in Procs, Merge(p), pc'[p] = "copy", NEW q \in Procs
  PROVE  Kept(q)'
<1>1. /\ Alone(p) /\ pc[p] = "merge" /\ arr' = arr /\ begin' = begin /\ end' = end
      /\ Span(p)' = Span(p)
  BY DEF Alone, Merge, part, Span
<1>2. PICK b \in Int, e \in Int : b = begin[p] /\ e = end[p] /\ Span(p) = b..(e - 1)
  BY Places DEF Shape, Span
<1>3. Used(p)' = Span(p) /\ Len(temparr'[p]) = e - b
  BY <1>2, MergeArrays
<1>4. PICK src \in Bijection(1..(e - b), b..(e - 1)) :
        \A j \in 1..(e - b) : temparr'[p][j] = arr[src[j]]
  BY <1>2, <1>3, MergeExtends
<1> DEFINE g == [k \in b..(e - 1) |-> src[k - b + 1]]
<1>5. g \in Bijection(Span(p), Span(p))
  BY <1>2, <1>4, Shifted
<1>6. \A k \in Span(p) : temparr'[p][k - b + 1] = arr[g[k]]
  <2> SUFFICES ASSUME NEW k \in b..(e - 1) PROVE temparr'[p][k - b + 1] = arr[g[k]]
    BY <1>2
  <2>1. k - b + 1 \in 1..(e - b)
    OBVIOUS
  <2> QED BY <1>4, <2>1
<1> HIDE DEF g
<1>7. ~ Overwriting(p) /\ Overwriting(p)'
  BY <1>1 DEF Overwriting, Shape, TypeOK, Ended
<1>8. \A r \in Procs : \A k : r # p => /\ Covers(r, k)' <=> Covers(r, k)
                                      /\ temparr'[r] = temparr[r]
  BY <1>1, OthersCover DEF Shape
<1>9. ASSUME NEW k \in Span(p), NEW v, Holds(g[k], v) PROVE Holds(k, v)'
  <2>0. v = arr[g[k]]
    <3>1. g[k] \in Span(p)
      BY <1>5, BijectionFacts
    <3> QED BY <1>1, <1>9, <3>1, NoCover DEF Holds
  <2>1. \A r \in Procs : r # p => ~ Covers(r, k)'
    BY <1>1, <1>8, NoCover
  <2>2. Covers(p, k)'
    BY <1>1, <1>7 DEF Covers
  <2>3. temparr'[p][k - begin'[p] + 1] = v
    BY <1>1, <1>2, <1>6, <2>0
  <2> QED BY <2>1, <2>2, <2>3 DEF Holds
<1>10. ASSUME NEW k \in Index \ Span(p), NEW v, Holds(k, v) PROVE Holds(k, v)'
  <2>1. ~ Covers(p, k) /\ ~ Covers(p, k)'
    BY <1>1, <1>10 DEF Covers
  <2> QED BY <1>1, <1>8, <1>10, <2>1 DEF Holds
<1>11. CASE Above(p, q)
  <2>1. ~ Clean(q)'
    BY <1>11 DEF Clean, Ancestors
  <2> QED BY <2>1 DEF Kept
<1>12. CASE ~ Above(p, q)
  BY <1>1, <1>5, <1>9, <1>10, <1>12, RearrangingKeeps
<1> QED BY <1>11, <1>12

\* So no step but a fork loses a value.
LEMMA AloneKeepsKept ==
  ASSUME Shape, Data, NEW p \in Procs, Alone(p), NEW q \in Procs
  PROVE  Kept(q)'
<1>1. CASE Qsort(p)
  BY <1>1, QsortKeeps
<1>2. CASE Merge(p) /\ pc'[p] = "copy"
  BY <1>2, LastMergeKeeps
<1>3. CASE \/ Quiet(p) \/ CallQsort(p) \/ QsortMoves(p)
           \/ MergeStarts(p) \/ (Merge(p) /\ pc'[p] # "copy") \/ Copy(p) \/ CopyDone(p)
  <2>1. Acts(p) /\ input' = input /\ begin' = begin /\ end' = end
    BY AloneActs DEF Shape, Acts
  <2>2. (Exists(q)' => Exists(q)) /\ (Clean(q)' => Clean(q))
    BY <2>1, ExistsStays, CleanStays DEF Shape
  <2> SUFFICES ASSUME Exists(q), Clean(q) PROVE Kept(q)'
    BY <2>2 DEF Kept
  <2>3. PICK from \in Bijection(Span(q), Span(q)) : \A k \in Span(q) : Holds(k, input[from[k]])
    BY DEF Data, Kept
  <2>4. Span(q) \subseteq Index
    BY Places DEF Shape
  <2>5. \A k \in Span(q) : \A v : v = input[from[k]] => Holds(k, v)'
    BY <1>3, <2>3, <2>4, HoldsStays
  <2> QED BY <2>1, <2>5, KeptNext
<1> QED BY <1>1, <1>2, <1>3 DEF Alone

-----------------------------------------------------------------------------
(***************************************************************************)
(* A fork, and the whole invariant.                                        *)
(***************************************************************************)

\* A fork disturbs nobody, and its child finds its part as it was in the file.
LEMMA ForkedKeepsData ==
  ASSUME Shape, Data, NEW p \in Procs, NEW side \in {0, 1}, Forked(p, side)
  PROVE  Data'
<1> USE DEF Shape
<1>0. PICK c \in Procs : c = Child(p, side)
  BY ForkedActs
<1>1. /\ Len(p) < MaxDepth /\ c # p
      /\ pc[c] = "none" /\ status[c] = "none" /\ status[p] = "none" /\ status' = status
      /\ pc[p] = (IF side = 0 THEN "fork0" ELSE "fork1")
      /\ pc'[p] = (IF side = 0 THEN "fork1" ELSE "wait0") /\ pc'[c] = "start"
      /\ \A q \in Procs : q \notin {p, c} => pc'[q] = pc[q]
      /\ \A q \in Procs : q # c => begin'[q] = begin[q] /\ end'[q] = end[q]
      /\ <<begin'[c], end'[c]>> = HalfOf(p, side)
      /\ UNCHANGED <<input, arr, leftIndex, rightIndex, temparr, i>>
  BY <1>0, ForkedActs
<1>2. \A q \in Procs : Above(q, c) <=> q = p \/ Above(q, p)
  BY <1>0, AboveChild
<1>3. \A q \in Procs : q # c => Span(q)' = Span(q) /\ Mid(q)' = Mid(q) /\ Used(q)' = Used(q)
  BY <1>1 DEF Span, Mid, Used
<1>4. \A q \in Procs : Clean(q)' => Clean(q)
  BY <1>1 DEF Clean, Ancestors
<1>5. \A q \in Procs : /\ Overwriting(q)' <=> Overwriting(q)
                       /\ Overwriting(q) => q # c /\ q # p
  BY <1>1 DEF Overwriting
<1>6. /\ side = 0 => begin'[c] = begin[p] /\ end'[c] = Mid(p)
      /\ side = 1 => begin'[c] = Mid(p) /\ end'[c] = end[p]
  BY <1>1 DEF HalfOf
<1>7. begin[p] \in Int /\ end[p] \in Int /\ Mid(p) \in Int /\ begin[p] <= Mid(p) /\ Mid(p) <= end[p]
  <2>1. begin[p] < end[p]
    BY <1>1 DEF Placed, Splitting
  <2> QED BY <2>1, Places
<1>8. \A k \in Span(c)' : k \in Span(p) /\ arr[k] = input[k]
  <2>1. CASE side = 0
    <3>1. \A k \in Span(p) : arr[k] = input[k]
      BY <1>1, <2>1 DEF Data, Untouched
    <3>2. Span(c)' = begin[p]..(Mid(p) - 1)
      BY <1>6, <2>1 DEF Span
    <3>3. begin[p]..(Mid(p) - 1) \subseteq Span(p)
      BY <1>7 DEF Span
    <3> QED BY <3>1, <3>2, <3>3
  <2>2. CASE side = 1
    <3>1. \A k \in Mid(p)..(end[p] - 1) : arr[k] = input[k]
      BY <1>1, <2>2 DEF Data, Untouched
    <3>2. Span(c)' = Mid(p)..(end[p] - 1)
      BY <1>6, <2>2 DEF Span
    <3>3. Mid(p)..(end[p] - 1) \subseteq Span(p)
      BY <1>7 DEF Span
    <3> QED BY <3>1, <3>2, <3>3
  <2> QED BY <2>1, <2>2
<1>9. Untouched'
  <2>1. ASSUME NEW q \in Procs, pc'[q] \in {"open", "start", "fork0"}
        PROVE  \A k \in Span(q)' : arr'[k] = input'[k]
    <3>1. CASE q = c
      BY <1>1, <1>8, <3>1
    <3>2. CASE q # c
      <4>1. pc[q] = pc'[q]
        BY <1>1, <2>1, <3>2
      <4> QED BY <1>1, <1>3, <2>1, <3>2, <4>1 DEF Data, Untouched
    <3> QED BY <3>1, <3>2
  <2>2. ASSUME NEW q \in Procs, pc'[q] = "fork1", NEW k \in Mid(q)'..(end'[q] - 1)
        PROVE  arr'[k] = input'[k]
    <3>1. q # c /\ k \in Mid(q)..(end[q] - 1)
      BY <1>1, <1>3, <2>2
    <3>2. CASE q = p
      <4>1. k \in Span(p)
        BY <1>7, <3>1, <3>2 DEF Span
      <4> QED BY <1>1, <2>2, <3>2, <4>1 DEF Data, Untouched
    <3>3. CASE q # p
      <4>1. pc[q] = "fork1"
        BY <1>1, <2>2, <3>1, <3>3
      <4> QED BY <1>1, <3>1, <4>1 DEF Data, Untouched
    <3> QED BY <3>2, <3>3
  <2> QED BY <2>1, <2>2 DEF Untouched
<1>10. InOrder'
  <2> SUFFICES ASSUME NEW q \in Procs, pc'[q] = "unmap" \/ status'[q] = "zero", Clean(q)'
               PROVE  SortedOn(arr', Span(q)')
    BY DEF InOrder
  <2>1. q # c /\ (pc[q] = "unmap" \/ status[q] = "zero") /\ Clean(q)
    BY <1>1, <1>4
  <2> QED BY <1>1, <1>3, <2>1 DEF Data, InOrder
<1>11. ASSUME NEW q \in Procs PROVE MergeInv(q)'
  <2>0. MergeInv(q)
    BY DEF Data
  <2>1. CASE q \in {p, c}
    <3>1. temparr[q] = <<>>
      BY <1>1, <2>0, <2>1 DEF MergeInv
    <3> QED BY <1>1, <2>1, <3>1 DEF MergeInv
  <2>2. CASE q \notin {p, c}
    <3>1. pc'[q] = pc[q] /\ begin'[q] = begin[q] /\ end'[q] = end[q]
      BY <1>1, <2>2
    <3> QED BY <1>1, <1>3, <1>4, <2>0, <2>2, <3>1 DEF MergeInv, InOrderUpTo
  <2> QED BY <2>1, <2>2
<1>12. ASSUME NEW q \in Procs PROVE CopyInv(q)'
  <2>1. CASE q \in {p, c}
    BY <1>1, <1>5, <2>1 DEF CopyInv
  <2>2. CASE q \notin {p, c}
    <3>1. pc'[q] = pc[q] /\ begin'[q] = begin[q] /\ end'[q] = end[q]
      BY <1>1, <2>2
    <3> QED BY <1>1, <1>4, <1>5, <3>1 DEF CopyInv, InOrderUpTo, Data
  <2> QED BY <2>1, <2>2
<1>13. \A r \in Procs : \A k : /\ Covers(r, k)' <=> Covers(r, k)
                               /\ Covers(r, k) => begin'[r] = begin[r]
  BY <1>1, <1>3, <1>5 DEF Covers
<1>14. \A k, v : Holds(k, v) => Holds(k, v)'
  BY <1>1, <1>13 DEF Holds
<1>15. ASSUME NEW q \in Procs PROVE Kept(q)'
  <2>1. CASE q # c
    <3> SUFFICES ASSUME Exists(q)', Clean(q)'
                 PROVE  \E from \in Bijection(Span(q)', Span(q)') :
                          \A k \in Span(q)' : \A v : v = input[from[k]] => Holds(k, v)'
      BY <1>1 DEF Kept, Holds
    <3>1. Exists(q) /\ Clean(q)
      BY <1>1, <1>4, <2>1 DEF Exists
    <3>2. PICK from \in Bijection(Span(q), Span(q)) : \A k \in Span(q) : Holds(k, input[from[k]])
      BY <3>1 DEF Data, Kept
    <3> QED BY <1>3, <1>14, <2>1, <3>2
  <2>2. CASE q = c
    <3>1. [k \in Span(c)' |-> k] \in Bijection(Span(c)', Span(c)')
      BY Identity
    <3>2. ASSUME NEW k \in Span(c)' PROVE Holds(k, input[k])
      <4>1. k \in Span(p) /\ arr[k] = input[k]
        BY <1>8
      <4>2. \A r \in Procs : ~ Covers(r, k)
        <5> SUFFICES ASSUME NEW r \in Procs, Overwriting(r), k \in Span(r) PROVE FALSE
          BY DEF Covers
        <5>1. Exists(r) /\ r # p /\ Exists(p)
          BY <1>1, <1>5 DEF Exists, Overwriting, TypeOK, Ended
        <5>2. CASE Above(r, p)
          BY <1>1, <5>1, <5>2 DEF Settled, Settling, Exists
        <5>3. CASE Above(p, r)
          <6>1. side = 1
            BY <1>1, <5>1, <5>3, NobodyBelow DEF Exists
          <6>2. PICK d \in Procs : d = Child(p, 0)
            BY <1>1, ChildIsProcess
          <6>3. d = r \/ Above(d, r)
            BY <1>1, <5>1, <5>3, <6>1, <6>2, SecondHalfFree
          <6>4. Exists(d)
            BY <5>1, <6>3 DEF Rooted, Ancestors
          <6>5. end[d] = Mid(p)
            BY <1>1, <6>2, <6>4 DEF Placed, HalfOf
          <6>6. end[r] <= end[d]
            <7>1. end[r] \in Int
              BY Places
            <7> QED BY <5>1, <6>3, <6>4, <7>1 DEF Placed, Nested
          <6>7. k >= Mid(p) /\ k < end[r]
            <7>1. k >= Mid(p) /\ k \in Int
              BY <1>6, <1>7, <6>1 DEF Span
            <7> QED BY <7>1, Places DEF Span
          <6>8. end[r] \in Int /\ k \in Int
            BY <4>1, Places DEF Index, Span
          <6> QED BY <1>7, <6>5, <6>6, <6>7, <6>8
        <5> QED BY <4>1, <5>1, <5>2, <5>3, Overlap
      <4> QED BY <4>1, <4>2 DEF Holds
    <3>3. \A k \in Span(c)' : \A v : v = input[k] => Holds(k, v)'
      BY <1>14, <3>2
    <3>4. \A k \in Span(c)' : \A v : v = input'[k] => Holds(k, v)'
      BY <1>1, <3>3
    <3>5. \E from \in Bijection(Span(c)', Span(c)') :
            \A k \in Span(c)' : \A v : v = input'[from[k]] => Holds(k, v)'
      BY <3>1, <3>4
    <3>6. Kept(c)'
      BY <3>5 DEF Kept, Holds
    <3> QED BY <2>2, <3>6
  <2> QED BY <2>1, <2>2
<1> QED BY <1>9, <1>10, <1>11, <1>12, <1>15 DEF Data

-----------------------------------------------------------------------------
\* The invariant is inductive.
LEMMA InvariantStays == SortIInv /\ [Next]_vars => SortIInv'
<1> SUFFICES ASSUME Shape, Data, [Next]_vars PROVE Shape' /\ Data'
  BY DEF SortIInv, Shape, Data
<1>1. CASE UNCHANGED vars
  <2>1. UNCHANGED <<input, arr, pc, status, begin, end, leftIndex, rightIndex, temparr,
                 i, failures>>
    BY <1>1 DEF vars, part, merging
  <2>2. TypeOK' /\ TreeInv'
    BY <2>1 DEF Shape, TypeOK, TreeInv, TreeTypeOK, AllowsKids, Childless, Succeeded, Ended
  <2>3. Rooted' /\ Placed' /\ Settled'
    BY <2>1 DEF Shape, Rooted, Placed, Settled, Exists, Nested, Disjoint, HalfOf, Mid, Settling,
                Overwriting
  <2>4. Untouched' /\ InOrder'
    BY <2>1 DEF Data, Untouched, InOrder, Clean, Span, Mid
  <2>5. ASSUME NEW p \in Procs PROVE MergeInv(p)' /\ CopyInv(p)' /\ Kept(p)'
    <3>1. MergeInv(p) /\ CopyInv(p) /\ Kept(p)
      BY DEF Data
    <3>2. MergeInv(p)' /\ CopyInv(p)'
      BY <2>1, <3>1 DEF MergeInv, CopyInv, Clean, Span, Mid, Used, Overwriting, InOrderUpTo
    <3>3. \A q \in Procs : \A k : Covers(q, k)' <=> Covers(q, k)
      BY <2>1 DEF Covers, Overwriting, Span
    <3>4. \A k, v : Holds(k, v) => Holds(k, v)'
      BY <2>1, <3>3 DEF Holds
    <3>5. Exists(p) /\ Clean(p) => Kept(p)'
      <4> SUFFICES ASSUME Exists(p), Clean(p) PROVE Kept(p)'
        OBVIOUS
      <4>1. PICK from \in Bijection(Span(p), Span(p)) :
              \A k \in Span(p) : Holds(k, input[from[k]])
        BY <3>1 DEF Kept
      <4>2. \A k \in Span(p) : \A v : v = input[from[k]] => Holds(k, v)'
        BY <3>4, <4>1
      <4> QED BY <2>1, <4>2, KeptNext
    <3>6. ~ (Exists(p) /\ Clean(p)) => Kept(p)'
      BY <2>1 DEF Kept, Exists, Clean
    <3> QED BY <3>2, <3>5, <3>6
  <2> QED BY <2>2, <2>3, <2>4, <2>5 DEF Shape, Data
<1>2. CASE Next
  <2>1. failures' \in 0..MaxFailures
    BY <1>2, Steps DEF Shape
  <2>2. PICK p \in Procs : Alone(p) \/ \E side \in {0, 1} : Forked(p, side)
    BY <1>2, Steps DEF Shape
  <2>3. CASE Alone(p)
    <3>1. TypeOK'
      BY <2>1, <2>3, AloneKeepsType
    <3>2. Shape'
      BY <2>3, <3>1, AloneKeepsTree, AloneKeepsRooted, AloneKeepsPlaced, AloneKeepsSettled
         DEF Shape, Data
    <3>3. Data'
      BY <2>3, AloneKeepsUntouched, AloneKeepsInOrder, AloneKeepsArrays, AloneKeepsKept DEF Data
    <3> QED BY <3>2, <3>3
  <2>4. ASSUME NEW side \in {0, 1}, Forked(p, side) PROVE Shape' /\ Data'
    BY <2>1, <2>4, ForkedKeepsType, ForkedKeepsShape, ForkedKeepsData
  <2> QED BY <2>2, <2>3, <2>4
<1> QED BY <1>1, <1>2

\* What every process may rely on in its part of the file, in every state
\* reached, with any forks failed and any processes dead (parsort.c:52-162).
THEOREM SortInvariant == Spec => []SortIInv
<1>1. Init => SortIInv
  BY InitShape, InitData DEF SortIInv, Shape, Data
<1> QED BY <1>1, InvariantStays, PTL DEF Spec

-----------------------------------------------------------------------------
(***************************************************************************)
(* What follows.                                                           *)
(***************************************************************************)

\* How far a process is always fits how far its children are.
THEOREM ProcessTree == Spec => []TreeInv
<1>1. SortIInv => TreeInv
  BY DEF SortIInv
<1> QED BY <1>1, SortInvariant, PTL

\* A process outlives its parent only if the parent died, or failed to fork its
\* second child and left the first (parsort.c:82-87).
THEOREM SortOrphansExplained == Spec => []OrphansExplained
<1>1. TreeInv => OrphansExplained
  <2> SUFFICES ASSUME TreeInv, NEW p \in Procs, p # Main, Live(p),
                      Ended(SubSeq(p, 1, Len(p) - 1))
               PROVE  LET parent == SubSeq(p, 1, Len(p) - 1) IN
                        \/ status[parent] = "killed"
                        \/ status[parent] = "one" /\ pc[Child(parent, 1)] = "none"
    BY DEF OrphansExplained
  <2> DEFINE parent == SubSeq(p, 1, Len(p) - 1)
  <2>1. /\ parent \in Procs /\ Len(parent) < MaxDepth
        /\ \E side \in {0, 1} : p = Child(parent, side)
    BY ParentIsProcess
  <2>2. Ended(parent)
    OBVIOUS
  <2> HIDE DEF parent
  <2>3. AllowsKids(parent) /\ TreeTypeOK
    BY <2>1 DEF TreeInv
  <2>4. ~Ended(p) /\ pc[p] # "none" /\ status[p] = "none"
    BY <2>3 DEF Live, Ended, TreeTypeOK
  <2>5. status[parent] # "zero"
    BY <2>1, <2>3, <2>4 DEF AllowsKids, Childless, Succeeded
  <2>6. status[parent] \in {"one", "killed"}
    BY <2>1, <2>2, <2>3, <2>5 DEF TreeTypeOK
  <2>7. status[parent] = "one" => pc[Child(parent, 1)] = "none"
    BY <2>1, <2>3, <2>4 DEF AllowsKids
  <2> USE DEF parent
  <2> QED BY <2>6, <2>7
<1> QED BY <1>1, ProcessTree, PTL

\* No two processes ever sort, merge or copy in the same part of the file
\* (parsort.c:68, 147-152).
THEOREM SortRaceFree == Spec => []RaceFree
<1>1. SortIInv => RaceFree
  <2> SUFFICES ASSUME Shape, NEW p \in Procs, NEW q \in Procs, p # q,
                      {pc[p], pc[q]} \subseteq {"qsort", "merge", "copy"},
                      NEW k \in Span(p) \cap Span(q)
               PROVE  FALSE
    BY DEF SortIInv, Shape, RaceFree
  <2>1. pc[p] \in {"qsort", "merge", "copy"} /\ pc[q] \in {"qsort", "merge", "copy"}
    OBVIOUS
  <2>2. Exists(q) /\ status[q] # "zero"
    BY <2>1 DEF Exists, Shape, TypeOK, Ended
  <2> QED BY <2>1, <2>2, WriterAlone
<1> QED BY <1>1, SortInvariant, PTL

\* A part is finite.
LEMMA SpanIsFinite ==
  ASSUME TypeOK, NEW p \in Procs
  PROVE  IsFiniteSet(Span(p))
BY Places, FS_Interval DEF Span

\* Where nothing is being written, a part holds a rearrangement of the original.
LEMMA RestingKeepsValues ==
  ASSUME Shape, Data, NEW p \in Procs, Exists(p), Clean(p),
         \A q \in Procs, k \in Span(p) : ~ Covers(q, k)
  PROVE  SameValues(arr, input, Span(p))
<1>1. PICK from \in Bijection(Span(p), Span(p)) : \A k \in Span(p) : Holds(k, input[from[k]])
  BY DEF Data, Kept
<1>2. \A k \in Span(p) : arr[k] = input[from[k]]
  BY <1>1 DEF Holds
<1> QED BY <1>1, <1>2, SpanIsFinite, RearrangedHasSameValues DEF Shape

\* Nobody copies over the part of a process that has sorted it.
LEMMA SortedAtRest ==
  ASSUME Shape, NEW p \in Procs, pc[p] = "unmap" \/ status[p] = "zero", Clean(p),
         NEW q \in Procs, NEW k \in Span(p)
  PROVE  ~ Covers(q, k)
<1> SUFFICES ASSUME Overwriting(q), k \in Span(q) PROVE FALSE
  BY DEF Covers
<1>1. /\ Exists(q) /\ status[q] # "zero" /\ pc[q] \in {"qsort", "copy", "ended"}
      /\ Exists(p) /\ ~ Overwriting(p) /\ Settling(p)
  BY DEF Overwriting, Settling, Exists, Shape, TypeOK, Ended
<1>2. Above(p, q) \/ Above(q, p)
  BY <1>1, Overlap DEF Shape
<1>3. ~ Above(p, q)
  BY <1>1 DEF Shape, Settled, Exists
<1>4. ~ Above(q, p)
  <2>1. pc[q] \in {"copy", "ended"} => ~ Above(q, p)
    BY DEF Clean, Ancestors
  <2>2. pc[q] = "qsort" => ~ Above(q, p)
    BY <1>1, NobodyBelow DEF Exists, Shape
  <2> QED BY <1>1, <2>1, <2>2
<1> QED BY <1>2, <1>3, <1>4

\* The program has the whole file and nobody above it.
LEMMA MainIsClean == Shape => /\ Exists(Main) /\ Clean(Main) /\ Span(Main) = Index
                              /\ \A p \in Procs \ {Main} : Above(Main, p)
BY MainIsTop DEF Shape, Rooted, Clean, Span, Index, Ancestors

\* An exit status of 0 means that the range is sorted and holds what it held, at
\* every depth; for the program itself, that the file is, and that the whole tree
\* has succeeded (parsort.c:94-162, 215-229).
THEOREM SortStatusHonest == Spec => []StatusHonest
<1>1. SortIInv => StatusHonest
  <2> SUFFICES ASSUME Shape, Data PROVE ZeroIsSorted /\ MainZeroIsSorted
    BY DEF SortIInv, Shape, Data, StatusHonest
  <2>1. ASSUME NEW p \in Procs, pc[p] = "unmap" \/ status[p] = "zero", Clean(p)
        PROVE  SortedOn(arr, Span(p)) /\ SameValues(arr, input, Span(p))
    <3>1. Exists(p)
      BY <2>1 DEF Exists, Shape, TypeOK, Ended
    <3>2. SameValues(arr, input, Span(p))
      BY <2>1, <3>1, SortedAtRest, RestingKeepsValues
    <3>3. SortedOn(arr, Span(p))
      BY <2>1 DEF Data, InOrder
    <3> QED BY <3>2, <3>3
  <2>2. ZeroIsSorted
    BY <2>1 DEF ZeroIsSorted, Clean
  <2>3. MainZeroIsSorted
    <3> SUFFICES ASSUME pc[Main] = "unmap" \/ status[Main] = "zero"
                 PROVE  /\ is_sorted(arr) = 0 /\ SameValues(arr, input, Index)
                        /\ \A p \in Procs \ {Main} : pc[p] = "none" \/ status[p] = "zero"
      BY DEF MainZeroIsSorted
    <3>1. SortedOn(arr, Index) /\ SameValues(arr, input, Index)
      BY <2>1, MainIsClean, MainIsTop
    <3>2. is_sorted(arr) = 0
      <4>1. \A k \in 1..(N - 1) : arr[k] \in Int /\ arr[k - 1] \in Int /\ arr[k - 1] <= arr[k]
        <5> SUFFICES ASSUME NEW k \in 1..(N - 1)
                     PROVE  arr[k] \in Int /\ arr[k - 1] \in Int /\ arr[k - 1] <= arr[k]
          OBVIOUS
        <5>1. k \in Index /\ k - 1 \in Index /\ k - 1 < k
          BY SizeAssumption DEF Index
        <5> QED BY <3>1, <5>1 DEF SortedOn, Shape, TypeOK
      <4>2. ~ \E k \in 1..(N - 1) : arr[k] < arr[k - 1]
        BY <4>1
      <4> QED BY <4>2 DEF is_sorted
    <3>3. \A p \in Procs \ {Main} : pc[p] = "none" \/ status[p] = "zero"
      BY MainIsClean, MainIsTop DEF Shape, Settled, Settling
    <3> QED BY <3>1, <3>2, <3>3
  <2> QED BY <2>2, <2>3
<1> QED BY <1>1, SortInvariant, PTL

\* A set whose members have partners of their own in another is no larger.
LEMMA OwnPartners ==
  ASSUME NEW A, NEW B, IsFiniteSet(B), NEW own,
         \A x \in A : own[x] \in B,
         \A x, y \in A : own[x] = own[y] => x = y
  PROVE  Cardinality(A) <= Cardinality(B)
<1> DEFINE h == [x \in A |-> own[x]]
<1>1. h \in [A -> B] /\ \A x, y \in A : h[x] = h[y] => x = y
  OBVIOUS
<1> HIDE DEF h
<1>2. h \in Injection(A, B)
  BY <1>1 DEF Injection, IsInjective
<1> QED BY <1>2, FS_Injection

\* Outside of the parts that a process has begun to sort or to copy over and not
\* finished, dead or alive, the file holds no value more often than it did; where
\* there are no such parts it is a rearrangement of what it was (parsort.c:68,
\* 144-156).
THEOREM SortNothingLost == Spec => []NothingLost
<1>1. SortIInv => NothingLost
  <2> SUFFICES ASSUME Shape, Data PROVE NothingLost
    BY DEF SortIInv, Shape, Data
  <2>1. \A q \in Procs, k \in Index : k \notin Unfinished => ~ Covers(q, k)
    BY DEF Covers, Unfinished
  <2>2. Main \in Procs /\ Exists(Main) /\ Clean(Main) /\ Span(Main) = Index
    BY MainIsClean, MainIsTop
  <2>3. Unfinished = {} => SameValues(arr, input, Index)
    BY <2>1, <2>2, RestingKeepsValues
  <2>4. PICK from \in Bijection(Index, Index) : \A k \in Index : Holds(k, input[from[k]])
    BY <2>2 DEF Data, Kept
  <2>5. ASSUME NEW v
        PROVE  Cardinality({k \in Index \ Unfinished : arr[k] = v})
                 <= Cardinality({k \in Index : input[k] = v})
    <3> DEFINE A == {k \in Index \ Unfinished : arr[k] = v}
               B == {k \in Index : input[k] = v}
    <3>1. \A k \in A : from[k] \in B
      BY <2>1, <2>4, BijectionFacts DEF Holds
    <3>2. \A x, y \in A : from[x] = from[y] => x = y
      BY <2>4, BijectionFacts
    <3>3. IsFiniteSet(B)
      BY <2>2, SpanIsFinite, FS_Subset DEF Shape
    <3> HIDE DEF A, B
    <3>4. Cardinality(A) <= Cardinality(B)
      BY <3>1, <3>2, <3>3, OwnPartners
    <3> QED BY <3>4 DEF A, B
  <2> QED BY <2>3, <2>5 DEF NothingLost
<1> QED BY <1>1, SortInvariant, PTL

=============================================================================
