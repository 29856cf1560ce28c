------------------------------ MODULE ParSort ------------------------------
(***************************************************************************)
(* The parallel merge sort of hw4 (parsort.c): merge_sort forks a child    *)
(* process for each half of its range, waits for both, merges them through *)
(* a private array and copies the result back into the mapped file, which  *)
(* all the processes share.  open, mmap, munmap and fork may fail, and a   *)
(* process may die at any point (by a signal, or on the unchecked malloc). *)
(*                                                                         *)
(* A process is its path in the call tree: <<>> is the program itself, 0   *)
(* and 1 lead to the first and the second half.  merge and the copy back   *)
(* are one step per element; qsort writes in its part as it likes, one     *)
(* place at a time, before it is done.                                     *)
(***************************************************************************)
EXTENDS Integers, Sequences, FiniteSets, Functions

CONSTANTS N,            \* numElements
          Threshold,    \* the sequential threshold
          Inputs,       \* what the file may hold at the start
          MaxDepth,     \* depth of the tree of processes
          MaxFailures   \* bound: forks that fail and processes that die

Index == 0..(N - 1)

ASSUME SizeAssumption  == N \in Nat /\ Threshold \in Nat
ASSUME InputAssumption == Inputs \subseteq [Index -> Int]
ASSUME BoundAssumption == MaxDepth \in Nat /\ MaxFailures \in Nat

\* The tree is deep enough.  It never is for a threshold of 0: a process with
\* one element then forks a child with the same one, for ever.
ASSUME DepthAssumption == N <= Threshold * 2^MaxDepth

Procs == UNION {[1..n -> {0, 1}] : n \in 0..MaxDepth}
Main == <<>>
Child(p, side) == Append(p, side)

VARIABLES input,        \* history: the file before the sort
          arr,          \* the shared mapping
          pc,           \* where each process is
          status,       \* how it ended, as waitpid will tell
          begin, end,   \* its part of the file
          leftIndex, rightIndex,  \* where its merge is in the two halves
          temparr,      \* its private array; in qsort, what it was called with
          i,            \* its loop counter in the copy back
          failures      \* forks failed and processes dead so far

part == <<begin, end>>
merging == <<leftIndex, rightIndex, temparr>>
vars == <<input, arr, pc, status, part, merging, i, failures>>

Mid(p) == (begin[p] + end[p]) \div 2
Span(p) == begin[p]..(end[p] - 1)
HalfOf(p, side) == IF side = 0 THEN <<begin[p], Mid(p)>> ELSE <<Mid(p), end[p]>>

\* q is on the way from the program to p.
Above(q, p) == Len(q) < Len(p) /\ \A k \in 1..Len(q) : q[k] = p[k]
Ancestors(p) == {q \in Procs : Above(q, p)}

Init == /\ input \in Inputs
        /\ arr = input
        /\ pc = [p \in Procs |-> IF p = Main THEN "open" ELSE "none"]
        /\ status = [p \in Procs |-> "none"]
        /\ begin = [p \in Procs |-> 0]
        /\ end = [p \in Procs |-> IF p = Main THEN N ELSE 0]
        /\ leftIndex = [p \in Procs |-> 0] /\ rightIndex = [p \in Procs |-> 0]
        /\ temparr = [p \in Procs |-> <<>>]
        /\ i = [p \in Procs |-> 0]
        /\ failures = 0

Ended(p) == pc[p] = "ended"
Live(p) == pc[p] \notin {"none", "ended"}
Goto(p, to) == pc' = [pc EXCEPT ![p] = to] /\ UNCHANGED status
Exit(p, result) == /\ pc' = [pc EXCEPT ![p] = "ended"]
                   /\ status' = [status EXCEPT ![p] = result]
Fail == failures < MaxFailures /\ failures' = failures + 1

\* The return of merge_sort: into do_child_work and its exit(0), or into main.
Sorted(p) == IF p = Main THEN Goto(p, "unmap") ELSE Exit(p, "zero")

\* p has a child for the half on this side, and goes on.
Forks(p, side, to) ==
  LET c == Child(p, side) IN
    /\ Len(p) < MaxDepth
    /\ pc' = [pc EXCEPT ![p] = to, ![c] = "start"] /\ UNCHANGED status
    /\ begin' = [begin EXCEPT ![c] = HalfOf(p, side)[1]]
    /\ end' = [end EXCEPT ![c] = HalfOf(p, side)[2]]

\* malloc, and the loop counters of merge.
StartMerge(p) == /\ Goto(p, "merge")
                 /\ leftIndex' = [leftIndex EXCEPT ![p] = begin[p]]
                 /\ rightIndex' = [rightIndex EXCEPT ![p] = Mid(p)]
                 /\ UNCHANGED <<temparr, i>>

\* f holds on set the values that g holds there, each as often.
SameValues(f, g, set) ==
  \A v \in {g[k] : k \in set} \cup {f[k] : k \in set} :
    Cardinality({k \in set : f[k] = v}) = Cardinality({k \in set : g[k] = v})

\* The exit status of the program that tells whether a file is sorted.
is_sorted(f) == IF \E k \in 1..(N - 1) : f[k] < f[k - 1] THEN 1 ELSE 0

SortedOn(f, set) == \A k, l \in set : k < l => f[k] <= f[l]

-----------------------------------------------------------------------------
(***************************************************************************)
(* Plausible wrong versions of the steps below, used by no specification.  *)
(***************************************************************************)

\* The second child is not waited for.
WaitSecondSkipped(p) ==
  /\ pc[p] = "wait1"
  /\ StartMerge(p)
  /\ UNCHANGED <<input, arr, part, failures>>

\* The status of the second child is not looked at.
WaitSecondUnchecked(p) ==
  /\ pc[p] = "wait1" /\ Ended(Child(p, 1))
  /\ StartMerge(p)
  /\ UNCHANGED <<input, arr, part, failures>>

\* The copy writes at i what belongs at i + 1.
CopyShifted(p) ==
  /\ pc[p] = "copy" /\ i[p] < end[p]
  /\ arr' = [arr EXCEPT ![i[p]] =
               temparr[p][IF i[p] = begin[p] THEN 1 ELSE i[p] - begin[p]]]
  /\ i' = [i EXCEPT ![p] = @ + 1]
  /\ UNCHANGED <<input, pc, status, part, merging, failures>>

\* The parent goes on as if the failed second fork had given it a child.
ForkSecondUnchecked(p) ==
  /\ pc[p] = "fork1"
  /\ \/ Forks(p, 1, "wait0") /\ UNCHANGED failures
     \/ Fail /\ Goto(p, "wait0") /\ UNCHANGED part
  /\ UNCHANGED <<input, arr, merging, i>>

-----------------------------------------------------------------------------
\* main opens, measures and maps the file, and ends with 1 when it cannot.
Map == /\ pc[Main] = "open"
       /\ \/ Goto(Main, "start") /\ UNCHANGED failures
          \/ Fail /\ Exit(Main, "one")
       /\ UNCHANGED <<input, arr, part, merging, i>>

\* It unmaps and closes it at the end: a failure there comes after the sort.
Unmap == /\ pc[Main] = "unmap"
         /\ \/ Exit(Main, "zero") /\ UNCHANGED failures
            \/ Fail /\ Exit(Main, "one")
         /\ UNCHANGED <<input, arr, part, merging, i>>

(***************************************************************************)
(* merge_sort.                                                             *)
(***************************************************************************)
Start(p) ==
  /\ pc[p] = "start"
  /\ \/ begin[p] >= end[p] /\ Sorted(p)
     \/ /\ begin[p] < end[p] /\ end[p] - begin[p] > Threshold
        /\ Goto(p, "fork0")
  /\ UNCHANGED <<input, arr, part, merging, i, failures>>

\* qsort is called with a part that is small enough.
CallQsort(p) ==
  /\ pc[p] = "start"
  /\ begin[p] < end[p] /\ end[p] - begin[p] <= Threshold
  /\ Goto(p, "qsort")
  /\ temparr' = [temparr EXCEPT ![p] = [j \in 1..(end[p] - begin[p]) |-> arr[begin[p] + j - 1]]]
  /\ UNCHANGED <<input, arr, part, leftIndex, rightIndex, i, failures>>

\* The library's qsort moves and copies elements within p's part, in an order
\* that is its own; meanwhile the file may hold one twice and another not at all.
QsortMoves(p) ==
  /\ pc[p] = "qsort"
  /\ \E k \in Span(p), j \in 1..Len(temparr[p]) : arr' = [arr EXCEPT ![k] = temparr[p][j]]
  /\ UNCHANGED <<input, pc, status, part, merging, i, failures>>

\* When it returns, what it was called with is there in the order of cmpvals.
Qsort(p) ==
  /\ pc[p] = "qsort"
  /\ \E from \in Bijection(Span(p), Span(p)) :
       /\ arr' = [k \in Index |-> IF k \in Span(p) THEN temparr[p][from[k] - begin[p] + 1]
                                  ELSE arr[k]]
       /\ SortedOn(arr', Span(p))
  /\ Sorted(p)
  /\ temparr' = [temparr EXCEPT ![p] = <<>>]
  /\ UNCHANGED <<input, part, leftIndex, rightIndex, i, failures>>

\* fork for the half on this side, or exit(1) when it fails; a first child is
\* then left to itself.
Fork(p, side, from, to) ==
  /\ pc[p] = from
  /\ \/ Forks(p, side, to) /\ UNCHANGED failures
     \/ Fail /\ Exit(p, "one") /\ UNCHANGED part
  /\ UNCHANGED <<input, arr, merging, i>>
ForkFirst(p)  == Fork(p, 0, "fork0", "fork1")
ForkSecond(p) == Fork(p, 1, "fork1", "wait0")

\* waitpid for the first child; if it crashed or failed, the second is reaped
\* before exit(1).  waitpid itself never fails: it names a child of p that has
\* not been waited for, and no signal handler is installed.
WaitFirst(p) ==
  /\ pc[p] = "wait0" /\ Ended(Child(p, 0))
  /\ Goto(p, IF status[Child(p, 0)] = "zero" THEN "wait1" ELSE "reap1")
  /\ UNCHANGED <<input, arr, part, merging, i, failures>>

ReapSecond(p) == /\ pc[p] = "reap1" /\ Ended(Child(p, 1))
                 /\ Exit(p, "one")
                 /\ UNCHANGED <<input, arr, part, merging, i, failures>>

WaitSecond(p) ==
  /\ pc[p] = "wait1" /\ Ended(Child(p, 1))
  /\ IF status[Child(p, 1)] = "zero"
     THEN StartMerge(p)
     ELSE Exit(p, "one") /\ UNCHANGED <<merging, i>>
  /\ UNCHANGED <<input, arr, part, failures>>

(***************************************************************************)
(* merge, and the copy back.                                               *)
(***************************************************************************)
\* The left element is next: it is no larger, or the right half is used up.
LeftFirst(p) == /\ leftIndex[p] < Mid(p)
                /\ rightIndex[p] < end[p] => arr[leftIndex[p]] <= arr[rightIndex[p]]

\* One round of a loop, which after the last element is followed by the copy.
Merge(p) ==
  /\ pc[p] = "merge"
  /\ IF LeftFirst(p)
     THEN /\ temparr' = [temparr EXCEPT ![p] = Append(@, arr[leftIndex[p]])]
          /\ leftIndex' = [leftIndex EXCEPT ![p] = @ + 1] /\ UNCHANGED rightIndex
     ELSE /\ temparr' = [temparr EXCEPT ![p] = Append(@, arr[rightIndex[p]])]
          /\ rightIndex' = [rightIndex EXCEPT ![p] = @ + 1] /\ UNCHANGED leftIndex
  /\ IF leftIndex'[p] = Mid(p) /\ rightIndex'[p] = end[p]
     THEN Goto(p, "copy") /\ i' = [i EXCEPT ![p] = begin[p]]
     ELSE UNCHANGED <<pc, status, i>>
  /\ UNCHANGED <<input, arr, part, failures>>

Copy(p) ==
  /\ pc[p] = "copy" /\ i[p] < end[p]
  /\ arr' = [arr EXCEPT ![i[p]] = temparr[p][i[p] - begin[p] + 1]]
  /\ i' = [i EXCEPT ![p] = @ + 1]
  /\ UNCHANGED <<input, pc, status, part, merging, failures>>

\* free, and the end of merge_sort.
CopyDone(p) ==
  /\ pc[p] = "copy" /\ i[p] = end[p]
  /\ Sorted(p)
  /\ temparr' = [temparr EXCEPT ![p] = <<>>]
  /\ UNCHANGED <<input, arr, part, leftIndex, rightIndex, i, failures>>

\* A signal, or the NULL of a failed malloc.
Dies(p) == /\ Live(p)
           /\ Fail /\ Exit(p, "killed")
           /\ UNCHANGED <<input, arr, part, merging, i>>

Proc(p) == \/ Start(p) \/ CallQsort(p) \/ Qsort(p) \/ ForkFirst(p) \/ ForkSecond(p)
           \/ WaitFirst(p) \/ ReapSecond(p) \/ WaitSecond(p)
           \/ Merge(p) \/ Copy(p) \/ CopyDone(p)

Next == Map \/ Unmap \/ \E p \in Procs : Proc(p) \/ QsortMoves(p) \/ Dies(p)

\* The kernel runs every process that can run, and qsort returns after finitely
\* many moves; nothing has to fail.
Fairness == WF_vars(Map \/ Unmap) /\ \A p \in Procs : WF_vars(Proc(p))

Spec == Init /\ [][Next]_vars /\ Fairness

-----------------------------------------------------------------------------
Doing == {"open", "start", "qsort", "fork0", "fork1", "wait0", "wait1", "reap1", "merge", "copy",
          "unmap"}

\* p has begun to write in its part, by qsort or by the copy of its array, and
\* has not finished: it goes on, or died in it.
Overwriting(p) ==
  \/ pc[p] \in {"qsort", "copy"}
  \/ status[p] = "killed" /\ begin[p] < end[p] /\ Len(temparr[p]) = end[p] - begin[p]
Unfinished == {k \in Index : \E p \in Procs : Overwriting(p) /\ k \in Span(p)}

\* Every variable keeps to its type.
TypeOK ==
  /\ input \in Inputs /\ arr \in [Index -> Int]
  /\ pc \in [Procs -> {"none", "ended"} \cup Doing]
  /\ status \in [Procs -> {"none", "zero", "one", "killed"}]
  /\ \A p \in Procs : (status[p] # "none") <=> Ended(p)
  /\ begin \in [Procs -> 0..N] /\ end \in [Procs -> 0..N] /\ i \in [Procs -> 0..N]
  /\ leftIndex \in [Procs -> 0..N] /\ rightIndex \in [Procs -> 0..N]
  /\ temparr \in [Procs -> Seq(Int)]
  /\ failures \in 0..MaxFailures

\* No two processes work on the same part of the file at a time, orphans and
\* survivors of a failed fork or a dead parent included (parsort.c:68, 147-152).
RaceFree ==
  \A p, q \in Procs :
    p # q /\ {pc[p], pc[q]} \subseteq {"qsort", "merge", "copy"}
      => Span(p) \cap Span(q) = {}

\* A process that exits with 0 has sorted its range, and the range keeps the
\* values it had in the file, until an ancestor starts to copy over it.
ZeroIsSorted ==
  \A p \in Procs :
    status[p] = "zero" /\ (\A q \in Ancestors(p) : pc[q] \notin {"copy", "unmap", "ended"})
      => SortedOn(arr, Span(p)) /\ SameValues(arr, input, Span(p))

\* When main returns 0, or only has to unmap the file, is_sorted agrees that the
\* file is, no failure was swallowed on the way, and no process of the tree is
\* left that could still write.
MainZeroIsSorted ==
  pc[Main] = "unmap" \/ status[Main] = "zero" =>
    /\ is_sorted(arr) = 0 /\ SameValues(arr, input, Index)
    /\ \A p \in Procs \ {Main} : pc[p] = "none" \/ status[p] = "zero"

\* An exit status of 0 can be trusted, at every depth (parsort.c:94-162, 215-229).
StatusHonest == TypeOK /\ ZeroIsSorted /\ MainZeroIsSorted

\* Failed forks and waits that exit(1) cost no data, and a process that dies in
\* its sort or its copy costs at most its own part: outside of the parts that
\* such a process left, or that one is at work in, the file holds no value more
\* often than it did, so that as many values are lost at most as those parts have
\* places; where there are none, it is a rearrangement of what it was.
NothingLost ==
  /\ \A v \in {arr[k] : k \in Index \ Unfinished} :
       Cardinality({k \in Index \ Unfinished : arr[k] = v})
         <= Cardinality({k \in Index : input[k] = v})
  /\ Unfinished = {} => SameValues(arr, input, Index)

\* A process outlives its parent only if the parent died, or failed to fork
\* its second child and left the first (parsort.c:82-87).
OrphansExplained ==
  \A p \in Procs : p # Main /\ Live(p) =>
    LET parent == SubSeq(p, 1, Len(p) - 1) IN
      Ended(parent) => \/ status[parent] = "killed"
                       \/ status[parent] = "one" /\ pc[Child(parent, 1)] = "none"

\* How far a process is and how far its children are: why OrphansExplained holds.
TreeTypeOK == /\ pc \in [Procs -> {"none", "ended"} \cup Doing]
              /\ status \in [Procs -> {"none", "zero", "one", "killed"}]
              /\ \A p \in Procs : (status[p] # "none") <=> Ended(p)
Childless(p)  == pc[Child(p, 0)] = "none" /\ pc[Child(p, 1)] = "none"
Succeeded(p)  == status[Child(p, 0)] = "zero" /\ status[Child(p, 1)] = "zero"
AllowsKids(p) ==
  /\ pc[p] \in {"none", "open", "start", "qsort", "fork0"} => Childless(p)
  /\ pc[p] = "fork1" => pc[Child(p, 1)] = "none"
  /\ pc[p] = "wait1" => status[Child(p, 0)] = "zero"
  /\ pc[p] = "reap1" => Ended(Child(p, 0))
  /\ pc[p] \in {"merge", "copy"} => Succeeded(p)
  /\ pc[p] = "unmap" \/ status[p] = "zero" => Childless(p) \/ Succeeded(p)
  /\ status[p] = "one" => \/ pc[Child(p, 1)] = "none"
                          \/ Ended(Child(p, 0)) /\ Ended(Child(p, 1))
TreeInv == TreeTypeOK /\ \A p \in Procs : Len(p) < MaxDepth => AllowsKids(p)

\* Every process that was forked ends: no wait is for ever.
EveryoneEnds == \A p \in Procs : Live(p) ~> Ended(p)

-----------------------------------------------------------------------------
(***************************************************************************)
(* The inductive invariant, in parts: what a process may rely on in the    *)
(* part of the file it works on.  It was checked on small instances before *)
(* it was proved.                                                          *)
(***************************************************************************)
Exists(p) == pc[p] # "none"

\* Who was forked has ancestors.
Rooted == /\ Exists(Main) /\ begin[Main] = 0 /\ end[Main] = N
          /\ \A p \in Procs : Exists(p) => \A q \in Ancestors(p) : Exists(q)

\* A part is a half of the parent's, so that two parts are nested when one
\* process is above the other, and disjoint otherwise.
Nested(q, p)   == begin[q] <= begin[p] /\ end[p] <= end[q]
Disjoint(q, p) == end[p] <= begin[q] \/ end[q] <= begin[p]
Splitting == {"fork1", "wait0", "wait1", "reap1", "merge", "copy"}
Placed ==
  /\ \A p \in Procs : /\ Exists(p) => begin[p] <= end[p]
                      /\ pc[p] \in {"qsort", "fork0"} \cup Splitting => begin[p] < end[p]
                      /\ pc[p] \in Splitting => Len(p) < MaxDepth
  /\ \A p \in Procs, side \in {0, 1} :
       Len(p) < MaxDepth /\ Exists(Child(p, side)) =>
         <<begin[Child(p, side)], end[Child(p, side)]>> = HalfOf(p, side)
  /\ \A p, q \in Procs : Exists(p) /\ Exists(q) =>
       /\ Above(q, p) => Nested(q, p)
       /\ p = q \/ Above(q, p) \/ Above(p, q) \/ Disjoint(q, p)

\* Whoever merges, copies or has succeeded has nobody below that is not done.
Settling(p) == pc[p] \in {"merge", "unmap"} \/ Overwriting(p) \/ status[p] = "zero"
Settled == \A p, q \in Procs : Settling(p) /\ Above(p, q) => pc[q] = "none" \/ status[q] = "zero"

\* Nobody above p has begun to copy over its part, or may be gone.
Clean(p) == \A q \in Ancestors(p) : pc[q] \notin {"copy", "unmap", "ended"}

\* What has not been given away is as it was in the file.
Untouched ==
  \A p \in Procs :
    /\ pc[p] \in {"open", "start", "fork0"} => \A k \in Span(p) : arr[k] = input[k]
    /\ pc[p] = "fork1" => \A k \in Mid(p)..(end[p] - 1) : arr[k] = input[k]

\* The array is in order and takes from the two halves what was merged so far;
\* it has its whole length from the copy on, and only then, or in qsort.
Used(p) == (begin[p]..(leftIndex[p] - 1)) \cup (Mid(p)..(rightIndex[p] - 1))
InOrderUpTo(s) == \A j, k \in 1..Len(s) : j < k => s[j] <= s[k]
MergeInv(p) ==
  /\ pc[p] \notin {"qsort", "merge", "copy", "ended"} => temparr[p] = <<>>
  /\ pc[p] = "merge" =>
       /\ leftIndex[p] \in begin[p]..Mid(p) /\ rightIndex[p] \in Mid(p)..end[p]
       /\ Len(temparr[p]) = (leftIndex[p] - begin[p]) + (rightIndex[p] - Mid(p))
       /\ Len(temparr[p]) < end[p] - begin[p]
       /\ \E from \in Bijection(1..Len(temparr[p]), Used(p)) :
            \A j \in 1..Len(temparr[p]) : temparr[p][j] = arr[from[j]]
       /\ Clean(p) => /\ InOrderUpTo(temparr[p])
                      /\ \A j \in 1..Len(temparr[p]), k \in Span(p) \ Used(p) :
                           temparr[p][j] <= arr[k]
CopyInv(p) ==
  /\ Overwriting(p) => Len(temparr[p]) = end[p] - begin[p]
  /\ pc[p] = "copy" =>
       /\ i[p] \in begin[p]..end[p]
       /\ \A k \in begin[p]..(i[p] - 1) : arr[k] = temparr[p][k - begin[p] + 1]
       /\ Clean(p) => InOrderUpTo(temparr[p])

InOrder == \A p \in Procs : (pc[p] = "unmap" \/ status[p] = "zero") /\ Clean(p)
                              => SortedOn(arr, Span(p))

\* v is what place k of the file holds once those who write over it are done, up
\* to the order in which qsort leaves its part.
Covers(p, k) == Overwriting(p) /\ k \in Span(p)
Holds(k, v) == /\ \A p \in Procs : Covers(p, k) => temparr[p][k - begin[p] + 1] = v
               /\ (\E p \in Procs : Covers(p, k)) \/ arr[k] = v

\* Each part is, but for what is being written, a rearrangement of the original.
Kept(p) == Exists(p) /\ Clean(p) =>
             \E from \in Bijection(Span(p), Span(p)) :
               \A k \in Span(p) : Holds(k, input[from[k]])

SortIInv == /\ TypeOK /\ TreeInv /\ Rooted /\ Placed /\ Settled /\ Untouched
            /\ InOrder /\ \A p \in Procs : MergeInv(p) /\ CopyInv(p) /\ Kept(p)
=============================================================================
