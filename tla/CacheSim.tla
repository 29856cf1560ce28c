------------------------------ MODULE CacheSim ------------------------------
(***************************************************************************)
(* The cache simulator of hw3 (csim.cpp, helper_functions.cpp): a trace of *)
(* loads and stores is run against a cache of num_sets sets of num_blocks  *)
(* blocks, and hits, misses and memory accesses are counted.  One line of  *)
(* the trace is one step.                                                  *)
(***************************************************************************)
EXTENDS Integers, Sequences, FiniteSets

CONSTANTS num_sets, num_blocks, num_bytes,
          Addresses,    \* addresses that the trace may name
          MaxOps        \* bound: lines of the trace

INT_MAX == 2147483647

\* validate_input has the rest of what is asked of the sizes; with a size of 0,
\* or with what is no number, is_power_of_2 never returns.  get_tag multiplies
\* two of them in uint32_t: a product that does not fit is 0, and divided by.
ASSUME SizeAssumption ==
  /\ num_sets \in 1..INT_MAX /\ num_blocks \in 1..INT_MAX /\ num_bytes \in 1..INT_MAX
  /\ num_sets \div 2 <= INT_MAX \div num_bytes
ASSUME AddressAssumption == Addresses \subseteq Nat
\* No int counter overflows: a line moves a block in and one out, or a word more.
ASSUME BoundAssumption == MaxOps \in Nat /\ MaxOps * num_bytes < INT_MAX

VARIABLES write_allocate, write_through, lru,   \* the modes
          sets,                                 \* cache.sets
          load_hits, load_misses, store_hits, store_misses,
          memory_access,
          trace,        \* history: the lines read so far
          stale         \* history: blocks with a store that memory lacks

modes == <<write_allocate, write_through, lru>>
counters == <<load_hits, load_misses, store_hits, store_misses>>
vars == <<modes, sets, counters, memory_access, trace, stale>>

SetIndex == 0..(num_sets - 1)
Slots == 0..(num_blocks - 1)
get_tag(a) == a \div (num_sets * num_bytes)
get_index(a) == (a \div num_bytes) % num_sets
BlockOf(a) == <<get_index(a), get_tag(a)>>
Tags == {get_tag(a) : a \in Addresses}

\* total_loads + total_stores, counted with the line in hand.
Now == Len(trace) + 1

Empty == [tag |-> 0, valid |-> FALSE, time_stamp |-> INT_MAX, dirty |-> FALSE]

is_power_of_2[n \in Nat \ {0}] == IF n % 2 = 0 THEN is_power_of_2[n \div 2] ELSE n = 1

\* The last three arguments of the command line.
ModeArguments == [miss  : {"write-allocate", "no-write-allocate", "other"},
                  store : {"write-through", "write-back", "other"},
                  evict : {"lru", "fifo", "other"}]

validate_input(args) ==
  /\ is_power_of_2[num_sets] /\ is_power_of_2[num_blocks] /\ is_power_of_2[num_bytes]
  /\ num_bytes >= 4
  /\ args.miss # "other" /\ args.store # "other" /\ args.evict # "other"
  /\ args.miss = "write-allocate" \/ args.store = "write-through"

Init == /\ \E args \in ModeArguments :
             /\ validate_input(args)
             /\ write_allocate = (args.miss = "write-allocate")
             /\ write_through = (args.store = "write-through")
             /\ lru = (args.evict = "lru")
        /\ sets = [x \in SetIndex |-> [s \in Slots |-> Empty]]
        /\ load_hits = 0 /\ load_misses = 0 /\ store_hits = 0 /\ store_misses = 0
        /\ memory_access = 0
        /\ trace = <<>> /\ stale = {}

\* The slots of set x that check_hit would return for tag t: one or none.
HitSlots(x, t) == {s \in Slots : sets[x][s].valid /\ sets[x][s].tag = t}
Free(x) == {s \in Slots : ~sets[x][s].valid}
First(S) == CHOOSE s \in S : \A u \in S : s <= u

-----------------------------------------------------------------------------
(***************************************************************************)
(* Plausible wrong versions of what follows, used by no specification.     *)
(***************************************************************************)
\* The newest block is evicted.
find_newest(x) ==
  First({s \in Slots : \A u \in Slots : sets[x][s].time_stamp >= sets[x][u].time_stamp})

\* Every hit renews the time stamp, in FIFO too.
TouchAlways(x, s) == [sets EXCEPT ![x][s].time_stamp = Now]

\* The dirty flag of a store is lost when its block is brought in.
NewBlockClean(t, dirty) ==
  [tag |-> t, valid |-> TRUE, time_stamp |-> Now, dirty |-> FALSE]

-----------------------------------------------------------------------------
\* find_oldest: the first slot with the least time stamp.
find_oldest(x) ==
  First({s \in Slots : \A u \in Slots : sets[x][s].time_stamp <= sets[x][u].time_stamp})

-----------------------------------------------------------------------------
(***************************************************************************)
(* One line of the trace.                                                  *)
(***************************************************************************)
\* check_hit renews the time stamp for lru only.
Touch(x, s) == IF lru THEN [sets EXCEPT ![x][s].time_stamp = Now] ELSE sets

\* new_cache, with the dirty flag that a store then sets.
NewBlock(t, dirty) ==
  [tag |-> t, valid |-> TRUE, time_stamp |-> Now, dirty |-> dirty]

\* Where a block goes, by insert_if_cache_not_full or find_oldest.
SlotFor(x) == IF Free(x) # {} THEN First(Free(x)) ELSE find_oldest(x)

\* A dirty block that goes is written back, unless memory always was up to date.
WritesBack(x) == /\ Free(x) = {}
                 /\ sets[x][find_oldest(x)].dirty /\ ~write_through

\* The block of tag t replaces what is in its slot: words moved, and what
\* memory then lacks.
Fill(x, t, dirty, more) ==
  LET s == SlotFor(x)
      out == <<x, sets[x][s].tag>>
      words == num_bytes \div 4
  IN /\ sets' = [sets EXCEPT ![x][s] = NewBlock(t, dirty)]
     /\ memory_access' = memory_access + words + more
                           + (IF WritesBack(x) THEN words ELSE 0)
     /\ stale' = (IF WritesBack(x) THEN stale \ {out} ELSE stale)
                   \cup (IF dirty /\ ~write_through THEN {<<x, t>>} ELSE {})

LoadHit(x, t) ==
  \E s \in HitSlots(x, t) :
    /\ load_hits' = load_hits + 1
    /\ sets' = Touch(x, s)
    /\ UNCHANGED <<load_misses, store_hits, store_misses, memory_access, stale>>

LoadMiss(x, t) ==
  /\ HitSlots(x, t) = {}
  /\ load_misses' = load_misses + 1
  /\ Fill(x, t, FALSE, 0)
  /\ UNCHANGED <<load_hits, store_hits, store_misses>>

StoreHit(x, t) ==
  \E s \in HitSlots(x, t) :
    /\ store_hits' = store_hits + 1
    /\ sets' = [Touch(x, s) EXCEPT ![x][s].dirty = TRUE]
    /\ memory_access' = memory_access + (IF write_through THEN 1 ELSE 0)
    /\ stale' = IF write_through THEN stale ELSE stale \cup {<<x, t>>}
    /\ UNCHANGED <<load_hits, load_misses, store_misses>>

\* With write_through the block is marked dirty if it took a free slot, and not
\* if it replaced another; the flag then plays no part.
StoreMissAllocate(x, t) ==
  /\ HitSlots(x, t) = {} /\ write_allocate
  /\ store_misses' = store_misses + 1
  /\ Fill(x, t, Free(x) # {} \/ ~write_through, IF write_through THEN 1 ELSE 0)
  /\ UNCHANGED <<load_hits, load_misses, store_hits>>

StoreMissAround(x, t) ==
  /\ HitSlots(x, t) = {} /\ ~write_allocate
  /\ store_misses' = store_misses + 1
  /\ memory_access' = memory_access + 1
  /\ UNCHANGED <<sets, load_hits, load_misses, store_hits, stale>>

Line(op, a) ==
  /\ Len(trace) < MaxOps
  /\ trace' = Append(trace, <<op, a>>)
  /\ LET x == get_index(a)
         t == get_tag(a)
     IN \/ op = "l" /\ (LoadHit(x, t) \/ LoadMiss(x, t))
        \/ op = "s" /\ (StoreHit(x, t) \/ StoreMissAllocate(x, t) \/ StoreMissAround(x, t))
  /\ UNCHANGED modes

Next == \E op \in {"l", "s"}, a \in Addresses : Line(op, a)

Spec == Init /\ [][Next]_vars

-----------------------------------------------------------------------------
Block == [tag : Tags \cup {0}, valid : BOOLEAN, time_stamp : (1..MaxOps) \cup {INT_MAX},
          dirty : BOOLEAN]

\* Every variable keeps to its type; every line is a hit or a miss, once.
TypeOK ==
  /\ write_allocate \in BOOLEAN /\ write_through \in BOOLEAN /\ lru \in BOOLEAN
  /\ sets \in [SetIndex -> [Slots -> Block]]
  /\ \A n \in {load_hits, load_misses, store_hits, store_misses} : n \in Nat
  /\ load_hits + load_misses + store_hits + store_misses = Len(trace)
  /\ memory_access \in Nat
  /\ trace \in Seq({"l", "s"} \X Addresses)
  /\ stale \subseteq SetIndex \X Tags

\* A set holds a block once, and no two of its blocks have the same time stamp:
\* hit and victim are never a matter of slot order (helper_functions.cpp:104, 129).
OneEach ==
  \A x \in SetIndex : \A s, u \in Slots :
    s # u /\ sets[x][s].valid /\ sets[x][u].valid
      => /\ sets[x][s].tag # sets[x][u].tag
         /\ sets[x][s].time_stamp # sets[x][u].time_stamp

\* What memory lacks is in the cache, in a block marked dirty, so that eviction
\* writes it; with write-through memory lacks nothing, and without it no block
\* is marked dirty, and its write-back counted, that memory does not lack.
StaleIsDirty ==
  /\ \A b \in stale : \E s \in Slots : /\ sets[b[1]][s].valid /\ sets[b[1]][s].dirty
                                       /\ sets[b[1]][s].tag = b[2]
  /\ write_through => stale = {}
  /\ ~write_through => \A x \in SetIndex : \A s \in Slots :
       sets[x][s].valid /\ sets[x][s].dirty => <<x, sets[x][s].tag>> \in stale

\* Between two lines of the trace a block is in the cache once, its age is its
\* own, and it is dirty exactly when memory lacks a store to it, so none is lost
\* nor written back twice (csim.cpp:45-152).
CacheInv == TypeOK /\ OneEach /\ StaleIsDirty

\* Line n of the trace, by the book: LRU hits iff the same block was touched
\* before, and fewer than num_blocks others of its set since.
HitsByTheBook(n) ==
  LET b(k) == BlockOf(trace[k][2]) IN
  \E j \in 1..(n - 1) :
    /\ b(j) = b(n)
    /\ Cardinality({b(k) : k \in {k \in (j + 1)..(n - 1) :
                                    b(k)[1] = b(n)[1] /\ b(k) # b(n)}}) < num_blocks

\* The LRU hit counts are those of the stack-distance definition, which knows of
\* no slots and no time stamps (every miss allocates).
StackDistance ==
  lru /\ write_allocate =>
    LET hits(op) == {n \in 1..Len(trace) : trace[n][1] = op /\ HitsByTheBook(n)} IN
    load_hits = Cardinality(hits("l")) /\ store_hits = Cardinality(hits("s"))

\* The tags of the valid blocks of a set, oldest time stamp first: block i is the one
\* that i - 1 others are older than.
Held(blocks) == {s \in Slots : blocks[s].valid}
Older(blocks, s) == {u \in Held(blocks) : blocks[u].time_stamp < blocks[s].time_stamp}
Rank(blocks, s) == Cardinality(Older(blocks, s))
Ordered(blocks) == [i \in 1..Cardinality(Held(blocks)) |->
                      blocks[CHOOSE s \in Held(blocks) : Rank(blocks, s) = i - 1].tag]

LineBar == [x \in SetIndex |-> Ordered(sets[x])]
Policy == INSTANCE CachePolicy WITH Sets <- SetIndex, Ways <- num_blocks, line <- LineBar
\* The time stamps implement the replacement policy, LRU and FIFO.
PolicySpec == Policy!Spec
-----------------------------------------------------------------------------
(***************************************************************************)
(* The strengthenings behind the theorems about CacheInv and StackDistance.*)
(***************************************************************************)
\* A block was brought in or touched by a line of the trace that was read.
Stamped == \A x \in SetIndex : \A s \in Slots :
             sets[x][s].valid => sets[x][s].time_stamp \in 1..Len(trace)

CacheIInv == CacheInv /\ Stamped

BlockAt(k) == BlockOf(trace[k][2])
Resident(b) == \E s \in Slots : sets[b[1]][s].valid /\ sets[b[1]][s].tag = b[2]

\* The time stamp of a block is the last line that named it.
LastTouch == \A x \in SetIndex : \A s \in Slots :
               sets[x][s].valid =>
                 /\ BlockAt(sets[x][s].time_stamp) = <<x, sets[x][s].tag>>
                 /\ \A k \in (sets[x][s].time_stamp + 1)..Len(trace) :
                      BlockAt(k) # <<x, sets[x][s].tag>>

\* A block that was named and is gone gave way to blocks that were all named since.
GoneForNewer == \A k \in 1..Len(trace) :
                  \/ Resident(BlockAt(k))
                  \/ \A s \in Slots : LET block == sets[BlockAt(k)[1]][s]
                                      IN  block.valid /\ block.time_stamp > k

RecencyInv == lru /\ write_allocate => LastTouch /\ GoneForNewer
StackIInv == RecencyInv /\ StackDistance
=============================================================================
