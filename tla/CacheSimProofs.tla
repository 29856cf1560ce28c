--------------------------- MODULE CacheSimProofs ---------------------------
(***************************************************************************)
(* For a cache of any size and a trace of any addresses: no store is lost  *)
(* and a block is in the cache once; the hits of an LRU cache are those of *)
(* the stack-distance definition; and the time stamps implement the        *)
(* replacement policy, in LRU and in FIFO.                                 *)
(***************************************************************************)
EXTENDS CacheSim, SequencesExt, SequenceTheorems, FiniteSetTheorems,
        WellFoundedInduction, TLAPS

\* Every set of natural numbers with a member has a least one.
LEMMA LeastNatural ==
  ASSUME NEW T \in SUBSET Nat, T # {}
  PROVE  \E x \in T : \A y \in T : x <= y
<1> DEFINE R == OpToRel(<, Nat)
<1>1. IsWellFoundedOn(R, Nat)
  BY NatLessThanWellFounded
<1>2. \A x, y \in Nat : x < y => <<x, y>> \in R
  BY DEF OpToRel
<1> HIDE DEF R
<1>3. PICK x \in T : \A y \in T : <<y, x>> \notin R
  BY <1>1, WFMin
<1>4. \A y \in T : ~ (y < x)
  BY <1>2, <1>3
<1> QED BY <1>3, <1>4

\* The sizes and what an address is mapped to.
LEMMA Sizes == /\ num_sets \in Nat \ {0} /\ num_blocks \in Nat \ {0} /\ num_bytes \in Nat \ {0}
               /\ Addresses \subseteq Nat /\ MaxOps \in Nat
BY SizeAssumption, AddressAssumption, BoundAssumption

\* A quotient and a remainder are natural numbers, and the remainder is small.
LEMMA Remainder ==
  ASSUME NEW p \in Nat, NEW w \in Nat \ {0}
  PROVE  p \div w \in Nat /\ p % w \in 0 .. w - 1
BY Z3

\* An address has an index and a tag.
LEMMA AddressFacts ==
  ASSUME NEW a \in Addresses
  PROVE  get_index(a) \in SetIndex /\ get_tag(a) \in Tags
<1>1. a \in Nat /\ num_bytes \in Nat \ {0} /\ num_sets \in Nat \ {0}
  BY Sizes
<1>2. a \div num_bytes \in Nat
  BY <1>1, Remainder
<1>3. (a \div num_bytes) % num_sets \in 0 .. num_sets - 1
  BY <1>1, <1>2, Remainder
<1> QED BY <1>3 DEF get_index, SetIndex, Tags

\* Slot s of set x becomes block B.
Replaced(x, s, B) == sets' = [sets EXCEPT ![x][s] = B]

\* One slot changes, to a block that is touched now or keeps its time stamp.
LEMMA SlotReplaced ==
  ASSUME TypeOK, OneEach, Stamped, Len(trace) < MaxOps, Len(trace') = Len(trace) + 1,
         NEW x \in SetIndex, NEW s \in Slots, NEW B \in Block, B.valid,
         Replaced(x, s, B),
         \A u \in Slots : u # s /\ sets[x][u].valid => sets[x][u].tag # B.tag,
         B.time_stamp = Now \/ (sets[x][s].valid /\ B.time_stamp = sets[x][s].time_stamp)
  PROVE  sets' \in [SetIndex -> [Slots -> Block]] /\ OneEach' /\ Stamped'
<1>1. sets \in [SetIndex -> [Slots -> Block]] /\ Len(trace) \in Nat
  BY DEF TypeOK
<1>2. sets' \in [SetIndex -> [Slots -> Block]]
  BY <1>1 DEF Replaced
<1>3. /\ sets'[x][s] = B
      /\ \A u \in Slots : u # s => sets'[x][u] = sets[x][u]
      /\ \A y \in SetIndex : y # x => sets'[y] = sets[y]
  BY <1>1 DEF Replaced
<1>4. \A y \in SetIndex : \A u \in Slots :
        sets[y][u].valid => sets[y][u].time_stamp \in 1..Len(trace)
  BY DEF Stamped
<1>5. Stamped'
  BY <1>1, <1>3, <1>4 DEF Stamped, Now
<1>6. ASSUME NEW u \in Slots, u # s, sets[x][u].valid PROVE sets[x][u].time_stamp # B.time_stamp
  <2>1. sets[x][u].time_stamp \in 1..Len(trace)
    BY <1>4, <1>6
  <2>2. sets[x][u].time_stamp # Now
    BY <1>1, <2>1 DEF Now
  <2> QED BY <1>6, <2>2 DEF OneEach
<1>7. OneEach'
  BY <1>3, <1>6 DEF OneEach
<1> QED BY <1>2, <1>5, <1>7

\* The first slot of some.
LEMMA FirstSlot ==
  ASSUME NEW S \in SUBSET Slots, S # {}
  PROVE  First(S) \in S
<1>1. S \in SUBSET Nat
  BY Sizes DEF Slots
<1>2. \E s \in S : \A u \in S : s <= u
  BY <1>1, LeastNatural
<1> QED BY <1>2 DEF First

\* What find_oldest returns when no slot is free, and whose time stamp is the least.
LEMMA OldestSlot ==
  ASSUME TypeOK, Stamped, NEW x \in SetIndex, Free(x) = {}
  PROVE  /\ find_oldest(x) \in Slots
         /\ \A u \in Slots : sets[x][find_oldest(x)].time_stamp <= sets[x][u].time_stamp
<1> DEFINE stamps == {sets[x][s].time_stamp : s \in Slots}
           oldest == {s \in Slots : \A u \in Slots : sets[x][s].time_stamp <= sets[x][u].time_stamp}
<1>1. \A s \in Slots : sets[x][s].time_stamp \in Nat
  BY DEF Free, Stamped
<1>2. stamps \in SUBSET Nat /\ stamps # {}
  BY <1>1, Sizes DEF Slots
<1>3. PICK n \in stamps : \A k \in stamps : n <= k
  BY <1>2, LeastNatural
<1>4. oldest # {} /\ oldest \in SUBSET Slots
  BY <1>3
<1>5. First(oldest) \in oldest
  BY <1>4, FirstSlot
<1> QED BY <1>5 DEF find_oldest

\* A slot that takes a new block is one of the set's, and free if one is.
LEMMA SlotForFacts ==
  ASSUME TypeOK, Stamped, NEW x \in SetIndex
  PROVE  /\ SlotFor(x) \in Slots
         /\ Free(x) # {} => SlotFor(x) \in Free(x)
         /\ Free(x) = {} => SlotFor(x) = find_oldest(x)
<1>1. CASE Free(x) = {}
  BY <1>1, OldestSlot DEF SlotFor
<1>2. CASE Free(x) # {}
  <2>1. Free(x) \in SUBSET Slots
    BY DEF Free
  <2> QED BY <1>2, <2>1, FirstSlot DEF SlotFor
<1> QED BY <1>1, <1>2

\* A block with one field changed.
BlockOfFields(t, v, n, d) == [tag |-> t, valid |-> v, time_stamp |-> n, dirty |-> d]

\* What the fields of a block are.
LEMMA BlockFields ==
  ASSUME NEW b \in Block, NEW n
  PROVE  /\ b = BlockOfFields(b.tag, b.valid, b.time_stamp, b.dirty)
         /\ [b EXCEPT !.time_stamp = n] = BlockOfFields(b.tag, b.valid, n, b.dirty)
BY DEF Block, BlockOfFields

\* And with its flag set.
LEMMA BlockDirtied ==
  ASSUME NEW b \in Block
  PROVE  [b EXCEPT !.dirty = TRUE] = BlockOfFields(b.tag, b.valid, b.time_stamp, TRUE)
<1>1. \A e \in BOOLEAN :
        [b EXCEPT !.dirty = e] = BlockOfFields(b.tag, b.valid, b.time_stamp, e)
  BY DEF Block, BlockOfFields
<1> QED BY <1>1

\* check_hit, and for a store what is done to its block: the slot and its block.
LEMMA HitReplaces ==
  ASSUME TypeOK, NEW x \in SetIndex, NEW t, NEW s \in HitSlots(x, t), Len(trace) < MaxOps,
         sets' = Touch(x, s) \/ sets' = [Touch(x, s) EXCEPT ![x][s].dirty = TRUE]
  PROVE  \E B \in Block : /\ Replaced(x, s, B)
                          /\ B.valid /\ B.tag = t
                          /\ B.time_stamp = IF lru THEN Now ELSE sets[x][s].time_stamp
                          /\ sets[x][s].dirty => B.dirty
                          /\ sets' = [Touch(x, s) EXCEPT ![x][s].dirty = TRUE] => B.dirty
                          /\ sets' = Touch(x, s) => B.dirty = sets[x][s].dirty
<1>1. sets \in [SetIndex -> [Slots -> Block]] /\ lru \in BOOLEAN /\ Now \in 1..MaxOps
  BY Sizes DEF TypeOK, Now
<1>2. s \in Slots /\ sets[x][s].valid /\ sets[x][s].tag = t /\ sets[x][s] \in Block
  BY <1>1 DEF HitSlots
<1> DEFINE stamp == IF lru THEN Now ELSE sets[x][s].time_stamp
           B(d) == BlockOfFields(t, sets[x][s].valid, stamp, d)
<1>3. stamp \in (1..MaxOps) \cup {INT_MAX} /\ sets[x][s].dirty \in BOOLEAN
  BY <1>1, <1>2 DEF Block
<1>4. \A d \in BOOLEAN : /\ B(d) \in Block /\ B(d).valid /\ B(d).tag = t
                         /\ B(d).time_stamp = stamp /\ B(d).dirty = d
  BY <1>2, <1>3 DEF Block, BlockOfFields
<1>5. Touch(x, s) = [sets EXCEPT ![x][s] = B(sets[x][s].dirty)]
  <2>1. CASE lru
    <3>1. [sets[x][s] EXCEPT !.time_stamp = Now] = B(sets[x][s].dirty)
      BY <1>2, <2>1, BlockFields
    <3> QED BY <2>1, <3>1 DEF Touch
  <2>2. CASE ~lru
    <3>1. sets[x][s] = B(sets[x][s].dirty)
      BY <1>2, <2>2, BlockFields
    <3>2. sets = [sets EXCEPT ![x][s] = sets[x][s]]
      BY <1>1
    <3> QED BY <2>2, <3>1, <3>2 DEF Touch
  <2> QED BY <2>1, <2>2
<1> HIDE DEF B
<1>6. [Touch(x, s) EXCEPT ![x][s].dirty = TRUE] = [sets EXCEPT ![x][s] = B(TRUE)]
  <2>1. Touch(x, s)[x][s] = B(sets[x][s].dirty)
    BY <1>1, <1>2, <1>5
  <2>2. [B(sets[x][s].dirty) EXCEPT !.dirty = TRUE] = B(TRUE)
    <3>1. \A d \in BOOLEAN : B(d) = BlockOfFields(t, sets[x][s].valid, stamp, d)
      BY DEF B
    <3>2. B(sets[x][s].dirty) \in Block /\ TRUE \in BOOLEAN
      BY <1>3, <1>4
    <3>3. /\ B(sets[x][s].dirty).tag = t
          /\ B(sets[x][s].dirty).valid = sets[x][s].valid
          /\ B(sets[x][s].dirty).time_stamp = stamp
      BY <1>3, <3>1 DEF BlockOfFields
    <3> QED BY <3>1, <3>2, <3>3, BlockDirtied
  <2>3. [Touch(x, s) EXCEPT ![x][s].dirty = TRUE] = [Touch(x, s) EXCEPT ![x][s] = B(TRUE)]
    BY <2>1, <2>2
  <2> QED BY <1>1, <1>2, <1>5, <2>3
<1>7. CASE sets' = Touch(x, s)
  <2>1. sets' = [sets EXCEPT ![x][s] = B(sets[x][s].dirty)]
    BY <1>5, <1>7
  <2>2. sets' = [Touch(x, s) EXCEPT ![x][s].dirty = TRUE] => B(sets[x][s].dirty).dirty
    <3>1. \A d \in BOOLEAN : [sets EXCEPT ![x][s] = B(d)][x][s] = B(d)
      BY <1>1, <1>2
    <3>2. ASSUME sets' = [sets EXCEPT ![x][s] = B(TRUE)]
          PROVE  B(sets[x][s].dirty) = B(TRUE)
      BY <1>3, <2>1, <3>1, <3>2
    <3>3. B(TRUE).dirty
      BY <1>4
    <3> QED BY <1>6, <3>2, <3>3
  <2> QED BY <1>3, <1>4, <2>1, <2>2 DEF Replaced
<1>8. CASE sets' # Touch(x, s) /\ sets' = [Touch(x, s) EXCEPT ![x][s].dirty = TRUE]
  BY <1>4, <1>6, <1>8 DEF Replaced
<1> QED BY <1>7, <1>8

\* A hit, and a store into the block it finds.
LEMMA HitKeeps ==
  ASSUME CacheIInv, NEW x \in SetIndex, NEW t \in Tags, NEW s \in HitSlots(x, t),
         Len(trace) < MaxOps, Len(trace') = Len(trace) + 1, write_through' = write_through,
         \/ sets' = Touch(x, s) /\ stale' = stale
         \/ /\ sets' = [Touch(x, s) EXCEPT ![x][s].dirty = TRUE]
            /\ stale' = IF write_through THEN stale ELSE stale \cup {<<x, t>>}
  PROVE  /\ sets' \in [SetIndex -> [Slots -> Block]] /\ stale' \subseteq SetIndex \X Tags
         /\ OneEach' /\ StaleIsDirty' /\ Stamped'
<1>1. TypeOK /\ OneEach /\ StaleIsDirty /\ Stamped
  BY DEF CacheIInv, CacheInv
<1>2. s \in Slots /\ sets[x][s].valid /\ sets[x][s].tag = t
  BY DEF HitSlots
<1>3. PICK B \in Block : /\ Replaced(x, s, B)
                         /\ B.valid /\ B.tag = t
                         /\ B.time_stamp = IF lru THEN Now ELSE sets[x][s].time_stamp
                         /\ sets[x][s].dirty => B.dirty
                         /\ sets' = [Touch(x, s) EXCEPT ![x][s].dirty = TRUE] => B.dirty
                         /\ sets' = Touch(x, s) => B.dirty = sets[x][s].dirty
  BY <1>1, HitReplaces
<1>4. \A u \in Slots : u # s /\ sets[x][u].valid => sets[x][u].tag # B.tag
  BY <1>1, <1>2, <1>3 DEF OneEach
<1>5. B.time_stamp = Now \/ (sets[x][s].valid /\ B.time_stamp = sets[x][s].time_stamp)
  BY <1>2, <1>3
<1>6. sets' \in [SetIndex -> [Slots -> Block]] /\ OneEach' /\ Stamped'
  BY <1>1, <1>2, <1>3, <1>4, <1>5, SlotReplaced
<1>7. stale' \subseteq SetIndex \X Tags
  BY <1>1 DEF TypeOK
<1>8. /\ sets'[x][s] = B
      /\ \A y \in SetIndex : \A u \in Slots : y # x \/ u # s => sets'[y][u] = sets[y][u]
  BY <1>1, <1>2, <1>3 DEF TypeOK, Replaced
<1>9. ASSUME NEW b \in stale'
      PROVE  \E u \in Slots : sets'[b[1]][u].valid /\ sets'[b[1]][u].dirty
                               /\ sets'[b[1]][u].tag = b[2]
  <2>1. CASE b \in stale
    <3>1. PICK u \in Slots : sets[b[1]][u].valid /\ sets[b[1]][u].dirty
                             /\ sets[b[1]][u].tag = b[2]
      BY <1>1, <2>1 DEF StaleIsDirty
    <3>2. b[1] \in SetIndex
      BY <1>7
    <3> QED BY <1>2, <1>3, <1>8, <3>1, <3>2
  <2>2. CASE b \notin stale
    <3>1. b = <<x, t>> /\ B.dirty
      BY <1>3, <2>2
    <3> QED BY <1>2, <1>3, <1>8, <3>1
  <2> QED BY <2>1, <2>2
<1>10. ASSUME ~write_through, NEW y \in SetIndex, NEW u \in Slots,
              sets'[y][u].valid, sets'[y][u].dirty
       PROVE  <<y, sets'[y][u].tag>> \in stale'
  <2>1. stale \subseteq stale'
    OBVIOUS
  <2>2. CASE y # x \/ u # s
    BY <1>1, <1>8, <1>10, <2>1, <2>2 DEF StaleIsDirty
  <2>3. CASE y = x /\ u = s
    <3>1. <<x, t>> \in stale'
      <4>1. CASE sets' = Touch(x, s) /\ stale' = stale
        BY <1>1, <1>2, <1>3, <1>8, <1>10, <2>3, <4>1 DEF StaleIsDirty
      <4>2. CASE stale' = IF write_through THEN stale ELSE stale \cup {<<x, t>>}
        BY <1>10, <4>2
      <4> QED BY <4>1, <4>2
    <3> QED BY <1>3, <1>8, <2>3, <3>1
  <2> QED BY <2>2, <2>3
<1>11. StaleIsDirty'
  BY <1>1, <1>9, <1>10 DEF StaleIsDirty
<1> QED BY <1>6, <1>7, <1>11

\* A block comes in and maybe another goes.
LEMMA FillKeeps ==
  ASSUME CacheIInv, NEW x \in SetIndex, NEW t \in Tags, HitSlots(x, t) = {},
         Len(trace) < MaxOps, Len(trace') = Len(trace) + 1, write_through' = write_through,
         NEW dirty \in BOOLEAN, NEW more \in Nat, Fill(x, t, dirty, more)
  PROVE  /\ sets' \in [SetIndex -> [Slots -> Block]] /\ stale' \subseteq SetIndex \X Tags
         /\ OneEach' /\ StaleIsDirty' /\ Stamped' /\ memory_access' \in Nat
<1>1. TypeOK /\ OneEach /\ StaleIsDirty /\ Stamped
  BY DEF CacheIInv, CacheInv
<1> DEFINE s == SlotFor(x)
           B == NewBlock(t, dirty)
<1>2. /\ s \in Slots
      /\ Free(x) # {} => s \in Free(x)
      /\ Free(x) = {} => s = find_oldest(x)
  BY <1>1, SlotForFacts
<1>3. Replaced(x, s, B)
  BY DEF Fill, Replaced
<1>4. B \in Block /\ B.valid /\ B.tag = t /\ B.time_stamp = Now /\ B.dirty = dirty
  BY <1>1, Sizes DEF NewBlock, Block, Now, TypeOK
<1>5. stale' = (IF WritesBack(x) THEN stale \ {<<x, sets[x][s].tag>>} ELSE stale)
                 \cup (IF dirty /\ ~write_through THEN {<<x, t>>} ELSE {})
  BY DEF Fill
<1>6. memory_access' \in Nat
  <2>1. num_bytes \div 4 \in Nat
    BY Sizes, Remainder
  <2> QED BY <1>1, <2>1 DEF Fill, TypeOK
<1> HIDE DEF s, B
<1>7. \A u \in Slots : u # s /\ sets[x][u].valid => sets[x][u].tag # B.tag
  BY <1>4 DEF HitSlots
<1>8. sets' \in [SetIndex -> [Slots -> Block]] /\ OneEach' /\ Stamped'
  BY <1>1, <1>2, <1>3, <1>4, <1>7, SlotReplaced
<1>9. stale' \subseteq SetIndex \X Tags
  BY <1>1, <1>5 DEF TypeOK
<1>10. /\ sets'[x][s] = B
       /\ \A y \in SetIndex : \A u \in Slots : y # x \/ u # s => sets'[y][u] = sets[y][u]
  BY <1>1, <1>2, <1>3 DEF TypeOK, Replaced
<1>11. ASSUME NEW b \in stale'
       PROVE  \E u \in Slots : sets'[b[1]][u].valid /\ sets'[b[1]][u].dirty
                                /\ sets'[b[1]][u].tag = b[2]
  <2>1. b \in SetIndex \X Tags
    BY <1>9
  <2>2. CASE b = <<x, t>> /\ dirty /\ ~write_through
    BY <1>2, <1>4, <1>10, <2>2
  <2>3. CASE b \in stale /\ ~(WritesBack(x) /\ b = <<x, sets[x][s].tag>>)
    <3>1. PICK u \in Slots : sets[b[1]][u].valid /\ sets[b[1]][u].dirty
                             /\ sets[b[1]][u].tag = b[2]
      BY <1>1, <2>3 DEF StaleIsDirty
    <3>2. CASE b[1] = x /\ u = s
      <4>1. Free(x) = {} /\ ~write_through
        BY <1>1, <1>2, <2>3, <3>1, <3>2 DEF Free, StaleIsDirty
      <4>2. WritesBack(x)
        BY <1>2, <3>1, <3>2, <4>1 DEF WritesBack
      <4> QED BY <2>1, <2>3, <3>1, <3>2, <4>2
    <3>3. CASE b[1] # x \/ u # s
      BY <1>10, <2>1, <3>1, <3>3
    <3> QED BY <3>2, <3>3
  <2> QED BY <1>5, <2>2, <2>3
<1>12. ASSUME ~write_through, NEW y \in SetIndex, NEW u \in Slots,
              sets'[y][u].valid, sets'[y][u].dirty
       PROVE  <<y, sets'[y][u].tag>> \in stale'
  <2>1. CASE y # x \/ u # s
    <3>1. sets[y][u].valid /\ sets[y][u].dirty /\ sets'[y][u].tag = sets[y][u].tag
      BY <1>10, <1>12, <2>1
    <3>2. <<y, sets[y][u].tag>> \in stale
      BY <1>1, <1>12, <3>1 DEF StaleIsDirty
    <3>3. <<y, sets[y][u].tag>> # <<x, sets[x][s].tag>> \/ ~WritesBack(x)
      <4>1. CASE WritesBack(x) /\ y = x
        <5>1. sets[x][s].valid
          BY <1>2, <4>1 DEF WritesBack, Free
        <5> QED BY <1>1, <1>2, <2>1, <3>1, <4>1, <5>1 DEF OneEach
      <4> QED BY <4>1
    <3> QED BY <1>5, <3>1, <3>2, <3>3
  <2>2. CASE y = x /\ u = s
    BY <1>4, <1>5, <1>10, <1>12, <2>2
  <2> QED BY <2>1, <2>2
<1>13. StaleIsDirty'
  BY <1>1, <1>5, <1>11, <1>12 DEF StaleIsDirty
<1> QED BY <1>6, <1>8, <1>9, <1>13

\* It holds of the empty cache.
LEMMA InitCacheIInv == Init => CacheIInv
<1> SUFFICES ASSUME Init PROVE CacheIInv
  OBVIOUS
<1>1. Empty \in Block /\ ~Empty.valid
  BY DEF Empty, Block
<1>2. TypeOK
  BY <1>1 DEF Init, TypeOK
<1>3. \A x \in SetIndex : \A s \in Slots : ~sets[x][s].valid
  BY <1>1 DEF Init
<1>4. OneEach /\ Stamped
  BY <1>3 DEF OneEach, Stamped
<1>5. StaleIsDirty
  BY <1>3 DEF Init, StaleIsDirty
<1> QED BY <1>2, <1>4, <1>5 DEF CacheIInv, CacheInv

\* The counts of a line that was a hit or a miss.
LEMMA LineCounts ==
  ASSUME TypeOK, NEW op \in {"l", "s"}, NEW a \in Addresses, Line(op, a),
         sets' \in [SetIndex -> [Slots -> Block]], stale' \subseteq SetIndex \X Tags,
         memory_access' \in Nat,
         \/ load_hits' = load_hits + 1 /\ UNCHANGED <<load_misses, store_hits, store_misses>>
         \/ load_misses' = load_misses + 1 /\ UNCHANGED <<load_hits, store_hits, store_misses>>
         \/ store_hits' = store_hits + 1 /\ UNCHANGED <<load_hits, load_misses, store_misses>>
         \/ store_misses' = store_misses + 1 /\ UNCHANGED <<load_hits, load_misses, store_hits>>
  PROVE  TypeOK'
<1>1. /\ trace' \in Seq({"l", "s"} \X Addresses)
      /\ Len(trace') = Len(trace) + 1 /\ Len(trace) \in Nat
  BY DEF Line, TypeOK
<1>2. /\ load_hits \in Nat /\ load_misses \in Nat /\ store_hits \in Nat /\ store_misses \in Nat
      /\ load_hits + load_misses + store_hits + store_misses = Len(trace)
  BY DEF TypeOK
<1>3. /\ load_hits' \in Nat /\ load_misses' \in Nat /\ store_hits' \in Nat /\ store_misses' \in Nat
      /\ load_hits' + load_misses' + store_hits' + store_misses' = Len(trace')
  BY <1>1, <1>2
<1>4. write_allocate' \in BOOLEAN /\ write_through' \in BOOLEAN /\ lru' \in BOOLEAN
  BY DEF Line, modes, TypeOK
<1> QED BY <1>1, <1>3, <1>4 DEF TypeOK

\* A line of the trace keeps the invariant.
LEMMA LineKeeps ==
  ASSUME CacheIInv, NEW op \in {"l", "s"}, NEW a \in Addresses, Line(op, a)
  PROVE  CacheIInv'
<1> DEFINE x == get_index(a)
           t == get_tag(a)
<1>1. x \in SetIndex /\ t \in Tags
  BY AddressFacts
<1>2. /\ Len(trace) < MaxOps /\ Len(trace') = Len(trace) + 1
      /\ write_through' = write_through /\ TypeOK
  BY DEF Line, modes, CacheIInv, CacheInv, TypeOK
<1>3. \/ LoadHit(x, t) \/ LoadMiss(x, t)
      \/ StoreHit(x, t) \/ StoreMissAllocate(x, t) \/ StoreMissAround(x, t)
  BY DEF Line
<1> HIDE DEF x, t
<1> DEFINE Kept == /\ sets' \in [SetIndex -> [Slots -> Block]]
                   /\ stale' \subseteq SetIndex \X Tags
                   /\ OneEach' /\ StaleIsDirty' /\ Stamped' /\ memory_access' \in Nat
           Counted == TypeOK'
<1>4. CASE LoadHit(x, t)
  <2>1. PICK s \in HitSlots(x, t) : sets' = Touch(x, s)
    BY <1>4 DEF LoadHit
  <2>2. stale' = stale /\ memory_access' = memory_access /\ memory_access \in Nat
    BY <1>2, <1>4 DEF LoadHit, TypeOK
  <2>3. Kept
    BY <1>1, <1>2, <2>1, <2>2, HitKeeps
  <2>4. load_hits' = load_hits + 1 /\ UNCHANGED <<load_misses, store_hits, store_misses>>
    BY <1>4 DEF LoadHit
  <2>5. TypeOK'
    BY <1>2, <2>3, <2>4, LineCounts
  <2> QED BY <2>3, <2>5 DEF CacheIInv, CacheInv
<1>5. CASE LoadMiss(x, t)
  <2>1. Kept
    BY <1>1, <1>2, <1>5, FillKeeps DEF LoadMiss
  <2>2. load_misses' = load_misses + 1 /\ UNCHANGED <<load_hits, store_hits, store_misses>>
    BY <1>5 DEF LoadMiss
  <2>3. TypeOK'
    BY <1>2, <2>1, <2>2, LineCounts
  <2> QED BY <2>1, <2>3 DEF CacheIInv, CacheInv
<1>6. CASE StoreHit(x, t)
  <2>1. PICK s \in HitSlots(x, t) : sets' = [Touch(x, s) EXCEPT ![x][s].dirty = TRUE]
    BY <1>6 DEF StoreHit
  <2>2. /\ stale' = IF write_through THEN stale ELSE stale \cup {<<x, t>>}
        /\ memory_access' \in Nat
    BY <1>2, <1>6 DEF StoreHit, TypeOK
  <2>3. Kept
    BY <1>1, <1>2, <2>1, <2>2, HitKeeps
  <2>4. store_hits' = store_hits + 1 /\ UNCHANGED <<load_hits, load_misses, store_misses>>
    BY <1>6 DEF StoreHit
  <2>5. TypeOK'
    BY <1>2, <2>3, <2>4, LineCounts
  <2> QED BY <2>3, <2>5 DEF CacheIInv, CacheInv
<1>7. CASE StoreMissAllocate(x, t)
  <2> DEFINE dirty == Free(x) # {} \/ ~write_through
             more == IF write_through THEN 1 ELSE 0
  <2>1. HitSlots(x, t) = {} /\ Fill(x, t, dirty, more)
    BY <1>7 DEF StoreMissAllocate
  <2>2. dirty \in BOOLEAN /\ more \in Nat
    OBVIOUS
  <2> HIDE DEF dirty, more
  <2>3. Kept
    BY <1>1, <1>2, <2>1, <2>2, FillKeeps
  <2>4. store_misses' = store_misses + 1 /\ UNCHANGED <<load_hits, load_misses, store_hits>>
    BY <1>7 DEF StoreMissAllocate
  <2>5. TypeOK'
    BY <1>2, <2>3, <2>4, LineCounts
  <2> QED BY <2>3, <2>5 DEF CacheIInv, CacheInv
<1>8. CASE StoreMissAround(x, t)
  <2>1. /\ sets' = sets /\ stale' = stale /\ memory_access' \in Nat
        /\ store_misses' = store_misses + 1
        /\ UNCHANGED <<load_hits, load_misses, store_hits>>
    BY <1>2, <1>8 DEF StoreMissAround, TypeOK
  <2>2. sets' \in [SetIndex -> [Slots -> Block]] /\ stale' \subseteq SetIndex \X Tags
    BY <1>2, <2>1 DEF TypeOK
  <2>3. TypeOK'
    BY <1>2, <2>1, <2>2, LineCounts
  <2>4. OneEach' /\ StaleIsDirty'
    BY <1>2, <2>1 DEF CacheIInv, CacheInv, OneEach, StaleIsDirty
  <2>5. Stamped'
    <3>1. Len(trace) \in Nat
      BY <1>2 DEF TypeOK
    <3> QED BY <1>2, <2>1, <3>1 DEF CacheIInv, Stamped
  <2> QED BY <2>3, <2>4, <2>5 DEF CacheIInv, CacheInv
<1> QED BY <1>3, <1>4, <1>5, <1>6, <1>7, <1>8

\* It is kept when nothing changes.
LEMMA CacheStutter == CacheIInv /\ UNCHANGED vars => CacheIInv'
BY DEF CacheIInv, CacheInv, vars, modes, counters, TypeOK, OneEach, StaleIsDirty, Stamped

\* Whatever the sizes, modes and trace: a block is in the cache once, its age is its own,
\* and a store that memory lacks is in a dirty block (csim.cpp:45-152).
THEOREM CacheInvariant == Spec => []CacheInv
<1>1. CacheIInv /\ [Next]_vars => CacheIInv'
  BY LineKeeps, CacheStutter DEF Next
<1>2. CacheIInv => CacheInv
  BY DEF CacheIInv
<1> QED BY <1>1, <1>2, InitCacheIInv, PTL DEF Spec

-----------------------------------------------------------------------------
(***************************************************************************)
(* Stack distance: time stamps are the last lines that named the blocks.   *)
(***************************************************************************)
\* What a line names after the next one is read.
NextBlockAt(k) == BlockOf(trace'[k][2])

\* The blocks that lines named stay what they are when one more is read.
LEMMA BlocksStay ==
  ASSUME TypeOK, NEW op \in {"l", "s"}, NEW a \in Addresses, trace' = Append(trace, <<op, a>>),
         NEW n, n = Len(trace) + 1
  PROVE  /\ Len(trace) \in Nat /\ Len(trace') = n
         /\ \A k \in 1..Len(trace) : trace'[k] = trace[k] /\ NextBlockAt(k) = BlockAt(k)
         /\ trace'[n] = <<op, a>>
         /\ NextBlockAt(n) = <<get_index(a), get_tag(a)>>
<1>1. trace \in Seq({"l", "s"} \X Addresses) /\ <<op, a>> \in {"l", "s"} \X Addresses
  BY DEF TypeOK
<1>2. /\ Len(trace) \in Nat /\ Len(trace') = n
      /\ \A k \in 1..Len(trace) : trace'[k] = trace[k]
      /\ trace'[n] = <<op, a>>
  BY <1>1
<1>3. ASSUME NEW k \in 1..Len(trace) PROVE NextBlockAt(k) = BlockAt(k)
  BY <1>2, <1>3 DEF BlockAt, NextBlockAt
<1>4. NextBlockAt(n) = <<get_index(a), get_tag(a)>>
  <2>1. trace'[n][2] = a
    BY <1>2
  <2> QED BY <2>1 DEF NextBlockAt, BlockOf
<1> QED BY <1>2, <1>3, <1>4

\* What a line names is a block of the cache's.
LEMMA BlockAtIn ==
  ASSUME TypeOK, NEW k \in 1..Len(trace)
  PROVE  BlockAt(k) \in SetIndex \X Tags
<1>1. trace[k][2] \in Addresses
  BY DEF TypeOK
<1> QED BY <1>1, AddressFacts DEF BlockAt, BlockOf

\* A line that touches or fills a slot keeps the time stamps honest.
LEMMA RecencyKept ==
  ASSUME CacheIInv, LastTouch, GoneForNewer,
         NEW op \in {"l", "s"}, NEW a \in Addresses, trace' = Append(trace, <<op, a>>),
         NEW x, x = get_index(a), NEW t, t = get_tag(a), NEW s \in Slots, NEW B \in Block,
         Replaced(x, s, B), B.valid, B.tag = t, B.time_stamp = Now,
         \/ s \in HitSlots(x, t)
         \/ /\ HitSlots(x, t) = {}
            /\ \/ s \in Free(x)
               \/ /\ Free(x) = {}
                  /\ \A u \in Slots : sets[x][s].time_stamp <= sets[x][u].time_stamp
  PROVE  LastTouch' /\ GoneForNewer'
<1> DEFINE n == Len(trace) + 1
<1>1. TypeOK /\ OneEach /\ Stamped
  BY DEF CacheIInv, CacheInv
<1>2. n \in Nat /\ n = Now /\ Len(trace) \in Nat
  BY <1>1 DEF TypeOK, Now
<1>3. /\ Len(trace') = n
      /\ \A k \in 1..Len(trace) : NextBlockAt(k) = BlockAt(k)
      /\ NextBlockAt(n) = <<x, t>>
  BY <1>1, BlocksStay
<1> HIDE DEF n
<1>4. x \in SetIndex /\ t \in Tags
  BY AddressFacts
<1>5. /\ sets'[x][s] = B
      /\ \A y \in SetIndex : \A u \in Slots : y # x \/ u # s => sets'[y][u] = sets[y][u]
  BY <1>1, <1>4 DEF TypeOK, Replaced
<1>6. \A u \in Slots : u # s /\ sets[x][u].valid => sets[x][u].tag # t
  BY <1>1, <1>4 DEF HitSlots, OneEach
<1>7. \A y \in SetIndex : \A u \in Slots :
        sets[y][u].valid => sets[y][u].time_stamp \in 1..Len(trace)
  BY <1>1 DEF Stamped
<1>8. ASSUME NEW y \in SetIndex, NEW u \in Slots, sets'[y][u].valid
      PROVE  /\ \A k : k = sets'[y][u].time_stamp => NextBlockAt(k) = <<y, sets'[y][u].tag>>
             /\ \A k \in (sets'[y][u].time_stamp + 1)..Len(trace') :
                  NextBlockAt(k) # <<y, sets'[y][u].tag>>
  <2>1. CASE y = x /\ u = s
    BY <1>2, <1>3, <1>5, <2>1
  <2>2. CASE y # x \/ u # s
    <3>1. sets'[y][u] = sets[y][u] /\ sets[y][u].time_stamp \in 1..Len(trace)
      BY <1>5, <1>7, <1>8, <2>2
    <3>2. /\ BlockAt(sets[y][u].time_stamp) = <<y, sets[y][u].tag>>
          /\ \A k \in (sets[y][u].time_stamp + 1)..Len(trace) :
               BlockAt(k) # <<y, sets[y][u].tag>>
      BY <1>8, <3>1 DEF LastTouch
    <3>3. \A k : k = sets'[y][u].time_stamp => NextBlockAt(k) = BlockAt(k)
      BY <1>3, <3>1
    <3>4. ASSUME NEW k \in (sets'[y][u].time_stamp + 1)..Len(trace')
          PROVE  NextBlockAt(k) # <<y, sets'[y][u].tag>>
      <4>1. CASE k = n
        BY <1>3, <1>6, <1>8, <2>2, <3>1, <4>1
      <4>2. CASE k # n
        <5>1. k \in (sets[y][u].time_stamp + 1)..Len(trace) /\ k \in 1..Len(trace)
          BY <1>2, <1>3, <3>1, <3>4, <4>2 DEF n
        <5> QED BY <1>3, <3>1, <3>2, <5>1
      <4> QED BY <4>1, <4>2
    <3> QED BY <3>1, <3>2, <3>3, <3>4
  <2> QED BY <2>1, <2>2
<1>9. LastTouch'
  BY <1>8 DEF LastTouch, BlockAt, NextBlockAt
<1>10. ASSUME NEW k \in 1..Len(trace')
       PROVE  \/ \E u \in Slots : /\ sets'[NextBlockAt(k)[1]][u].valid
                                 /\ sets'[NextBlockAt(k)[1]][u].tag = NextBlockAt(k)[2]
              \/ \A u \in Slots : /\ sets'[NextBlockAt(k)[1]][u].valid
                                  /\ sets'[NextBlockAt(k)[1]][u].time_stamp > k
  <2>1. CASE k = n
    BY <1>3, <1>5, <2>1 DEF Resident
  <2>2. CASE k # n
    <3>1. k \in 1..Len(trace) /\ NextBlockAt(k) = BlockAt(k) /\ k < n
      BY <1>2, <1>3, <1>10, <2>2 DEF n
    <3>2. PICK y \in SetIndex, v \in Tags : BlockAt(k) = <<y, v>>
      BY <1>1, <3>1, BlockAtIn
    <3>3. CASE Resident(BlockAt(k))
      <4>1. PICK r \in Slots : sets[y][r].valid /\ sets[y][r].tag = v
        BY <3>2, <3>3 DEF Resident
      <4>2. CASE y # x \/ r # s
        BY <1>5, <3>1, <3>2, <4>1, <4>2 DEF Resident
      <4>3. CASE y = x /\ r = s /\ s \in HitSlots(x, t)
        <5>1. v = t
          BY <4>1, <4>3 DEF HitSlots
        <5> QED BY <1>5, <3>1, <3>2, <4>3, <5>1 DEF Resident
      <4>4. CASE y = x /\ r = s /\ s \notin HitSlots(x, t)
        <5>1. Free(x) = {} /\ \A u \in Slots : sets[x][s].time_stamp <= sets[x][u].time_stamp
          BY <4>1, <4>4 DEF Free
        <5>2. \A u \in Slots : sets[x][u].valid
          BY <5>1 DEF Free
        <5>3. k <= sets[x][s].time_stamp
          <6>1. k \notin (sets[x][s].time_stamp + 1)..Len(trace)
            BY <1>4, <3>2, <4>1, <4>4 DEF LastTouch
          <6> QED BY <1>2, <1>4, <1>7, <3>1, <5>2, <6>1
        <5>4. ASSUME NEW u \in Slots PROVE sets'[x][u].valid /\ sets'[x][u].time_stamp > k
          <6>1. CASE u = s
            BY <1>2, <1>5, <3>1, <6>1
          <6>2. CASE u # s
            <7>1. sets[x][u].time_stamp # sets[x][s].time_stamp
              BY <1>1, <1>4, <5>2, <6>2 DEF OneEach
            <7>2. sets[x][u].time_stamp \in Nat /\ sets[x][s].time_stamp \in Nat /\ k \in Nat
              BY <1>4, <1>7, <3>1, <5>2
            <7>3. sets[x][u].time_stamp > k
              BY <5>1, <5>3, <7>1, <7>2
            <7> QED BY <1>4, <1>5, <5>2, <6>2, <7>3
          <6> QED BY <6>1, <6>2
        <5> QED BY <3>1, <3>2, <4>4, <5>4
      <4> QED BY <4>2, <4>3, <4>4
    <3>4. CASE ~Resident(BlockAt(k))
      <4>1. \A u \in Slots : sets[y][u].valid /\ sets[y][u].time_stamp > k
        BY <3>1, <3>2, <3>4 DEF GoneForNewer
      <4>2. ASSUME NEW u \in Slots PROVE sets'[y][u].valid /\ sets'[y][u].time_stamp > k
        <5>1. CASE y = x /\ u = s
          BY <1>2, <1>5, <3>1, <5>1
        <5>2. CASE y # x \/ u # s
          BY <1>5, <3>2, <4>1, <5>2
        <5> QED BY <5>1, <5>2
      <4> QED BY <3>1, <3>2, <4>2
    <3> QED BY <3>3, <3>4
  <2> QED BY <2>1, <2>2
<1>11. GoneForNewer'
  BY <1>10 DEF GoneForNewer, Resident, BlockAt, NextBlockAt
<1> QED BY <1>9, <1>11

\* The blocks of the set of b that lines after line j named, but b.
Newer(j, b) == {BlockAt(k) : k \in {k \in (j + 1)..Len(trace) :
                                     BlockAt(k)[1] = b[1] /\ BlockAt(k) # b}}

\* The blocks named since a line are finitely many.
LEMMA NewerFinite ==
  ASSUME TypeOK, NEW j \in 1..Len(trace), NEW b
  PROVE  IsFiniteSet(Newer(j, b)) /\ Cardinality(Newer(j, b)) \in Nat
<1> DEFINE K == {k \in (j + 1)..Len(trace) : BlockAt(k)[1] = b[1] /\ BlockAt(k) # b}
           f == [k \in K |-> BlockAt(k)]
<1>1. IsFiniteSet((j + 1)..Len(trace)) /\ K \in SUBSET ((j + 1)..Len(trace))
  BY FS_Interval DEF TypeOK
<1>2. IsFiniteSet(K)
  BY <1>1, FS_Subset
<1>3. f \in Surjection(K, Newer(j, b))
  BY DEF Newer, Surjection
<1>4. IsFiniteSet(Newer(j, b))
  BY <1>2, <1>3, FS_Surjection
<1> QED BY <1>4, FS_CardinalityType

\* A set has num_blocks slots.
LEMMA SlotsFinite == IsFiniteSet(Slots) /\ Cardinality(Slots) = num_blocks
BY Sizes, FS_Interval DEF Slots

\* A block that is in the cache was named less than num_blocks others ago.
LEMMA FewNewer ==
  ASSUME CacheIInv, LastTouch, GoneForNewer, NEW x \in SetIndex, NEW t, NEW s \in HitSlots(x, t)
  PROVE  /\ sets[x][s].time_stamp \in 1..Len(trace)
         /\ BlockAt(sets[x][s].time_stamp) = <<x, t>>
         /\ Cardinality(Newer(sets[x][s].time_stamp, <<x, t>>)) < num_blocks
<1> DEFINE j == sets[x][s].time_stamp
           N == Newer(j, <<x, t>>)
           Others == Slots \ {s}
           f == [u \in Others |-> <<x, sets[x][u].tag>>]
           image == {<<x, sets[x][u].tag>> : u \in Others}
<1>1. TypeOK /\ Stamped
  BY DEF CacheIInv, CacheInv
<1>2. s \in Slots /\ sets[x][s].valid /\ sets[x][s].tag = t
  BY DEF HitSlots
<1>3. j \in 1..Len(trace) /\ BlockAt(j) = <<x, t>>
  BY <1>1, <1>2 DEF Stamped, LastTouch
<1>4. IsFiniteSet(Others) /\ Cardinality(Others) = num_blocks - 1
  BY <1>2, SlotsFinite, FS_RemoveElement
<1>5. f \in Surjection(Others, image)
  BY DEF Surjection
<1>6. IsFiniteSet(image) /\ Cardinality(image) <= num_blocks - 1
  BY <1>4, <1>5, FS_Surjection
<1>7. ASSUME NEW b \in N PROVE b \in image
  <2>1. PICK k \in (j + 1)..Len(trace) :
          b = BlockAt(k) /\ BlockAt(k)[1] = x /\ BlockAt(k) # <<x, t>>
    BY <1>7 DEF Newer
  <2>2. k \in 1..Len(trace) /\ k > j /\ Len(trace) \in Nat
    BY <1>1, <1>3, <2>1 DEF TypeOK
  <2>3. PICK v \in Tags : BlockAt(k) = <<x, v>>
    BY <1>1, <2>1, <2>2, BlockAtIn
  <2>4. ~(sets[x][s].time_stamp > k)
    BY <1>3, <2>2
  <2>5. Resident(<<x, v>>)
    BY <1>2, <2>2, <2>3, <2>4 DEF GoneForNewer
  <2>6. PICK u \in Slots : sets[x][u].valid /\ sets[x][u].tag = v
    BY <2>5 DEF Resident
  <2>7. u # s
    BY <1>2, <2>1, <2>3, <2>6
  <2> QED BY <2>1, <2>3, <2>6, <2>7
<1>8. Cardinality(N) <= Cardinality(image)
  BY <1>6, <1>7, FS_Subset
<1>9. Cardinality(N) \in Nat /\ Cardinality(image) \in Nat
  BY <1>1, <1>3, <1>6, NewerFinite, FS_CardinalityType
<1> HIDE DEF N, image
<1>10. Cardinality(N) < num_blocks
  BY <1>6, <1>8, <1>9, Sizes
<1> QED BY <1>3, <1>10 DEF N

\* And one that is gone at least as many, counted from any line that named it.
LEMMA ManyNewer ==
  ASSUME CacheIInv, LastTouch, GoneForNewer, NEW x \in SetIndex, NEW t, HitSlots(x, t) = {},
         NEW j \in 1..Len(trace), BlockAt(j) = <<x, t>>
  PROVE  Cardinality(Newer(j, <<x, t>>)) >= num_blocks
<1> DEFINE N == Newer(j, <<x, t>>)
           f == [u \in Slots |-> <<x, sets[x][u].tag>>]
<1>1. TypeOK /\ Stamped /\ OneEach
  BY DEF CacheIInv, CacheInv
<1>2. ~Resident(<<x, t>>)
  BY DEF HitSlots, Resident
<1>3. \A u \in Slots : sets[x][u].valid /\ sets[x][u].time_stamp > j
  BY <1>2 DEF GoneForNewer
<1>4. ASSUME NEW u \in Slots PROVE f[u] \in N
  <2> DEFINE k == sets[x][u].time_stamp
  <2>1. k \in 1..Len(trace) /\ BlockAt(k) = <<x, sets[x][u].tag>>
    BY <1>1, <1>3 DEF Stamped, LastTouch
  <2>2. sets[x][u].tag # t
    BY <1>3 DEF HitSlots
  <2>3. k \in (j + 1)..Len(trace)
    BY <1>1, <1>3, <2>1 DEF TypeOK
  <2> QED BY <2>1, <2>2, <2>3 DEF Newer
<1>5. \A u, v \in Slots : f[u] = f[v] => u = v
  BY <1>1, <1>3 DEF OneEach
<1>6. f \in Injection(Slots, N)
  BY <1>4, <1>5 DEF Injection, IsInjective
<1>7. IsFiniteSet(N)
  BY <1>1, NewerFinite
<1> HIDE DEF N, f
<1>8. Cardinality(Slots) <= Cardinality(N)
  BY <1>6, <1>7, FS_Injection
<1> QED BY <1>1, <1>8, SlotsFinite, NewerFinite, Sizes DEF N

\* Line n, by the book, of a trace that is read up to it.
BookAt(n) == \E j \in 1..(n - 1) :
               /\ NextBlockAt(j) = NextBlockAt(n)
               /\ Cardinality({NextBlockAt(k) : k \in {k \in (j + 1)..(n - 1) :
                                 NextBlockAt(k)[1] = NextBlockAt(n)[1]
                                 /\ NextBlockAt(k) # NextBlockAt(n)}}) < num_blocks

\* What the book says of the line in hand is what check_hit says.
LEMMA BookIsHit ==
  ASSUME CacheIInv, LastTouch, GoneForNewer,
         NEW op \in {"l", "s"}, NEW a \in Addresses, trace' = Append(trace, <<op, a>>),
         NEW n, n = Len(trace) + 1
  PROVE  BookAt(n) <=> HitSlots(get_index(a), get_tag(a)) # {}
<1> DEFINE x == get_index(a)
           t == get_tag(a)
<1>1. x \in SetIndex /\ t \in Tags
  BY AddressFacts
<1>2. TypeOK
  BY DEF CacheIInv, CacheInv
<1>3. /\ Len(trace) \in Nat /\ n - 1 = Len(trace)
      /\ \A k \in 1..Len(trace) : NextBlockAt(k) = BlockAt(k)
      /\ NextBlockAt(n) = <<x, t>>
  BY <1>2, BlocksStay
<1> HIDE DEF x, t
<1>4. ASSUME NEW j \in 1..Len(trace)
      PROVE  {NextBlockAt(k) : k \in {k \in (j + 1)..(n - 1) :
                NextBlockAt(k)[1] = NextBlockAt(n)[1] /\ NextBlockAt(k) # NextBlockAt(n)}}
             = Newer(j, <<x, t>>)
  <2> DEFINE K == {k \in (j + 1)..(n - 1) :
                     NextBlockAt(k)[1] = NextBlockAt(n)[1] /\ NextBlockAt(k) # NextBlockAt(n)}
             M == {k \in (j + 1)..Len(trace) : BlockAt(k)[1] = x /\ BlockAt(k) # <<x, t>>}
  <2>1. \A k \in (j + 1)..Len(trace) : k \in 1..Len(trace)
    BY <1>3
  <2>2. K = M /\ \A k \in M : NextBlockAt(k) = BlockAt(k)
    BY <1>3, <2>1
  <2> HIDE DEF K
  <2>3. {NextBlockAt(k) : k \in K} = {BlockAt(k) : k \in M}
    BY <2>2
  <2> QED BY <2>3 DEF Newer, K
<1>5. BookAt(n) <=> \E j \in 1..Len(trace) :
                      BlockAt(j) = <<x, t>> /\ Cardinality(Newer(j, <<x, t>>)) < num_blocks
  BY <1>3, <1>4 DEF BookAt
<1>6. CASE HitSlots(x, t) # {}
  BY <1>1, <1>5, <1>6, FewNewer DEF x, t
<1>7. CASE HitSlots(x, t) = {}
  <2>1. \A j \in 1..Len(trace) :
          BlockAt(j) = <<x, t>> => ~(Cardinality(Newer(j, <<x, t>>)) < num_blocks)
    BY <1>1, <1>2, <1>7, ManyNewer, NewerFinite, Sizes
  <2> QED BY <1>5, <1>7, <2>1 DEF x, t
<1> QED BY <1>6, <1>7

\* Of the lines before, and of line n in the state after it, the book is BookAt.
LEMMA BookStays ==
  ASSUME TypeOK, NEW op \in {"l", "s"}, NEW a \in Addresses, trace' = Append(trace, <<op, a>>)
  PROVE  /\ \A m \in 1..Len(trace) : HitsByTheBook(m)' <=> HitsByTheBook(m)
         /\ \A m : HitsByTheBook(m)' <=> BookAt(m)
<1>1. /\ Len(trace) \in Nat
      /\ \A k \in 1..Len(trace) : NextBlockAt(k) = BlockAt(k)
  BY BlocksStay
<1>2. ASSUME NEW m PROVE HitsByTheBook(m)' <=> BookAt(m)
  BY DEF HitsByTheBook, BookAt, NextBlockAt
<1>3. ASSUME NEW m \in 1..Len(trace) PROVE BookAt(m) <=> HitsByTheBook(m)
  <2>1. \A k \in 1..m : NextBlockAt(k) = BlockAt(k)
    BY <1>1
  <2>2. ASSUME NEW j \in 1..(m - 1)
        PROVE  {NextBlockAt(k) : k \in {k \in (j + 1)..(m - 1) :
                  NextBlockAt(k)[1] = NextBlockAt(m)[1] /\ NextBlockAt(k) # NextBlockAt(m)}}
             = {BlockAt(k) : k \in {k \in (j + 1)..(m - 1) :
                  BlockAt(k)[1] = BlockAt(m)[1] /\ BlockAt(k) # BlockAt(m)}}
    <3> DEFINE K == {k \in (j + 1)..(m - 1) :
                       NextBlockAt(k)[1] = NextBlockAt(m)[1] /\ NextBlockAt(k) # NextBlockAt(m)}
               M == {k \in (j + 1)..(m - 1) :
                       BlockAt(k)[1] = BlockAt(m)[1] /\ BlockAt(k) # BlockAt(m)}
    <3>1. \A k \in (j + 1)..(m - 1) : k \in 1..m
      BY <1>1
    <3>2. K = M /\ \A k \in M : NextBlockAt(k) = BlockAt(k)
      BY <1>1, <2>1, <3>1
    <3> HIDE DEF K, M
    <3>3. {NextBlockAt(k) : k \in K} = {BlockAt(k) : k \in M}
      BY <3>2
    <3> QED BY <3>3 DEF K, M
  <2>3. HitsByTheBook(m) <=> \E j \in 1..(m - 1) :
          /\ BlockAt(j) = BlockAt(m)
          /\ Cardinality({BlockAt(k) : k \in {k \in (j + 1)..(m - 1) :
                  BlockAt(k)[1] = BlockAt(m)[1] /\ BlockAt(k) # BlockAt(m)}}) < num_blocks
    BY DEF HitsByTheBook, BlockAt
  <2>4. \A j \in 1..(m - 1) : (NextBlockAt(j) = NextBlockAt(m) <=> BlockAt(j) = BlockAt(m))
    BY <1>1, <2>1
  <2> QED BY <2>2, <2>3, <2>4 DEF BookAt
<1> QED BY <1>2, <1>3

\* The lines that hit by the book.
BookHits(op) == {n \in 1..Len(trace) : trace[n][1] = op /\ HitsByTheBook(n)}

\* Stack distance, in terms of the lines that hit by the book.
LEMMA StackDistanceIsBookHits ==
  StackDistance <=> (lru /\ write_allocate =>
                       /\ load_hits = Cardinality(BookHits("l"))
                       /\ store_hits = Cardinality(BookHits("s")))
BY DEF StackDistance, BookHits

\* One more line, one more hit or none.
LEMMA HitsCounted ==
  ASSUME CacheIInv, LastTouch, GoneForNewer, NEW op \in {"l", "s"}, NEW a \in Addresses,
         trace' = Append(trace, <<op, a>>), NEW q \in {"l", "s"}, NEW n, n = Len(trace) + 1
  PROVE  Cardinality(BookHits(q)') =
           Cardinality(BookHits(q)) +
             (IF op = q /\ HitSlots(get_index(a), get_tag(a)) # {} THEN 1 ELSE 0)
<1> DEFINE new == IF op = q /\ HitSlots(get_index(a), get_tag(a)) # {} THEN {n} ELSE {}
<1>1. TypeOK
  BY DEF CacheIInv, CacheInv
<1>2. /\ Len(trace) \in Nat /\ Len(trace') = n /\ trace'[n] = <<op, a>>
      /\ \A k \in 1..Len(trace) : trace'[k] = trace[k]
  BY <1>1, BlocksStay
<1>3. /\ \A m \in 1..Len(trace) : HitsByTheBook(m)' <=> HitsByTheBook(m)
      /\ HitsByTheBook(n)' <=> (HitSlots(get_index(a), get_tag(a)) # {})
  BY <1>1, BookStays, BookIsHit
<1>4. BookHits(q)' = {m \in 1..Len(trace') : trace'[m][1] = q /\ HitsByTheBook(m)'}
  BY DEF BookHits
<1>5. BookHits(q) \subseteq 1..Len(trace) /\ n \notin BookHits(q)
  BY <1>2 DEF BookHits
<1>6. BookHits(q)' = BookHits(q) \cup new
  BY <1>2, <1>3, <1>4 DEF BookHits
<1>7. IsFiniteSet(BookHits(q))
  <2>1. IsFiniteSet(1..Len(trace))
    BY <1>2, FS_Interval
  <2> QED BY <1>5, <2>1, FS_Subset
<1>8. Cardinality(BookHits(q) \cup {n}) = Cardinality(BookHits(q)) + 1
  BY <1>5, <1>7, FS_AddElement
<1>9. Cardinality(BookHits(q)) \in Nat
  BY <1>7, FS_CardinalityType
<1>10. CASE op = q /\ HitSlots(get_index(a), get_tag(a)) # {}
  <2>1. BookHits(q)' = BookHits(q) \cup {n}
    BY <1>6, <1>10
  <2> QED BY <1>8, <1>10, <2>1
<1>11. CASE ~(op = q /\ HitSlots(get_index(a), get_tag(a)) # {})
  <2>1. BookHits(q)' = BookHits(q)
    BY <1>6, <1>11
  <2> QED BY <1>9, <1>11, <2>1
<1> QED BY <1>10, <1>11

\* Every line keeps the time stamps honest and the hits those of the book.
LEMMA LineRecency ==
  ASSUME CacheIInv, StackIInv, NEW op \in {"l", "s"}, NEW a \in Addresses, Line(op, a)
  PROVE  StackIInv'
<1> DEFINE x == get_index(a)
           t == get_tag(a)
<1>1. TypeOK /\ Stamped /\ x \in SetIndex /\ t \in Tags
  BY AddressFacts DEF CacheIInv, CacheInv
<1>2. /\ Len(trace) < MaxOps /\ trace' = Append(trace, <<op, a>>)
      /\ lru' = lru /\ write_allocate' = write_allocate
  BY DEF Line, modes
<1>3. \/ op = "l" /\ (LoadHit(x, t) \/ LoadMiss(x, t))
      \/ op = "s" /\ (StoreHit(x, t) \/ StoreMissAllocate(x, t) \/ StoreMissAround(x, t))
  BY DEF Line
<1> SUFFICES ASSUME lru, write_allocate
             PROVE  /\ LastTouch' /\ GoneForNewer'
                    /\ load_hits' = Cardinality(BookHits("l")')
                    /\ store_hits' = Cardinality(BookHits("s")')
  <2>1. (StackDistance <=> (lru /\ write_allocate =>
                              /\ load_hits = Cardinality(BookHits("l"))
                              /\ store_hits = Cardinality(BookHits("s"))))'
    BY StackDistanceIsBookHits, PTL
  <2> QED BY <1>2, <2>1 DEF StackIInv, RecencyInv
<1>4. LastTouch /\ GoneForNewer
  BY DEF StackIInv, RecencyInv
<1>5. load_hits = Cardinality(BookHits("l")) /\ store_hits = Cardinality(BookHits("s"))
  BY StackDistanceIsBookHits DEF StackIInv
<1>6. /\ Cardinality(BookHits("l")') = Cardinality(BookHits("l")) +
                                         (IF op = "l" /\ HitSlots(x, t) # {} THEN 1 ELSE 0)
      /\ Cardinality(BookHits("s")') = Cardinality(BookHits("s")) +
                                         (IF op = "s" /\ HitSlots(x, t) # {} THEN 1 ELSE 0)
  <2> DEFINE n == Len(trace) + 1
  <2>1. n = Len(trace) + 1
    OBVIOUS
  <2> HIDE DEF n
  <2> QED BY <1>2, <1>4, <2>1, HitsCounted
<1>7. load_hits \in Nat /\ store_hits \in Nat
  BY <1>1 DEF TypeOK
<1> HIDE DEF x, t
<1>8. CASE HitSlots(x, t) # {}
  <2>1. (LoadHit(x, t) /\ op = "l") \/ (StoreHit(x, t) /\ op = "s")
    BY <1>3, <1>8 DEF LoadMiss, StoreMissAllocate, StoreMissAround
  <2>2. PICK s \in HitSlots(x, t) :
          sets' = Touch(x, s) \/ sets' = [Touch(x, s) EXCEPT ![x][s].dirty = TRUE]
    BY <2>1 DEF LoadHit, StoreHit
  <2>3. PICK B \in Block : Replaced(x, s, B) /\ B.valid /\ B.tag = t /\ B.time_stamp = Now
    BY <1>1, <1>2, <2>2, HitReplaces
  <2>4. s \in Slots
    BY DEF HitSlots
  <2>5. LastTouch' /\ GoneForNewer'
    BY <1>2, <1>4, <2>3, <2>4, RecencyKept DEF x, t
  <2>6. /\ load_hits' = load_hits + (IF op = "l" THEN 1 ELSE 0)
        /\ store_hits' = store_hits + (IF op = "s" THEN 1 ELSE 0)
    BY <1>7, <2>1 DEF LoadHit, StoreHit
  <2> QED BY <1>5, <1>6, <1>8, <2>5, <2>6
<1>9. CASE HitSlots(x, t) = {}
  <2>1. LoadMiss(x, t) \/ StoreMissAllocate(x, t)
    BY <1>3, <1>9 DEF LoadHit, StoreHit, StoreMissAround
  <2>2. PICK dirty \in BOOLEAN, more \in Nat : Fill(x, t, dirty, more)
    BY <2>1 DEF LoadMiss, StoreMissAllocate
  <2> DEFINE s == SlotFor(x)
             B == NewBlock(t, dirty)
  <2>3. s \in Slots /\ Replaced(x, s, B)
    BY <1>1, <2>2, SlotForFacts DEF Fill, Replaced
  <2>4. B \in Block /\ B.valid /\ B.tag = t /\ B.time_stamp = Now
    BY <1>1, <1>2, Sizes DEF NewBlock, Block, Now, TypeOK
  <2>5. \/ s \in Free(x)
        \/ Free(x) = {} /\ \A u \in Slots : sets[x][s].time_stamp <= sets[x][u].time_stamp
    BY <1>1, SlotForFacts, OldestSlot
  <2> HIDE DEF s, B
  <2>6. LastTouch' /\ GoneForNewer'
    BY <1>2, <1>4, <1>9, <2>3, <2>4, <2>5, RecencyKept DEF x, t
  <2>7. load_hits' = load_hits /\ store_hits' = store_hits
    BY <2>1 DEF LoadMiss, StoreMissAllocate
  <2> QED BY <1>5, <1>6, <1>7, <1>9, <2>6, <2>7
<1> QED BY <1>8, <1>9

\* It holds before the first line.
LEMMA InitStackIInv == Init => StackIInv
<1> SUFFICES ASSUME Init PROVE StackIInv
  OBVIOUS
<1>1. trace = <<>> /\ \A x \in SetIndex : \A s \in Slots : ~sets[x][s].valid
  BY DEF Init, Empty
<1>2. LastTouch /\ GoneForNewer
  BY <1>1 DEF LastTouch, GoneForNewer
<1>3. BookHits("l") = {} /\ BookHits("s") = {}
  BY <1>1 DEF BookHits
<1>4. load_hits = 0 /\ store_hits = 0
  BY DEF Init
<1>5. StackDistance
  BY <1>3, <1>4, FS_EmptySet, StackDistanceIsBookHits
<1> QED BY <1>2, <1>5 DEF StackIInv, RecencyInv

\* It is kept when nothing changes.
LEMMA StackStutter == StackIInv /\ UNCHANGED vars => StackIInv'
BY DEF StackIInv, RecencyInv, LastTouch, GoneForNewer, Resident, BlockAt, StackDistance,
       HitsByTheBook, vars, modes, counters

\* Under LRU with write-allocate, for any sizes and trace: loads and stores hit exactly when
\* the block was named before and fewer than num_blocks others of its set since, although the
\* program keeps time stamps and slots (csim.cpp:67-141, helper_functions.cpp:101-143).
THEOREM CacheStackDistance == Spec => []StackDistance
<1>1. CacheIInv /\ StackIInv /\ [Next]_vars => (CacheIInv /\ StackIInv)'
  BY LineKeeps, CacheStutter, LineRecency, StackStutter DEF Next
<1>2. StackIInv => StackDistance
  BY DEF StackIInv
<1> QED BY <1>1, <1>2, InitCacheIInv, InitStackIInv, PTL DEF Spec

-----------------------------------------------------------------------------
(***************************************************************************)
(* The order of age: what the time stamps of a set stand for.              *)
(***************************************************************************)
\* Blocks whose ages differ.
AgesDiffer(b) == /\ b \in [Slots -> Block]
                 /\ \A s \in Held(b) : b[s].time_stamp \in Nat
                 /\ \A s, u \in Held(b) : s # u => b[s].time_stamp # b[u].time_stamp

\* Every block of a set has a rank of its own, and every rank its block.
LEMMA Ranks ==
  ASSUME NEW b, AgesDiffer(b)
  PROVE  /\ IsFiniteSet(Held(b)) /\ Cardinality(Held(b)) \in Nat
         /\ \A s \in Held(b) : Rank(b, s) \in 0 .. Cardinality(Held(b)) - 1
         /\ \A s, u \in Held(b) : Rank(b, s) = Rank(b, u) => s = u
         /\ \A i \in 0 .. Cardinality(Held(b)) - 1 : \E s \in Held(b) : Rank(b, s) = i
<1> DEFINE H == Held(b)
           n == Cardinality(H)
           f == [s \in H |-> Rank(b, s)]
<1>1. IsFiniteSet(H) /\ n \in Nat
  BY SlotsFinite, FS_Subset, FS_CardinalityType DEF Held
<1>2. ASSUME NEW s \in H
      PROVE  /\ IsFiniteSet(Older(b, s)) /\ Rank(b, s) \in 0 .. n - 1
  <2>1. Older(b, s) \in SUBSET (H \ {s})
    BY DEF Older, AgesDiffer
  <2>2. IsFiniteSet(H \ {s}) /\ Cardinality(H \ {s}) = n - 1
    BY <1>1, FS_RemoveElement
  <2>3. IsFiniteSet(Older(b, s)) /\ Cardinality(Older(b, s)) <= n - 1
    BY <2>1, <2>2, FS_Subset
  <2>4. Cardinality(Older(b, s)) \in Nat
    BY <2>3, FS_CardinalityType
  <2> QED BY <1>1, <2>3, <2>4 DEF Rank
<1>3. ASSUME NEW s \in H, NEW u \in H, b[s].time_stamp < b[u].time_stamp
      PROVE  Rank(b, s) < Rank(b, u)
  <2>1. Older(b, s) \in SUBSET (Older(b, u) \ {s})
    BY <1>3 DEF Older, AgesDiffer
  <2>2. s \in Older(b, u)
    BY <1>3 DEF Older
  <2>3. IsFiniteSet(Older(b, u) \ {s}) /\ Cardinality(Older(b, u) \ {s}) = Rank(b, u) - 1
    BY <1>2, <2>2, FS_RemoveElement DEF Rank
  <2>4. Rank(b, s) <= Rank(b, u) - 1
    BY <2>1, <2>3, FS_Subset DEF Rank
  <2>5. Rank(b, s) \in Nat /\ Rank(b, u) \in Nat
    BY <1>1, <1>2
  <2> QED BY <2>4, <2>5
<1>4. ASSUME NEW s \in H, NEW u \in H, Rank(b, s) = Rank(b, u) PROVE s = u
  <2>1. ~(b[s].time_stamp < b[u].time_stamp) /\ ~(b[u].time_stamp < b[s].time_stamp)
    BY <1>1, <1>2, <1>3, <1>4
  <2> QED BY <2>1 DEF AgesDiffer
<1>5. f \in Injection(H, 0 .. n - 1)
  BY <1>2, <1>4 DEF Injection, IsInjective
<1>6. IsFiniteSet(0 .. n - 1) /\ Cardinality(0 .. n - 1) = n
  BY <1>1, FS_Interval
<1>7. f \in Surjection(H, 0 .. n - 1)
  BY <1>5, <1>6, FS_Injection
<1>8. ASSUME NEW i \in 0 .. n - 1 PROVE \E s \in H : Rank(b, s) = i
  BY <1>7 DEF Surjection
<1> QED BY <1>1, <1>2, <1>4, <1>8

\* Where a block stands in the line.
LEMMA OrderedAt ==
  ASSUME NEW b, AgesDiffer(b)
  PROVE  /\ Ordered(b) \in Seq(Tags \cup {0})
         /\ Len(Ordered(b)) = Cardinality(Held(b))
         /\ \A s \in Held(b) : Ordered(b)[Rank(b, s) + 1] = b[s].tag
<1> DEFINE n == Cardinality(Held(b))
           at(i) == CHOOSE s \in Held(b) : Rank(b, s) = i - 1
<1>1. /\ n \in Nat
      /\ \A s \in Held(b) : Rank(b, s) \in 0 .. n - 1
      /\ \A s, u \in Held(b) : Rank(b, s) = Rank(b, u) => s = u
      /\ \A i \in 0 .. n - 1 : \E s \in Held(b) : Rank(b, s) = i
  BY Ranks
<1>2. ASSUME NEW i \in 1..n PROVE at(i) \in Held(b) /\ Rank(b, at(i)) = i - 1
  <2>1. i - 1 \in 0 .. n - 1
    BY <1>1
  <2> QED BY <1>1, <2>1
<1> HIDE DEF at
<1>3. Ordered(b) = [i \in 1..n |-> b[at(i)].tag]
  BY DEF Ordered, at
<1>4. \A s \in Held(b) : b[s].tag \in Tags \cup {0}
  BY DEF AgesDiffer, Held, Block
<1>5. Ordered(b) \in [1..n -> Tags \cup {0}]
  BY <1>2, <1>3, <1>4
<1>6. Ordered(b) \in Seq(Tags \cup {0}) /\ Len(Ordered(b)) = n
  BY <1>1, <1>5
<1>7. ASSUME NEW s \in Held(b) PROVE Ordered(b)[Rank(b, s) + 1] = b[s].tag
  <2>1. Rank(b, s) + 1 \in 1..n /\ (Rank(b, s) + 1) - 1 = Rank(b, s)
    BY <1>1
  <2>2. at(Rank(b, s) + 1) = s
    BY <1>1, <1>2, <2>1
  <2> QED BY <1>3, <2>1, <2>2
<1> QED BY <1>6, <1>7

\* Two lines are equal that have the same blocks at the same places.
LEMMA SameLine ==
  ASSUME NEW c, AgesDiffer(c), NEW q \in Seq(Tags \cup {0}), Len(q) = Cardinality(Held(c)),
         \A s \in Held(c) : q[Rank(c, s) + 1] = c[s].tag
  PROVE  Ordered(c) = q
<1> DEFINE n == Cardinality(Held(c))
<1>1. /\ Ordered(c) \in Seq(Tags \cup {0}) /\ Len(Ordered(c)) = n /\ n \in Nat
      /\ \A s \in Held(c) : Ordered(c)[Rank(c, s) + 1] = c[s].tag
      /\ \A i \in 0 .. n - 1 : \E s \in Held(c) : Rank(c, s) = i
  BY OrderedAt, Ranks
<1>2. ASSUME NEW i \in 1..n PROVE Ordered(c)[i] = q[i]
  <2>1. PICK s \in Held(c) : Rank(c, s) = i - 1
    BY <1>1
  <2>2. Rank(c, s) + 1 = i
    BY <1>1, <2>1
  <2> QED BY <1>1, <2>2
<1> QED BY <1>1, <1>2, SeqEqual

\* Nothing but flags changes.
LEMMA SameAges ==
  ASSUME NEW b, AgesDiffer(b), NEW c, AgesDiffer(c),
         \A s \in Slots : /\ c[s].valid <=> b[s].valid
                          /\ c[s].tag = b[s].tag /\ c[s].time_stamp = b[s].time_stamp
  PROVE  Ordered(c) = Ordered(b)
<1>1. Held(c) = Held(b)
  BY DEF Held
<1>2. ASSUME NEW s \in Held(b) PROVE Rank(c, s) = Rank(b, s)
  <2>1. Older(c, s) = Older(b, s)
    BY <1>1 DEF Older, Held
  <2> QED BY <2>1 DEF Rank
<1>3. \A s \in Held(b) : c[s].tag = b[s].tag
  BY DEF Held
<1> QED BY <1>1, <1>2, <1>3, OrderedAt, SameLine

\* A block comes into a free slot.
LEMMA JoinsBack ==
  ASSUME NEW b, AgesDiffer(b), NEW c, AgesDiffer(c), NEW s \in Slots, s \notin Held(b),
         c[s].valid, \A u \in Slots : u # s => c[u] = b[u],
         \A u \in Held(b) : b[u].time_stamp < c[s].time_stamp
  PROVE  Ordered(c) = Append(Ordered(b), c[s].tag)
<1> DEFINE n == Cardinality(Held(b))
           q == Append(Ordered(b), c[s].tag)
<1>1. Held(c) = Held(b) \cup {s} /\ s \in Held(c)
  BY DEF Held
<1>2. /\ IsFiniteSet(Held(b)) /\ n \in Nat
      /\ \A u \in Held(b) : Rank(b, u) \in 0 .. n - 1
  BY Ranks
<1>3. Cardinality(Held(c)) = n + 1
  BY <1>1, <1>2, FS_AddElement
<1>4. c[s].tag \in Tags \cup {0} /\ c[s].time_stamp \in Nat
  BY <1>1 DEF AgesDiffer, Block
<1>5. /\ Ordered(b) \in Seq(Tags \cup {0}) /\ Len(Ordered(b)) = n
      /\ \A u \in Held(b) : Ordered(b)[Rank(b, u) + 1] = b[u].tag
  BY OrderedAt
<1>6. /\ q \in Seq(Tags \cup {0}) /\ Len(q) = n + 1 /\ q[n + 1] = c[s].tag
      /\ \A i \in 1..n : q[i] = Ordered(b)[i]
  BY <1>2, <1>4, <1>5
<1>7. \A u \in Held(b) : u # s /\ c[u] = b[u] /\ b[u].time_stamp \in Nat
  BY DEF Held, AgesDiffer
<1>8. Rank(c, s) = n
  <2>1. Older(c, s) = Held(b)
    BY <1>1, <1>4, <1>7 DEF Older
  <2> QED BY <2>1 DEF Rank
<1>9. ASSUME NEW u \in Held(b) PROVE Rank(c, u) = Rank(b, u)
  <2>1. ~(c[s].time_stamp < c[u].time_stamp)
    BY <1>4, <1>7
  <2>2. Older(c, u) = Older(b, u)
    BY <1>1, <1>7, <2>1 DEF Older
  <2> QED BY <2>2 DEF Rank
<1> HIDE DEF q, n
<1>10. ASSUME NEW u \in Held(c) PROVE q[Rank(c, u) + 1] = c[u].tag
  <2>1. CASE u = s
    BY <1>6, <1>8, <2>1
  <2>2. CASE u \in Held(b)
    <3>1. Rank(b, u) + 1 \in 1..n
      BY <1>2, <2>2
    <3> QED BY <1>5, <1>6, <1>7, <1>9, <2>2, <3>1
  <2> QED BY <1>1, <2>1, <2>2
<1>11. Ordered(c) = q
  BY <1>3, <1>6, <1>10, SameLine
<1> QED BY <1>11 DEF q

\* What RemoveAt leaves.
LEMMA RemovedAt ==
  ASSUME NEW S, NEW q \in Seq(S), NEW i \in 1..Len(q)
  PROVE  /\ RemoveAt(q, i) \in Seq(S) /\ Len(RemoveAt(q, i)) = Len(q) - 1
         /\ \A k \in 1 .. Len(q) - 1 : RemoveAt(q, i)[k] = IF k < i THEN q[k] ELSE q[k + 1]
<1> DEFINE l == SubSeq(q, 1, i - 1)
           r == SubSeq(q, i + 1, Len(q))
<1>1. l \in Seq(S) /\ Len(l) = i - 1 /\ \A k \in 1 .. i - 1 : l[k] = q[k]
  BY SubSeqProperties
<1>2. r \in Seq(S) /\ Len(r) = Len(q) - i /\ \A k \in 1 .. Len(q) - i : r[k] = q[k + i]
  BY SubSeqProperties
<1> HIDE DEF l, r
<1>3. RemoveAt(q, i) = l \o r
  BY DEF RemoveAt, l, r
<1>4. l \o r \in Seq(S) /\ Len(l \o r) = Len(q) - 1
  <2>1. l \o r \in Seq(S) /\ Len(l \o r) = Len(l) + Len(r)
    BY <1>1, <1>2, ConcatProperties
  <2> QED BY <1>1, <1>2, <2>1
<1>5. ASSUME NEW k \in 1 .. Len(q) - 1
      PROVE  (l \o r)[k] = IF k < i THEN q[k] ELSE q[k + 1]
  <2>1. CASE k < i
    BY <1>1, <1>2, <2>1
  <2>2. CASE ~(k < i)
    <3>1. (l \o r)[k] = r[k - (i - 1)]
      BY <1>1, <1>2, <2>2
    <3>2. k - (i - 1) \in 1 .. Len(q) - i /\ (k - (i - 1)) + i = k + 1
      BY <2>2
    <3> QED BY <1>2, <2>2, <3>1, <3>2
  <2> QED BY <2>1, <2>2
<1> QED BY <1>3, <1>4, <1>5

\* A block is brought in over another, or touched: the line closes up and it goes last.
LEMMA MovesBack ==
  ASSUME NEW b, AgesDiffer(b), NEW c, AgesDiffer(c), NEW s \in Held(b),
         c[s].valid, \A u \in Slots : u # s => c[u] = b[u],
         \A u \in Held(b) : b[u].time_stamp < c[s].time_stamp
  PROVE  Ordered(c) = Append(RemoveAt(Ordered(b), Rank(b, s) + 1), c[s].tag)
<1> DEFINE n == Cardinality(Held(b))
           m == Rank(b, s) + 1
           r == RemoveAt(Ordered(b), m)
           q == Append(r, c[s].tag)
<1>1. Held(c) = Held(b) /\ s \in Slots
  BY DEF Held
<1>2. /\ IsFiniteSet(Held(b)) /\ n \in Nat
      /\ \A u \in Held(b) : Rank(b, u) \in 0 .. n - 1
      /\ \A u, v \in Held(b) : Rank(b, u) = Rank(b, v) => u = v
  BY Ranks
<1>3. m \in 1..n /\ m = Rank(b, s) + 1
  BY <1>2
<1>4. c[s].tag \in Tags \cup {0} /\ c[s].time_stamp \in Nat
  BY <1>1 DEF AgesDiffer, Block
<1>5. /\ Ordered(b) \in Seq(Tags \cup {0}) /\ Len(Ordered(b)) = n
      /\ \A u \in Held(b) : Ordered(b)[Rank(b, u) + 1] = b[u].tag
  BY OrderedAt
<1>6. /\ r \in Seq(Tags \cup {0}) /\ Len(r) = n - 1
      /\ \A k \in 1 .. n - 1 : r[k] = IF k < m THEN Ordered(b)[k] ELSE Ordered(b)[k + 1]
  <2>1. Ordered(b) \in Seq(Tags \cup {0}) /\ m \in 1..Len(Ordered(b))
    BY <1>3, <1>5
  <2> HIDE DEF m
  <2>2. /\ r \in Seq(Tags \cup {0}) /\ Len(r) = Len(Ordered(b)) - 1
        /\ \A k \in 1 .. Len(Ordered(b)) - 1 :
             r[k] = IF k < m THEN Ordered(b)[k] ELSE Ordered(b)[k + 1]
    BY <2>1, RemovedAt
  <2> QED BY <1>5, <2>2
<1> HIDE DEF m, r
<1>7. /\ q \in Seq(Tags \cup {0}) /\ Len(q) = n /\ q[n] = c[s].tag
      /\ \A k \in 1 .. n - 1 : q[k] = r[k]
  BY <1>2, <1>3, <1>4, <1>6
<1>8. \A u \in Held(b) : u # s => c[u] = b[u] /\ b[u].time_stamp \in Nat
  BY DEF Held, AgesDiffer
<1>9. b[s].time_stamp \in Nat /\ b[s].time_stamp < c[s].time_stamp
  BY DEF AgesDiffer
<1>10. Rank(c, s) = n - 1
  <2>1. Older(c, s) = Held(b) \ {s}
    BY <1>1, <1>4, <1>8 DEF Older
  <2> QED BY <1>2, <2>1, FS_RemoveElement DEF Rank
<1>11. ASSUME NEW u \in Held(b), u # s
       PROVE  Rank(c, u) = IF Rank(b, u) < Rank(b, s) THEN Rank(b, u) ELSE Rank(b, u) - 1
  <2>1. c[u] = b[u] /\ b[u].time_stamp < c[s].time_stamp /\ b[u].time_stamp \in Nat
    BY <1>8, <1>11
  <2>2. Older(c, u) = Older(b, u) \ {s}
    BY <1>1, <1>4, <1>8, <2>1 DEF Older
  <2>3. IsFiniteSet(Older(b, u)) /\ IsFiniteSet(Older(b, s))
    BY <1>2, FS_Subset DEF Older
  <2>4. CASE s \in Older(b, u)
    <3>1. Rank(c, u) = Rank(b, u) - 1
      BY <2>2, <2>3, <2>4, FS_RemoveElement DEF Rank
    <3>2. Older(b, s) \in SUBSET Older(b, u)
      BY <1>8, <1>9, <2>1, <2>4 DEF Older, AgesDiffer
    <3>3. Rank(b, s) <= Rank(b, u)
      BY <2>3, <3>2, FS_Subset DEF Rank
    <3> QED BY <1>2, <3>1, <3>3
  <2>5. CASE s \notin Older(b, u)
    <3>1. Rank(c, u) = Rank(b, u)
      <4>1. Older(c, u) = Older(b, u)
        BY <2>2, <2>5
      <4> QED BY <4>1 DEF Rank
    <3>2. b[u].time_stamp # b[s].time_stamp
      BY <1>11 DEF AgesDiffer
    <3>3. b[u].time_stamp < b[s].time_stamp
      BY <1>9, <2>1, <2>5, <3>2 DEF Older
    <3>4. Older(b, u) \in SUBSET Older(b, s)
      BY <1>8, <1>9, <2>1, <3>3 DEF Older, AgesDiffer
    <3>5. Rank(b, u) <= Rank(b, s)
      BY <2>3, <3>4, FS_Subset DEF Rank
    <3>6. Rank(b, u) # Rank(b, s)
      BY <1>2, <1>11
    <3>7. Rank(b, u) \in Nat /\ Rank(b, s) \in Nat
      BY <1>2
    <3> QED BY <3>1, <3>5, <3>6, <3>7
  <2> QED BY <2>4, <2>5
<1> HIDE DEF q, n
<1>12. ASSUME NEW u \in Held(c) PROVE q[Rank(c, u) + 1] = c[u].tag
  <2>1. CASE u = s
    <3>1. Rank(c, u) + 1 = n
      BY <1>2, <1>10, <2>1
    <3> QED BY <1>7, <2>1, <3>1
  <2>2. CASE u # s
    <3>1. /\ u \in Held(b) /\ c[u] = b[u] /\ Rank(b, u) \in 0 .. n - 1 /\ Rank(b, s) \in 0 .. n - 1
          /\ Rank(b, u) # Rank(b, s)
      BY <1>1, <1>2, <1>8, <2>2
    <3>2. CASE Rank(b, u) < Rank(b, s)
      <4>1. /\ Rank(c, u) = Rank(b, u) /\ Rank(b, u) + 1 \in 1 .. n - 1 /\ Rank(b, u) + 1 < m
        BY <1>2, <1>3, <1>11, <2>2, <3>1, <3>2
      <4> QED BY <1>5, <1>6, <1>7, <3>1, <4>1
    <3>3. CASE ~(Rank(b, u) < Rank(b, s))
      <4>1. /\ Rank(c, u) = Rank(b, u) - 1
            /\ Rank(b, u) \in 1 .. n - 1 /\ ~(Rank(b, u) < m) /\ Rank(c, u) + 1 = Rank(b, u)
        BY <1>2, <1>3, <1>11, <2>2, <3>1, <3>3
      <4> QED BY <1>5, <1>6, <1>7, <3>1, <4>1
    <3> QED BY <3>2, <3>3
  <2> QED BY <2>1, <2>2
<1>13. Ordered(c) = q
  BY <1>1, <1>7, <1>12, SameLine DEF n
<1> QED BY <1>13 DEF q, r, m

\* The front of the line is what Tail leaves out.
LEMMA RemovedFirst ==
  ASSUME NEW S, NEW q \in Seq(S), Len(q) > 0
  PROVE  RemoveAt(q, 1) = Tail(q)
<1>1. /\ RemoveAt(q, 1) \in Seq(S) /\ Len(RemoveAt(q, 1)) = Len(q) - 1
      /\ \A k \in 1 .. Len(q) - 1 : RemoveAt(q, 1)[k] = q[k + 1]
  <2>1. 1 \in 1..Len(q)
    OBVIOUS
  <2>2. /\ RemoveAt(q, 1) \in Seq(S) /\ Len(RemoveAt(q, 1)) = Len(q) - 1
        /\ \A k \in 1 .. Len(q) - 1 : RemoveAt(q, 1)[k] = IF k < 1 THEN q[k] ELSE q[k + 1]
    BY <2>1, RemovedAt
  <2> QED BY <2>2
<1>2. /\ Tail(q) \in Seq(S) /\ Len(Tail(q)) = Len(q) - 1
      /\ \A k \in 1 .. Len(q) - 1 : Tail(q)[k] = q[k + 1]
  OBVIOUS
<1> QED BY <1>1, <1>2, SeqEqual

\* The ages of a set differ.
LEMMA SetAges ==
  CacheIInv => \A y \in SetIndex : AgesDiffer(sets[y])
BY DEF CacheIInv, CacheInv, TypeOK, OneEach, Stamped, AgesDiffer, Held

\* And so they do after a line.
LEMMA SetAgesNext ==
  CacheIInv' => \A y \in SetIndex : AgesDiffer(sets'[y])
BY DEF CacheIInv, CacheInv, TypeOK, OneEach, Stamped, AgesDiffer, Held

\* Who is in line.
LEMMA InLine ==
  ASSUME CacheIInv, NEW x \in SetIndex, NEW t
  PROVE  /\ \A s \in HitSlots(x, t) : /\ Rank(sets[x], s) + 1 \in 1..Len(Ordered(sets[x]))
                                      /\ Ordered(sets[x])[Rank(sets[x], s) + 1] = t
         /\ HitSlots(x, t) = {} => \A n \in 1..Len(Ordered(sets[x])) : Ordered(sets[x])[n] # t
<1> DEFINE b == sets[x]
           n == Cardinality(Held(b))
<1>1. AgesDiffer(b)
  BY SetAges
<1>2. /\ n \in Nat
      /\ \A s \in Held(b) : Rank(b, s) \in 0 .. n - 1
      /\ \A i \in 0 .. n - 1 : \E s \in Held(b) : Rank(b, s) = i
      /\ Len(Ordered(b)) = n
      /\ \A s \in Held(b) : Ordered(b)[Rank(b, s) + 1] = b[s].tag
  BY <1>1, Ranks, OrderedAt
<1>3. ASSUME NEW s \in HitSlots(x, t)
      PROVE  Rank(b, s) + 1 \in 1..Len(Ordered(b)) /\ Ordered(b)[Rank(b, s) + 1] = t
  <2>1. s \in Held(b) /\ b[s].tag = t
    BY DEF HitSlots, Held
  <2> HIDE DEF b
  <2> QED BY <1>2, <2>1
<1>4. ASSUME HitSlots(x, t) = {}, NEW i \in 1..Len(Ordered(b)) PROVE Ordered(b)[i] # t
  <2> HIDE DEF b
  <2>1. i - 1 \in 0 .. n - 1
    BY <1>2
  <2>2. PICK s \in Held(b) : Rank(b, s) = i - 1
    BY <1>2, <2>1
  <2>3. Ordered(b)[i] = b[s].tag /\ s \in Slots
    BY <1>2, <2>2 DEF Held
  <2> QED BY <1>4, <2>2, <2>3 DEF HitSlots, Held, b
<1> QED BY <1>3, <1>4

\* Only the set of the line in hand changes.
LEMMA OneLine ==
  ASSUME TypeOK, NEW x \in SetIndex, NEW s \in Slots, NEW B, Replaced(x, s, B)
  PROVE  /\ LineBar' = [LineBar EXCEPT ![x] = Ordered(sets'[x])]
         /\ sets'[x][s] = B /\ \A u \in Slots : u # s => sets'[x][u] = sets[x][u]
<1>1. /\ sets'[x][s] = B /\ \A u \in Slots : u # s => sets'[x][u] = sets[x][u]
      /\ \A y \in SetIndex : y # x => sets'[y] = sets[y]
  BY DEF TypeOK, Replaced
<1>2. LineBar' = [y \in SetIndex |-> Ordered(sets'[y])]
  BY DEF LineBar, Ordered, Held, Rank, Older
<1>3. \A y \in SetIndex : y # x => Ordered(sets'[y]) = Ordered(sets[y])
  BY <1>1
<1> QED BY <1>1, <1>2, <1>3 DEF LineBar

\* A hit is one of the policy's.
LEMMA HitIsPolicy ==
  ASSUME CacheIInv, CacheIInv', NEW x \in SetIndex, NEW t \in Tags, NEW s \in HitSlots(x, t),
         Len(trace) < MaxOps, lru' = lru,
         sets' = Touch(x, s) \/ sets' = [Touch(x, s) EXCEPT ![x][s].dirty = TRUE]
  PROVE  Policy!Next
<1> DEFINE b == sets[x]
           c == sets'[x]
<1>1. TypeOK /\ Stamped
  BY DEF CacheIInv, CacheInv
<1>2. AgesDiffer(b) /\ AgesDiffer(c)
  BY SetAges, SetAgesNext
<1>3. s \in Slots /\ s \in Held(b) /\ b[s].tag = t
  BY DEF HitSlots, Held
<1>4. PICK B \in Block : /\ Replaced(x, s, B) /\ B.valid /\ B.tag = t
                         /\ B.time_stamp = IF lru THEN Now ELSE sets[x][s].time_stamp
  BY <1>1, HitReplaces
<1>5. /\ LineBar' = [LineBar EXCEPT ![x] = Ordered(c)]
      /\ c[s] = B /\ \A u \in Slots : u # s => c[u] = b[u]
  BY <1>1, <1>3, <1>4, OneLine
<1>6. LineBar[x] = Ordered(b)
  BY DEF LineBar
<1>7. /\ Rank(b, s) + 1 \in 1..Len(LineBar[x])
      /\ LineBar[x][Rank(b, s) + 1] = t
  BY <1>6, InLine
<1>8. lru \in BOOLEAN
  BY <1>1 DEF TypeOK
<1> HIDE DEF b, c
<1>9. Ordered(c) = IF lru THEN Append(RemoveAt(LineBar[x], Rank(b, s) + 1), t) ELSE LineBar[x]
  <2>1. CASE lru
    <3>1. \A u \in Held(b) : b[u].time_stamp < c[s].time_stamp
      <4>1. \A u \in Held(b) : b[u].time_stamp \in 1..Len(trace)
        BY <1>1 DEF Stamped, Held, b
      <4>2. Len(trace) \in Nat /\ c[s].time_stamp = Len(trace) + 1
        BY <1>1, <1>4, <1>5, <2>1 DEF Now, TypeOK
      <4> QED BY <4>1, <4>2
    <3> QED BY <1>2, <1>3, <1>4, <1>5, <1>6, <2>1, <3>1, MovesBack
  <2>2. CASE ~lru
    <3>1. \A u \in Slots : /\ c[u].valid <=> b[u].valid
                           /\ c[u].tag = b[u].tag /\ c[u].time_stamp = b[u].time_stamp
      BY <1>3, <1>4, <1>5, <2>2 DEF Held, b
    <3> QED BY <1>2, <1>6, <2>2, <3>1, SameAges
  <2> QED BY <2>1, <2>2
<1>10. Policy!Hit(x, t)
  <2> DEFINE m == Rank(b, s) + 1
  <2>1. m \in 1..Len(LineBar[x]) /\ LineBar[x][m] = t
    BY <1>7
  <2>2. LineBar' = [LineBar EXCEPT ![x] = IF lru THEN Append(RemoveAt(@, m), t) ELSE @]
    BY <1>5, <1>9
  <2> HIDE DEF m
  <2> QED BY <2>1, <2>2 DEF Policy!Hit, Policy!RemoveAt, RemoveAt
<1> QED BY <1>10 DEF Policy!Next

\* So is a block that comes in.
LEMMA FillIsPolicy ==
  ASSUME CacheIInv, CacheIInv', NEW x \in SetIndex, NEW t \in Tags, HitSlots(x, t) = {},
         Len(trace) < MaxOps, lru' = lru,
         NEW dirty \in BOOLEAN, NEW more \in Nat, Fill(x, t, dirty, more)
  PROVE  Policy!Next
<1> DEFINE b == sets[x]
           c == sets'[x]
           s == SlotFor(x)
           B == NewBlock(t, dirty)
<1>1. TypeOK /\ Stamped
  BY DEF CacheIInv, CacheInv
<1>2. AgesDiffer(b) /\ AgesDiffer(c)
  BY SetAges, SetAgesNext
<1>3. /\ s \in Slots
      /\ Free(x) # {} => s \in Free(x)
      /\ Free(x) = {} => \A u \in Slots : b[s].time_stamp <= b[u].time_stamp
  BY <1>1, SlotForFacts, OldestSlot
<1>4. Replaced(x, s, B) /\ B.valid /\ B.tag = t /\ B.time_stamp = Len(trace) + 1
  BY DEF Fill, Replaced, NewBlock, Now
<1> HIDE DEF s, B
<1>5. /\ LineBar' = [LineBar EXCEPT ![x] = Ordered(c)]
      /\ c[s] = B /\ \A u \in Slots : u # s => c[u] = b[u]
  BY <1>1, <1>3, <1>4, OneLine
<1>6. LineBar[x] = Ordered(b)
  BY DEF LineBar
<1>7. t \notin Policy!Held(x)
  BY <1>6, InLine DEF Policy!Held
<1>8. \A u \in Held(b) : b[u].time_stamp < c[s].time_stamp
  <2>1. \A u \in Held(b) : b[u].time_stamp \in 1..Len(trace)
    BY <1>1 DEF Stamped, Held
  <2>2. Len(trace) \in Nat /\ c[s].time_stamp = Len(trace) + 1
    BY <1>1, <1>4, <1>5 DEF TypeOK
  <2> QED BY <2>1, <2>2
<1>9. /\ Ordered(b) \in Seq(Tags \cup {0}) /\ Len(Ordered(b)) = Cardinality(Held(b))
      /\ IsFiniteSet(Held(b)) /\ Cardinality(Held(b)) \in Nat
  BY <1>2, OrderedAt, Ranks
<1>10. Ordered(c) = Append(IF Len(LineBar[x]) = num_blocks THEN Tail(LineBar[x]) ELSE LineBar[x], t)
  <2>1. CASE Free(x) # {}
    <3>1. s \notin Held(b) /\ Held(b) \in SUBSET (Slots \ {s})
      BY <1>3, <2>1 DEF Free, Held
    <3>2. Ordered(c) = Append(Ordered(b), t)
      BY <1>2, <1>3, <1>4, <1>5, <1>8, <3>1, JoinsBack
    <3>3. IsFiniteSet(Slots \ {s}) /\ Cardinality(Slots \ {s}) = num_blocks - 1
      BY <1>3, SlotsFinite, FS_RemoveElement
    <3>4. Cardinality(Held(b)) <= num_blocks - 1
      BY <3>1, <3>3, FS_Subset
    <3>5. Len(LineBar[x]) # num_blocks
      BY <1>6, <1>9, <3>4, Sizes
    <3> QED BY <1>6, <3>2, <3>5
  <2>2. CASE Free(x) = {}
    <3>1. Held(b) = Slots /\ s \in Held(b)
      BY <1>3, <2>2 DEF Free, Held
    <3>2. Ordered(c) = Append(RemoveAt(Ordered(b), Rank(b, s) + 1), t)
      BY <1>2, <1>4, <1>5, <1>8, <3>1, MovesBack
    <3>3. Rank(b, s) = 0
      <4>1. \A u \in Held(b) : b[u].time_stamp \in Nat
        BY <1>2 DEF AgesDiffer
      <4>2. Older(b, s) = {}
        BY <1>3, <2>2, <3>1, <4>1 DEF Older
      <4> QED BY <4>2, FS_EmptySet DEF Rank
    <3>4. Len(Ordered(b)) = num_blocks /\ Len(Ordered(b)) > 0
      BY <1>9, <3>1, SlotsFinite, Sizes
    <3>5. RemoveAt(Ordered(b), 1) = Tail(Ordered(b))
      BY <1>9, <3>4, RemovedFirst
    <3> QED BY <1>6, <3>2, <3>3, <3>4, <3>5
  <2> QED BY <2>1, <2>2
<1> HIDE DEF c
<1>11. Policy!Fill(x, t)
  BY <1>5, <1>7, <1>10 DEF Policy!Fill
<1> QED BY <1>11 DEF Policy!Next

\* A line of the trace is one step of the policy, or none.
LEMMA LineIsPolicy ==
  ASSUME CacheIInv, CacheIInv', NEW op \in {"l", "s"}, NEW a \in Addresses, Line(op, a)
  PROVE  [Policy!Next]_Policy!vars
<1> DEFINE x == get_index(a)
           t == get_tag(a)
<1>1. x \in SetIndex /\ t \in Tags
  BY AddressFacts
<1>2. Len(trace) < MaxOps /\ lru' = lru
  BY DEF Line, modes
<1>3. \/ LoadHit(x, t) \/ LoadMiss(x, t)
      \/ StoreHit(x, t) \/ StoreMissAllocate(x, t) \/ StoreMissAround(x, t)
  BY DEF Line
<1> HIDE DEF x, t
<1>4. CASE LoadHit(x, t) \/ StoreHit(x, t)
  <2>1. PICK s \in HitSlots(x, t) :
          sets' = Touch(x, s) \/ sets' = [Touch(x, s) EXCEPT ![x][s].dirty = TRUE]
    BY <1>4 DEF LoadHit, StoreHit
  <2> QED BY <1>1, <1>2, <2>1, HitIsPolicy
<1>5. CASE LoadMiss(x, t) \/ StoreMissAllocate(x, t)
  <2>1. PICK dirty \in BOOLEAN, more \in Nat : HitSlots(x, t) = {} /\ Fill(x, t, dirty, more)
    BY <1>5 DEF LoadMiss, StoreMissAllocate
  <2> QED BY <1>1, <1>2, <2>1, FillIsPolicy
<1>6. CASE StoreMissAround(x, t)
  BY <1>2, <1>6 DEF StoreMissAround, Policy!vars, LineBar, Ordered, Held, Rank, Older
<1> QED BY <1>3, <1>4, <1>5, <1>6

\* What leaves the simulator alone leaves the policy alone.
LEMMA PolicyStutter == UNCHANGED vars => UNCHANGED Policy!vars
BY DEF vars, modes, Policy!vars, LineBar, Ordered, Held, Rank, Older

\* The empty cache is the empty policy.
LEMMA PolicyInit == Init => Policy!Init
<1> SUFFICES ASSUME Init PROVE Policy!Init
  OBVIOUS
<1>1. ASSUME NEW x \in SetIndex PROVE Ordered(sets[x]) = <<>>
  <2>1. Held(sets[x]) = {}
    BY DEF Init, Held, Empty
  <2>2. Cardinality(Held(sets[x])) = 0
    BY <2>1, FS_EmptySet
  <2> QED BY <2>2 DEF Ordered
<1>2. lru \in BOOLEAN
  BY DEF Init
<1> QED BY <1>1, <1>2 DEF Policy!Init, LineBar

\* The time stamps implement the replacement policy, for any sizes, modes and trace: under
\* LRU and FIFO alike the block that goes is the first in line (helper_functions.cpp:101-157).
THEOREM CacheImplementsPolicy == Spec => PolicySpec
<1>1. CacheIInv /\ [Next]_vars => CacheIInv'
  BY LineKeeps, CacheStutter DEF Next
<1>2. CacheIInv /\ CacheIInv' /\ [Next]_vars => [Policy!Next]_Policy!vars
  BY LineIsPolicy, PolicyStutter DEF Next
<1> QED BY <1>1, <1>2, InitCacheIInv, PolicyInit, PTL DEF Spec, PolicySpec, Policy!Spec

=============================================================================
