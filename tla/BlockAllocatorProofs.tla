------------------------ MODULE BlockAllocatorProofs ------------------------
(***************************************************************************)
(* The safety of the block pool for every number of blocks, every set of   *)
(* contents and every client: AllocInv is an inductive invariant of        *)
(* AllocSpec.  Then the lemmas about sequences, and about what the pool's  *)
(* operations keep, that the proofs of its clients cite.                   *)
(***************************************************************************)
EXTENDS BlockAllocator, Filter, SequenceTheorems, FiniteSetTheorems, TLAPS

-----------------------------------------------------------------------------
(* What the four ways of changing a list of blocks do to its elements.     *)

LEMMA AppendElements ==
  ASSUME NEW S, NEW s \in Seq(S), NEW x \in S
  PROVE  /\ Append(s, x) \in Seq(S)
         /\ \A y : In(y, Append(s, x)) <=> In(y, s) \/ y = x
         /\ NoRepeat(s) /\ ~In(x, s) => NoRepeat(Append(s, x))
<1> DEFINE t == Append(s, x)
<1>1. /\ t \in Seq(S) /\ Len(t) = Len(s) + 1 /\ Len(s) \in Nat
      /\ DOMAIN s = 1 .. Len(s) /\ DOMAIN t = 1 .. Len(s) + 1
  OBVIOUS
<1>2. /\ \A i \in 1 .. Len(s) : t[i] = s[i]
      /\ t[Len(s) + 1] = x
  OBVIOUS
<1>. HIDE DEF t
<1>3. \A y : In(y, t) <=> In(y, s) \/ y = x
  BY <1>1, <1>2 DEF In
<1>4. NoRepeat(s) /\ ~In(x, s) => NoRepeat(t)
  BY <1>1, <1>2 DEF In, NoRepeat
<1>. QED  BY <1>1, <1>3, <1>4 DEF t

LEMMA FrontElements ==
  ASSUME NEW S, NEW s \in Seq(S), s # <<>>
  PROVE  LET t == SubSeq(s, 1, Len(s) - 1) IN
         /\ t \in Seq(S)
         /\ s[Len(s)] \in S
         /\ In(s[Len(s)], s)
         /\ NoRepeat(s) => NoRepeat(t)
         /\ NoRepeat(s) => \A y : In(y, t) <=> In(y, s) /\ y # s[Len(s)]
<1> DEFINE t == SubSeq(s, 1, Len(s) - 1)
<1>1. /\ t \in Seq(S) /\ Len(t) = Len(s) - 1 /\ Len(s) \in Nat \ {0}
      /\ DOMAIN s = 1 .. Len(s) /\ DOMAIN t = 1 .. Len(s) - 1
      /\ s[Len(s)] \in S
  OBVIOUS
<1>2. \A i \in 1 .. Len(s) - 1 : t[i] = s[i]
  OBVIOUS
<1>. HIDE DEF t
<1>3. In(s[Len(s)], s)
  BY <1>1 DEF In
<1>4. NoRepeat(s) => NoRepeat(t)
  BY <1>1, <1>2 DEF NoRepeat
<1>5. ASSUME NoRepeat(s), NEW y
      PROVE  In(y, t) <=> In(y, s) /\ y # s[Len(s)]
  BY <1>1, <1>2, <1>5 DEF In, NoRepeat
<1>. QED  BY <1>1, <1>3, <1>4, <1>5 DEF t

LEMMA TailElements ==
  ASSUME NEW S, NEW s \in Seq(S), s # <<>>
  PROVE  /\ Tail(s) \in Seq(S)
         /\ Head(s) \in S
         /\ In(Head(s), s)
         /\ NoRepeat(s) => NoRepeat(Tail(s))
         /\ NoRepeat(s) => \A y : In(y, Tail(s)) <=> In(y, s) /\ y # Head(s)
<1> DEFINE t == Tail(s)
<1>1. /\ t \in Seq(S) /\ Len(t) = Len(s) - 1 /\ Len(s) \in Nat \ {0}
      /\ DOMAIN s = 1 .. Len(s) /\ DOMAIN t = 1 .. Len(s) - 1
      /\ Head(s) \in S /\ Head(s) = s[1]
  OBVIOUS
<1>2. \A i \in 1 .. Len(s) - 1 : t[i] = s[i + 1]
  OBVIOUS
<1>. HIDE DEF t
<1>3. In(Head(s), s)
  BY <1>1 DEF In
<1>4. NoRepeat(s) => NoRepeat(t)
  BY <1>1, <1>2 DEF NoRepeat
<1>5. ASSUME NoRepeat(s), NEW y
      PROVE  In(y, t) <=> In(y, s) /\ y # Head(s)
  <2>1. In(y, t) => In(y, s) /\ y # Head(s)
    BY <1>1, <1>2, <1>5 DEF In, NoRepeat
  <2>2. ASSUME In(y, s), y # Head(s) PROVE In(y, t)
    <3>1. PICK i \in 1 .. Len(s) : s[i] = y  BY <1>1, <2>2 DEF In
    <3>2. i - 1 \in 1 .. Len(s) - 1 /\ t[i - 1] = y  BY <1>1, <1>2, <2>2, <3>1
    <3>. QED  BY <1>1, <3>2 DEF In
  <2>. QED  BY <2>1, <2>2
<1>. QED  BY <1>1, <1>3, <1>4, <1>5 DEF t

\* A function on 1 .. n is a list of n elements.
LEMMA FunIsSeq ==
  ASSUME NEW S, NEW n \in Nat, NEW f \in [1 .. n -> S]
  PROVE  f \in Seq(S) /\ Len(f) = n
  OBVIOUS

LEMMA UnlinkElements ==
  ASSUME NEW S, NEW s \in Seq(S), NEW n \in DOMAIN s
  PROVE  LET t == [j \in 1 .. Len(s) - 1 |-> IF j < n THEN s[j] ELSE s[j + 1]] IN
         /\ t \in Seq(S)
         /\ NoRepeat(s) => NoRepeat(t)
         /\ NoRepeat(s) => \A y : In(y, t) <=> In(y, s) /\ y # s[n]
<1> DEFINE t == [j \in 1 .. Len(s) - 1 |-> IF j < n THEN s[j] ELSE s[j + 1]]
<1>1. /\ Len(s) \in Nat \ {0} /\ n \in 1 .. Len(s)
      /\ DOMAIN s = 1 .. Len(s) /\ DOMAIN t = 1 .. Len(s) - 1
  OBVIOUS
<1>2. \A j \in 1 .. Len(s) - 1 : t[j] \in S /\ t[j] = IF j < n THEN s[j] ELSE s[j + 1]
  OBVIOUS
<1>3. t \in Seq(S)
  <2> DEFINE k == Len(s) - 1
  <2>1. t \in [1 .. k -> S]  BY <1>2
  <2>2. k \in Nat  BY <1>1
  <2>. HIDE DEF t, k
  <2>. QED  BY <2>1, <2>2
<1>. HIDE DEF t
<1>4. NoRepeat(s) => NoRepeat(t)
  <2>1. SUFFICES ASSUME NoRepeat(s), NEW i \in 1 .. Len(s) - 1, NEW j \in 1 .. Len(s) - 1,
                        t[i] = t[j]
                 PROVE  i = j
    BY <1>1 DEF NoRepeat
  <2>2. /\ t[i] = IF i < n THEN s[i] ELSE s[i + 1]
        /\ t[j] = IF j < n THEN s[j] ELSE s[j + 1]
    BY <1>2
  <2>3. /\ i \in 1 .. Len(s) /\ i + 1 \in 1 .. Len(s)
        /\ j \in 1 .. Len(s) /\ j + 1 \in 1 .. Len(s)
    BY <1>1
  <2>4. /\ s[i] = s[j] => i = j
        /\ s[i + 1] = s[j + 1] => i + 1 = j + 1
        /\ s[i] = s[j + 1] => i = j + 1
        /\ s[i + 1] = s[j] => i + 1 = j
    BY <1>1, <2>1, <2>3 DEF NoRepeat
  <2>5. i \in Int /\ j \in Int /\ n \in Int
    BY <1>1
  <2>6. CASE i < n /\ j < n
    BY <2>1, <2>2, <2>4, <2>6
  <2>7. CASE i < n /\ ~(j < n)
    <3>1. s[i] = s[j + 1]  BY <2>1, <2>2, <2>7
    <3>2. i = j + 1  BY <2>4, <3>1
    <3>. QED  BY <2>5, <2>7, <3>2
  <2>8. CASE ~(i < n) /\ j < n
    <3>1. s[i + 1] = s[j]  BY <2>1, <2>2, <2>8
    <3>2. i + 1 = j  BY <2>4, <3>1
    <3>. QED  BY <2>5, <2>8, <3>2
  <2>9. CASE ~(i < n) /\ ~(j < n)
    <3>1. s[i + 1] = s[j + 1]  BY <2>1, <2>2, <2>9
    <3>2. i + 1 = j + 1  BY <2>4, <3>1
    <3>. QED  BY <2>5, <3>2
  <2>. QED  BY <2>6, <2>7, <2>8, <2>9
<1>5. ASSUME NoRepeat(s), NEW y
      PROVE  In(y, t) <=> In(y, s) /\ y # s[n]
  <2>1. In(y, t) => In(y, s) /\ y # s[n]
    BY <1>1, <1>2, <1>5 DEF In, NoRepeat
  <2>2. ASSUME In(y, s), y # s[n] PROVE In(y, t)
    <3>1. PICK i \in 1 .. Len(s) : s[i] = y  BY <1>1, <2>2 DEF In
    <3>2. CASE i < n  BY <1>1, <1>2, <3>1, <3>2 DEF In
    <3>3. CASE i > n
      <4>1. i - 1 \in 1 .. Len(s) - 1 /\ t[i - 1] = y  BY <1>1, <1>2, <3>1, <3>3
      <4>. QED  BY <1>1, <4>1 DEF In
    <3>. QED  BY <1>1, <2>2, <3>1, <3>2, <3>3
  <2>. QED  BY <2>1, <2>2
<1>. QED  BY <1>3, <1>4, <1>5 DEF t

-----------------------------------------------------------------------------
(* The index.                                                              *)

\* AllocInv without the parts about the three pools of blocks.
IndexInv ==
  /\ DOMAIN by_key \subseteq Key
  /\ by_key \in [DOMAIN by_key -> [entry : Entry, block : Blocks]]
  /\ DOMAIN by_block \subseteq Blocks
  /\ by_block \in [DOMAIN by_block -> [entry : Entry, key : Key]]
  /\ next_entry \in 1 .. MaxEntry + 1
  /\ IndexConsistent
  /\ EntriesOrdered

\* Removing a registration keeps the index consistent.
LEMMA UnregisterKeepsIndex ==
  ASSUME IndexInv, NEW b \in DOMAIN by_block, Unregister(b), UNCHANGED next_entry
  PROVE  IndexInv' /\ DOMAIN by_block' = DOMAIN by_block \ {b}
<1> DEFINE K == DOMAIN by_key \ {by_block[b].key}
           B == DOMAIN by_block \ {b}
<1>1. /\ by_key' = [k \in K |-> by_key[k]] /\ DOMAIN by_key' = K
      /\ by_block' = [c \in B |-> by_block[c]] /\ DOMAIN by_block' = B
      /\ next_entry' = next_entry
  BY DEF Unregister
<1>2. \A k \in K : by_key'[k] = by_key[k]
  BY <1>1
<1>3. \A c \in B : by_block'[c] = by_block[c]
  BY <1>1
<1>4. /\ K \subseteq Key /\ B \subseteq Blocks
      /\ by_key' \in [K -> [entry : Entry, block : Blocks]]
      /\ by_block' \in [B -> [entry : Entry, key : Key]]
  BY <1>1 DEF IndexInv
<1>5. IndexConsistent'
  <2>1. ASSUME NEW c \in B
        PROVE  /\ by_block[c].key \in K
               /\ by_key[by_block[c].key] = [entry |-> by_block[c].entry, block |-> c]
    <3>1. /\ by_block[c].key \in DOMAIN by_key
          /\ by_key[by_block[c].key] = [entry |-> by_block[c].entry, block |-> c]
          /\ by_key[by_block[b].key] = [entry |-> by_block[b].entry, block |-> b]
      BY DEF IndexInv, IndexConsistent
    <3>2. by_block[c].key # by_block[b].key
      BY <3>1
    <3>. QED  BY <3>1, <3>2
  <2>2. ASSUME NEW k \in K
        PROVE  by_key[k].block \in B /\ by_block[by_key[k].block].key = k
    BY DEF IndexInv, IndexConsistent
  <2>. QED  BY <1>1, <1>2, <1>3, <2>1, <2>2 DEF IndexConsistent
<1>6. EntriesOrdered'
  BY <1>1, <1>2 DEF IndexInv, EntriesOrdered
<1>. QED  BY <1>1, <1>4, <1>5, <1>6 DEF IndexInv

\* So does adding one for a block and a content that have none.
LEMMA RegisterKeepsIndex ==
  ASSUME IndexInv, NEW b \in Blocks, b \notin DOMAIN by_block,
         NEW k \in Key, k \notin DOMAIN by_key, k.parent < next_entry,
         Register(b, k)
  PROVE  IndexInv' /\ DOMAIN by_block' = DOMAIN by_block \cup {b}
<1> DEFINE K == DOMAIN by_key \cup {k}
           B == DOMAIN by_block \cup {b}
<1>1. /\ by_key' = [j \in K |->
                      IF j = k THEN [entry |-> next_entry, block |-> b] ELSE by_key[j]]
      /\ by_block' = [c \in B |->
                        IF c = b THEN [entry |-> next_entry, key |-> k] ELSE by_block[c]]
      /\ DOMAIN by_key' = K /\ DOMAIN by_block' = B
      /\ next_entry' = next_entry + 1 /\ next_entry' \in 1 .. MaxEntry + 1
      /\ next_entry \in Nat \ {0} /\ next_entry \in Entry
  BY AllocatorAssumption DEF Register, RegisterAs, IndexInv, Entry
<1>2. /\ by_key'[k] = [entry |-> next_entry, block |-> b]
      /\ \A j \in DOMAIN by_key : by_key'[j] = by_key[j]
  BY <1>1
<1>3. /\ by_block'[b] = [entry |-> next_entry, key |-> k]
      /\ \A c \in DOMAIN by_block : by_block'[c] = by_block[c]
  BY <1>1
<1>4. /\ K \subseteq Key /\ B \subseteq Blocks
      /\ by_key' \in [K -> [entry : Entry, block : Blocks]]
      /\ by_block' \in [B -> [entry : Entry, key : Key]]
  BY <1>1 DEF IndexInv
<1>5. IndexConsistent'
  <2>1. ASSUME NEW c \in B
        PROVE  /\ by_block'[c].key \in K
               /\ by_key'[by_block'[c].key] = [entry |-> by_block'[c].entry, block |-> c]
    <3>1. CASE c = b  BY <1>2, <1>3, <3>1
    <3>2. CASE c # b
      <4>1. /\ by_block[c].key \in DOMAIN by_key
            /\ by_key[by_block[c].key] = [entry |-> by_block[c].entry, block |-> c]
        BY <3>2 DEF IndexInv, IndexConsistent
      <4>. QED  BY <1>2, <1>3, <3>2, <4>1
    <3>. QED  BY <3>1, <3>2
  <2>2. ASSUME NEW j \in K
        PROVE  by_key'[j].block \in B /\ by_block'[by_key'[j].block].key = j
    <3>1. CASE j = k  BY <1>2, <1>3, <3>1
    <3>2. CASE j # k
      <4>1. by_key[j].block \in DOMAIN by_block /\ by_block[by_key[j].block].key = j
        BY <3>2 DEF IndexInv, IndexConsistent
      <4>. QED  BY <1>2, <1>3, <3>2, <4>1
    <3>. QED  BY <3>1, <3>2
  <2>. QED  BY <1>1, <2>1, <2>2 DEF IndexConsistent
<1>6. EntriesOrdered'
  <2>1. \A j \in DOMAIN by_key : /\ by_key[j].entry \in Nat /\ by_key[j].entry < next_entry
                                 /\ j.parent < by_key[j].entry
    BY DEF IndexInv, EntriesOrdered, Entry
  <2>2. ASSUME NEW j \in K
        PROVE  j.parent < by_key'[j].entry /\ by_key'[j].entry < next_entry + 1
    <3>1. j.parent \in Int
      BY <1>4, AllocatorAssumption DEF Key, Entry
    <3>. QED  BY <1>1, <1>2, <2>1, <3>1
  <2>3. ASSUME NEW i \in K, NEW j \in K, by_key'[i].entry = by_key'[j].entry
        PROVE  i = j
    <3>1. CASE i \in DOMAIN by_key /\ j \in DOMAIN by_key
      BY <1>2, <2>3, <3>1 DEF IndexInv, EntriesOrdered
    <3>2. CASE i = k \/ j = k
      BY <1>1, <1>2, <2>1, <2>3, <3>2
    <3>. QED  BY <3>1, <3>2
  <2>. QED  BY <1>1, <2>2, <2>3 DEF EntriesOrdered
<1>. QED  BY <1>1, <1>4, <1>5, <1>6 DEF IndexInv

-----------------------------------------------------------------------------
(* The three pools of blocks.                                              *)

PoolInv ==
  /\ free_list \in Seq(Blocks)
  /\ ref_counts \in [Blocks -> 0 .. MaxRefCount]
  /\ evictable \in Seq(Blocks)
  /\ PoolPartition

LEMMA AllocInvParts == AllocInv <=> PoolInv /\ IndexInv
  BY DEF AllocInv, AllocTypeOK, PoolInv, IndexInv

LEMMA AllocInvPartsNext == AllocInv' <=> PoolInv' /\ IndexInv'
  BY DEF AllocInv, AllocTypeOK, PoolInv, IndexInv

LEMMA InitInv == AllocInit => AllocInv
<1> SUFFICES ASSUME AllocInit PROVE AllocInv
  OBVIOUS
<1>1. /\ free_list = [i \in 1 .. NumBlocks |-> NumBlocks - i]
      /\ NumBlocks \in Nat /\ MaxRefCount \in Nat \ {0} /\ MaxEntry \in Nat
      /\ evictable = <<>> /\ by_key = <<>> /\ by_block = <<>> /\ next_entry = 1
      /\ ref_counts = [b \in Blocks |-> 0]
      /\ DOMAIN by_key = {} /\ DOMAIN by_block = {} /\ DOMAIN evictable = {}
  BY AllocatorAssumption DEF AllocInit
<1>2. /\ free_list \in [1 .. NumBlocks -> Blocks]
      /\ free_list \in Seq(Blocks) /\ DOMAIN free_list = 1 .. NumBlocks
  BY <1>1 DEF Blocks
<1>3. PoolPartition
  <2>1. NoRepeat(free_list) /\ NoRepeat(evictable)
    BY <1>1, <1>2 DEF NoRepeat
  <2>2. ASSUME NEW b \in Blocks
        PROVE  ref_counts[b] = 0 /\ In(b, free_list) /\ ~In(b, evictable)
    <3>1. NumBlocks - b \in 1 .. NumBlocks /\ free_list[NumBlocks - b] = b
      BY <1>1 DEF Blocks
    <3>. QED  BY <1>1, <1>2, <3>1 DEF In
  <2>. QED  BY <1>1, <2>1, <2>2 DEF PoolPartition, is_cached
<1>4. PoolInv
  BY <1>1, <1>2, <1>3 DEF PoolInv
<1>5. IndexInv
  BY <1>1 DEF IndexInv, IndexConsistent, EntriesOrdered
<1>. QED  BY <1>4, <1>5, AllocInvParts

\* allocate.
LEMMA AllocateKeepsInv ==
  ASSUME AllocInv, NEW b \in Blocks, Allocate(b)
  PROVE  AllocInv'
<1>1. PoolInv /\ IndexInv
  BY AllocInvParts
<1>2. /\ ref_counts' \in [Blocks -> 0 .. MaxRefCount]
      /\ ref_counts'[b] = 1
      /\ \A c \in Blocks \ {b} : ref_counts'[c] = ref_counts[c]
      /\ next_entry' = next_entry
  BY <1>1, AllocatorAssumption DEF Allocate, PoolInv
<1>3. CASE free_list # <<>>
  <2>1. /\ b = free_list[Len(free_list)]
        /\ free_list' = SubSeq(free_list, 1, Len(free_list) - 1)
        /\ UNCHANGED <<evictable, by_key, by_block>>
    BY <1>3 DEF Allocate
  <2>2. /\ free_list' \in Seq(Blocks) /\ NoRepeat(free_list')
        /\ In(b, free_list)
        /\ \A c : In(c, free_list') <=> In(c, free_list) /\ c # b
    BY <1>1, <1>3, <2>1, FrontElements DEF PoolInv, PoolPartition
  <2>3. ~In(b, evictable)
    BY <1>1, <2>2 DEF PoolInv, PoolPartition
  <2>4. PoolPartition'
    BY <1>1, <1>2, <2>1, <2>2, <2>3 DEF PoolInv, PoolPartition, is_cached
  <2>5. PoolInv'
    BY <1>1, <1>2, <2>1, <2>2, <2>4 DEF PoolInv
  <2>6. IndexInv'
    BY <1>1, <1>2, <2>1 DEF IndexInv, IndexConsistent, EntriesOrdered
  <2>. QED  BY <2>5, <2>6, AllocInvPartsNext
<1>4. CASE free_list = <<>>
  <2>1. /\ evictable # <<>> /\ b = Head(evictable)
        /\ evictable' = Tail(evictable) /\ UNCHANGED free_list
        /\ Unregister(b)
    BY <1>4 DEF Allocate, Evict
  <2>2. /\ evictable' \in Seq(Blocks) /\ NoRepeat(evictable')
        /\ In(b, evictable)
        /\ \A c : In(c, evictable') <=> In(c, evictable) /\ c # b
    BY <1>1, <2>1, TailElements DEF PoolInv, PoolPartition
  <2>3. b \in DOMAIN by_block /\ ~In(b, free_list)
    BY <1>1, <2>2 DEF PoolInv, PoolPartition, is_cached
  <2>4. IndexInv' /\ DOMAIN by_block' = DOMAIN by_block \ {b}
    BY <1>1, <1>2, <2>1, <2>3, UnregisterKeepsIndex
  <2>5. PoolPartition'
    BY <1>1, <1>2, <2>1, <2>2, <2>3, <2>4 DEF PoolInv, PoolPartition, is_cached
  <2>6. PoolInv'
    BY <1>1, <1>2, <2>1, <2>2, <2>5 DEF PoolInv
  <2>. QED  BY <2>4, <2>6, AllocInvPartsNext
<1>. QED  BY <1>3, <1>4

LEMMA IncrefKeepsInv ==
  ASSUME AllocInv, NEW b \in Blocks, Incref(b)
  PROVE  AllocInv'
<1>1. PoolInv /\ IndexInv
  BY AllocInvParts
<1>2. /\ ref_counts' \in [Blocks -> 0 .. MaxRefCount]
      /\ \A c \in Blocks : ref_counts'[c] = 0 <=> ref_counts[c] = 0
      /\ UNCHANGED <<free_list, evictable, by_key, by_block, next_entry>>
  BY <1>1, AllocatorAssumption DEF Incref, PoolInv
<1>3. PoolInv'
  BY <1>1, <1>2 DEF PoolInv, PoolPartition, is_cached
<1>4. IndexInv'
  BY <1>1, <1>2 DEF IndexInv, IndexConsistent, EntriesOrdered
<1>. QED  BY <1>3, <1>4, AllocInvPartsNext

\* decref, to zero or not.
LEMMA DecrefKeepsInv ==
  ASSUME AllocInv, NEW b \in Blocks, Decref(b)
  PROVE  AllocInv'
<1>1. PoolInv /\ IndexInv
  BY AllocInvParts
<1>2. /\ ref_counts[b] \in 1 .. MaxRefCount
      /\ ref_counts' \in [Blocks -> 0 .. MaxRefCount]
      /\ ref_counts'[b] = ref_counts[b] - 1
      /\ \A c \in Blocks \ {b} : ref_counts'[c] = ref_counts[c]
      /\ UNCHANGED <<by_key, by_block, next_entry>>
  BY <1>1, AllocatorAssumption DEF Decref, PoolInv
<1>3. ~In(b, free_list) /\ ~In(b, evictable)
  BY <1>1, <1>2 DEF PoolInv, PoolPartition
<1>4. IndexInv'
  BY <1>1, <1>2 DEF IndexInv, IndexConsistent, EntriesOrdered
<1>5. CASE ref_counts[b] = 1 /\ is_cached(b)
  <2>1. evictable' = Append(evictable, b) /\ UNCHANGED free_list
    BY <1>5 DEF Decref
  <2>2. /\ evictable' \in Seq(Blocks) /\ NoRepeat(evictable')
        /\ \A c : In(c, evictable') <=> In(c, evictable) \/ c = b
    BY <1>1, <1>3, <2>1, AppendElements DEF PoolInv, PoolPartition
  <2>3. PoolPartition'
    BY <1>1, <1>2, <1>3, <1>5, <2>1, <2>2 DEF PoolInv, PoolPartition, is_cached
  <2>4. PoolInv'
    BY <1>1, <1>2, <2>1, <2>2, <2>3 DEF PoolInv
  <2>. QED  BY <1>4, <2>4, AllocInvPartsNext
<1>6. CASE ref_counts[b] = 1 /\ ~is_cached(b)
  <2>1. free_list' = Append(free_list, b) /\ UNCHANGED evictable
    BY <1>6 DEF Decref
  <2>2. /\ free_list' \in Seq(Blocks) /\ NoRepeat(free_list')
        /\ \A c : In(c, free_list') <=> In(c, free_list) \/ c = b
    BY <1>1, <1>3, <2>1, AppendElements DEF PoolInv, PoolPartition
  <2>3. PoolPartition'
    BY <1>1, <1>2, <1>3, <1>6, <2>1, <2>2 DEF PoolInv, PoolPartition, is_cached
  <2>4. PoolInv'
    BY <1>1, <1>2, <2>1, <2>2, <2>3 DEF PoolInv
  <2>. QED  BY <1>4, <2>4, AllocInvPartsNext
<1>7. CASE ref_counts[b] > 1
  <2>1. UNCHANGED <<free_list, evictable>>
    BY <1>2, <1>7 DEF Decref
  <2>2. \A c \in Blocks : ref_counts'[c] = 0 <=> ref_counts[c] = 0
    BY <1>2, <1>7
  <2>3. PoolInv'
    BY <1>1, <1>2, <2>1, <2>2 DEF PoolInv, PoolPartition, is_cached
  <2>. QED  BY <1>4, <2>3, AllocInvPartsNext
<1>. QED  BY <1>2, <1>5, <1>6, <1>7

\* acquire_cached of an unowned block.
LEMMA ReclaimKeepsInv ==
  ASSUME AllocInv, NEW b \in Blocks, Reclaim(b)
  PROVE  AllocInv'
<1>1. PoolInv /\ IndexInv
  BY AllocInvParts
<1>2. /\ ref_counts' \in [Blocks -> 0 .. MaxRefCount]
      /\ ref_counts'[b] = 1
      /\ \A c \in Blocks \ {b} : ref_counts'[c] = ref_counts[c]
      /\ UNCHANGED <<free_list, by_key, by_block, next_entry>>
  BY <1>1, AllocatorAssumption DEF Reclaim, PoolInv
<1>3. PICK n \in DOMAIN evictable : evictable[n] = b /\ Unlink(n)
  BY DEF Reclaim
<1>4. /\ evictable' \in Seq(Blocks) /\ NoRepeat(evictable')
      /\ \A c : In(c, evictable') <=> In(c, evictable) /\ c # b
  BY <1>1, <1>3, UnlinkElements DEF PoolInv, PoolPartition, Unlink
<1>5. In(b, evictable)
  BY <1>3 DEF In
<1>6. is_cached(b) /\ ~In(b, free_list)
  BY <1>1, <1>5 DEF PoolInv, PoolPartition
<1>7. PoolPartition'
  BY <1>1, <1>2, <1>4, <1>5, <1>6 DEF PoolInv, PoolPartition, is_cached
<1>8. PoolInv'
  BY <1>1, <1>2, <1>4, <1>7 DEF PoolInv
<1>9. IndexInv'
  BY <1>1, <1>2 DEF IndexInv, IndexConsistent, EntriesOrdered
<1>. QED  BY <1>8, <1>9, AllocInvPartsNext

\* cache_block, under a parent that has been handed out.
LEMMA CacheBlockKeepsInv ==
  ASSUME AllocInv, NEW b \in Blocks, NEW k \in Key, k.parent < next_entry,
         CacheBlock(b, k)
  PROVE  AllocInv'
<1>1. PoolInv /\ IndexInv
  BY AllocInvParts
<1>2. UNCHANGED <<free_list, ref_counts, evictable>> /\ ref_counts[b] > 0
  BY DEF CacheBlock
<1>3. CASE is_cached(b) \/ k \in DOMAIN by_key
  <2>1. UNCHANGED <<by_key, by_block, next_entry>>
    BY <1>3 DEF CacheBlock
  <2>. QED
    BY <1>1, <1>2, <2>1, AllocInvPartsNext
    DEF PoolInv, PoolPartition, is_cached, IndexInv, IndexConsistent, EntriesOrdered
<1>4. CASE ~is_cached(b) /\ k \notin DOMAIN by_key
  <2>1. Register(b, k)
    BY <1>4 DEF CacheBlock
  <2>2. IndexInv' /\ DOMAIN by_block' = DOMAIN by_block \cup {b}
    BY <1>1, <1>4, <2>1, RegisterKeepsIndex DEF is_cached
  <2>3. ~In(b, free_list)
    BY <1>1, <1>2 DEF PoolInv, PoolPartition
  <2>4. PoolInv'
    BY <1>1, <1>2, <2>2, <2>3 DEF PoolInv, PoolPartition, is_cached
  <2>. QED  BY <2>2, <2>4, AllocInvPartsNext
<1>. QED  BY <1>3, <1>4

-----------------------------------------------------------------------------
(* The results.                                                            *)

LEMMA NextKeepsInv == AllocInv /\ [AllocNext]_allocVars => AllocInv'
<1> SUFFICES ASSUME AllocInv, [AllocNext]_allocVars PROVE AllocInv'
  OBVIOUS
<1>1. CASE UNCHANGED allocVars
  BY <1>1 DEF allocVars, AllocInv, AllocTypeOK, PoolPartition, IndexConsistent,
              EntriesOrdered, is_cached
<1>2. CASE AllocNext
  <2>1. PICK b \in Blocks :
          \/ Allocate(b) \/ Incref(b) \/ Decref(b) \/ AcquireCached(b)
          \/ \E p \in 0 .. next_entry - 1, t \in Chunk :
               CacheBlock(b, [parent |-> p, tokens |-> t])
    BY <1>2 DEF AllocNext
  <2>2. CASE Allocate(b)  BY <2>2, AllocateKeepsInv
  <2>3. CASE Incref(b)  BY <2>3, IncrefKeepsInv
  <2>4. CASE Decref(b)  BY <2>4, DecrefKeepsInv
  <2>5. CASE AcquireCached(b)
    BY <2>5, IncrefKeepsInv, ReclaimKeepsInv DEF AcquireCached
  <2>6. ASSUME NEW p \in 0 .. next_entry - 1, NEW t \in Chunk,
               CacheBlock(b, [parent |-> p, tokens |-> t])
        PROVE  AllocInv'
    <3>1. p \in Entry /\ p < next_entry
      BY AllocatorAssumption DEF AllocInv, AllocTypeOK, Entry
    <3>2. [parent |-> p, tokens |-> t] \in Key
      BY <3>1 DEF Key
    <3>. QED  BY <2>6, <3>1, <3>2, CacheBlockKeepsInv
  <2>. QED  BY <2>1, <2>2, <2>3, <2>4, <2>5, <2>6
<1>. QED  BY <1>1, <1>2

(***************************************************************************)
(* Every reachable state of the pool satisfies AllocInv: types, the        *)
(* partition of the blocks, the consistency of the index, and the order of *)
(* its entries.                                                            *)
(***************************************************************************)
THEOREM AllocatorSafety == AllocSpec => []AllocInv
<1>. QED  BY InitInv, NextKeepsInv, PTL DEF AllocSpec

(***************************************************************************)
(* The types of allocator.rs: in particular no count exceeds u16::MAX, and *)
(* incref and decref, which work on an unsigned integer, never wrap.       *)
(***************************************************************************)
THEOREM PoolTypes == AllocSpec => []AllocTypeOK
<1>1. AllocInv => AllocTypeOK
  BY DEF AllocInv
<1>. QED  BY AllocatorSafety, <1>1, PTL

(***************************************************************************)
(* allocator.rs:324-325: every unowned block is free or evictable, exactly *)
(* once, in every reachable state of a pool of any size.                   *)
(***************************************************************************)
THEOREM PoolStaysPartitioned == AllocSpec => []PoolPartition
<1>1. AllocInv => PoolPartition
  BY DEF AllocInv
<1>. QED  BY AllocatorSafety, <1>1, PTL

(***************************************************************************)
(* prefix_cache.rs:93-113: the two maps of the index are always inverse to *)
(* each other, so no lookup names a block that was reused.                 *)
(***************************************************************************)
THEOREM IndexStaysConsistent == AllocSpec => []IndexConsistent
<1>1. AllocInv => IndexConsistent
  BY DEF AllocInv
<1>. QED  BY AllocatorSafety, <1>1, PTL

\* The counter of entries never goes back.
LEMMA NextEntryGrows ==
  ASSUME AllocInv, AllocNext
  PROVE  next_entry \in Int /\ next_entry' \in Int /\ next_entry <= next_entry'
<1>1. next_entry \in Int
  BY DEF AllocInv, AllocTypeOK
<1>2. next_entry' = next_entry \/ next_entry' = next_entry + 1
  BY DEF AllocNext, Allocate, Incref, Decref, AcquireCached, Reclaim, CacheBlock, Register
<1>. QED  BY <1>1, <1>2

\* A key that stays in the index keeps its entry.
LEMMA OldKeysStay ==
  ASSUME AllocNext, NEW k \in DOMAIN by_key, k \in DOMAIN by_key'
  PROVE  by_key'[k].entry = by_key[k].entry
<1>1. PICK b \in Blocks :
        \/ Allocate(b) \/ Incref(b) \/ Decref(b) \/ AcquireCached(b)
        \/ \E p \in 0 .. next_entry - 1, t \in Chunk :
             CacheBlock(b, [parent |-> p, tokens |-> t])
  BY DEF AllocNext
<1>2. CASE Allocate(b)
  BY <1>2 DEF Allocate, Evict, Unregister
<1>3. CASE Incref(b) \/ Decref(b) \/ AcquireCached(b)
  BY <1>3 DEF Incref, Decref, AcquireCached, Reclaim
<1>4. ASSUME NEW p \in 0 .. next_entry - 1, NEW t \in Chunk,
             CacheBlock(b, [parent |-> p, tokens |-> t])
      PROVE  by_key'[k].entry = by_key[k].entry
  BY <1>4 DEF CacheBlock, Register, RegisterAs
<1>. QED  BY <1>1, <1>2, <1>3, <1>4

\* A key that enters the index does so under the next entry.
LEMMA NewKeysAreNew ==
  ASSUME AllocInv, AllocNext, NEW k \in DOMAIN by_key', k \notin DOMAIN by_key
  PROVE  by_key'[k].entry >= next_entry
<1>1. next_entry \in Int
  BY DEF AllocInv, AllocTypeOK
<1>2. PICK b \in Blocks :
        \/ Allocate(b) \/ Incref(b) \/ Decref(b) \/ AcquireCached(b)
        \/ \E p \in 0 .. next_entry - 1, t \in Chunk :
             CacheBlock(b, [parent |-> p, tokens |-> t])
  BY DEF AllocNext
<1>3. CASE Allocate(b)
  <2>1. DOMAIN by_key' \subseteq DOMAIN by_key
    BY <1>3 DEF Allocate, Evict, Unregister
  <2>. QED  BY <2>1
<1>4. CASE Incref(b) \/ Decref(b) \/ AcquireCached(b)
  <2>1. by_key' = by_key
    BY <1>4 DEF Incref, Decref, AcquireCached, Reclaim
  <2>. QED  BY <2>1
<1>5. ASSUME NEW p \in 0 .. next_entry - 1, NEW t \in Chunk,
             CacheBlock(b, [parent |-> p, tokens |-> t])
      PROVE  by_key'[k].entry >= next_entry
  <2> DEFINE j == [parent |-> p, tokens |-> t]
  <2>1. by_key' # by_key
    OBVIOUS
  <2>2. Register(b, j)
    BY <1>5, <2>1 DEF CacheBlock
  <2>3. by_key'[k].entry = next_entry
    BY <2>2 DEF Register, RegisterAs
  <2>. QED  BY <1>1, <2>3
<1>. QED  BY <1>2, <1>3, <1>4, <1>5

\* An entry that was handed out stays with the key it has, if it has one.
LEMMA EntryKeepsKey ==
  ASSUME AllocInv, [AllocNext]_allocVars, NEW e \in Entry, NEW k, e < next_entry,
         \A j \in DOMAIN by_key : Names(e, j) => j = k
  PROVE  e < next_entry' /\ \A j \in DOMAIN by_key' : Names(e, j)' => j = k
<1>1. CASE UNCHANGED allocVars
  BY <1>1 DEF allocVars, Names
<1>2. CASE AllocNext
  <2>1. next_entry \in Int /\ next_entry' \in Int /\ next_entry <= next_entry'
    BY <1>2, NextEntryGrows
  <2>2. ASSUME NEW j \in DOMAIN by_key', by_key'[j].entry = e
        PROVE  j \in DOMAIN by_key /\ by_key[j].entry = e
    <3>1. j \in DOMAIN by_key
      BY <1>2, <2>1, <2>2, NewKeysAreNew, e \in Int DEF Entry
    <3>2. by_key'[j].entry = by_key[j].entry
      BY <1>2, <3>1, OldKeysStay
    <3>. QED  BY <2>2, <3>1, <3>2
  <2>. QED  BY <2>1, <2>2 DEF Names, Entry
<1>. QED  BY <1>1, <1>2

(***************************************************************************)
(* prefix_cache.rs:8-9: an entry that has named a content never names      *)
(* another one, for any pool, any contents and any client.                 *)
(***************************************************************************)
THEOREM NoEntryIsReused == AllocSpec => EntriesNeverReused
<1>1. ASSUME NEW e \in Entry, NEW k \in Key
      PROVE  AllocSpec => [](Names(e, k) => [](\A j \in DOMAIN by_key : Names(e, j) => j = k))
  <2> DEFINE P == Names(e, k)
             Only == \A j \in DOMAIN by_key : Names(e, j) => j = k
             Q == e < next_entry /\ Only
  <2>1. AllocInv /\ P => Q
    BY DEF AllocInv, EntriesOrdered, Names
  <2>2. AllocInv /\ [AllocNext]_allocVars /\ Q => Q'
    BY EntryKeepsKey
  <2>3. Q => Only
    OBVIOUS
  <2>. HIDE DEF P, Q, Only
  <2>4. AllocSpec => [](P => []Only)
    BY <2>1, <2>2, <2>3, AllocatorSafety, PTL DEF AllocSpec
  <2>. QED  BY <2>4 DEF P, Only
<1>. QED  BY <1>1 DEF EntriesNeverReused

-----------------------------------------------------------------------------
(* Numbers and sequences, for what is built on the pool.                  *)

LEMMA LeastNatural ==
  ASSUME NEW T \in SUBSET Nat, T # {}
  PROVE  \E n \in T : \A m \in T : n <= m
<1>1. IsWellFoundedOn(OpToRel(<, Nat), Nat)
  BY NatLessThanWellFounded
<1>2. \A x, y \in Nat : x < y => <<x, y>> \in OpToRel(<, Nat)
  BY DEF OpToRel
<1> DEFINE R == OpToRel(<, Nat)
<1>. HIDE DEF R
<1>3. PICK x \in T : \A y \in T : <<y, x>> \notin R
  BY <1>1, WFMin DEF R
<1>4. \A y \in T : ~(y < x)
  BY <1>2, <1>3 DEF R
<1>. QED  BY <1>4

LEMMA DivFacts ==
  ASSUME NEW a \in Int, NEW d \in Nat \ {0}
  PROVE  a \div d \in Int /\ (a \div d) * d <= a /\ a < (a \div d) * d + d
<1>1. a \div d \in Int
  OBVIOUS
<1>2. (a \div d) * d <= a
  OBVIOUS
<1>3. a < (a \div d) * d + d
  OBVIOUS
<1>. QED  BY <1>1, <1>2, <1>3

LEMMA RemoveAtFacts ==
  ASSUME NEW S, NEW s \in Seq(S), NEW n \in DOMAIN s
  PROVE  LET t == RemoveAt(s, n) IN
         /\ t \in Seq(S)
         /\ Len(t) = Len(s) - 1
         /\ \A j \in DOMAIN t : /\ j < n => j \in DOMAIN s /\ t[j] = s[j]
                                /\ j >= n => j + 1 \in DOMAIN s /\ t[j] = s[j + 1]
<1> DEFINE u == SubSeq(s, 1, n - 1)
           v == SubSeq(s, n + 1, Len(s))
<1>1. /\ Len(s) \in Nat \ {0} /\ n \in 1 .. Len(s) /\ DOMAIN s = 1 .. Len(s)
      /\ \A i \in 1 .. Len(s) : s[i] \in S
  BY LenProperties
<1>2. /\ u \in Seq(S) /\ Len(u) = n - 1
      /\ \A i \in 1 .. n - 1 : u[i] = s[i]
  <2>1. \A i \in 1 .. n - 1 : s[i] \in S
    BY <1>1
  <2>. QED  BY <1>1, <2>1, SubSeqProperties
<1>3. /\ v \in Seq(S) /\ Len(v) = Len(s) - n
      /\ \A i \in 1 .. Len(s) - n : v[i] = s[n + i]
  <2>1. \A i \in n + 1 .. Len(s) : s[i] \in S
    BY <1>1
  <2>2. n + 1 \in Int /\ Len(s) \in Int
    BY <1>1
  <2>3. /\ v \in Seq(S) /\ Len(v) = IF n + 1 <= Len(s) THEN Len(s) - (n + 1) + 1 ELSE 0
        /\ \A i \in 1 .. Len(s) - (n + 1) + 1 : v[i] = s[n + 1 + i - 1]
    BY <2>1, <2>2, SubSeqProperties
  <2>. QED  BY <1>1, <2>3
<1>. HIDE DEF u, v
<1>4. /\ u \o v \in Seq(S)
      /\ Len(u \o v) = Len(s) - 1
      /\ \A j \in 1 .. Len(s) - 1 : (u \o v)[j] = IF j <= n - 1 THEN u[j] ELSE v[j - (n - 1)]
  <2>1. /\ u \o v \in Seq(S)
        /\ Len(u \o v) = Len(u) + Len(v)
        /\ \A j \in 1 .. Len(u) + Len(v) :
             (u \o v)[j] = IF j <= Len(u) THEN u[j] ELSE v[j - Len(u)]
    BY <1>2, <1>3, ConcatProperties
  <2>2. Len(u) = n - 1 /\ Len(v) = Len(s) - n /\ Len(u) + Len(v) = Len(s) - 1
    BY <1>1, <1>2, <1>3
  <2>. QED  BY <2>1, <2>2
<1>5. DOMAIN (u \o v) = 1 .. Len(s) - 1
  BY <1>4, LenProperties
<1>6. ASSUME NEW j \in 1 .. Len(s) - 1
      PROVE  /\ j < n => j \in DOMAIN s /\ (u \o v)[j] = s[j]
             /\ j >= n => j + 1 \in DOMAIN s /\ (u \o v)[j] = s[j + 1]
  <2>1. CASE j < n
    <3>1. j \in 1 .. n - 1 /\ j <= n - 1 /\ j \in DOMAIN s
      BY <1>1, <2>1
    <3>2. (u \o v)[j] = u[j] /\ u[j] = s[j] /\ ~(j >= n)
      BY <1>1, <1>2, <1>4, <2>1, <3>1
    <3>. QED  BY <3>1, <3>2
  <2>2. CASE j >= n
    <3>1. j - (n - 1) \in 1 .. Len(s) - n /\ n + (j - (n - 1)) = j + 1
      BY <1>1, <2>2
    <3>2. ~(j < n) /\ ~(j <= n - 1) /\ j + 1 \in DOMAIN s
      BY <1>1, <2>2
    <3>3. (u \o v)[j] = v[j - (n - 1)]
      BY <1>4, <3>2
    <3>4. v[j - (n - 1)] = s[n + (j - (n - 1))]
      BY <1>3, <3>1
    <3>. QED  BY <3>1, <3>2, <3>3, <3>4
  <2>. QED  BY <1>1, <2>1, <2>2
<1>7. RemoveAt(s, n) = u \o v
  BY DEF RemoveAt, u, v
<1>. QED
  BY <1>4, <1>5, <1>6, <1>7

LEMMA RemoveAtElements ==
  ASSUME NEW S, NEW s \in Seq(S), NEW n \in DOMAIN s
  PROVE  \A j \in DOMAIN RemoveAt(s, n) : \E k \in DOMAIN s : RemoveAt(s, n)[j] = s[k]
<1> DEFINE t == RemoveAt(s, n)
<1>1. n \in Int /\ DOMAIN t \subseteq Int
  BY RemoveAtFacts, LenProperties
<1>2. \A j \in DOMAIN t : /\ j < n => j \in DOMAIN s /\ t[j] = s[j]
                          /\ j >= n => j + 1 \in DOMAIN s /\ t[j] = s[j + 1]
  BY RemoveAtFacts
<1>. HIDE DEF t
<1>3. \A j \in DOMAIN t : \E k \in DOMAIN s : t[j] = s[k]
  BY <1>1, <1>2
<1>. QED  BY <1>3 DEF t

LEMMA AppendOrigin ==
  ASSUME NEW S, NEW s \in Seq(S), NEW x \in S
  PROVE  /\ DOMAIN Append(s, x) = DOMAIN s \cup {Len(s) + 1}
         /\ Len(s) + 1 \notin DOMAIN s
         /\ \A i \in DOMAIN s : Append(s, x)[i] = s[i]
         /\ Append(s, x)[Len(s) + 1] = x
  BY LenProperties, AppendProperties

LEMMA TailOrigin ==
  ASSUME NEW S, NEW s \in Seq(S), s # <<>>
  PROVE  /\ 1 \in DOMAIN s /\ Head(s) = s[1]
         /\ \A i \in DOMAIN Tail(s) : i \in Nat \ {0} /\ i + 1 \in DOMAIN s /\ Tail(s)[i] = s[i + 1]
  BY LenProperties, HeadTailProperties, EmptySeq

LEMMA ConsOrigin ==
  ASSUME NEW S, NEW s \in Seq(S), NEW x \in S
  PROVE  \A i \in DOMAIN (<<x>> \o s) :
           \/ i = 1 /\ (<<x>> \o s)[i] = x
           \/ i - 1 \in DOMAIN s /\ i \in Nat /\ (<<x>> \o s)[i] = s[i - 1]
<1>1. <<x>> \in Seq(S) /\ Len(<<x>>) = 1 /\ <<x>>[1] = x
  OBVIOUS
<1>2. /\ DOMAIN s = 1 .. Len(s) /\ Len(s) \in Nat
      /\ DOMAIN (<<x>> \o s) = 1 .. 1 + Len(s)
      /\ \A i \in 1 .. 1 + Len(s) :
           (<<x>> \o s)[i] = IF i <= 1 THEN <<x>>[i] ELSE s[i - 1]
  BY <1>1, LenProperties, ConcatProperties
<1> SUFFICES ASSUME NEW i \in 1 .. 1 + Len(s)
             PROVE  \/ i = 1 /\ (<<x>> \o s)[i] = x
                    \/ i - 1 \in DOMAIN s /\ i \in Nat /\ (<<x>> \o s)[i] = s[i - 1]
  BY <1>2
<1>3. CASE i = 1  BY <1>1, <1>2, <1>3
<1>4. CASE i # 1  BY <1>2, <1>4
<1>. QED  BY <1>3, <1>4

LEMMA TailIn ==
  ASSUME NEW S, NEW s \in Seq(S), s # <<>>
  PROVE  \A y : In(y, s) <=> y = Head(s) \/ In(y, Tail(s))
<1>1. /\ Len(s) \in Nat \ {0} /\ DOMAIN s = 1 .. Len(s) /\ Head(s) = s[1]
      /\ DOMAIN Tail(s) = 1 .. Len(s) - 1
      /\ \A i \in 1 .. Len(s) - 1 : Tail(s)[i] = s[i + 1]
  BY HeadTailProperties, LenProperties, EmptySeq
<1>2. ASSUME NEW y, In(y, s) PROVE y = Head(s) \/ In(y, Tail(s))
  <2>1. PICK i \in 1 .. Len(s) : s[i] = y
    BY <1>1, <1>2 DEF In
  <2>2. i # 1 => i - 1 \in 1 .. Len(s) - 1 /\ Tail(s)[i - 1] = y
    BY <1>1, <2>1
  <2>. QED  BY <1>1, <2>1, <2>2 DEF In
<1>3. ASSUME NEW y, y = Head(s) \/ In(y, Tail(s)) PROVE In(y, s)
  <2>1. CASE y = Head(s)
    BY <1>1, <2>1 DEF In
  <2>2. CASE In(y, Tail(s))
    <3>1. PICK i \in 1 .. Len(s) - 1 : Tail(s)[i] = y
      BY <1>1, <2>2 DEF In
    <3>2. i + 1 \in DOMAIN s /\ s[i + 1] = y
      BY <1>1, <3>1
    <3>. QED  BY <3>2 DEF In
  <2>. QED  BY <1>3, <2>1, <2>2
<1>. QED  BY <1>2, <1>3

\* A table whose last block, src, gives way to one it did not have.
LEMMA TailReplaced ==
  ASSUME NEW bs \in Seq(Blocks), bs # <<>>, NoRepeat(bs), NEW dst \in Blocks, ~In(dst, bs)
  PROVE  LET src == bs[Len(bs)]
             new == [bs EXCEPT ![Len(bs)] = dst]
         IN  /\ src \in Blocks /\ In(src, bs) /\ src # dst
             /\ new \in Seq(Blocks) /\ Len(new) = Len(bs) /\ NoRepeat(new)
             /\ \A y : In(y, new) <=> (In(y, bs) /\ y # src) \/ y = dst
<1> DEFINE n == Len(bs)
           new == [bs EXCEPT ![n] = dst]
<1>1. n \in DOMAIN bs /\ DOMAIN bs = 1 .. n /\ \A k \in DOMAIN bs : bs[k] \in Blocks
  BY EmptySeq, ElementOfSeq, LenProperties
<1>2. /\ DOMAIN new = DOMAIN bs /\ new[n] = dst
      /\ \A k \in DOMAIN bs : k # n => new[k] = bs[k]
  BY <1>1
<1>3. new \in Seq(Blocks) /\ Len(new) = n
  BY <1>1, ExceptSeq
<1>4. \A k \in DOMAIN bs : bs[k] # dst /\ (bs[k] = bs[n] <=> k = n)
  BY <1>1 DEF In, NoRepeat
<1>. HIDE DEF new, n
<1>5. NoRepeat(new)
  BY <1>1, <1>2, <1>4 DEF NoRepeat
<1>6. ASSUME NEW y PROVE In(y, new) <=> (In(y, bs) /\ y # bs[n]) \/ y = dst
  <2>1. In(y, new) => (In(y, bs) /\ y # bs[n]) \/ y = dst
    BY <1>1, <1>2, <1>4 DEF In
  <2>2. (In(y, bs) /\ y # bs[n]) \/ y = dst => In(y, new)
    BY <1>1, <1>2, <1>4 DEF In
  <2>. QED  BY <2>1, <2>2
<1>. QED  BY <1>1, <1>3, <1>4, <1>5, <1>6 DEF new, n, In

\* An element is taken out and the others keep their order.
LEMMA RemoveKeepsOrder ==
  ASSUME NEW S, NEW s \in Seq(S), NEW n \in DOMAIN s
  PROVE  \E g \in [DOMAIN RemoveAt(s, n) -> DOMAIN s] :
           /\ \A j \in DOMAIN RemoveAt(s, n) : RemoveAt(s, n)[j] = s[g[j]]
           /\ \A i, j \in DOMAIN RemoveAt(s, n) : i < j => g[i] < g[j]
<1> DEFINE t == RemoveAt(s, n)
           g == [j \in DOMAIN t |-> IF j < n THEN j ELSE j + 1]
<1>1. /\ n \in Int /\ DOMAIN t \subseteq Int
      /\ \A j \in DOMAIN t : /\ j < n => j \in DOMAIN s /\ t[j] = s[j]
                             /\ j >= n => j + 1 \in DOMAIN s /\ t[j] = s[j + 1]
  BY RemoveAtFacts, LenProperties
<1>. HIDE DEF t
<1>2. g \in [DOMAIN t -> DOMAIN s]
  BY <1>1
<1>3. \A j \in DOMAIN t : t[j] = s[g[j]]
  BY <1>1
<1>4. \A i, j \in DOMAIN t : i < j => g[i] < g[j]
  BY <1>1
<1>. HIDE DEF g
<1>. QED  BY <1>2, <1>3, <1>4 DEF t

LEMMA PrefixGrows ==
  ASSUME NEW p \in Seq(Chunk), NEW n \in 1 .. Len(p)
  PROVE  /\ SubSeq(p, 1, n) = Append(SubSeq(p, 1, n - 1), p[n])
         /\ n = 1 => SubSeq(p, 1, n) = <<p[n]>>
<1>1. /\ Len(p) \in Nat /\ n \in Nat /\ 1 \in 1 .. Len(p) /\ n \in 1 .. Len(p)
      /\ p[n] \in Chunk /\ \A i \in 1 .. n - 1 : p[i] \in Chunk
  BY LenProperties
<1>2. SubSeq(p, 1, n) = SubSeq(p, 1, n - 1) \o <<p[n]>>
  BY <1>1, SubSeqRecursiveSecond
<1>3. SubSeq(p, 1, n - 1) \in Seq(Chunk)
  BY <1>1, SubSeqProperties
<1>4. Append(SubSeq(p, 1, n - 1), p[n]) = SubSeq(p, 1, n - 1) \o <<p[n]>>
  <2> DEFINE s == SubSeq(p, 1, n - 1)
  <2>1. s \in Seq(Chunk)
    BY <1>3
  <2>. HIDE DEF s
  <2>2. Append(s, p[n]) = s \o <<p[n]>>
    BY <1>1, <2>1, AppendIsConcat
  <2>. QED  BY <2>2 DEF s
<1>5. n = 1 => SubSeq(p, 1, n) = <<p[n]>>
  <2>1. SUFFICES ASSUME n = 1 PROVE SubSeq(p, 1, n) = <<p[n]>>
    OBVIOUS
  <2>2. SubSeq(p, 1, n - 1) = <<>>
    BY <2>1, SubSeqEmpty
  <2>3. <<p[n]>> \in Seq(Chunk)
    BY <1>1
  <2>. QED  BY <1>2, <2>2, <2>3, ConcatEmptySeq
<1>. QED  BY <1>2, <1>4, <1>5

LEMMA MapAppend ==
  ASSUME NEW T, NEW t \in Seq(T), NEW u \in Seq(T), NEW y \in T, Len(u) = Len(t) + 1,
         \A k \in DOMAIN t : u[k] = t[k], u[Len(t) + 1] = y
  PROVE  u = Append(t, y)
<1> DEFINE v == Append(t, y)
<1>1. /\ v \in Seq(T) /\ Len(v) = Len(t) + 1 /\ v[Len(t) + 1] = y
      /\ \A k \in 1 .. Len(t) : v[k] = t[k]
  BY AppendProperties
<1>2. Len(t) \in Nat /\ DOMAIN t = 1 .. Len(t)
  OBVIOUS
<1>. HIDE DEF v
<1>3. \A k \in 1 .. Len(u) : u[k] = v[k]
  BY <1>1, <1>2
<1>4. u = v
  BY <1>1, <1>3, SeqEqual
<1>. QED  BY <1>4 DEF v

LEMMA MapRemove ==
  ASSUME NEW T, NEW t \in Seq(T), NEW i \in DOMAIN t, NEW u \in Seq(T), Len(u) = Len(t) - 1,
         \A k \in DOMAIN u : u[k] = IF k < i THEN t[k] ELSE t[k + 1]
  PROVE  u = RemoveAt(t, i)
<1> DEFINE v == RemoveAt(t, i)
<1>1. Len(t) \in Nat /\ DOMAIN u = 1 .. Len(u)
  BY LenProperties
<1>2. /\ v \in Seq(T) /\ Len(v) = Len(t) - 1
      /\ \A j \in DOMAIN v : /\ j < i => v[j] = t[j]
                             /\ j >= i => v[j] = t[j + 1]
  BY <1>1, RemoveAtFacts
<1>. HIDE DEF v
<1>3. \A k \in 1 .. Len(u) : k \in DOMAIN u /\ k \in DOMAIN v /\ (k < i \/ k >= i)
  BY <1>1, <1>2
<1>4. \A k \in 1 .. Len(u) : u[k] = v[k]
  <2> TAKE k \in 1 .. Len(u)
  <2>1. CASE k < i  BY <1>2, <1>3, <2>1
  <2>2. CASE ~(k < i)  BY <1>2, <1>3, <2>2
  <2>. QED  BY <2>1, <2>2
<1>5. u = v
  BY <1>1, <1>2, <1>4, SeqEqual
<1>. QED  BY <1>5 DEF v

LEMMA SameUpper == ASSUME NEW k \in Nat, NEW l \in Nat, 1 .. k = 1 .. l PROVE k = l
  OBVIOUS

-----------------------------------------------------------------------------
(* What Keep leaves of a sequence.                                        *)

\* A set of naturals that holds 0 and, up to n, with every number the next one.
LEMMA UpTo ==
  ASSUME NEW n \in Nat, NEW T, 0 \in T,
         \A i \in 0 .. n : i + 1 <= n /\ i \in T => i + 1 \in T
  PROVE  0 .. n \subseteq T
<1> SUFFICES ASSUME ~(0 .. n \subseteq T) PROVE FALSE
  OBVIOUS
<1>1. PICK m \in (0 .. n) \ T : \A k \in (0 .. n) \ T : m <= k
  <2>1. (0 .. n) \ T \in SUBSET Nat /\ (0 .. n) \ T # {}
    OBVIOUS
  <2>. QED  BY <2>1, LeastNatural
<1>2. m # 0 /\ m - 1 \in 0 .. n /\ m - 1 + 1 = m
  OBVIOUS
<1>3. m - 1 \in T
  BY <1>1, <1>2
<1>. QED  BY <1>2, <1>3

\* The function that Keep recurs on exists.
Kept(s, K) ==
  CHOOSE f : f = [i \in 0 .. Len(s) |->
    IF i = 0 THEN <<>> ELSE IF s[i] \in K THEN Append(f[i - 1], s[i]) ELSE f[i - 1]]

KeptUpTo(s, K, m, f) ==
  f = [i \in 0 .. m |->
    IF i = 0 THEN <<>> ELSE IF s[i] \in K THEN Append(f[i - 1], s[i]) ELSE f[i - 1]]

LEMMA KeptExists ==
  ASSUME NEW S, NEW s \in Seq(S), NEW K
  PROVE  /\ Keep(s, K) = Kept(s, K)[Len(s)]
         /\ KeptUpTo(s, K, Len(s), Kept(s, K))
<1>1. Len(s) \in Nat
  OBVIOUS
<1> DEFINE T == {m \in Nat : \E f : KeptUpTo(s, K, m, f)}
<1>2. 0 \in T
  <2>1. KeptUpTo(s, K, 0, [i \in 0 .. 0 |-> <<>>])
    BY DEF KeptUpTo
  <2>. QED  BY <2>1
<1>3. ASSUME NEW m \in 0 .. Len(s), m + 1 <= Len(s), m \in T
      PROVE  m + 1 \in T
  <2>1. PICK f : KeptUpTo(s, K, m, f)
    BY <1>3
  <2> DEFINE g == [i \in 0 .. m + 1 |->
               IF i = m + 1 THEN IF s[i] \in K THEN Append(f[m], s[i]) ELSE f[m] ELSE f[i]]
  <2>2. \A i \in 0 .. m + 1 :
          g[i] = IF i = 0 THEN <<>> ELSE IF s[i] \in K THEN Append(g[i - 1], s[i]) ELSE g[i - 1]
    <3> TAKE i \in 0 .. m + 1
    <3>1. CASE i = m + 1
      <4>1. i - 1 = m /\ m \in 0 .. m + 1 /\ m # m + 1 /\ i # 0
        BY <3>1
      <4>2. g[m] = f[m]
        BY <4>1
      <4>. QED  BY <3>1, <4>1, <4>2
    <3>2. CASE i # m + 1
      <4>1. i \in 0 .. m /\ (i # 0 => i - 1 \in 0 .. m + 1 /\ i - 1 # m + 1)
        BY <3>2
      <4>2. g[i] = f[i] /\ (i # 0 => g[i - 1] = f[i - 1])
        BY <3>2, <4>1
      <4>3. f[i] = IF i = 0 THEN <<>> ELSE IF s[i] \in K THEN Append(f[i - 1], s[i]) ELSE f[i - 1]
        BY <2>1, <4>1 DEF KeptUpTo
      <4>. QED  BY <4>2, <4>3
    <3>. QED  BY <3>1, <3>2
  <2>3. KeptUpTo(s, K, m + 1, g)
    <3>1. g = [i \in 0 .. m + 1 |-> g[i]]
      OBVIOUS
    <3>. HIDE DEF g
    <3>. QED  BY <2>2, <3>1 DEF KeptUpTo
  <2>. HIDE DEF g
  <2>. QED  BY <2>3
<1>4. Len(s) \in T
  <2>. HIDE DEF T
  <2>1. PICK n \in Nat : n = Len(s)
    BY <1>1
  <2>2. \A i \in 0 .. n : i + 1 <= n /\ i \in T => i + 1 \in T
    BY ONLY <1>3, <2>1
  <2>3. 0 .. n \subseteq T
    BY ONLY <1>2, <2>2, n \in Nat, UpTo
  <2>. QED  BY ONLY <2>1, <2>3, n \in Nat
<1>5. KeptUpTo(s, K, Len(s), Kept(s, K))
  <2>1. \E f : KeptUpTo(s, K, Len(s), f)
    BY <1>4
  <2>. QED  BY <2>1 DEF KeptUpTo, Kept
<1>6. Keep(s, K) = Kept(s, K)[Len(s)]
  BY DEF Keep, Kept
<1>. QED  BY <1>5, <1>6

\* Keep goes through the sequence once.
LEMMA KeepSteps ==
  ASSUME NEW S, NEW s \in Seq(S), NEW K, NEW n \in Nat, n = Len(s)
  PROVE  \E f :
           /\ f[0] = <<>> /\ f[n] = Keep(s, K)
           /\ \A m \in 1 .. n : f[m] = IF s[m] \in K THEN Append(f[m - 1], s[m]) ELSE f[m - 1]
<1> DEFINE f == Kept(s, K)
<1>1. Keep(s, K) = f[n] /\ KeptUpTo(s, K, n, f)
  BY KeptExists
<1>. HIDE DEF f
<1>2. f = [i \in 0 .. n |->
        IF i = 0 THEN <<>> ELSE IF s[i] \in K THEN Append(f[i - 1], s[i]) ELSE f[i - 1]]
  BY <1>1 DEF KeptUpTo
<1>3. 0 \in 0 .. n /\ \A m \in 1 .. n : m \in 0 .. n /\ m # 0
  OBVIOUS
<1>4. f[0] = <<>>
  BY ONLY <1>2, <1>3
<1>5. \A m \in 1 .. n : f[m] = IF s[m] \in K THEN Append(f[m - 1], s[m]) ELSE f[m - 1]
  BY ONLY <1>2, <1>3
<1>. QED  BY <1>1, <1>4, <1>5

\* Keep leaves alone what is kept, and does not see what is not.
LEMMA KeepAll ==
  ASSUME NEW S, NEW s \in Seq(S), NEW K, \A k \in DOMAIN s : s[k] \in K
  PROVE  Keep(s, K) = s
<1>1. PICK n \in Nat : n = Len(s)
  OBVIOUS
<1>2. PICK f :
        /\ f[0] = <<>> /\ f[n] = Keep(s, K)
        /\ \A m \in 1 .. n : f[m] = IF s[m] \in K THEN Append(f[m - 1], s[m]) ELSE f[m - 1]
  BY <1>1, KeepSteps
<1> DEFINE T == {m \in Nat : f[m] = SubSeq(s, 1, m)}
<1>3. 0 \in T
  <2>1. SubSeq(s, 1, 0) = <<>>
    OBVIOUS
  <2>. QED  BY <1>2, <2>1
<1>4. ASSUME NEW m \in 0 .. n, m + 1 <= n, m \in T PROVE m + 1 \in T
  <2>1. m \in Nat /\ m + 1 \in 1 .. n /\ m + 1 - 1 = m /\ m + 1 \in Nat
    BY <1>4
  <2>2. s[m + 1] \in K
    BY <1>1, <2>1
  <2>3. f[m + 1] = Append(SubSeq(s, 1, m), s[m + 1])
    <3>1. f[m] = SubSeq(s, 1, m)
      BY <1>4
    <3>2. f[m + 1] = IF s[m + 1] \in K THEN Append(f[m + 1 - 1], s[m + 1]) ELSE f[m + 1 - 1]
      BY <1>2, <2>1
    <3>. QED  BY <2>1, <2>2, <3>1, <3>2
  <2>4. Append(SubSeq(s, 1, m), s[m + 1]) = SubSeq(s, 1, m + 1)
    BY <1>1, <2>1
  <2>. QED  BY <2>1, <2>3, <2>4
<1>5. n \in T
  <2>. HIDE DEF T
  <2>1. \A m \in 0 .. n : m + 1 <= n /\ m \in T => m + 1 \in T
    BY ONLY <1>4
  <2>2. 0 .. n \subseteq T
    BY ONLY <1>3, <2>1, n \in Nat, UpTo
  <2>. QED  BY ONLY <2>2, n \in Nat
<1>6. SubSeq(s, 1, n) = s
  BY <1>1
<1>. QED  BY <1>2, <1>5, <1>6

LEMMA KeepSkips ==
  ASSUME NEW S, NEW s \in Seq(S), NEW K, NEW i \in DOMAIN s, s[i] \notin K
  PROVE  Keep(RemoveAt(s, i), K) = Keep(s, K)
<1>1. PICK n \in Nat : n = Len(s) - 1
  BY LenProperties
<1>2. PICK t \in Seq(S) :
        /\ t = RemoveAt(s, i) /\ n = Len(t)
        /\ \A j \in 1 .. n : t[j] = IF j < i THEN s[j] ELSE s[j + 1]
  <2>1. /\ RemoveAt(s, i) \in Seq(S) /\ Len(RemoveAt(s, i)) = n
        /\ \A j \in DOMAIN RemoveAt(s, i) : /\ j < i => RemoveAt(s, i)[j] = s[j]
                                            /\ j >= i => RemoveAt(s, i)[j] = s[j + 1]
    BY <1>1, RemoveAtFacts
  <2>2. PICK t : t = RemoveAt(s, i)
    OBVIOUS
  <2>3. DOMAIN t = 1 .. n /\ i \in Int
    BY <2>1, <2>2, LenProperties
  <2>4. ASSUME NEW j \in 1 .. n PROVE t[j] = IF j < i THEN s[j] ELSE s[j + 1]
    <3>1. j < i \/ j >= i
      BY <2>3
    <3>. QED  BY <2>1, <2>2, <2>3, <3>1
  <2>. QED  BY <2>1, <2>2, <2>4
<1>3. n + 1 = Len(s) /\ n + 1 \in Nat /\ i \in 1 .. n + 1
  BY <1>1, LenProperties
<1>4. PICK f :
        /\ f[0] = <<>> /\ f[n + 1] = Keep(s, K)
        /\ \A m \in 1 .. n + 1 : f[m] = IF s[m] \in K THEN Append(f[m - 1], s[m]) ELSE f[m - 1]
  BY <1>3, KeepSteps
<1>5. PICK g :
        /\ g[0] = <<>> /\ g[n] = Keep(t, K)
        /\ \A m \in 1 .. n : g[m] = IF t[m] \in K THEN Append(g[m - 1], t[m]) ELSE g[m - 1]
  <2>1. n = Len(t)
    BY <1>2
  <2>. QED  BY ONLY <2>1, t \in Seq(S), n \in Nat, KeepSteps
<1> DEFINE T == {m \in Nat : (m < i => g[m] = f[m]) /\ (m >= i => g[m] = f[m + 1])}
<1>6. 0 \in T
  BY <1>3, <1>4, <1>5
<1>7. f[i] = f[i - 1]
  BY <1>3, <1>4
<1>8. ASSUME NEW m \in 0 .. n, m + 1 <= n, m \in T PROVE m + 1 \in T
  <2>1. /\ m \in Nat /\ m + 1 \in 1 .. n /\ m + 1 \in 1 .. n + 1 /\ m + 2 \in 1 .. n + 1
        /\ m + 1 - 1 = m /\ m + 2 - 1 = m + 1 /\ m + 1 + 1 = m + 2
    BY <1>8
  <2>2. g[m + 1] = IF t[m + 1] \in K THEN Append(g[m], t[m + 1]) ELSE g[m]
    BY <1>5, <2>1
  <2>3. f[m + 1] = IF s[m + 1] \in K THEN Append(f[m], s[m + 1]) ELSE f[m]
    BY <1>4, <2>1
  <2>4. f[m + 2] = IF s[m + 2] \in K THEN Append(f[m + 1], s[m + 2]) ELSE f[m + 1]
    BY <1>4, <2>1
  <2>5. t[m + 1] = IF m + 1 < i THEN s[m + 1] ELSE s[m + 2]
    BY <1>2, <2>1
  <2>6. CASE m + 1 < i
    <3>1. g[m + 1] = f[m + 1]
      <4>1. g[m] = f[m]
        BY <1>3, <1>8, <2>1, <2>6
      <4>. QED  BY <2>2, <2>3, <2>5, <2>6, <4>1
    <3>. QED  BY <1>3, <2>1, <2>6, <3>1
  <2>7. CASE ~(m + 1 < i)
    <3>1. g[m] = f[m + 1]
      <4>1. CASE m + 1 = i
        <5>1. g[m] = f[m]
          BY <1>3, <1>8, <2>1, <4>1
        <5>2. i - 1 = m
          BY <2>1, <4>1
        <5>. QED  BY <1>7, <4>1, <5>1, <5>2
      <4>2. CASE m + 1 # i
        <5>1. m >= i
          BY <1>3, <2>1, <2>7, <4>2
        <5>. QED  BY <1>8, <5>1
      <4>. QED  BY <4>1, <4>2
    <3>2. g[m + 1] = f[m + 2]
      BY <2>2, <2>4, <2>5, <2>7, <3>1
    <3>. QED  BY <2>1, <2>7, <3>2
  <2>. QED  BY <2>6, <2>7
<1>9. n \in T
  <2>. HIDE DEF T
  <2>1. \A m \in 0 .. n : m + 1 <= n /\ m \in T => m + 1 \in T
    BY ONLY <1>8
  <2>2. 0 .. n \subseteq T
    BY ONLY <1>6, <2>1, n \in Nat, UpTo
  <2>. QED  BY ONLY <2>2, n \in Nat
<1>10. g[n] = f[n + 1]
  <2>1. CASE n < i
    <3>1. i = n + 1 /\ i - 1 = n
      BY <1>3, <2>1
    <3>. QED  BY <1>7, <1>9, <2>1, <3>1
  <2>2. CASE ~(n < i)
    <3>1. n >= i
      BY <1>3, <2>2
    <3>. QED  BY <1>9, <3>1
  <2>. QED  BY <2>1, <2>2
<1>. QED  BY <1>2, <1>4, <1>5, <1>10

-----------------------------------------------------------------------------
(* What an operation takes from the pool.                                 *)

\* How a count changes with its set.
LEMMA CountChange ==
  ASSUME NEW S, NEW x, IsFiniteSet(S)
  PROVE  /\ Cardinality(S) \in Nat
         /\ x \notin S => Cardinality(S \cup {x}) = Cardinality(S) + 1
         /\ x \in S => Cardinality(S \ {x}) = Cardinality(S) - 1
         /\ \A y : x \in S /\ y \notin S => Cardinality((S \ {x}) \cup {y}) = Cardinality(S)
<1>1. Cardinality(S) \in Nat
  BY FS_CardinalityType
<1>2. x \notin S => Cardinality(S \cup {x}) = Cardinality(S) + 1
  BY FS_AddElement
<1>3. IsFiniteSet(S \ {x}) /\ (x \in S => Cardinality(S \ {x}) = Cardinality(S) - 1)
  BY FS_RemoveElement
<1>4. ASSUME NEW y, x \in S, y \notin S
      PROVE  Cardinality((S \ {x}) \cup {y}) = Cardinality(S)
  <2>1. Cardinality((S \ {x}) \cup {y}) = Cardinality(S \ {x}) + 1
    BY <1>3, <1>4, FS_AddElement
  <2>. QED  BY <1>1, <1>3, <1>4, <2>1
<1>. QED  BY <1>1, <1>2, <1>3, <1>4

\* What an allocated block is.
LEMMA AllocatedFacts ==
  ASSUME AllocInv, NEW x \in Blocks, Allocate(x)
  PROVE  /\ x \notin DOMAIN by_block' /\ ref_counts'[x] = 1 /\ ref_counts[x] = 0
         /\ DOMAIN by_block' \subseteq DOMAIN by_block
<1>1. free_list \in Seq(Blocks) /\ evictable \in Seq(Blocks)
      /\ ref_counts \in [Blocks -> 0 .. MaxRefCount]
  BY DEF AllocInv, AllocTypeOK
<1>2. CASE free_list # <<>> /\ x = free_list[Len(free_list)] /\ by_block' = by_block
  <2>1. In(x, free_list)
    BY <1>1, <1>2, FrontElements
  <2>. QED  BY <1>1, <1>2, <2>1 DEF Allocate, AllocInv, PoolPartition, is_cached
<1>3. CASE Evict(x)
  <2>1. In(x, evictable)
    BY <1>1, <1>3, TailElements DEF Evict
  <2>2. by_block' = [c \in DOMAIN by_block \ {x} |-> by_block[c]]
    BY <1>3 DEF Evict, Unregister
  <2>. QED  BY <1>1, <2>1, <2>2 DEF Allocate, AllocInv, PoolPartition, is_cached
<1>. QED  BY <1>2, <1>3 DEF Allocate

\* An entry in the index is below the next one.
LEMMA EntriesBelow ==
  ASSUME AllocInv
  PROVE  /\ next_entry \in Nat \ {0}
         /\ \A k \in DOMAIN by_key : by_key[k].entry \in 0 .. next_entry - 1
         /\ \A b \in DOMAIN by_block : by_block[b].entry \in 0 .. next_entry - 1
<1>1. IndexInv /\ next_entry \in Nat \ {0}
  BY AllocInvParts DEF IndexInv
<1>2. ASSUME NEW k \in DOMAIN by_key
      PROVE  by_key[k].entry \in 0 .. next_entry - 1
  <2>1. by_key[k].entry \in Nat /\ by_key[k].entry < next_entry
    BY <1>1, AllocatorAssumption DEF IndexInv, EntriesOrdered, Entry
  <2>. QED  BY <1>1, <2>1
<1>3. ASSUME NEW b \in DOMAIN by_block
      PROVE  by_block[b].entry \in 0 .. next_entry - 1
  <2>1. /\ by_block[b].key \in DOMAIN by_key
        /\ by_key[by_block[b].key] = [entry |-> by_block[b].entry, block |-> b]
    BY <1>1 DEF IndexInv, IndexConsistent
  <2>. QED  BY <1>2, <2>1
<1>. QED  BY <1>1, <1>2, <1>3

\* What a step other than cache_prompt's does to the index.
IndexShrinks ==
  /\ DOMAIN by_block' \subseteq DOMAIN by_block
  /\ \A b \in DOMAIN by_block' : by_block'[b] = by_block[b]
  /\ \A b \in DOMAIN by_block : ref_counts[b] # 0 => b \in DOMAIN by_block'
  /\ DOMAIN by_key' \subseteq DOMAIN by_key

\* The matched blocks that are still to be reclaimed.
UnownedIn(s) == {b \in Blocks : In(b, s) /\ ref_counts[b] = 0}

UnownedNext(s) == {b \in Blocks : In(b, s) /\ ref_counts'[b] = 0}

\* What the pool's operations do to the number of free blocks.
LEMMA FreeChange ==
  ASSUME AllocInv
  PROVE  /\ num_free \in Nat
         /\ ~CanAllocate => num_free = 0
         /\ \A x \in Blocks :
              /\ Allocate(x) => num_free' = num_free - 1
              /\ Incref(x) => num_free' = num_free
              /\ Reclaim(x) => num_free' = num_free - 1
              /\ Decref(x) => num_free' >= num_free /\ num_free' \in Nat
<1>1. /\ free_list \in Seq(Blocks) /\ evictable \in Seq(Blocks)
      /\ Len(free_list) \in Nat /\ Len(evictable) \in Nat
  BY LenProperties DEF AllocInv, AllocTypeOK
<1>2. ~CanAllocate => num_free = 0
  BY DEF CanAllocate, num_free
<1>3. ASSUME NEW x \in Blocks, Allocate(x) PROVE num_free' = num_free - 1
  <2>1. CASE /\ free_list # <<>> /\ evictable' = evictable
             /\ free_list' = SubSeq(free_list, 1, Len(free_list) - 1)
    <3>1. Len(free_list) \in Nat \ {0}
      BY <1>1, <2>1, EmptySeq
    <3>2. \A i \in 1 .. Len(free_list) - 1 : free_list[i] \in Blocks
      BY <1>1
    <3>3. Len(free_list') = IF 1 <= Len(free_list) - 1 THEN Len(free_list) - 1 - 1 + 1 ELSE 0
      BY <2>1, <3>1, <3>2, SubSeqProperties
    <3>4. \A n \in Nat \ {0} : (IF 1 <= n - 1 THEN n - 1 - 1 + 1 ELSE 0) = n - 1
      OBVIOUS
    <3>5. Len(free_list') = Len(free_list) - 1
      BY <3>1, <3>3, <3>4
    <3>. QED  BY <1>1, <2>1, <3>5 DEF num_free
  <2>2. CASE evictable # <<>> /\ evictable' = Tail(evictable) /\ free_list' = free_list
    <3>1. Len(evictable') = Len(evictable) - 1
      BY <1>1, <2>2, HeadTailProperties
    <3>. QED  BY <1>1, <2>2, <3>1 DEF num_free
  <2>. QED  BY <1>3, <2>1, <2>2 DEF Allocate, Evict
<1>4. ASSUME NEW x \in Blocks, Incref(x) PROVE num_free' = num_free
  BY <1>4 DEF Incref, num_free
<1>5. ASSUME NEW x \in Blocks, Reclaim(x) PROVE num_free' = num_free - 1
  <2>1. PICK i \in DOMAIN evictable :
          evictable' = [j \in 1 .. Len(evictable) - 1 |->
                          IF j < i THEN evictable[j] ELSE evictable[j + 1]]
    BY <1>5 DEF Reclaim, Unlink
  <2>2. Len(evictable) - 1 \in Nat
    BY <1>1, LenProperties
  <2>3. Len(evictable') = Len(evictable) - 1
    BY <2>1, <2>2
  <2>4. free_list' = free_list
    BY <1>5 DEF Reclaim
  <2>. QED  BY <1>1, <2>3, <2>4 DEF num_free
<1>6. ASSUME NEW x \in Blocks, Decref(x) PROVE num_free' >= num_free /\ num_free' \in Nat
  <2>1. \/ evictable' = Append(evictable, x) /\ free_list' = free_list
        \/ free_list' = Append(free_list, x) /\ evictable' = evictable
        \/ UNCHANGED <<free_list, evictable>>
    BY <1>6 DEF Decref
  <2>2. /\ Len(Append(evictable, x)) = Len(evictable) + 1
        /\ Len(Append(free_list, x)) = Len(free_list) + 1
    BY <1>1, AppendProperties
  <2>. QED  BY <1>1, <2>1, <2>2 DEF num_free
<1>. QED  BY <1>1, <1>2, <1>3, <1>4, <1>5, <1>6 DEF num_free

\* A match leaves unowned at most what it counts as evictable.
LEMMA UnownedHit ==
  ASSUME AllocInv, NEW hit \in Seq(Blocks), \A i \in DOMAIN hit : is_cached(hit[i])
  PROVE  LET C == {i \in DOMAIN hit : In(hit[i], evictable)}
         IN  /\ Cardinality(C) \in Nat /\ Cardinality(UnownedIn(hit)) \in Nat
             /\ Cardinality(UnownedIn(hit)) <= Cardinality(C)
<1> DEFINE C == {i \in DOMAIN hit : In(hit[i], evictable)}
           U == UnownedIn(hit)
           f == [i \in C |-> hit[i]]
<1>1. DOMAIN hit = 1 .. Len(hit) /\ Len(hit) \in Nat
  BY LenProperties
<1>2. IsFiniteSet(C)
  <2>1. IsFiniteSet(DOMAIN hit)
    BY <1>1, FS_Interval
  <2>. QED  BY <2>1, FS_Subset
<1>3. \A i \in DOMAIN hit : hit[i] \in Blocks /\ (ref_counts[hit[i]] = 0 <=> In(hit[i], evictable))
  <2>1. \A i \in DOMAIN hit : hit[i] \in Blocks
    OBVIOUS
  <2>2. \A b \in Blocks : is_cached(b) => (ref_counts[b] = 0 <=> In(b, evictable))
    BY DEF AllocInv, PoolPartition
  <2>. QED  BY <2>1, <2>2
<1>4. f \in Surjection(C, U)
  <2>1. \A i \in C : f[i] \in U
    BY <1>3 DEF UnownedIn, In
  <2>2. \A b \in U : \E i \in C : f[i] = b
    BY <1>3 DEF UnownedIn, In
  <2>. QED  BY <2>1, <2>2 DEF Surjection
<1>5. IsFiniteSet(U) /\ Cardinality(U) <= Cardinality(C)
  <2>. HIDE DEF f, C, U
  <2>. QED  BY <1>2, <1>4, FS_Surjection
<1>. QED  BY <1>2, <1>5, FS_CardinalityType

LEMMA UnownedFinite ==
  ASSUME NEW s
  PROVE  IsFiniteSet(UnownedIn(s)) /\ Cardinality(UnownedIn(s)) \in Nat
<1>1. IsFiniteSet(Blocks)
  BY AllocatorAssumption, FS_Interval DEF Blocks
<1>2. UnownedIn(s) \in SUBSET Blocks
  BY DEF UnownedIn
<1>. QED  BY <1>1, <1>2, FS_Subset, FS_CardinalityType

LEMMA ReclaimLeaves ==
  ASSUME AllocInv, NEW x, Reclaim(x)
  PROVE  num_free # 0
<1>1. free_list \in Seq(Blocks) /\ evictable \in Seq(Blocks) /\ DOMAIN evictable # {}
  BY DEF AllocInv, AllocTypeOK, Reclaim
<1>2. Len(evictable) \in Nat /\ Len(free_list) \in Nat /\ DOMAIN evictable = 1 .. Len(evictable)
  BY <1>1, LenProperties
<1>. QED  BY <1>1, <1>2 DEF num_free

LEMMA AllocateLeaves ==
  ASSUME AllocInv, NEW x \in Blocks, Allocate(x)
  PROVE  num_free # 0
<1>1. free_list \in Seq(Blocks) /\ evictable \in Seq(Blocks) /\ (free_list # <<>> \/ evictable # <<>>)
  BY DEF AllocInv, AllocTypeOK, Allocate, Evict
<1>2. /\ Len(evictable) \in Nat /\ Len(free_list) \in Nat
      /\ Len(evictable) = 0 => evictable = <<>>
      /\ Len(free_list) = 0 => free_list = <<>>
  BY <1>1, EmptySeq, LenProperties
<1>. QED  BY <1>1, <1>2 DEF num_free

-----------------------------------------------------------------------------
(* The order in which the pool forgets blocks.                            *)

EntryOf(b) == by_block[b].entry

ParentOf(b) == by_block[b].key.parent

\* b starts a prompt, or the block it continues is registered, is owned while
\* b is, and is evicted after b.
ParentKept(b) ==
  \/ ParentOf(b) = Root
  \/ \E c \in DOMAIN by_block :
       /\ EntryOf(c) = ParentOf(b)
       /\ ref_counts[b] # 0 => ref_counts[c] # 0
       /\ \A i, j \in DOMAIN evictable : evictable[i] = b /\ evictable[j] = c => i < j

ParentsKept == \A b \in DOMAIN by_block : ParentKept(b)

LEMMA EntryFacts ==
  ASSUME AllocInv
  PROVE  /\ \A b \in DOMAIN by_block :
              /\ b \in Blocks /\ EntryOf(b) \in Nat /\ ParentOf(b) \in Nat
              /\ ParentOf(b) < EntryOf(b) /\ EntryOf(b) < next_entry
              /\ by_block[b].key \in Key /\ by_block[b].key \in DOMAIN by_key
         /\ \A b, c \in DOMAIN by_block : EntryOf(b) = EntryOf(c) => b = c
         /\ next_entry \in Nat
<1>1. /\ DOMAIN by_block \subseteq Blocks /\ next_entry \in Nat
      /\ by_block \in [DOMAIN by_block -> [entry : Entry, key : Key]]
  BY AllocatorAssumption DEF AllocInv, AllocTypeOK
<1>2. \A b \in DOMAIN by_block :
        /\ by_block[b].key \in DOMAIN by_key
        /\ by_key[by_block[b].key].entry = EntryOf(b)
        /\ by_key[by_block[b].key].block = b
  <2> SUFFICES ASSUME NEW b \in DOMAIN by_block
               PROVE  /\ by_block[b].key \in DOMAIN by_key
                      /\ by_key[by_block[b].key].entry = EntryOf(b)
                      /\ by_key[by_block[b].key].block = b
    OBVIOUS
  <2>1. /\ by_block[b].key \in DOMAIN by_key
        /\ by_key[by_block[b].key] = [entry |-> by_block[b].entry, block |-> b]
    BY DEF AllocInv, IndexConsistent
  <2>. QED  BY <2>1 DEF EntryOf
<1>3. ASSUME NEW b \in DOMAIN by_block
      PROVE  /\ b \in Blocks /\ EntryOf(b) \in Nat /\ ParentOf(b) \in Nat
             /\ ParentOf(b) < EntryOf(b) /\ EntryOf(b) < next_entry
             /\ by_block[b].key \in Key /\ by_block[b].key \in DOMAIN by_key
  <2>1. by_block[b] \in [entry : Entry, key : Key]
    BY <1>1
  <2>2. EntryOf(b) \in Nat /\ ParentOf(b) \in Nat /\ by_block[b].key \in Key
    BY <2>1 DEF EntryOf, ParentOf, Entry, Key
  <2>3. ParentOf(b) < EntryOf(b) /\ EntryOf(b) < next_entry
    <3>1. by_block[b].key \in DOMAIN by_key /\ by_key[by_block[b].key].entry = EntryOf(b)
      BY <1>2
    <3>. QED  BY <3>1 DEF AllocInv, EntriesOrdered, ParentOf
  <2>. QED  BY <1>1, <1>2, <2>2, <2>3
<1>4. ASSUME NEW b \in DOMAIN by_block, NEW c \in DOMAIN by_block, EntryOf(b) = EntryOf(c)
      PROVE  b = c
  <2>1. by_key[by_block[b].key].entry = by_key[by_block[c].key].entry
    BY <1>2, <1>4
  <2>2. by_block[b].key = by_block[c].key
    BY <1>2, <2>1 DEF AllocInv, EntriesOrdered
  <2>. QED  BY <1>2, <2>2
<1>. QED  BY <1>1, <1>3, <1>4

\* Unowned registered blocks are the evictable ones.
LEMMA EvictableBlocks ==
  ASSUME AllocInv
  PROVE  /\ evictable \in Seq(Blocks) /\ DOMAIN evictable = 1 .. Len(evictable)
         /\ Len(evictable) \in Nat /\ NoRepeat(evictable)
         /\ ref_counts \in [Blocks -> 0 .. MaxRefCount]
         /\ \A i \in DOMAIN evictable : evictable[i] \in Blocks /\ ref_counts[evictable[i]] = 0
         /\ \A b \in DOMAIN by_block : ref_counts[b] = 0 => In(b, evictable)
<1>1. evictable \in Seq(Blocks) /\ ref_counts \in [Blocks -> 0 .. MaxRefCount]
      /\ DOMAIN by_block \subseteq Blocks
  BY DEF AllocInv, AllocTypeOK
<1>2. \A i \in DOMAIN evictable : evictable[i] \in Blocks /\ In(evictable[i], evictable)
  BY <1>1 DEF In
<1>. QED  BY <1>1, <1>2, LenProperties DEF AllocInv, PoolPartition, is_cached

\* What allocation does to the index.
LEMMA AllocateForgets ==
  ASSUME AllocInv, NEW x \in Blocks, Allocate(x)
  PROVE  /\ DOMAIN by_block' = DOMAIN by_block \ {x}
         /\ \A b \in DOMAIN by_block' : by_block'[b] = by_block[b]
         /\ DOMAIN by_key' \subseteq DOMAIN by_key
         /\ ref_counts[x] = 0 /\ ref_counts' = [ref_counts EXCEPT ![x] = 1]
         /\ x \in DOMAIN by_block => 1 \in DOMAIN evictable /\ evictable[1] = x
         /\ \A i, j \in DOMAIN evictable' : \E k, l \in DOMAIN evictable :
              /\ evictable'[i] = evictable[k] /\ evictable'[j] = evictable[l]
              /\ k < l => i < j
<1>1. free_list \in Seq(Blocks) /\ evictable \in Seq(Blocks)
  BY DEF AllocInv, AllocTypeOK
<1>2. ref_counts[x] = 0 /\ ref_counts' = [ref_counts EXCEPT ![x] = 1]
  BY AllocatedFacts DEF Allocate
<1>3. CASE free_list # <<>> /\ x = free_list[Len(free_list)]
           /\ UNCHANGED <<evictable, by_key, by_block>>
  <2>1. In(x, free_list)
    BY <1>1, <1>3, FrontElements
  <2>2. x \notin DOMAIN by_block
    BY <2>1 DEF AllocInv, PoolPartition, is_cached
  <2>. QED  BY <1>2, <1>3, <2>2
<1>4. CASE Evict(x)
  <2>1. /\ evictable # <<>> /\ x = Head(evictable) /\ evictable' = Tail(evictable)
        /\ by_block' = [c \in DOMAIN by_block \ {x} |-> by_block[c]]
        /\ by_key' = [k \in DOMAIN by_key \ {by_block[x].key} |-> by_key[k]]
    BY <1>4 DEF Evict, Unregister
  <2>2. /\ 1 \in DOMAIN evictable /\ evictable[1] = x
        /\ \A i \in DOMAIN evictable' : i \in Nat /\ i + 1 \in DOMAIN evictable
                                        /\ evictable'[i] = evictable[i + 1]
    BY <1>1, <2>1, TailOrigin
  <2>3. ASSUME NEW i \in DOMAIN evictable', NEW j \in DOMAIN evictable'
        PROVE  \E k, l \in DOMAIN evictable :
                 /\ evictable'[i] = evictable[k] /\ evictable'[j] = evictable[l]
                 /\ k < l => i < j
    <3>1. i + 1 < j + 1 => i < j
      BY <2>2
    <3>. QED  BY <2>2, <3>1
  <2>. QED  BY <1>2, <2>1, <2>2, <2>3
<1>. QED  BY <1>3, <1>4 DEF Allocate

LEMMA ParentsAllocate ==
  ASSUME AllocInv, ParentsKept, NEW x \in Blocks, Allocate(x)
  PROVE  ParentsKept'
<1>1. /\ DOMAIN by_block' = DOMAIN by_block \ {x}
      /\ \A b \in DOMAIN by_block' : by_block'[b] = by_block[b]
      /\ ref_counts[x] = 0 /\ ref_counts' = [ref_counts EXCEPT ![x] = 1]
      /\ x \in DOMAIN by_block => 1 \in DOMAIN evictable /\ evictable[1] = x
  BY AllocateForgets
<1>2. \A i, j \in DOMAIN evictable' : \E k, l \in DOMAIN evictable :
        /\ evictable'[i] = evictable[k] /\ evictable'[j] = evictable[l]
        /\ k < l => i < j
  BY AllocateForgets
<1>3. ASSUME NEW b \in DOMAIN by_block', ParentOf(b) # Root
      PROVE  \E c \in DOMAIN by_block' :
               /\ EntryOf(c) = ParentOf(b)
               /\ ref_counts'[b] # 0 => ref_counts'[c] # 0
               /\ \A i, j \in DOMAIN evictable' : evictable'[i] = b /\ evictable'[j] = c => i < j
  <2>1. b \in DOMAIN by_block /\ b # x
    BY <1>1
  <2>2. PICK c \in DOMAIN by_block :
          /\ EntryOf(c) = ParentOf(b)
          /\ ref_counts[b] # 0 => ref_counts[c] # 0
          /\ \A i, j \in DOMAIN evictable : evictable[i] = b /\ evictable[j] = c => i < j
    BY <1>3, <2>1 DEF ParentsKept, ParentKept
  <2>3. c # x
    <3>1. SUFFICES ASSUME c = x PROVE FALSE
      OBVIOUS
    <3>2. ref_counts[b] = 0 /\ 1 \in DOMAIN evictable /\ evictable[1] = c
      BY <1>1, <2>2, <3>1
    <3>3. PICK i \in DOMAIN evictable : evictable[i] = b
      BY <2>1, <3>2, EvictableBlocks DEF In
    <3>4. i < 1 /\ i \in 1 .. Len(evictable)
      BY <2>2, <3>2, <3>3, EvictableBlocks
    <3>. QED  BY <3>4
  <2>4. /\ b \in Blocks /\ c \in Blocks /\ ref_counts \in [Blocks -> 0 .. MaxRefCount]
    BY <2>1, EntryFacts, EvictableBlocks
  <2>5. ref_counts'[b] = ref_counts[b] /\ ref_counts'[c] = ref_counts[c]
    BY <1>1, <2>1, <2>3, <2>4
  <2>6. \A i, j \in DOMAIN evictable' : evictable'[i] = b /\ evictable'[j] = c => i < j
    BY <1>2, <2>2
  <2>7. c \in DOMAIN by_block'
    BY <1>1, <2>3
  <2>. QED  BY <2>2, <2>5, <2>6, <2>7
<1>4. \A b \in DOMAIN by_block' : by_block'[b].entry = EntryOf(b)
                                  /\ by_block'[b].key.parent = ParentOf(b)
  BY <1>1 DEF EntryOf, ParentOf
<1>. QED  BY <1>3, <1>4 DEF ParentsKept, ParentKept, EntryOf, ParentOf

\* The index and the order of release stay, and so does who is owned.
LEMMA ParentsSame ==
  ASSUME ParentsKept, UNCHANGED <<by_block, evictable>>,
         \A b \in DOMAIN by_block : ref_counts'[b] # 0 <=> ref_counts[b] # 0
  PROVE  ParentsKept'
BY DEF ParentsKept, ParentKept, EntryOf, ParentOf

LEMMA ParentsIncref ==
  ASSUME AllocInv, ParentsKept, NEW x \in Blocks, Incref(x)
  PROVE  ParentsKept'
<1>1. /\ UNCHANGED <<by_block, evictable>> /\ ref_counts[x] > 0
      /\ ref_counts' = [ref_counts EXCEPT ![x] = @ + 1]
  BY DEF Incref
<1>2. /\ DOMAIN by_block \subseteq Blocks /\ ref_counts \in [Blocks -> 0 .. MaxRefCount]
      /\ MaxRefCount \in Nat
  BY AllocatorAssumption DEF AllocInv, AllocTypeOK
<1>3. \A b \in Blocks : ref_counts'[b] # 0 <=> ref_counts[b] # 0
  BY <1>1, <1>2
<1>. QED  BY <1>1, <1>2, <1>3, ParentsSame

\* A block is reclaimed only behind the block it continues.
LEMMA ParentsReclaim ==
  ASSUME AllocInv, ParentsKept, NEW x \in Blocks, Reclaim(x),
         x \in DOMAIN by_block /\ ParentOf(x) # Root =>
           \E c \in DOMAIN by_block : EntryOf(c) = ParentOf(x) /\ ref_counts[c] # 0
  PROVE  ParentsKept'
<1>1. PICK n \in DOMAIN evictable :
        evictable' = [j \in 1 .. Len(evictable) - 1 |->
                        IF j < n THEN evictable[j] ELSE evictable[j + 1]]
  BY DEF Reclaim, Unlink
<1>2. by_block' = by_block /\ ref_counts' = [ref_counts EXCEPT ![x] = 1]
  BY DEF Reclaim
<1>3. /\ DOMAIN evictable = 1 .. Len(evictable) /\ Len(evictable) \in Nat
      /\ ref_counts \in [Blocks -> 0 .. MaxRefCount]
      /\ \A i \in DOMAIN evictable : ref_counts[evictable[i]] = 0
  BY EvictableBlocks
<1>4. ASSUME NEW i \in DOMAIN evictable', NEW j \in DOMAIN evictable'
      PROVE  \E k, l \in DOMAIN evictable :
               /\ evictable'[i] = evictable[k] /\ evictable'[j] = evictable[l]
               /\ k < l => i < j
  <2> DEFINE k == IF i < n THEN i ELSE i + 1
             l == IF j < n THEN j ELSE j + 1
  <2>1. i \in 1 .. Len(evictable) - 1 /\ j \in 1 .. Len(evictable) - 1
    BY <1>1
  <2>2. k \in DOMAIN evictable /\ l \in DOMAIN evictable /\ (k < l => i < j)
    BY <1>3, <2>1
  <2>3. evictable'[i] = evictable[k] /\ evictable'[j] = evictable[l]
    BY <1>1, <2>1
  <2>. HIDE DEF k, l
  <2>. QED  BY <2>2, <2>3
<1>5. \A b \in DOMAIN by_block : b \in Blocks
  BY EntryFacts
<1>6. ASSUME NEW b \in DOMAIN by_block, ParentOf(b) # Root
      PROVE  \E c \in DOMAIN by_block :
               /\ EntryOf(c) = ParentOf(b)
               /\ ref_counts'[b] # 0 => ref_counts'[c] # 0
               /\ \A i, j \in DOMAIN evictable' : evictable'[i] = b /\ evictable'[j] = c => i < j
  <2>1. CASE b = x
    <3>1. PICK c \in DOMAIN by_block : EntryOf(c) = ParentOf(x) /\ ref_counts[c] # 0
      BY <1>6, <2>1
    <3>2. ref_counts'[c] # 0
      BY <1>2, <1>3, <1>5, <3>1
    <3>3. \A j \in DOMAIN evictable' : evictable'[j] # c
      BY <1>3, <1>4, <3>1
    <3>. QED  BY <2>1, <3>1, <3>2, <3>3
  <2>2. CASE b # x
    <3>1. PICK c \in DOMAIN by_block :
            /\ EntryOf(c) = ParentOf(b)
            /\ ref_counts[b] # 0 => ref_counts[c] # 0
            /\ \A i, j \in DOMAIN evictable : evictable[i] = b /\ evictable[j] = c => i < j
      BY <1>6 DEF ParentsKept, ParentKept
    <3>2. ref_counts'[b] # 0 => ref_counts'[c] # 0
      BY <1>2, <1>3, <1>5, <2>2, <3>1
    <3>3. \A i, j \in DOMAIN evictable' : evictable'[i] = b /\ evictable'[j] = c => i < j
      BY <1>4, <3>1
    <3>. QED  BY <3>1, <3>2, <3>3
  <2>. QED  BY <2>1, <2>2
<1>. QED  BY <1>2, <1>6 DEF ParentsKept, ParentKept, EntryOf, ParentOf

\* A block is released for the last time only when no owned block continues it.
LEMMA ParentsDecref ==
  ASSUME AllocInv, ParentsKept, NEW x \in Blocks, Decref(x),
         ref_counts[x] = 1 /\ x \in DOMAIN by_block =>
           \A b \in DOMAIN by_block : ref_counts[b] # 0 => ParentOf(b) # EntryOf(x)
  PROVE  ParentsKept'
<1>1. /\ by_block' = by_block /\ ref_counts' = [ref_counts EXCEPT ![x] = @ - 1]
      /\ ref_counts[x] > 0
      /\ \/ evictable' = evictable
         \/ ref_counts[x] = 1 /\ evictable' = Append(evictable, x)
  BY DEF Decref
<1>2. /\ DOMAIN evictable = 1 .. Len(evictable) /\ Len(evictable) \in Nat
      /\ evictable \in Seq(Blocks) /\ ref_counts \in [Blocks -> 0 .. MaxRefCount]
      /\ \A i \in DOMAIN evictable : ref_counts[evictable[i]] = 0
  BY EvictableBlocks
<1>3. /\ MaxRefCount \in Nat
      /\ \A b \in DOMAIN by_block : /\ b \in Blocks /\ EntryOf(b) \in Nat /\ ParentOf(b) \in Nat
                                    /\ ParentOf(b) < EntryOf(b)
  BY AllocatorAssumption, EntryFacts
<1>4. ASSUME NEW b \in DOMAIN by_block, ParentOf(b) # Root
      PROVE  \E c \in DOMAIN by_block :
               /\ EntryOf(c) = ParentOf(b)
               /\ ref_counts'[b] # 0 => ref_counts'[c] # 0
               /\ \A i, j \in DOMAIN evictable' : evictable'[i] = b /\ evictable'[j] = c => i < j
  <2>1. PICK c \in DOMAIN by_block :
          /\ EntryOf(c) = ParentOf(b)
          /\ ref_counts[b] # 0 => ref_counts[c] # 0
          /\ \A i, j \in DOMAIN evictable : evictable[i] = b /\ evictable[j] = c => i < j
    BY <1>4 DEF ParentsKept, ParentKept
  <2>2. b \in Blocks /\ c \in Blocks /\ b # c
    BY <1>3, <2>1
  <2>3. ref_counts'[b] # 0 => ref_counts'[c] # 0
    <3>1. ref_counts'[b] # 0 => ref_counts[b] # 0
      BY <1>1, <1>2, <1>3, <2>2
    <3>2. ref_counts[b] # 0 => ~(ref_counts[c] = 1 /\ c = x)
      BY <2>1
    <3>3. ref_counts[c] # 0 /\ ~(ref_counts[c] = 1 /\ c = x) => ref_counts'[c] # 0
      BY <1>1, <1>2, <1>3, <2>2
    <3>. QED  BY <2>1, <3>1, <3>2, <3>3
  <2>4. CASE evictable' = evictable
    BY <2>1, <2>3, <2>4
  <2>5. CASE ref_counts[x] = 1 /\ evictable' = Append(evictable, x)
    <3>1. /\ DOMAIN evictable' = DOMAIN evictable \cup {Len(evictable) + 1}
          /\ \A i \in DOMAIN evictable : evictable'[i] = evictable[i]
          /\ evictable'[Len(evictable) + 1] = x
      BY <1>2, <2>5, AppendOrigin
    <3>2. ASSUME NEW i \in DOMAIN evictable', NEW j \in DOMAIN evictable',
                 evictable'[i] = b, evictable'[j] = c
          PROVE  i < j
      <4>1. CASE j = Len(evictable) + 1
        <5>1. i \in DOMAIN evictable
          BY <2>2, <3>1, <3>2, <4>1
        <5>. QED  BY <1>2, <4>1, <5>1
      <4>2. CASE j \in DOMAIN evictable
        <5>1. ref_counts[c] = 0 /\ evictable[j] = c
          BY <1>2, <3>1, <3>2, <4>2
        <5>2. i \in DOMAIN evictable
          BY <2>1, <2>5, <3>1, <3>2, <5>1
        <5>. QED  BY <2>1, <3>1, <3>2, <5>1, <5>2
      <4>. QED  BY <3>1, <4>1, <4>2
    <3>. QED  BY <2>1, <2>3, <3>2
  <2>. QED  BY <1>1, <2>4, <2>5
<1>. QED  BY <1>1, <1>4 DEF ParentsKept, ParentKept, EntryOf, ParentOf

\* A block is registered behind a block that is owned, or starts a prompt.
LEMMA ParentsCache ==
  ASSUME AllocInv, ParentsKept, NEW x \in Blocks, NEW k \in Key, CacheBlock(x, k),
         k.parent # Root =>
           \E c \in DOMAIN by_block : EntryOf(c) = k.parent /\ ref_counts[c] # 0
  PROVE  ParentsKept'
<1>1. UNCHANGED <<ref_counts, evictable>>
  BY DEF CacheBlock
<1>2. CASE is_cached(x) \/ k \in DOMAIN by_key
  <2>1. by_block' = by_block
    BY <1>2 DEF CacheBlock
  <2>. QED  BY <1>1, <2>1, ParentsSame
<1>3. CASE ~is_cached(x) /\ k \notin DOMAIN by_key
  <2>1. /\ x \notin DOMAIN by_block
        /\ by_block' = [c \in DOMAIN by_block \cup {x} |->
                          IF c = x THEN [entry |-> next_entry, key |-> k] ELSE by_block[c]]
    BY <1>3 DEF CacheBlock, Register, RegisterAs, is_cached
  <2>2. /\ DOMAIN by_block' = DOMAIN by_block \cup {x}
        /\ \A c \in DOMAIN by_block : by_block'[c] = by_block[c] /\ c # x
        /\ by_block'[x].key.parent = k.parent
    BY <2>1
  <2>3. ASSUME NEW b \in DOMAIN by_block', by_block'[b].key.parent # Root
        PROVE  \E c \in DOMAIN by_block' :
                 /\ by_block'[c].entry = by_block'[b].key.parent
                 /\ ref_counts[b] # 0 => ref_counts[c] # 0
                 /\ \A i, j \in DOMAIN evictable : evictable[i] = b /\ evictable[j] = c => i < j
    <3>1. CASE b = x
      <4>1. PICK c \in DOMAIN by_block : EntryOf(c) = k.parent /\ ref_counts[c] # 0
        BY <2>2, <2>3, <3>1
      <4>2. \A j \in DOMAIN evictable : evictable[j] # c
        BY <4>1, EvictableBlocks
      <4>. QED  BY <2>2, <3>1, <4>1, <4>2 DEF EntryOf
    <3>2. CASE b \in DOMAIN by_block
      <4>1. PICK c \in DOMAIN by_block :
              /\ EntryOf(c) = ParentOf(b)
              /\ ref_counts[b] # 0 => ref_counts[c] # 0
              /\ \A i, j \in DOMAIN evictable : evictable[i] = b /\ evictable[j] = c => i < j
        BY <2>2, <2>3, <3>2 DEF ParentsKept, ParentKept, ParentOf
      <4>. QED  BY <2>2, <3>2, <4>1 DEF EntryOf, ParentOf
    <3>. QED  BY <2>2, <3>1, <3>2
  <2>. QED  BY <1>1, <2>3 DEF ParentsKept, ParentKept, EntryOf, ParentOf
<1>. QED  BY <1>2, <1>3

-----------------------------------------------------------------------------
(* A list of blocks whose registered ones are a path of the index.        *)

\* Each registered block of bs continues the one before it.
Chained(bs) ==
  \A k \in DOMAIN bs : is_cached(bs[k]) =>
    IF k = 1 THEN ParentOf(bs[k]) = Root
    ELSE is_cached(bs[k - 1]) /\ ParentOf(bs[k]) = EntryOf(bs[k - 1])

\* The same of a table after the step.
ChainedNext(bs) ==
  \A k \in DOMAIN bs : bs[k] \in DOMAIN by_block' =>
    IF k = 1 THEN by_block'[bs[k]].key.parent = Root
    ELSE /\ bs[k - 1] \in DOMAIN by_block'
         /\ by_block'[bs[k]].key.parent = by_block'[bs[k - 1]].entry

LEMMA ChainedSame ==
  ASSUME NEW bs, by_block' = by_block, Chained(bs)
  PROVE  ChainedNext(bs)
BY DEF Chained, ChainedNext, is_cached, ParentOf, EntryOf

\* A table whose registered blocks stay.
LEMMA ChainedStays ==
  ASSUME IndexShrinks, NEW bs \in Seq(Blocks), Chained(bs),
         \A k \in DOMAIN bs : bs[k] \in DOMAIN by_block => bs[k] \in DOMAIN by_block'
  PROVE  ChainedNext(bs)
<1>1. \A k \in DOMAIN bs : k # 1 => k - 1 \in DOMAIN bs
  BY LenProperties
<1>. QED  BY <1>1 DEF IndexShrinks, Chained, ChainedNext, is_cached, ParentOf, EntryOf

\* A table whose blocks are owned.
LEMMA OwnedStays ==
  ASSUME IndexShrinks, NEW bs \in Seq(Blocks), Chained(bs),
         \A b \in Blocks : In(b, bs) => ref_counts[b] # 0
  PROVE  ChainedNext(bs)
<1>1. \A k \in DOMAIN bs : bs[k] \in Blocks /\ In(bs[k], bs)
  BY DEF In
<1>2. \A k \in DOMAIN bs : bs[k] \in DOMAIN by_block => bs[k] \in DOMAIN by_block'
  BY <1>1 DEF IndexShrinks
<1>. QED  BY <1>2, ChainedStays

LEMMA ChainedGrown ==
  ASSUME NEW bs \in Seq(Blocks), NEW x \in Blocks, ChainedNext(bs), x \notin DOMAIN by_block'
  PROVE  ChainedNext(Append(bs, x))
<1>1. /\ DOMAIN Append(bs, x) = DOMAIN bs \cup {Len(bs) + 1}
      /\ \A i \in DOMAIN bs : Append(bs, x)[i] = bs[i]
      /\ Append(bs, x)[Len(bs) + 1] = x
  BY AppendOrigin
<1>2. \A k \in DOMAIN bs : k # 1 => k - 1 \in DOMAIN bs
  BY LenProperties
<1> DEFINE t == Append(bs, x)
<1>. HIDE DEF t
<1>3. \A k \in DOMAIN t : t[k] \in DOMAIN by_block' => k \in DOMAIN bs
  BY <1>1 DEF t
<1>4. \A k \in DOMAIN bs : t[k] = bs[k] /\ (k # 1 => t[k - 1] = bs[k - 1])
  BY <1>1, <1>2 DEF t
<1>5. ChainedNext(t)
  BY <1>3, <1>4 DEF ChainedNext
<1>. QED  BY <1>5 DEF t

\* The tail is replaced by a block that is not registered.
LEMMA ChainedReplaced ==
  ASSUME NEW bs \in Seq(Blocks), bs # <<>>, NEW x \in Blocks, ChainedNext(bs),
         x \notin DOMAIN by_block'
  PROVE  ChainedNext([bs EXCEPT ![Len(bs)] = x])
<1> DEFINE t == [bs EXCEPT ![Len(bs)] = x]
<1>1. /\ DOMAIN t = DOMAIN bs /\ DOMAIN bs = 1 .. Len(bs) /\ Len(bs) \in Nat
      /\ \A i \in DOMAIN bs : t[i] = IF i = Len(bs) THEN x ELSE bs[i]
  BY LenProperties
<1>. HIDE DEF t
<1>2. \A k \in DOMAIN t : t[k] \in DOMAIN by_block' =>
        /\ k \in DOMAIN bs /\ t[k] = bs[k]
        /\ k # 1 => t[k - 1] = bs[k - 1]
  BY <1>1
<1>3. ChainedNext(t)
  BY <1>2 DEF ChainedNext
<1>. QED  BY <1>3 DEF t

\* The tail is released.
LEMMA ChainedFront ==
  ASSUME NEW bs \in Seq(Blocks), bs # <<>>, ChainedNext(bs)
  PROVE  ChainedNext(SubSeq(bs, 1, Len(bs) - 1))
<1> DEFINE t == SubSeq(bs, 1, Len(bs) - 1)
<1>1. Len(bs) \in Nat \ {0} /\ DOMAIN bs = 1 .. Len(bs) /\ \A i \in DOMAIN bs : bs[i] \in Blocks
  BY EmptySeq, LenProperties
<1>2. /\ DOMAIN t = 1 .. Len(bs) - 1
      /\ \A i \in 1 .. Len(bs) - 1 : t[i] = bs[i]
  <2>1. /\ t \in Seq(Blocks) /\ Len(t) = IF 1 <= Len(bs) - 1 THEN Len(bs) - 1 - 1 + 1 ELSE 0
        /\ \A i \in 1 .. Len(bs) - 1 - 1 + 1 : t[i] = bs[1 + i - 1]
    <3>1. \A i \in 1 .. Len(bs) - 1 : bs[i] \in Blocks
      BY <1>1
    <3>. QED  BY <1>1, <3>1, SubSeqProperties
  <2>2. DOMAIN t = 1 .. Len(t)
    BY <2>1, LenProperties
  <2>. HIDE DEF t
  <2>3. Len(t) = Len(bs) - 1
    <3>1. \A n \in Nat \ {0} : (IF 1 <= n - 1 THEN n - 1 - 1 + 1 ELSE 0) = n - 1
      OBVIOUS
    <3>. QED  BY <1>1, <2>1, <3>1
  <2>4. \A i \in 1 .. Len(bs) - 1 : 1 + i - 1 = i /\ i \in 1 .. Len(bs) - 1 - 1 + 1
    BY <1>1
  <2>. QED  BY <2>1, <2>2, <2>3, <2>4
<1>. HIDE DEF t
<1>3. \A k \in DOMAIN t : /\ k \in DOMAIN bs /\ t[k] = bs[k]
                          /\ k # 1 => t[k - 1] = bs[k - 1]
  BY <1>1, <1>2
<1>4. ChainedNext(t)
  BY <1>3 DEF ChainedNext
<1>. QED  BY <1>4 DEF t

\* All blocks of the match are registered.
LEMMA ChainedBelow ==
  ASSUME NEW bs \in Seq(Blocks), Chained(bs), NEW n \in DOMAIN bs, is_cached(bs[n]),
         NEW k \in 1 .. n
  PROVE  is_cached(bs[k])
<1>1. DOMAIN bs = 1 .. Len(bs) /\ Len(bs) \in Nat
  BY LenProperties
<1> DEFINE bad == {m \in 0 .. n - 1 : ~is_cached(bs[n - m])}
<1>2. SUFFICES ASSUME bad # {} PROVE FALSE
  <2>1. n - k \in 0 .. n - 1 /\ n - (n - k) = k
    BY <1>1
  <2>. QED  BY <2>1
<1>3. bad \in SUBSET Nat
  BY <1>1
<1>4. PICK m \in bad : \A j \in bad : m <= j
  <2>. HIDE DEF bad
  <2>. QED  BY <1>2, <1>3, LeastNatural
<1>5. m \in 0 .. n - 1 /\ ~is_cached(bs[n - m])
  OBVIOUS
<1>6. m # 0
  <2>1. m = 0 => n - m = n
    BY <1>1, <1>5
  <2>. QED  BY <1>5, <2>1
<1>7. m - 1 \in 0 .. n - 1 /\ ~(m <= m - 1) /\ n - (m - 1) \in DOMAIN bs
      /\ n - (m - 1) # 1 /\ n - (m - 1) - 1 = n - m
  BY <1>1, <1>5, <1>6
<1>8. is_cached(bs[n - (m - 1)])
  <2>1. m - 1 \notin bad
    <3>. HIDE DEF bad
    <3>. QED  BY <1>4, <1>7
  <2>. QED  BY <1>7, <2>1
<1>9. is_cached(bs[n - (m - 1) - 1])
  BY <1>7, <1>8 DEF Chained
<1>. QED  BY <1>5, <1>7, <1>9

=============================================================================
