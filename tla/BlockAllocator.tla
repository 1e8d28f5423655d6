--------------------------- MODULE BlockAllocator ---------------------------
(***************************************************************************)
(* The reference-counted pool of physical blocks of paged-kv-core          *)
(* (src/crates/paged-kv-core/src/allocator.rs) together with its optional  *)
(* content index (prefix_cache.rs).  A block is owned (reference count     *)
(* above zero), empty (on the free list) or evictable (unowned, but still  *)
(* registered under its content and reclaimable).                          *)
(*                                                                         *)
(* The methods take &mut self, so each is one atomic action.  A call that  *)
(* returns an error changes nothing and is a stuttering step here.         *)
(*                                                                         *)
(* X_Y, where X is a definition, is X with the mistake Y.  Nothing uses it: *)
(* put in the place of X it must make TLC refute one of the properties,    *)
(* which shows that the property can tell the mistake (README.md).         *)
(***************************************************************************)
EXTENDS Integers, Sequences, FiniteSets, SequencesExt

CONSTANTS
  NumBlocks,      \* blocks in the pool
  MaxRefCount,    \* the largest reference count (u16::MAX in the code)
  MaxEntry,       \* the last prefix entry handed out (u64::MAX in the code)
  Chunk,          \* the possible contents of one full block of tokens
  PrefixCaching   \* new (FALSE) or with_prefix_caching (TRUE)

ASSUME AllocatorAssumption ==
  /\ NumBlocks \in Nat
  /\ MaxRefCount \in Nat \ {0}
  /\ MaxEntry \in Nat
  /\ PrefixCaching \in BOOLEAN

Blocks == 0 .. NumBlocks - 1

\* PrefixEntry::ROOT, the parent of every chain's first block.
Root == 0
Entry == 0 .. MaxEntry
Key == [parent : Entry, tokens : Chunk]

VARIABLES
  free_list,   \* empty blocks, a stack whose top is the last element
  ref_counts,  \* block -> number of references to it
  evictable,   \* cached blocks with no owner, least recently released first
  by_key,      \* key -> the entry and the block registered under it
  by_block,    \* cached block -> its entry and its key
  next_entry   \* the next entry to hand out

allocVars == <<free_list, ref_counts, evictable, by_key, by_block, next_entry>>

num_free == Len(free_list) + Len(evictable)
is_cached(b) == b \in DOMAIN by_block
is_shared_OffByOne(b) == ref_counts[b] > 2
is_shared(b) == ref_counts[b] > 1

AllocInit ==
  /\ free_list = [i \in 1 .. NumBlocks |-> NumBlocks - i]
  /\ ref_counts = [b \in Blocks |-> 0]
  /\ evictable = <<>>
  /\ by_key = <<>>
  /\ by_block = <<>>
  /\ next_entry = 1

-----------------------------------------------------------------------------
(* The content index.                                                      *)

Unregister_KeepsKey(b) ==
  /\ by_block' = [c \in DOMAIN by_block \ {b} |-> by_block[c]]
  /\ UNCHANGED by_key

\* PrefixIndex::remove, for a block that is cached.
Unregister(b) ==
  /\ by_key' = [k \in DOMAIN by_key \ {by_block[b].key} |-> by_key[k]]
  /\ by_block' = [c \in DOMAIN by_block \ {b} |-> by_block[c]]

\* The two maps with block b registered under key k as entry e.
RegisterAs(b, k, e) ==
  /\ by_key' = [j \in DOMAIN by_key \cup {k} |->
                  IF j = k THEN [entry |-> e, block |-> b] ELSE by_key[j]]
  /\ by_block' = [c \in DOMAIN by_block \cup {b} |->
                    IF c = b THEN [entry |-> e, key |-> k] ELSE by_block[c]]

Register_NoAdvance(b, k) ==
  /\ next_entry < MaxEntry
  /\ RegisterAs(b, k, next_entry)
  /\ UNCHANGED next_entry

\* PrefixIndex::insert for content no block holds yet.
Register(b, k) ==
  /\ next_entry < MaxEntry
  /\ RegisterAs(b, k, next_entry)
  /\ next_entry' = next_entry + 1

\* The entry of the last block of a matched run: the parent of what follows.
LastEntry(hit) == IF hit = <<>> THEN Root ELSE by_block[Last(hit)].entry

NextKey_NoParent(hit, chunks) ==
  [parent |-> Root, tokens |-> chunks[Len(hit) + 1]]

\* The key under which the chunk following the run hit would be registered.
NextKey(hit, chunks) ==
  [parent |-> LastEntry(hit), tokens |-> chunks[Len(hit) + 1]]

(***************************************************************************)
(* match_prefix: hit is the longest run of cached blocks that starts at    *)
(* the root and carries the chunks in order.                               *)
(***************************************************************************)
IsMatch(hit, chunks) ==
  /\ \A i \in 1 .. Len(hit) :
       LET k == NextKey(SubSeq(hit, 1, i - 1), chunks)
       IN  k \in DOMAIN by_key /\ by_key[k].block = hit[i]
  /\ Len(hit) = Len(chunks) \/ NextKey(hit, chunks) \notin DOMAIN by_key

Matches(chunks) == {hit \in BoundedSeq(Blocks, Len(chunks)) : IsMatch(hit, chunks)}

-----------------------------------------------------------------------------
(* The operations.                                                         *)

CanAllocate == free_list # <<>> \/ evictable # <<>>

\* evict: the least recently released cached block loses its registration.
Evict(b) ==
  /\ evictable # <<>>
  /\ b = Head(evictable)
  /\ evictable' = Tail(evictable)
  /\ Unregister(b)

\* allocate: an empty block while there is one, an evicted one otherwise.
Allocate(b) ==
  /\ \/ /\ free_list # <<>>
        /\ b = free_list[Len(free_list)]
        /\ free_list' = SubSeq(free_list, 1, Len(free_list) - 1)
        /\ UNCHANGED <<evictable, by_key, by_block>>
     \/ /\ free_list = <<>>
        /\ Evict(b)
        /\ UNCHANGED free_list
  /\ ref_counts' = [ref_counts EXCEPT ![b] = 1]
  /\ UNCHANGED next_entry

Incref_NoLimit(b) ==
  /\ ref_counts[b] > 0
  /\ ref_counts' = [ref_counts EXCEPT ![b] = @ + 1]
  /\ UNCHANGED <<free_list, evictable, by_key, by_block, next_entry>>

\* incref, which refuses a count that would overflow.
Incref(b) ==
  /\ ref_counts[b] > 0
  /\ ref_counts[b] < MaxRefCount
  /\ ref_counts' = [ref_counts EXCEPT ![b] = @ + 1]
  /\ UNCHANGED <<free_list, evictable, by_key, by_block, next_entry>>

Decref_ForgetsIndex(b) ==
  /\ ref_counts[b] > 0
  /\ ref_counts' = [ref_counts EXCEPT ![b] = @ - 1]
  /\ free_list' = IF ref_counts[b] = 1 THEN Append(free_list, b) ELSE free_list
  /\ UNCHANGED <<evictable, by_key, by_block, next_entry>>

\* decref: the last reference turns the block evictable or empty.
Decref(b) ==
  /\ ref_counts[b] > 0
  /\ ref_counts' = [ref_counts EXCEPT ![b] = @ - 1]
  /\ \/ /\ ref_counts[b] = 1
        /\ is_cached(b)
        /\ evictable' = Append(evictable, b)
        /\ UNCHANGED free_list
     \/ /\ ref_counts[b] = 1
        /\ ~is_cached(b)
        /\ free_list' = Append(free_list, b)
        /\ UNCHANGED evictable
     \/ /\ ref_counts[b] > 1
        /\ UNCHANGED <<free_list, evictable>>
  /\ UNCHANGED <<by_key, by_block, next_entry>>

\* Lru::remove of the block at position i.
Unlink(i) ==
  evictable' = [j \in 1 .. Len(evictable) - 1 |->
                  IF j < i THEN evictable[j] ELSE evictable[j + 1]]

\* acquire_cached of a block without an owner: it is reclaimed.
Reclaim(b) ==
  /\ ref_counts[b] = 0
  /\ \E i \in DOMAIN evictable : evictable[i] = b /\ Unlink(i)
  /\ ref_counts' = [ref_counts EXCEPT ![b] = 1]
  /\ UNCHANGED <<free_list, by_key, by_block, next_entry>>

AcquireCached(b) == Incref(b) \/ Reclaim(b)

CachedEntry_AfterNext(b, k) ==
  IF is_cached(b) THEN by_block[b].entry
  ELSE IF k \in DOMAIN by_key THEN by_key[k].entry
  ELSE next_entry + 1

\* The entry cache_block returns.
CachedEntry(b, k) ==
  IF is_cached(b) THEN by_block[b].entry
  ELSE IF k \in DOMAIN by_key THEN by_key[k].entry
  ELSE next_entry

\* cache_block: a block that is registered already, or whose content another
\* block holds, changes nothing.
CacheBlock(b, k) ==
  /\ PrefixCaching
  /\ ref_counts[b] > 0
  /\ IF is_cached(b) \/ k \in DOMAIN by_key
     THEN UNCHANGED <<by_key, by_block, next_entry>>
     ELSE Register(b, k)
  /\ UNCHANGED <<free_list, ref_counts, evictable>>

(***************************************************************************)
(* A client of the pool may make any call.  The parent it names in         *)
(* cache_block is an entry it was given before.                            *)
(***************************************************************************)
AllocNext ==
  \E b \in Blocks :
    \/ Allocate(b)
    \/ Incref(b)
    \/ Decref(b)
    \/ AcquireCached(b)
    \/ \E p \in 0 .. next_entry - 1, t \in Chunk :
         CacheBlock(b, [parent |-> p, tokens |-> t])

AllocSpec == AllocInit /\ [][AllocNext]_allocVars

-----------------------------------------------------------------------------
(* Properties.                                                             *)

\* Every variable has the type of its Rust field.
AllocTypeOK ==
  /\ free_list \in Seq(Blocks)
  /\ ref_counts \in [Blocks -> 0 .. MaxRefCount]
  /\ evictable \in Seq(Blocks)
  /\ DOMAIN by_key \subseteq Key
  /\ by_key \in [DOMAIN by_key -> [entry : Entry, block : Blocks]]
  /\ DOMAIN by_block \subseteq Blocks
  /\ by_block \in [DOMAIN by_block -> [entry : Entry, key : Key]]
  /\ next_entry \in 1 .. MaxEntry + 1

NoRepeat(s) == \A i, j \in DOMAIN s : s[i] = s[j] => i = j
In(b, s) == \E i \in DOMAIN s : s[i] = b

(***************************************************************************)
(* allocator.rs:324-325, "every unowned block is either free or evictable, *)
(* exactly once; evictable blocks are cached and free ones are not": no    *)
(* block is lost, handed out twice, or handed out as empty while the index *)
(* still maps its old content to it.                                       *)
(***************************************************************************)
PoolPartition ==
  /\ NoRepeat(free_list) /\ NoRepeat(evictable)
  /\ \A b \in Blocks :
       /\ ref_counts[b] = 0 <=> (In(b, free_list) \/ In(b, evictable))
       /\ In(b, free_list) => ~is_cached(b)
       /\ In(b, evictable) => is_cached(b)

(***************************************************************************)
(* prefix_cache.rs:93-113: the two maps of the index are inverse to each   *)
(* other, so a lookup never names a block that has been reused.            *)
(***************************************************************************)
IndexConsistent ==
  /\ \A b \in DOMAIN by_block :
       /\ by_block[b].key \in DOMAIN by_key
       /\ by_key[by_block[b].key] = [entry |-> by_block[b].entry, block |-> b]
  /\ \A k \in DOMAIN by_key :
       /\ by_key[k].block \in DOMAIN by_block
       /\ by_block[by_key[k].block].key = k

(***************************************************************************)
(* prefix_cache.rs:8-9, "Entries are never reused, so a key naming an      *)
(* evicted parent can't match a different chain later": a key's parent is  *)
(* older than its own entry, and no two registered blocks share an entry.  *)
(***************************************************************************)
EntriesOrdered ==
  /\ \A k \in DOMAIN by_key : k.parent < by_key[k].entry /\ by_key[k].entry < next_entry
  /\ \A j, k \in DOMAIN by_key : by_key[j].entry = by_key[k].entry => j = k

\* The safety of the pool as one inductive invariant.
AllocInv == AllocTypeOK /\ PoolPartition /\ IndexConsistent /\ EntriesOrdered

\* Entry e stands for the content k now.
Names(e, k) == k \in DOMAIN by_key /\ by_key[k].entry = e

(***************************************************************************)
(* prefix_cache.rs:8-9: an entry that has named a content never names      *)
(* another one, however many evictions and registrations later; so a key   *)
(* whose parent was evicted cannot continue a different chain.             *)
(***************************************************************************)
EntriesNeverReused ==
  \A e \in Entry, k \in Key :
    [](Names(e, k) => [](\A j \in DOMAIN by_key : Names(e, j) => j = k))

=============================================================================
