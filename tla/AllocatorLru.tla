---------------------------- MODULE AllocatorLru ----------------------------
(***************************************************************************)
(* The pool together with the list it keeps its evictable blocks in: what  *)
(* allocator.rs does to lru.rs in each of its methods.  BlockAllocator has *)
(* a sequence in place of the list, here both are kept side by side.       *)
(***************************************************************************)
EXTENDS BlockAllocator, Lru

ASSUME OneIdPerBlock == Capacity = NumBlocks

pool == <<allocVars, vars>>

PoolInit == AllocInit /\ Init

\* A block released for the last time goes to the list if it is cached.
Released_MaybeStillShared(b) == IF is_cached(b) /\ ~linked[b] THEN push_back(b) ELSE UNCHANGED vars
Released(b) == IF ref_counts[b] = 1 /\ is_cached(b) THEN push_back(b) ELSE UNCHANGED vars

PoolNext ==
  \E b \in Blocks :
    \/ Allocate(b) /\ IF free_list = <<>> THEN pop_front ELSE UNCHANGED vars
    \/ Incref(b) /\ UNCHANGED vars
    \/ Decref(b) /\ Released(b)
    \/ Reclaim(b) /\ remove(b)
    \/ \E p \in 0 .. next_entry - 1, t \in Chunk :
         CacheBlock(b, [parent |-> p, tokens |-> t]) /\ UNCHANGED vars

PoolSpec == PoolInit /\ [][PoolNext]_pool

(***************************************************************************)
(* allocator.rs:157, 212 and 261: through any calls, the links of both     *)
(* directions, the ends, the flags and the length of the list represent    *)
(* the evictable blocks and no others, in the order of their release, so   *)
(* what pop_front evicts is the block that was released first.             *)
(***************************************************************************)
ListsAgree == Represents(evictable)
=============================================================================
