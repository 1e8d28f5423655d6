----------------------------- MODULE BlockTable -----------------------------
(***************************************************************************)
(* A sequence's block table (src/crates/paged-kv-core/src/block_table.rs): *)
(* the physical blocks of one sequence in logical order and the number of  *)
(* tokens they hold.  The tables themselves belong to the scheduler; this  *)
(* module has what can be computed from one.                               *)
(***************************************************************************)
EXTENDS BlockAllocator

CONSTANT BlockSize   \* tokens per block

ASSUME BlockTableAssumption == BlockSize \in Nat \ {0}

CeilDiv(n, d) == (n + d - 1) \div d

\* blocks_for_tokens
blocks_for_tokens(n) == CeilDiv(n, BlockSize)

\* The tail block, defined when the table is not empty.
TailOf(t) == t.blocks[Len(t.blocks)]

\* An empty table has no room although 0 % BlockSize = 0.
last_block_has_room(t) == t.blocks # <<>> /\ t.num_tokens % BlockSize # 0

\* The next write goes to a tail that another table shares.
needs_cow(t) == last_block_has_room(t) /\ is_shared(TailOf(t))

\* Free blocks that appending n tokens takes.
blocks_needed(t, n) ==
  LET room == IF last_block_has_room(t) THEN BlockSize - (t.num_tokens % BlockSize) ELSE 0
      rest == IF n > room THEN n - room ELSE 0
  IN  IF n = 0 THEN 0
      ELSE CeilDiv(rest, BlockSize) + (IF needs_cow(t) THEN 1 ELSE 0)

\* slot_for_position, for a position the table covers.
slot_for_position(t, p) ==
  [block |-> t.blocks[(p \div BlockSize) + 1], offset |-> p % BlockSize]

\* check_ownership: a table holds exactly the blocks its tokens need.
HoldsWhatItNeeds(t) == Len(t.blocks) = blocks_for_tokens(t.num_tokens)

=============================================================================
