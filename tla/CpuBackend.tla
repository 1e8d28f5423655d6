----------------------------- MODULE CpuBackend -----------------------------
(***************************************************************************)
(* K/V in host memory (src/crates/paged-kv-core/src/cpu.rs), the reference *)
(* for the CUDA kernels, with the geometry of config.rs and the argument   *)
(* checks of backend.rs.  The pool is one flat array.  The code has two,   *)
(* for K and for V, which every operation treats alike: an element here is *)
(* what both hold at that offset.                                          *)
(*                                                                         *)
(* A call is a write_kv_batch, a copy_blocks or a zero_block (write_kv and *)
(* copy_block are batches of one); one action is one iteration of its loop *)
(* and so one write_kv or one copy_block.  A call that fails in the middle *)
(* keeps what it did.                                                      *)
(* X_Y is X with the mistake Y, as in BlockAllocator.                      *)
(***************************************************************************)
EXTENDS Integers, Sequences

CONSTANTS
  NumLayers, NumBlocks, BlockSize, NumKvHeads, HeadDim,   \* CacheConfig
  Elem,    \* the values of an element
  Zero,    \* what the pool is initialised with
  Calls    \* the calls a client may make

\* Elements in an entry (one token), in a block of one layer, in a layer.
entry_elems == NumKvHeads * HeadDim
block_elems == BlockSize * entry_elems
layer_elems == NumBlocks * block_elems

Entries == [0 .. entry_elems - 1 -> Elem]
PhysicalSlot == [block : Nat, slot : Nat]

Call == [kind : {"write"}, layer : Nat, dsts : Seq(PhysicalSlot), values : Seq(Entries)]
          \cup [kind : {"copy"}, pairs : Seq(Nat \X Nat)]
          \cup [kind : {"zero"}, block : Nat]

ASSUME GeometryAssumption ==
  /\ NumLayers \in Nat /\ NumBlocks \in Nat
  /\ BlockSize \in Nat \ {0} /\ NumKvHeads \in Nat \ {0} /\ HeadDim \in Nat \ {0}
  /\ Zero \in Elem
  /\ Calls \subseteq Call

Layers == 0 .. NumLayers - 1
Block == 0 .. NumBlocks - 1
Slots == 0 .. BlockSize - 1
Offsets == 0 .. NumLayers * layer_elems - 1

\* Both loops work on what is left of the call: NoCall is none.
NoCall == [kind |-> "none"]

VARIABLES
  pool,     \* offset -> element
  call,     \* the rest of the call being executed
  failed    \* whether the latest call returned an error

cpuVars == <<pool, call, failed>>

block_offset(layer, block) == (layer * NumBlocks + block) * block_elems

slot_offset_NoBlockSize(layer, at) ==
  (layer * NumBlocks + at.block) * entry_elems + at.slot * entry_elems
slot_offset(layer, at) == block_offset(layer, at.block) + at.slot * entry_elems

blocks_for_tokens(n) == (n + BlockSize - 1) \div BlockSize

\* The errors InvalidBlock, InvalidLayer and SlotOutOfRange.
validate_block(block) == block < NumBlocks
validate(layer, at) == layer < NumLayers /\ validate_block(at.block) /\ at.slot < BlockSize

CpuInit ==
  /\ pool = [o \in Offsets |-> Zero]
  /\ call = NoCall
  /\ failed = FALSE

\* A batch whose values are too few or too many is refused at once.
Begin(c) ==
  /\ call = NoCall
  /\ failed' = (c.kind = "write" /\ Len(c.values) # Len(c.dsts))
  /\ call' = IF failed' THEN NoCall ELSE c
  /\ UNCHANGED pool

\* copy_from_slice, copy_within and fill, over n elements.
Set(from, n, value) ==
  pool' = [o \in Offsets |-> IF o \in from .. from + n - 1 THEN value[o - from] ELSE pool[o]]

\* write_kv for the first token that is left.
WriteKv ==
  /\ call.kind = "write" /\ call.dsts # <<>>
  /\ validate(call.layer, Head(call.dsts))
  /\ Set(slot_offset(call.layer, Head(call.dsts)), entry_elems, Head(call.values))
  /\ call' = [call EXCEPT !.dsts = Tail(@), !.values = Tail(@)]
  /\ UNCHANGED failed

\* The pool after a block of every layer is overwritten with another.
Copied(src, dst) ==
  [o \in Offsets |->
     LET layer == o \div layer_elems
         base  == block_offset(layer, dst)
     IN  IF o \in base .. base + block_elems - 1
         THEN pool[o - base + block_offset(layer, src)] ELSE pool[o]]

\* copy_block for the first pair that is left; a block onto itself is done.
CopyBlock ==
  /\ call.kind = "copy" /\ call.pairs # <<>>
  /\ LET src == Head(call.pairs)[1]
         dst == Head(call.pairs)[2]
     IN  /\ validate_block(src) /\ validate_block(dst)
         /\ pool' = IF src = dst THEN pool ELSE Copied(src, dst)
  /\ call' = [call EXCEPT !.pairs = Tail(@)]
  /\ UNCHANGED failed

ZeroBlock ==
  /\ call.kind = "zero"
  /\ validate_block(call.block)
  /\ pool' = [o \in Offsets |->
                LET base == block_offset(o \div layer_elems, call.block)
                IN  IF o \in base .. base + block_elems - 1 THEN Zero ELSE pool[o]]
  /\ call' = NoCall
  /\ UNCHANGED failed

\* The next iteration of the loop finds an argument out of range.
Invalid(c) ==
  \/ c.kind = "write" /\ c.dsts # <<>> /\ ~validate(c.layer, Head(c.dsts))
  \/ /\ c.kind = "copy" /\ c.pairs # <<>>
     /\ \/ ~validate_block(Head(c.pairs)[1])
        \/ ~validate_block(Head(c.pairs)[2])
  \/ c.kind = "zero" /\ ~validate_block(c.block)

Fail ==
  /\ Invalid(call)
  /\ call' = NoCall /\ failed' = TRUE
  /\ UNCHANGED pool

\* The loop has visited everything.
Done ==
  /\ \/ call.kind = "write" /\ call.dsts = <<>>
     \/ call.kind = "copy" /\ call.pairs = <<>>
  /\ call' = NoCall
  /\ UNCHANGED <<pool, failed>>

CpuStep == WriteKv \/ CopyBlock \/ ZeroBlock \/ Fail \/ Done

CpuNext == CpuStep \/ \E c \in Calls : Begin(c)

CpuSpec == CpuInit /\ [][CpuNext]_cpuVars

-----------------------------------------------------------------------------
(* paged_attention.  A sequence of a call is its block table, its context  *)
(* length and how many of its last tokens are queries.  What is computed   *)
(* from q, K and V is left out: the output of a query and head is what it  *)
(* reads of K and V, position by position.                                 *)

AttentionSeq == [block_table : Seq(Nat), context_len : Nat, num_queries : Nat]

\* num_queries summed over the sequences.
Rows(seqs) ==
  LET upto[k \in 0 .. Len(seqs)] == IF k = 0 THEN 0 ELSE upto[k - 1] + seqs[k].num_queries
  IN  upto[Len(seqs)]

Refused == 0

\* check_attention: the number of query heads, or Refused.
check_attention(layer, seqs, q_len, out_len) ==
  LET rows  == Rows(seqs)
      legal == /\ layer < NumLayers
               /\ \A k \in DOMAIN seqs :
                    LET s == seqs[k]
                        needed == blocks_for_tokens(s.context_len)
                    IN  /\ s.num_queries <= s.context_len
                        /\ needed <= Len(s.block_table)
                        /\ \A i \in 1 .. needed : validate_block(s.block_table[i])
               /\ out_len = q_len
      whole == q_len # 0 /\ rows # 0 /\ q_len % rows = 0 /\ (q_len \div rows) % entry_elems = 0
  IN  IF ~legal THEN Refused
      ELSE IF rows = 0 /\ q_len = 0 THEN NumKvHeads
      ELSE IF whole THEN (q_len \div rows) \div HeadDim ELSE Refused

\* Row k of the output belongs to the query RowSeq and RowQuery (from 0) name.
RowSeq(seqs, row) ==
  CHOOSE k \in DOMAIN seqs :
    /\ Rows(SubSeq(seqs, 1, k - 1)) < row
    /\ row <= Rows(SubSeq(seqs, 1, k))
RowQuery(seqs, row) == row - 1 - Rows(SubSeq(seqs, 1, RowSeq(seqs, row) - 1))

HeadRead(plane, from) == [j \in 0 .. HeadDim - 1 |-> plane[from + j]]

\* Query i of a sequence reads positions 0 .. context_len - num_queries + i.
CpuAttention(layer, seqs, heads) ==
  [row \in 1 .. Rows(seqs) |-> [h \in 0 .. heads - 1 |->
     LET s == seqs[RowSeq(seqs, row)]
         pos == s.context_len - s.num_queries + RowQuery(seqs, row)
         group == heads \div NumKvHeads
     IN  [t \in 0 .. pos |->
            LET at == [block |-> s.block_table[(t \div BlockSize) + 1], slot |-> t % BlockSize]
            IN  HeadRead(pool, slot_offset(layer, at) + (h \div group) * HeadDim)]]]

-----------------------------------------------------------------------------
(* Properties.                                                             *)

\* Every field has its Rust type and no element is ever outside its domain.
CpuTypeOK ==
  /\ pool \in [Offsets -> Elem]
  /\ call \in Call \cup {NoCall}
  /\ failed \in BOOLEAN

\* read_kv
read_kv(layer, at) == [i \in 0 .. entry_elems - 1 |-> pool[slot_offset(layer, at) + i]]

Store == INSTANCE KvStore WITH
  Layer <- Layers, Block <- Block, Slot <- Slots, Entry <- Entries,
  ZeroEntry <- [i \in 0 .. entry_elems - 1 |-> Zero],
  store <- [a \in Layers \X Block \X Slots |-> read_kv(a[1], [block |-> a[2], slot |-> a[3]])]

(***************************************************************************)
(* cpu.rs:28-37 and 119: the flat array behaves as a store of separate     *)
(* entries.  Writing, copying or zeroing changes what is read back at the  *)
(* slots the call names, in every layer it concerns, and nowhere else.     *)
(***************************************************************************)
ImplementsStore == Store!Spec
=============================================================================
