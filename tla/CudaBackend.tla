----------------------------- MODULE CudaBackend -----------------------------
(***************************************************************************)
(* K/V on a GPU (src/crates/paged-kv-cuda/src/backend.rs), next to the CPU *)
(* backend it is tested against: each call is made on both.                *)
(*                                                                         *)
(* A call checks all its arguments, then launches one kernel.  A kernel is *)
(* a set of threads that run in any order; what one thread does with one   *)
(* element is one action.  The kernels of a stream run one after another,  *)
(* so the next call waits for the threads of this one.                     *)
(* The kernels (paged-kv-cuda/kernels/kernels.cu) address the pool on      *)
(* their own, from the slot mapping and block numbers they are passed.     *)
(***************************************************************************)
EXTENDS CpuBackend, SequencesExt, FiniteSetsExt

CONSTANTS
  MaxCalls,  \* how many calls are made: bounds the model
  Queries    \* attention calls: [layer, seqs, q_len]

ASSUME QueriesAssumption ==
  /\ MaxCalls \in Nat
  /\ Queries \subseteq [layer : Nat, seqs : Seq(AttentionSeq), q_len : Nat]

VARIABLES
  gpu,       \* the device's pool, offset -> element
  threads,   \* what the running kernel has still to do
  rejected,  \* whether the latest call returned an error
  made       \* how many calls were made

cudaVars == <<cpuVars, gpu, threads, rejected, made>>

\* A thread stores an element it was passed, or one it loads from the pool.
Thread == [dst : Offsets, value : Elem] \cup [dst : Offsets, src : Offsets]

slot_mapping_NoSlot(at) == at.block * BlockSize

\* vLLM's convention for the place of a token.
slot_mapping(at) == at.block * BlockSize + at.slot

\* reshape_and_cache_kernel: one thread block per token.
reshape_and_cache(layer, slot, value) ==
  LET block == slot \div BlockSize
      local_slot == slot % BlockSize
      cache_base == ((layer * NumBlocks + block) * BlockSize + local_slot) * entry_elems
  IN  {[dst |-> cache_base + i, value |-> value[i]] : i \in 0 .. entry_elems - 1}

\* copy_blocks_kernel, thread block idx: (pair, layer) from one index.
copy_blocks_PairOfBlocks(idx, pairs) ==
  LET pair == pairs[(idx % Len(pairs)) + 1]
      layer == idx \div NumLayers
      src_base == (layer * NumBlocks + pair[1]) * block_elems
      dst_base == (layer * NumBlocks + pair[2]) * block_elems
  IN  {[dst |-> dst_base + i, src |-> src_base + i] : i \in 0 .. block_elems - 1}
copy_blocks(idx, pairs) ==
  LET pair == pairs[(idx \div NumLayers) + 1]
      layer == idx % NumLayers
      src_base == (layer * NumBlocks + pair[1]) * block_elems
      dst_base == (layer * NumBlocks + pair[2]) * block_elems
  IN  {[dst |-> dst_base + i, src |-> src_base + i] : i \in 0 .. block_elems - 1}

\* zero_block_kernel: one thread block per layer.
zero_block(layer, block) ==
  LET base == (layer * NumBlocks + block) * block_elems
  IN  {[dst |-> base + i, value |-> Zero] : i \in 0 .. block_elems - 1}

\* The threads of the kernel a call launches.
Launch(c) ==
  CASE c.kind = "write" ->
         UNION {reshape_and_cache(c.layer, slot_mapping(c.dsts[k]), c.values[k])
                  : k \in DOMAIN c.dsts}
    [] c.kind = "copy" ->
         UNION {copy_blocks(idx, c.pairs) : idx \in 0 .. Len(c.pairs) * NumLayers - 1}
    [] c.kind = "zero" -> UNION {zero_block(layer, c.block) : layer \in Layers}

\* The whole batch is checked before anything is launched.
Accepts(c) ==
  CASE c.kind = "write" -> /\ Len(c.values) = Len(c.dsts)
                           /\ \A k \in DOMAIN c.dsts : validate(c.layer, c.dsts[k])
    [] c.kind = "copy" -> \A k \in DOMAIN c.pairs :
                            validate_block(c.pairs[k][1]) /\ validate_block(c.pairs[k][2])
    [] c.kind = "zero" -> validate_block(c.block)

\* The calls on which the two are to agree, as the test of both has them: no two
\* tokens for one slot, no copy that writes what another one reads or writes.  A
\* call that is refused is refused before the CPU has changed anything.
Clean(c) ==
  /\ c.kind = "write" => \A j, k \in DOMAIN c.dsts : j # k => c.dsts[j] # c.dsts[k]
  /\ c.kind = "copy" =>
       \A j, k \in DOMAIN c.pairs : j # k => c.pairs[j][2] \notin {c.pairs[k][1], c.pairs[k][2]}
  /\ Accepts(c) \/ Invalid(c) \/ (c.kind = "write" /\ Len(c.values) # Len(c.dsts))

ASSUME CallsAssumption == \A c \in Calls : Clean(c)

Init ==
  /\ CpuInit
  /\ gpu = [o \in Offsets |-> Zero]
  /\ threads = {}
  /\ rejected = FALSE
  /\ made = 0

\* The call is made on both backends.
Invoke(c) ==
  /\ threads = {}
  /\ made < MaxCalls /\ made' = made + 1
  /\ Begin(c)
  /\ rejected' = ~Accepts(c)
  /\ threads' = IF Accepts(c) THEN Launch(c) ELSE {}
  /\ UNCHANGED gpu

\* The threads of a launch run in any order.  The pools share nothing, so the
\* order of the two backends does not matter: the CPU goes first.
RunThread(t) ==
  /\ call = NoCall
  /\ gpu' = [gpu EXCEPT ![t.dst] = IF "src" \in DOMAIN t THEN gpu[t.src] ELSE t.value]
  /\ threads' = threads \ {t}
  /\ UNCHANGED <<cpuVars, rejected, made>>

OnCpu == CpuStep /\ UNCHANGED <<gpu, threads, rejected, made>>

Next ==
  \/ OnCpu
  \/ \E t \in threads : RunThread(t)
  \/ \E c \in Calls : Invoke(c)

Spec == Init /\ [][Next]_cudaVars

-----------------------------------------------------------------------------
(* paged_attention.                                                        *)

MaxOf(seqs) == Max({seqs[k].context_len : k \in DOMAIN seqs} \cup {0})

\* One row of max_blocks block numbers per sequence, padded with 0.
tables(seqs) ==
  LET max_blocks == blocks_for_tokens(MaxOf(seqs))
  IN  [x \in 0 .. Len(seqs) * max_blocks - 1 |->
         LET s == seqs[(x \div max_blocks) + 1]
             i == x % max_blocks
         IN  IF i < blocks_for_tokens(s.context_len) THEN s.block_table[i + 1] ELSE 0]

query_seq(seqs) ==
  FlattenSeq([k \in DOMAIN seqs |-> [j \in 1 .. seqs[k].num_queries |-> k - 1]])
query_pos(seqs) ==
  FlattenSeq([k \in DOMAIN seqs |->
    [j \in 1 .. seqs[k].num_queries |-> seqs[k].context_len - seqs[k].num_queries + j - 1]])

CudaAttention_UnpaddedTables(layer, seqs, heads) ==
  LET flat == FlattenSeq([k \in DOMAIN seqs |-> seqs[k].block_table])
      stride == blocks_for_tokens(MaxOf(seqs))
  IN  [row \in 1 .. Rows(seqs) |-> [head \in 0 .. heads - 1 |->
         LET head_offset == (head \div (heads \div NumKvHeads)) * HeadDim
         IN  [t \in 0 .. query_pos(seqs)[row] |->
                LET x == query_seq(seqs)[row] * stride + (t \div BlockSize)
                    block == IF x + 1 \in DOMAIN flat THEN flat[x + 1] ELSE 0
                IN  HeadRead(gpu, head_offset + ((layer * NumBlocks + block) * BlockSize
                                                   + (t % BlockSize)) * entry_elems)]]]

\* paged_attention_kernel, one thread block per (query, head).
CudaAttention(layer, seqs, heads) ==
  LET max_blocks == blocks_for_tokens(MaxOf(seqs))
  IN  [row \in 1 .. Rows(seqs) |-> [head \in 0 .. heads - 1 |->
         LET pos == query_pos(seqs)[row]
             head_offset == (head \div (heads \div NumKvHeads)) * HeadDim
         IN  [t \in 0 .. pos |->
                LET block == tables(seqs)[query_seq(seqs)[row] * max_blocks + (t \div BlockSize)]
                IN  HeadRead(gpu, head_offset + ((layer * NumBlocks + block) * BlockSize
                                                   + (t % BlockSize)) * entry_elems)]]]

-----------------------------------------------------------------------------
(* Properties.                                                             *)

\* Both backends have finished the call.
Quiet == call = NoCall /\ threads = {}

(***************************************************************************)
(* backend.rs:8-10, "any difference between it and the CUDA backend is a   *)
(* kernel bug": whatever the order of the threads, both pools are equal    *)
(* when a call has been executed, and both refused it or neither.          *)
(***************************************************************************)
BackendsAgree == Quiet => pool = gpu /\ failed = rejected

(***************************************************************************)
(* No two threads of a launch race: none stores where another one stores   *)
(* or loads.  This is what makes the outcome of a kernel one outcome.      *)
(***************************************************************************)
NoThreadRace ==
  \A t, u \in threads : t # u => t.dst # u.dst /\ ("src" \in DOMAIN u => t.dst # u.src)

\* What a query has to read: the slots of its sequence's tokens up to its own.
Context(layer, s, i, kv_head) ==
  [t \in 0 .. s.context_len - s.num_queries + i |->
     LET at == [block |-> s.block_table[(t \div BlockSize) + 1], slot |-> t % BlockSize]
     IN  [j \in 0 .. HeadDim - 1 |-> read_kv(layer, at)[kv_head * HeadDim + j]]]

(***************************************************************************)
(* backend.rs:66-71: for every batch of sequences, prefill and decode      *)
(* mixed, and any grouping of query heads, both backends read for a query  *)
(* the K/V of its own sequence's tokens up to its own position, in order,  *)
(* and of the KV head of its group.                                        *)
(***************************************************************************)
AttentionReadsContext ==
  Quiet /\ pool = gpu =>
    \A qu \in Queries :
      LET heads == check_attention(qu.layer, qu.seqs, qu.q_len, qu.q_len)
          cpu   == CpuAttention(qu.layer, qu.seqs, heads)
      IN  heads # Refused =>
            /\ cpu = CudaAttention(qu.layer, qu.seqs, heads)
            /\ \A k \in DOMAIN qu.seqs : \A i \in 0 .. qu.seqs[k].num_queries - 1 :
                 \A h \in 0 .. heads - 1 :
                   cpu[Rows(SubSeq(qu.seqs, 1, k - 1)) + i + 1][h]
                     = Context(qu.layer, qu.seqs[k], i, (h * NumKvHeads) \div heads)
=============================================================================
