--------------------------- MODULE MCCudaBackend ---------------------------
(* Instances of CudaBackend for TLC.                                       *)
EXTENDS CudaBackend

At(b, s) == [block |-> b, slot |-> s]
Value(x) == [i \in 0 .. entry_elems - 1 |-> <<x, i>>]

\* Element values: what the pool starts with, and two tokens' entries.
MCZero == <<0, 0>>
MCElem == ({1, 2} \X (0 .. entry_elems - 1)) \cup {MCZero}

Writes == {[kind |-> "write", layer |-> l, dsts |-> <<x, At(0, 1)>>, values |-> <<Value(1), Value(2)>>]
             : l \in Layers, x \in {At(0, 0), At(1, 1)}}
\* Two blocks, a block onto itself, and one source for two copies.
Copies == {[kind |-> "copy", pairs |-> p] : p \in {<<<<0, 2>>>>, <<<<1, 1>>>>, <<<<0, 1>>, <<0, 2>>>>}}
Zeroings == {[kind |-> "zero", block |-> 1]}

\* Refused by both alike: a shape, a layer, a slot or a block out of range
\* in the first element, and nothing to do.
Refusals == {[kind |-> "write", layer |-> 0, dsts |-> <<At(0, 0)>>, values |-> <<>>],
             [kind |-> "write", layer |-> NumLayers, dsts |-> <<At(0, 0)>>, values |-> <<Value(1)>>],
             [kind |-> "write", layer |-> 0, dsts |-> <<At(0, BlockSize)>>, values |-> <<Value(1)>>],
             [kind |-> "copy", pairs |-> <<<<0, NumBlocks>>, <<0, 1>>>>],
             [kind |-> "zero", block |-> NumBlocks],
             [kind |-> "write", layer |-> NumLayers, dsts |-> <<>>, values |-> <<>>],
             [kind |-> "copy", pairs |-> <<>>]}

GoodCalls == Writes \cup Copies \cup Zeroings \cup Refusals

Sq(t, c, n) == [block_table |-> t, context_len |-> c, num_queries |-> n]
Batches == {<<Sq(<<2, 0>>, 3, 3)>>, <<Sq(<<1>>, 2, 1), Sq(<<0, 2>>, 4, 2)>>,
            <<Sq(<<1, 2>>, 3, 1), Sq(<<0>>, 1, 1), Sq(<<0, 1, 2>>, 4, 0)>>,
            <<Sq(<<0>>, 3, 1)>>, <<Sq(<<0, NumBlocks>>, 3, 1)>>, <<>>}
MCQueries == {[layer |-> l, seqs |-> b, q_len |-> Rows(b) * w * HeadDim]
                : l \in 0 .. NumLayers, b \in Batches, w \in {2, 4}}
=============================================================================
