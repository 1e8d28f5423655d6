---------------------------- MODULE BackendProofs ----------------------------
(***************************************************************************)
(* For every geometry: the flat array behaves as a store of separate       *)
(* entries, since an offset below the end of the pool has exactly one      *)
(* layer, block, slot and element; and whatever the order of its threads,  *)
(* a kernel does what the loop of the CPU backend does, since no thread    *)
(* touches what another one stores to.  And attention reads, on both, what *)
(* it is to read: the rows of a batch are counted through its sequences by *)
(* both backends, and the padded tables of the device hold the block of    *)
(* every position.                                                         *)
(***************************************************************************)
EXTENDS CudaBackend, SequenceTheorems, NaturalsInduction, WellFoundedInduction, TLAPS

Address == Layers \X Block \X Slots
At(a) == [block |-> a[2], slot |-> a[3]]

-----------------------------------------------------------------------------
(* Offsets.                                                                *)

\* Division undoes multiplication.
LEMMA Divides ==
  ASSUME NEW d \in Nat \ {0}, NEW q \in Nat, NEW r \in 0 .. d - 1
  PROVE  (q * d + r) \div d = q /\ (q * d + r) % d = r
OBVIOUS

\* A digit below its base stays below the product.
LEMMA DigitBelow ==
  ASSUME NEW m \in Nat, NEW d \in Nat, NEW q \in 0 .. m - 1, NEW r \in 0 .. d - 1
  PROVE  q * d + r \in 0 .. m * d - 1
<1>1. (q + 1) * d <= m * d
  <2>1. PICK k \in Nat : m = q + 1 + k
    <3>1. m - (q + 1) \in Nat
      OBVIOUS
    <3>2. m = q + 1 + (m - (q + 1))
      OBVIOUS
    <3>. QED  BY <3>1, <3>2
  <2>2. k * d \in Nat /\ m * d = (q + 1) * d + k * d
    BY <2>1
  <2>. QED  BY <2>2
<1>2. q * d \in Nat /\ (q + 1) * d = q * d + d /\ m * d \in Nat
  OBVIOUS
<1>. QED  BY <1>1, <1>2

LEMMA Sizes ==
  /\ entry_elems \in Nat \ {0} /\ block_elems \in Nat \ {0} /\ layer_elems \in Nat
  /\ NumBlocks # 0 => layer_elems # 0
  /\ NumBlocks = 0 => layer_elems = 0
  /\ NumLayers * layer_elems \in Nat
<1>1. entry_elems \in Nat \ {0}
  BY GeometryAssumption DEF entry_elems
<1>2. block_elems \in Nat \ {0}
  BY <1>1, GeometryAssumption DEF block_elems
<1>3. layer_elems \in Nat /\ (NumBlocks # 0 => layer_elems # 0) /\ (NumBlocks = 0 => layer_elems = 0)
  BY <1>2, GeometryAssumption DEF layer_elems
<1>. QED  BY <1>1, <1>2, <1>3, GeometryAssumption

\* An offset in a block: where it is, and which layer it belongs to.
LEMMA BlockOffsets ==
  ASSUME NEW l \in Layers, NEW b \in Block, NEW i \in 0 .. block_elems - 1
  PROVE  /\ block_offset(l, b) \in Nat
         /\ block_offset(l, b) + i \in Offsets
         /\ (block_offset(l, b) + i) \div layer_elems = l
         /\ \A c \in Block : block_offset(l, b) + i \in
                               block_offset(l, c) .. block_offset(l, c) + block_elems - 1 <=> c = b
<1> DEFINE q == l * NumBlocks + b
<1>1. /\ block_elems \in Nat \ {0} /\ layer_elems \in Nat \ {0}
      /\ NumBlocks \in Nat \ {0} /\ l \in Nat /\ b \in Nat /\ NumLayers \in Nat
  BY Sizes, GeometryAssumption DEF Layers, Block
<1>2. q \in 0 .. NumLayers * NumBlocks - 1 /\ q \in Nat
  BY <1>1, DigitBelow, GeometryAssumption DEF Layers, Block
<1>3. q * block_elems + i \in 0 .. (NumLayers * NumBlocks) * block_elems - 1
  BY <1>1, <1>2, DigitBelow
<1>4. block_offset(l, b) = q * block_elems /\ block_offset(l, b) \in Nat
  BY <1>1, <1>2 DEF block_offset
<1>5. block_offset(l, b) + i \in Offsets
  <2>1. NumLayers * layer_elems = (NumLayers * NumBlocks) * block_elems
    BY <1>1 DEF layer_elems
  <2>. QED  BY <1>3, <1>4, <2>1 DEF Offsets
<1>6. (block_offset(l, b) + i) \div layer_elems = l
  <2>1. b * block_elems + i \in 0 .. layer_elems - 1
    BY <1>1, DigitBelow DEF Block, layer_elems
  <2>2. block_offset(l, b) + i = l * layer_elems + (b * block_elems + i)
    BY <1>1 DEF block_offset, layer_elems
  <2>. QED  BY <1>1, <2>1, <2>2, Divides
<1>7. ASSUME NEW c \in Block
      PROVE  block_offset(l, b) + i \in
               block_offset(l, c) .. block_offset(l, c) + block_elems - 1 <=> c = b
  <2> DEFINE p == l * NumBlocks + c
  <2>1. c \in Nat /\ p \in Nat
    BY <1>1 DEF Block
  <2>2. block_offset(l, c) = p * block_elems /\ block_offset(l, c) \in Nat
    BY <1>1, <2>1 DEF block_offset
  <2>3. ASSUME block_offset(l, b) + i \in block_offset(l, c) .. block_offset(l, c) + block_elems - 1
        PROVE  c = b
    <3>1. PICK j \in 0 .. block_elems - 1 : block_offset(l, b) + i = block_offset(l, c) + j
      <4>1. (block_offset(l, b) + i) - block_offset(l, c) \in 0 .. block_elems - 1
        BY <1>1, <1>4, <2>2, <2>3
      <4>2. block_offset(l, b) + i = block_offset(l, c) + ((block_offset(l, b) + i) - block_offset(l, c))
        BY <1>1, <1>4, <2>2
      <4>. QED  BY <4>1, <4>2
    <3>2. (q * block_elems + i) \div block_elems = q /\ (p * block_elems + j) \div block_elems = p
      BY <1>1, <1>2, <2>1, Divides
    <3>3. q = p
      BY <1>4, <2>2, <3>1, <3>2
    <3>. QED  BY <1>1, <2>1, <3>3
  <2>4. block_offset(l, b) + i \in block_offset(l, b) .. block_offset(l, b) + block_elems - 1
    BY <1>1, <1>4
  <2>. QED  BY <2>3, <2>4
<1>. QED  BY <1>4, <1>5, <1>6, <1>7

\* A slot's offset is one in its block, and another slot's entry is elsewhere.
LEMMA SlotOffsets ==
  ASSUME NEW a \in Address, NEW i \in 0 .. entry_elems - 1
  PROVE  /\ slot_offset(a[1], At(a)) \in Nat
         /\ slot_offset(a[1], At(a)) + i = block_offset(a[1], a[2]) + (a[3] * entry_elems + i)
         /\ a[3] * entry_elems + i \in 0 .. block_elems - 1
         /\ slot_offset(a[1], At(a)) + i \in Offsets
         /\ \A c \in Address :
              slot_offset(a[1], At(a)) + i \in
                slot_offset(c[1], At(c)) .. slot_offset(c[1], At(c)) + entry_elems - 1 <=> c = a
<1>1. /\ entry_elems \in Nat \ {0} /\ BlockSize \in Nat \ {0} /\ block_elems \in Nat \ {0}
      /\ layer_elems \in Nat
  BY Sizes, GeometryAssumption
<1>2. \A c \in Address : /\ c[1] \in Layers /\ c[2] \in Block /\ c[3] \in Slots /\ c[3] \in Nat
                         /\ c = <<c[1], c[2], c[3]>>
  BY <1>1 DEF Address, Slots
<1>3. \A c \in Address : \A j \in 0 .. entry_elems - 1 :
        /\ c[3] * entry_elems + j \in 0 .. block_elems - 1
        /\ (c[3] * entry_elems + j) \div entry_elems = c[3]
  <2> TAKE c \in Address
  <2> TAKE j \in 0 .. entry_elems - 1
  <2>1. c[3] \in 0 .. BlockSize - 1 /\ c[3] \in Nat
    BY <1>2 DEF Slots
  <2>2. c[3] * entry_elems + j \in 0 .. BlockSize * entry_elems - 1
    BY <1>1, <2>1, DigitBelow
  <2>. QED  BY <1>1, <2>1, <2>2, Divides DEF block_elems
<1>4. \A c \in Address :
        /\ block_offset(c[1], c[2]) \in Nat
        /\ \A k \in 0 .. block_elems - 1 :
             /\ block_offset(c[1], c[2]) + k \in Offsets
             /\ (block_offset(c[1], c[2]) + k) \div layer_elems = c[1]
             /\ \A d \in Block : block_offset(c[1], c[2]) + k \in
                  block_offset(c[1], d) .. block_offset(c[1], d) + block_elems - 1 <=> d = c[2]
  <2>1. 0 \in 0 .. block_elems - 1
    BY <1>1
  <2>. QED  BY <1>2, <2>1, BlockOffsets
<1>5. \A c \in Address :
        /\ slot_offset(c[1], At(c)) = block_offset(c[1], c[2]) + c[3] * entry_elems
        /\ slot_offset(c[1], At(c)) \in Nat /\ c[3] * entry_elems \in Nat
  BY <1>1, <1>2, <1>4 DEF slot_offset, At
<1>6. \A c \in Address : \A j \in 0 .. entry_elems - 1 :
        /\ slot_offset(c[1], At(c)) + j = block_offset(c[1], c[2]) + (c[3] * entry_elems + j)
        /\ slot_offset(c[1], At(c)) + j \in Offsets
  BY <1>3, <1>4, <1>5
<1>7. ASSUME NEW c \in Address,
             slot_offset(a[1], At(a)) + i \in
               slot_offset(c[1], At(c)) .. slot_offset(c[1], At(c)) + entry_elems - 1
      PROVE  c = a
  <2>1. PICK j \in 0 .. entry_elems - 1 :
          slot_offset(a[1], At(a)) + i = slot_offset(c[1], At(c)) + j
    <3>1. (slot_offset(a[1], At(a)) + i) - slot_offset(c[1], At(c)) \in 0 .. entry_elems - 1
      BY <1>1, <1>5, <1>7
    <3>2. slot_offset(a[1], At(a)) + i = slot_offset(c[1], At(c))
                + ((slot_offset(a[1], At(a)) + i) - slot_offset(c[1], At(c)))
      BY <1>1, <1>5
    <3>. QED  BY <3>1, <3>2
  <2> DEFINE k == a[3] * entry_elems + i
             m == c[3] * entry_elems + j
  <2>2. /\ k \in 0 .. block_elems - 1 /\ m \in 0 .. block_elems - 1
        /\ k \div entry_elems = a[3] /\ m \div entry_elems = c[3]
    BY <1>3
  <2>3. block_offset(a[1], a[2]) + k = block_offset(c[1], c[2]) + m
    BY <1>6, <2>1
  <2>. HIDE DEF k, m
  <2>4. a[1] = c[1]
    BY <1>4, <2>2, <2>3
  <2>5. block_offset(a[1], a[2]) + k \in
          block_offset(a[1], c[2]) .. block_offset(a[1], c[2]) + block_elems - 1
    BY <1>1, <1>4, <2>2, <2>3, <2>4
  <2>6. a[2] = c[2]
    BY <1>2, <1>4, <2>2, <2>5
  <2>7. k = m
    BY <1>1, <1>4, <2>2, <2>3, <2>4, <2>6
  <2>. QED  BY <1>2, <2>2, <2>4, <2>6, <2>7
<1>8. slot_offset(a[1], At(a)) + i \in
        slot_offset(a[1], At(a)) .. slot_offset(a[1], At(a)) + entry_elems - 1
  BY <1>1, <1>5
<1>. QED  BY <1>3, <1>5, <1>6, <1>7, <1>8

\* An offset within a block of its own layer is still an offset in another.
LEMMA LayerOf ==
  ASSUME NEW o \in Offsets, NEW b \in Block,
         o \in block_offset(o \div layer_elems, b)
                 .. block_offset(o \div layer_elems, b) + block_elems - 1,
         NEW c \in Block
  PROVE  /\ o \div layer_elems \in Layers
         /\ o - block_offset(o \div layer_elems, b) + block_offset(o \div layer_elems, c) \in Offsets
<1>1. /\ layer_elems \in Nat \ {0} /\ NumLayers \in Nat /\ NumBlocks \in Nat
      /\ block_elems \in Nat \ {0} /\ o \in Nat /\ o < NumLayers * layer_elems
      /\ b \in Nat
  BY Sizes, GeometryAssumption DEF Offsets, Block
<1> DEFINE l == o \div layer_elems
<1>2. l \in Nat /\ l * layer_elems <= o
  BY <1>1
<1>3. l < NumLayers
  <2>1. SUFFICES ASSUME l >= NumLayers PROVE FALSE
    BY <1>1, <1>2
  <2>. HIDE DEF l
  <2>2. PICK k \in Nat : l = NumLayers + k
    <3>1. l - NumLayers \in Nat /\ l = NumLayers + (l - NumLayers)
      BY <1>1, <1>2, <2>1
    <3>. QED  BY <3>1
  <2>3. l * layer_elems = NumLayers * layer_elems + k * layer_elems /\ k * layer_elems \in Nat
    BY <1>1, <2>2
  <2>4. NumLayers * layer_elems \in Nat
    BY <1>1
  <2>. QED  BY <1>1, <1>2, <2>3, <2>4
<1>4. l \in Layers
  BY <1>1, <1>2, <1>3 DEF Layers
<1>. HIDE DEF l
<1>5. block_offset(l, b) \in Nat /\ block_offset(l, c) \in Nat
  <2>1. 0 \in 0 .. block_elems - 1
    BY <1>1
  <2>. QED  BY <1>4, <2>1, BlockOffsets
<1>6. o - block_offset(l, b) \in 0 .. block_elems - 1
  BY <1>1, <1>5 DEF l
<1>7. block_offset(l, c) + (o - block_offset(l, b)) \in Offsets
  BY <1>4, <1>6, BlockOffsets
<1>8. o - block_offset(l, b) + block_offset(l, c) = block_offset(l, c) + (o - block_offset(l, b))
  <2>1. \A x, y, z \in Int : x - y + z = z + (x - y)
    OBVIOUS
  <2>2. o \in Int /\ block_offset(l, b) \in Int /\ block_offset(l, c) \in Int
    BY <1>1, <1>5
  <2>. QED  BY <2>1, <2>2
<1>. QED  BY <1>4, <1>7, <1>8 DEF l

-----------------------------------------------------------------------------
(* The inductive invariant.                                                *)

\* A batch under way has as many values left as places.
CpuInv == CpuTypeOK /\ (call.kind = "write" => Len(call.values) = Len(call.dsts))

LEMMA CallFacts ==
  ASSUME CpuInv
  PROVE  /\ call.kind = "write" =>
              /\ call \in [kind : {"write"}, layer : Nat, dsts : Seq(PhysicalSlot), values : Seq(Entries)]
              /\ Len(call.values) = Len(call.dsts)
         /\ call.kind = "copy" => call \in [kind : {"copy"}, pairs : Seq(Nat \X Nat)]
         /\ call.kind = "zero" => call \in [kind : {"zero"}, block : Nat]
BY DEF CpuInv, CpuTypeOK, Call, NoCall

LEMMA CpuInitInv == CpuInit => CpuInv
<1> SUFFICES ASSUME CpuInit PROVE CpuInv
  OBVIOUS
<1>1. pool \in [Offsets -> Elem]
  BY GeometryAssumption DEF CpuInit
<1>. QED  BY <1>1 DEF CpuInit, CpuInv, CpuTypeOK, NoCall

LEMMA CpuNextInv == CpuInv /\ [CpuNext]_cpuVars => CpuInv'
<1> SUFFICES ASSUME CpuInv, [CpuNext]_cpuVars PROVE CpuInv'
  OBVIOUS
<1>1. pool \in [Offsets -> Elem] /\ call \in Call \cup {NoCall} /\ failed \in BOOLEAN
  BY DEF CpuInv, CpuTypeOK
<1>2. CASE UNCHANGED cpuVars
  BY <1>1, <1>2 DEF cpuVars, CpuInv, CpuTypeOK
<1>3. ASSUME NEW c \in Calls, Begin(c) PROVE CpuInv'
  <2>1. c \in Call
    BY GeometryAssumption
  <2>2. /\ pool' = pool /\ failed' = (c.kind = "write" /\ Len(c.values) # Len(c.dsts))
        /\ call' = IF failed' THEN NoCall ELSE c
    BY <1>3 DEF Begin
  <2>3. failed' \in BOOLEAN
    BY <2>2
  <2>4. call' = NoCall \/ (call' = c /\ (c.kind = "write" => Len(c.values) = Len(c.dsts)))
    BY <2>2
  <2>. QED  BY <1>1, <2>1, <2>2, <2>3, <2>4 DEF CpuInv, CpuTypeOK, NoCall
<1>4. CASE WriteKv
  <2>1. /\ call \in [kind : {"write"}, layer : Nat, dsts : Seq(PhysicalSlot), values : Seq(Entries)]
        /\ Len(call.values) = Len(call.dsts) /\ call.dsts # <<>>
    BY <1>4, CallFacts DEF WriteKv
  <2>2. /\ call.dsts \in Seq(PhysicalSlot) /\ call.values \in Seq(Entries)
        /\ Tail(call.dsts) \in Seq(PhysicalSlot) /\ Tail(call.values) \in Seq(Entries)
        /\ Len(Tail(call.dsts)) = Len(Tail(call.values))
        /\ Head(call.values) \in Entries
    <3>1. call.dsts \in Seq(PhysicalSlot) /\ call.values \in Seq(Entries) /\ call.values # <<>>
      BY <2>1, EmptySeq
    <3>. QED  BY <2>1, <3>1, HeadTailProperties
  <2>3. /\ call' \in [kind : {"write"}, layer : Nat, dsts : Seq(PhysicalSlot), values : Seq(Entries)]
        /\ Len(call'.values) = Len(call'.dsts)
    <3>1. call' = [call EXCEPT !.dsts = Tail(@), !.values = Tail(@)]
      BY <1>4 DEF WriteKv
    <3>. QED  BY <2>1, <2>2, <3>1
  <2>4. pool' \in [Offsets -> Elem]
    <3> DEFINE from == slot_offset(call.layer, Head(call.dsts))
               e == Head(call.values)
    <3>1. pool' = [o \in Offsets |-> IF o \in from .. from + entry_elems - 1 THEN e[o - from] ELSE pool[o]]
      BY <1>4 DEF WriteKv, Set
    <3>2. from \in Nat
      <4>1. Head(call.dsts) \in PhysicalSlot /\ call.layer \in Nat
        BY <2>1, <2>2, HeadTailProperties
      <4>. QED  BY <4>1, Sizes, GeometryAssumption DEF slot_offset, block_offset, PhysicalSlot
    <3>. HIDE DEF from
    <3>3. \A o \in Offsets : o \in from .. from + entry_elems - 1 => o - from \in 0 .. entry_elems - 1
      BY <3>2, Sizes
    <3>. QED  BY <1>1, <2>2, <3>1, <3>3 DEF Entries
  <2>. QED  BY <1>1, <1>4, <2>3, <2>4 DEF CpuInv, CpuTypeOK, Call, WriteKv
<1>5. CASE CopyBlock
  <2> DEFINE src == Head(call.pairs)[1]
             dst == Head(call.pairs)[2]
  <2>1. call \in [kind : {"copy"}, pairs : Seq(Nat \X Nat)] /\ call.pairs # <<>>
    BY <1>5, CallFacts DEF CopyBlock
  <2>2. /\ Tail(call.pairs) \in Seq(Nat \X Nat) /\ src \in Nat /\ dst \in Nat
    BY <2>1, HeadTailProperties
  <2>3. /\ call' = [call EXCEPT !.pairs = Tail(@)] /\ src \in Block /\ dst \in Block
        /\ pool' = IF src = dst THEN pool ELSE Copied(src, dst)
    BY <1>5, <2>2, GeometryAssumption DEF CopyBlock, Block, validate_block
  <2>4. call' \in [kind : {"copy"}, pairs : Seq(Nat \X Nat)]
    BY <2>1, <2>2, <2>3
  <2>. HIDE DEF src, dst
  <2>5. Copied(src, dst) \in [Offsets -> Elem]
    BY <1>1, <2>3, LayerOf DEF Copied
  <2>. QED  BY <1>1, <1>5, <2>3, <2>4, <2>5 DEF CpuInv, CpuTypeOK, Call, CopyBlock
<1>6. CASE ZeroBlock \/ Fail \/ Done
  <2>1. pool' \in [Offsets -> Elem]
    BY <1>1, <1>6, GeometryAssumption DEF ZeroBlock, Fail, Done
  <2>2. call' = NoCall /\ (failed' = failed \/ failed' = TRUE)
    BY <1>6 DEF ZeroBlock, Fail, Done
  <2>3. failed' \in BOOLEAN
    BY <1>1, <2>2
  <2>4. call'.kind # "write"
    BY <2>2 DEF NoCall
  <2>. QED  BY <2>1, <2>2, <2>3, <2>4 DEF CpuInv, CpuTypeOK
<1>. QED  BY <1>2, <1>3, <1>4, <1>5, <1>6 DEF CpuNext, CpuStep

-----------------------------------------------------------------------------
(* The store that is read back.                                            *)

StoreView == [a \in Layers \X Block \X Slots |-> read_kv(a[1], [block |-> a[2], slot |-> a[3]])]

Reads(p) == [a \in Address |-> [i \in 0 .. entry_elems - 1 |-> p[slot_offset(a[1], At(a)) + i]]]

LEMMA ViewFacts == StoreView = Reads(pool) /\ StoreView' = Reads(pool')
<1>1. StoreView = Reads(pool)
  BY DEF StoreView, Reads, Address, read_kv, At
<1>2. StoreView' = Reads(pool')
  BY DEF StoreView, Reads, Address, read_kv, At, slot_offset, block_offset
<1>. QED  BY <1>1, <1>2

\* One token is written.
LEMMA WriteStores ==
  ASSUME CpuInv, WriteKv
  PROVE  \E layer \in Layers, block \in Block, slot \in Slots, e \in Entries :
           Store!write_kv(layer, block, slot, e)
<1> DEFINE d == Head(call.dsts)
           e == Head(call.values)
           a == <<call.layer, d.block, d.slot>>
           from == slot_offset(call.layer, d)
<1>1. /\ call \in [kind : {"write"}, layer : Nat, dsts : Seq(PhysicalSlot), values : Seq(Entries)]
      /\ Len(call.values) = Len(call.dsts) /\ call.dsts # <<>> /\ validate(call.layer, d)
      /\ pool' = [o \in Offsets |-> IF o \in from .. from + entry_elems - 1 THEN e[o - from] ELSE pool[o]]
  BY CallFacts DEF WriteKv, Set
<1>2. d \in PhysicalSlot /\ e \in Entries /\ call.layer \in Nat
  <2>1. call.dsts \in Seq(PhysicalSlot) /\ call.values \in Seq(Entries) /\ call.values # <<>>
    BY <1>1, EmptySeq
  <2>. QED  BY <1>1, <2>1, HeadTailProperties
<1>3. /\ call.layer \in Layers /\ d.block \in Block /\ d.slot \in Slots
      /\ a \in Address /\ At(a) = d
  BY <1>1, <1>2, GeometryAssumption
  DEF validate, validate_block, PhysicalSlot, Layers, Block, Slots, Address, At
<1>4. from = slot_offset(a[1], At(a))
  BY <1>3
<1>. HIDE DEF d, e, from
<1>5. entry_elems \in Nat \ {0}
  BY Sizes
<1>6. ASSUME NEW c \in Address, NEW i \in 0 .. entry_elems - 1
      PROVE  pool'[slot_offset(c[1], At(c)) + i]
               = IF c = a THEN e[i] ELSE pool[slot_offset(c[1], At(c)) + i]
  <2> DEFINE o == slot_offset(c[1], At(c)) + i
  <2>1. /\ o \in Offsets /\ slot_offset(c[1], At(c)) \in Nat
        /\ (o \in from .. from + entry_elems - 1 <=> c = a)
    BY <1>3, <1>4, SlotOffsets
  <2>2. pool'[o] = IF c = a THEN e[o - from] ELSE pool[o]
    <3>. HIDE DEF o
    <3>. QED  BY <1>1, <2>1
  <2>3. c = a => o - from = i
    BY <1>4, <2>1
  <2>. QED  BY <2>2, <2>3
<1>7. StoreView' = [StoreView EXCEPT ![a] = e]
  <2>1. e = [i \in 0 .. entry_elems - 1 |-> e[i]]
    BY <1>2 DEF Entries
  <2>2. ASSUME NEW c \in Address
        PROVE  Reads(pool')[c] = IF c = a THEN e ELSE Reads(pool)[c]
    <3>1. /\ Reads(pool')[c] = [i \in 0 .. entry_elems - 1 |-> pool'[slot_offset(c[1], At(c)) + i]]
          /\ Reads(pool)[c] = [i \in 0 .. entry_elems - 1 |-> pool[slot_offset(c[1], At(c)) + i]]
      BY DEF Reads
    <3>2. CASE c = a
      BY <1>6, <2>1, <3>1, <3>2
    <3>3. CASE c # a
      BY <1>6, <3>1, <3>3
    <3>. QED  BY <3>2, <3>3
  <2>3. Reads(pool') = [Reads(pool) EXCEPT ![a] = e]
    <3>1. \A p : Reads(p) = [c \in Address |-> Reads(p)[c]]
      BY DEF Reads
    <3>2. PICK u, v : u = Reads(pool) /\ v = Reads(pool')
      OBVIOUS
    <3>3. u = [c \in Address |-> u[c]] /\ v = [c \in Address |-> v[c]]
      BY <3>1, <3>2
    <3>4. \A c \in Address : v[c] = IF c = a THEN e ELSE u[c]
      BY <2>2, <3>2
    <3>. QED  BY <3>2, <3>3, <3>4
  <2>. QED  BY <2>3, ViewFacts
<1>8. Store!write_kv(call.layer, d.block, d.slot, e)
  BY <1>7 DEF Store!write_kv, StoreView
<1>. QED  BY <1>2, <1>3, <1>8

\* q is p with block s over block b, place by place.
BlockOver(p, q, s, b) ==
  \A l \in Layers, c \in Block : \A k \in 0 .. block_elems - 1 :
    q[block_offset(l, c) + k] =
      p[IF c = b THEN block_offset(l, s) + k ELSE block_offset(l, c) + k]

LEMMA BlockStores ==
  ASSUME NEW p, NEW q, NEW b \in Block, NEW s \in Block, BlockOver(p, q, s, b)
  PROVE  Reads(q) = [a \in Address |-> IF a[2] = b THEN Reads(p)[<<a[1], s, a[3]>>] ELSE Reads(p)[a]]
<1>1. ASSUME NEW a \in Address, NEW i \in 0 .. entry_elems - 1
      PROVE  /\ <<a[1], s, a[3]>> \in Address
             /\ q[slot_offset(a[1], At(a)) + i] =
                  IF a[2] = b THEN p[slot_offset(a[1], At(<<a[1], s, a[3]>>)) + i]
                              ELSE p[slot_offset(a[1], At(a)) + i]
  <2> DEFINE k == a[3] * entry_elems + i
             d == <<a[1], s, a[3]>>
  <2>1. a[1] \in Layers /\ a[2] \in Block /\ d \in Address /\ d[1] = a[1] /\ d[2] = s /\ d[3] = a[3]
    BY DEF Address
  <2>2. /\ k \in 0 .. block_elems - 1
        /\ slot_offset(a[1], At(a)) + i = block_offset(a[1], a[2]) + k
        /\ slot_offset(a[1], At(d)) + i = block_offset(a[1], s) + k
    <3>1. \A c \in Address :
            /\ c[3] * entry_elems + i \in 0 .. block_elems - 1
            /\ slot_offset(c[1], At(c)) + i = block_offset(c[1], c[2]) + (c[3] * entry_elems + i)
      BY SlotOffsets
    <3>. HIDE DEF d
    <3>. QED  BY <2>1, <3>1
  <2>. HIDE DEF k, d
  <2>. QED  BY <2>1, <2>2 DEF d, BlockOver
<1>2. ASSUME NEW a \in Address
      PROVE  Reads(q)[a] = IF a[2] = b THEN Reads(p)[<<a[1], s, a[3]>>] ELSE Reads(p)[a]
  <2>1. <<a[1], s, a[3]>> \in Address
    BY DEF Address
  <2>2. /\ Reads(q)[a] = [i \in 0 .. entry_elems - 1 |-> q[slot_offset(a[1], At(a)) + i]]
        /\ Reads(p)[a] = [i \in 0 .. entry_elems - 1 |-> p[slot_offset(a[1], At(a)) + i]]
        /\ Reads(p)[<<a[1], s, a[3]>>] =
             [i \in 0 .. entry_elems - 1 |-> p[slot_offset(a[1], At(<<a[1], s, a[3]>>)) + i]]
    BY <2>1 DEF Reads
  <2>3. CASE a[2] = b
    <3>1. \A i \in 0 .. entry_elems - 1 :
            q[slot_offset(a[1], At(a)) + i] = p[slot_offset(a[1], At(<<a[1], s, a[3]>>)) + i]
      BY <1>1, <2>3
    <3>. QED  BY <2>2, <2>3, <3>1
  <2>4. CASE a[2] # b
    <3>1. \A i \in 0 .. entry_elems - 1 :
            q[slot_offset(a[1], At(a)) + i] = p[slot_offset(a[1], At(a)) + i]
      BY <1>1, <2>4
    <3>. QED  BY <2>2, <2>4, <3>1
  <2>. QED  BY <2>3, <2>4
<1>3. Reads(q) = [a \in Address |-> Reads(q)[a]]
  BY DEF Reads
<1>. QED  BY <1>2, <1>3

LEMMA CopyStores ==
  ASSUME CpuInv, CopyBlock
  PROVE  \E src, dst \in Block : Store!copy_block(src, dst)
<1> DEFINE src == Head(call.pairs)[1]
           dst == Head(call.pairs)[2]
<1>1. /\ src \in Block /\ dst \in Block
      /\ pool' = IF src = dst THEN pool ELSE Copied(src, dst)
  <2>1. call \in [kind : {"copy"}, pairs : Seq(Nat \X Nat)] /\ call.pairs # <<>>
    BY CallFacts DEF CopyBlock
  <2>2. src \in Nat /\ dst \in Nat
    BY <2>1, HeadTailProperties
  <2>. QED  BY <2>2, GeometryAssumption DEF CopyBlock, validate_block, Block
<1>. HIDE DEF src, dst
<1>2. ASSUME src = dst
      PROVE  Reads(pool') = [a \in Address |-> IF a[2] = dst THEN Reads(pool)[<<a[1], src, a[3]>>]
                                                      ELSE Reads(pool)[a]]
  <2>1. Reads(pool') = Reads(pool)
    BY <1>1, <1>2
  <2>2. Reads(pool) = [a \in Address |-> IF a[2] = dst THEN Reads(pool)[<<a[1], src, a[3]>>]
                                                      ELSE Reads(pool)[a]]
    <3>1. \A a \in Address : a[2] = dst => <<a[1], src, a[3]>> = a
      BY <1>2 DEF Address
    <3>2. Reads(pool) = [a \in Address |-> Reads(pool)[a]]
      BY DEF Reads
    <3>. QED  BY <3>1, <3>2
  <2>. QED  BY <2>1, <2>2
<1>3. ASSUME src # dst
      PROVE  Reads(pool') = [a \in Address |-> IF a[2] = dst THEN Reads(pool)[<<a[1], src, a[3]>>]
                                                      ELSE Reads(pool)[a]]
  <2>1. ASSUME NEW l \in Layers, NEW c \in Block, NEW k \in 0 .. block_elems - 1
        PROVE  pool'[block_offset(l, c) + k] =
                 pool[IF c = dst THEN block_offset(l, src) + k ELSE block_offset(l, c) + k]
    <3> DEFINE o == block_offset(l, c) + k
    <3>1. /\ o \in Offsets /\ o \div layer_elems = l /\ block_offset(l, c) \in Nat
          /\ (o \in block_offset(l, dst) .. block_offset(l, dst) + block_elems - 1 <=> dst = c)
      BY <1>1, BlockOffsets
    <3>2. block_offset(l, src) \in Nat
      <4>1. 0 \in 0 .. block_elems - 1
        BY Sizes
      <4>. QED  BY <1>1, <4>1, BlockOffsets
    <3>3. c = dst => o - block_offset(l, dst) + block_offset(l, src) = block_offset(l, src) + k
      BY <3>1, <3>2
    <3>. HIDE DEF o
    <3>4. pool'[o] = IF o \in block_offset(l, dst) .. block_offset(l, dst) + block_elems - 1
                     THEN pool[o - block_offset(l, dst) + block_offset(l, src)] ELSE pool[o]
      BY <1>1, <1>3, <3>1 DEF Copied
    <3>. QED  BY <3>1, <3>3, <3>4 DEF o
  <2>2. Reads(pool') = [a \in Address |-> IF a[2] = dst THEN Reads(pool)[<<a[1], src, a[3]>>]
                                                       ELSE Reads(pool)[a]]
    <3>1. PICK p, q : p = pool /\ q = pool'
      OBVIOUS
    <3>2. BlockOver(p, q, src, dst)
      BY <2>1, <3>1 DEF BlockOver
    <3>3. Reads(q) = [a \in Address |-> IF a[2] = dst THEN Reads(p)[<<a[1], src, a[3]>>]
                                                     ELSE Reads(p)[a]]
      BY <1>1, <3>2, BlockStores
    <3>. QED  BY <3>1, <3>3
  <2>. QED  BY <2>2
<1>4. StoreView' = [a \in Layers \X Block \X Slots |->
                      IF a[2] = dst THEN StoreView[<<a[1], src, a[3]>>] ELSE StoreView[a]]
  BY <1>2, <1>3, ViewFacts DEF Address
<1>5. Store!copy_block(src, dst)
  BY <1>4 DEF Store!copy_block, StoreView
<1>. QED  BY <1>1, <1>5

LEMMA ZeroStores ==
  ASSUME CpuInv, ZeroBlock
  PROVE  \E block \in Block : Store!zero_block(block)
<1> DEFINE b == call.block
           zero == [i \in 0 .. entry_elems - 1 |-> Zero]
<1>1. /\ b \in Block
      /\ pool' = [o \in Offsets |->
                    IF o \in block_offset(o \div layer_elems, b)
                               .. block_offset(o \div layer_elems, b) + block_elems - 1
                    THEN Zero ELSE pool[o]]
  BY CallFacts, GeometryAssumption DEF ZeroBlock, validate_block, Block
<1>. HIDE DEF b
<1>2. ASSUME NEW a \in Address, NEW i \in 0 .. entry_elems - 1
      PROVE  pool'[slot_offset(a[1], At(a)) + i] =
               IF a[2] = b THEN Zero ELSE pool[slot_offset(a[1], At(a)) + i]
  <2> DEFINE k == a[3] * entry_elems + i
             o == block_offset(a[1], a[2]) + k
  <2>1. k \in 0 .. block_elems - 1 /\ slot_offset(a[1], At(a)) + i = o
    BY SlotOffsets
  <2>2. a[1] \in Layers /\ a[2] \in Block
    BY DEF Address
  <2>. HIDE DEF k
  <2>3. /\ o \in Offsets /\ o \div layer_elems = a[1]
        /\ (o \in block_offset(a[1], b) .. block_offset(a[1], b) + block_elems - 1 <=> b = a[2])
    BY <1>1, <2>1, <2>2, BlockOffsets
  <2>. HIDE DEF o
  <2>. QED  BY <1>1, <2>1, <2>3
<1>3. ASSUME NEW a \in Address
      PROVE  Reads(pool')[a] = IF a[2] = b THEN zero ELSE Reads(pool)[a]
  <2>1. /\ Reads(pool')[a] = [i \in 0 .. entry_elems - 1 |-> pool'[slot_offset(a[1], At(a)) + i]]
        /\ Reads(pool)[a] = [i \in 0 .. entry_elems - 1 |-> pool[slot_offset(a[1], At(a)) + i]]
    BY DEF Reads
  <2>2. CASE a[2] = b
    <3>1. \A i \in 0 .. entry_elems - 1 : pool'[slot_offset(a[1], At(a)) + i] = Zero
      BY <1>2, <2>2
    <3>. QED  BY ONLY <2>1, <2>2, <3>1 DEF zero
  <2>3. CASE a[2] # b
    <3>1. \A i \in 0 .. entry_elems - 1 :
            pool'[slot_offset(a[1], At(a)) + i] = pool[slot_offset(a[1], At(a)) + i]
      BY <1>2, <2>3
    <3>2. Reads(pool')[a] = Reads(pool)[a]
      BY ONLY <2>1, <3>1
    <3>. QED  BY <2>3, <3>2
  <2>. QED  BY <2>2, <2>3
<1>. HIDE DEF zero
<1>4. Reads(pool') = [a \in Address |-> IF a[2] = b THEN zero ELSE Reads(pool)[a]]
  <2>1. Reads(pool') = [a \in Address |-> Reads(pool')[a]]
    BY DEF Reads
  <2>. QED  BY <1>3, <2>1
<1>5. StoreView' = [a \in Address |-> IF a[2] = b THEN zero ELSE StoreView[a]]
  BY <1>4, ViewFacts
<1>6. Store!zero_block(b)
  BY ONLY <1>5, Zenon DEF Store!zero_block, StoreView, Address, zero
<1>. QED  BY ONLY <1>1, <1>6

-----------------------------------------------------------------------------
(* The result.                                                             *)

(***************************************************************************)
(* cpu.rs:28-37 and 119, for every number of layers, blocks, heads and     *)
(* every block size: writing, copying or zeroing changes what is read back *)
(* at the slots the call names, in every layer it concerns, and nowhere    *)
(* else.                                                                   *)
(***************************************************************************)
THEOREM FlatPoolIsStore == CpuSpec => ImplementsStore
<1>1. CpuInit => Store!Init
  <2> SUFFICES ASSUME CpuInit PROVE Store!Init
    OBVIOUS
  <2>1. \A a \in Address, i \in 0 .. entry_elems - 1 : pool[slot_offset(a[1], At(a)) + i] = Zero
    BY SlotOffsets DEF CpuInit
  <2>2. Reads(pool) = [a \in Address |-> [i \in 0 .. entry_elems - 1 |-> Zero]]
    BY <2>1 DEF Reads
  <2>. QED  BY <2>2, ViewFacts DEF Store!Init, StoreView, Address
<1>2. CpuInv /\ [CpuNext]_cpuVars => [Store!Next]_StoreView
  <2> SUFFICES ASSUME CpuInv, [CpuNext]_cpuVars PROVE [Store!Next]_StoreView
    OBVIOUS
  <2>1. CASE WriteKv
    BY <2>1, WriteStores DEF Store!Next
  <2>2. CASE CopyBlock
    BY <2>2, CopyStores DEF Store!Next
  <2>3. CASE ZeroBlock
    BY <2>3, ZeroStores DEF Store!Next
  <2>4. ASSUME pool' = pool PROVE StoreView' = StoreView
    BY <2>4, ViewFacts
  <2>. QED  BY <2>1, <2>2, <2>3, <2>4 DEF CpuNext, CpuStep, Begin, Fail, Done, cpuVars
<1>. QED
  BY <1>1, <1>2, CpuInitInv, CpuNextInv, PTL
  DEF CpuSpec, ImplementsStore, Store!Spec, StoreView

-----------------------------------------------------------------------------
(* Threads.                                                                *)

Loading(t) == "src" \in DOMAIN t

RaceFree(T) == \A t, u \in T : t # u => t.dst # u.dst /\ (Loading(u) => t.dst # u.src)

Stored(p, t) == IF Loading(t) THEN p[t.src] ELSE t.value

\* Pool p after the threads T, where each finds what was there before.
After(p, T) ==
  [o \in Offsets |-> IF \E t \in T : t.dst = o
                     THEN Stored(p, CHOOSE t \in T : t.dst = o) ELSE p[o]]

\* The threads of what is left of the call on the CPU.
Rest == IF call = NoCall THEN {} ELSE Launch(call)

\* What is left on the CPU and the threads that are left lead to one pool.
CudaInv ==
  /\ CpuInv
  /\ gpu \in [Offsets -> Elem] /\ threads \subseteq Thread /\ rejected \in BOOLEAN
  /\ RaceFree(threads)
  /\ call # NoCall => Clean(call) /\ ~failed /\ (IF rejected THEN Invalid(call) ELSE Accepts(call))
  /\ call = NoCall => failed = rejected
  /\ IF rejected THEN threads = {} /\ pool = gpu ELSE After(pool, Rest) = After(gpu, threads)

\* Without races the outcome at a place is what its one thread stores.
LEMMA AfterOne ==
  ASSUME NEW p, NEW T \in SUBSET Thread, RaceFree(T), NEW t \in T
  PROVE  t.dst \in Offsets /\ After(p, T)[t.dst] = Stored(p, t)
<1>1. t.dst \in Offsets
  BY DEF Thread
<1>2. \A u \in T : u.dst = t.dst => u = t
  BY DEF RaceFree
<1>3. (CHOOSE u \in T : u.dst = t.dst) = t
  BY <1>2
<1>. QED  BY <1>1, <1>3 DEF After

\* A place no thread stores to keeps its element.
LEMMA AfterNone ==
  ASSUME NEW p, NEW T, NEW o \in Offsets, \A t \in T : t.dst # o
  PROVE  After(p, T)[o] = p[o]
BY DEF After

\* A race-free launch can be split wherever one likes.
LEMMA AfterParts ==
  ASSUME NEW p, NEW A \in SUBSET Thread, NEW B \in SUBSET Thread, RaceFree(A \cup B)
  PROVE  After(After(p, A), B) = After(p, A \cup B)
<1>0. RaceFree(A) /\ RaceFree(B) /\ A \cup B \in SUBSET Thread
  BY DEF RaceFree
<1> DEFINE q == After(p, A)
<1>1. ASSUME NEW o \in Offsets PROVE After(q, B)[o] = After(p, A \cup B)[o]
  <2>1. CASE \E t \in B : t.dst = o
    <3>1. PICK t \in B : t.dst = o
      BY <2>1
    <3>2. After(q, B)[o] = Stored(q, t) /\ After(p, A \cup B)[o] = Stored(p, t)
      BY <1>0, <3>1, AfterOne
    <3>3. Stored(q, t) = Stored(p, t)
      <4>1. CASE Loading(t)
        <5>1. t.src \in Offsets
          BY <4>1 DEF Loading, Thread
        <5>2. CASE \E u \in A : u.dst = t.src
          <6>1. PICK u \in A : u.dst = t.src
            BY <5>2
          <6>2. u = t
            BY <4>1, <6>1 DEF RaceFree
          <6>3. q[t.src] = Stored(p, t)
            BY <1>0, <6>1, <6>2, AfterOne
          <6>. QED  BY <4>1, <6>3 DEF Stored
        <5>3. CASE \A u \in A : u.dst # t.src
          <6>1. q[t.src] = p[t.src]
            BY <5>1, <5>3, AfterNone
          <6>. QED  BY <4>1, <6>1 DEF Stored
        <5>. QED  BY <5>2, <5>3
      <4>2. CASE ~Loading(t)
        BY <4>2 DEF Stored
      <4>. QED  BY <4>1, <4>2
    <3>. QED  BY <3>2, <3>3
  <2>2. CASE \A t \in B : t.dst # o
    <3>1. After(q, B)[o] = q[o]
      BY <2>2, AfterNone
    <3>2. q[o] = After(p, A \cup B)[o]
      <4>1. CASE \E t \in A : t.dst = o
        <5>1. PICK t \in A : t.dst = o
          BY <4>1
        <5>. QED  BY <1>0, <5>1, AfterOne
      <4>2. CASE \A t \in A : t.dst # o
        BY <2>2, <4>2, AfterNone
      <4>. QED  BY <4>1, <4>2
    <3>. QED  BY <3>1, <3>2
  <2>. QED  BY <2>1, <2>2
<1>2. \A r, T : After(r, T) = [o \in Offsets |-> After(r, T)[o]]
  BY DEF After
<1>. HIDE DEF q
<1>. QED  BY <1>1, <1>2 DEF q

\* No threads, no change.
LEMMA AfterNothing ==
  ASSUME NEW p, p = [o \in Offsets |-> p[o]]
  PROVE  After(p, {}) = p
BY DEF After

\* What a pool is after threads that are known one by one.
LEMMA AfterIs ==
  ASSUME NEW p, NEW q, NEW T \in SUBSET Thread, RaceFree(T),
         q = [o \in Offsets |-> q[o]],
         \A t \in T : q[t.dst] = Stored(p, t),
         \A o \in Offsets : q[o] # p[o] => \E t \in T : t.dst = o
  PROVE  q = After(p, T)
<1>1. ASSUME NEW o \in Offsets PROVE q[o] = After(p, T)[o]
  <2>1. CASE \E t \in T : t.dst = o
    BY <2>1, AfterOne
  <2>2. CASE \A t \in T : t.dst # o
    BY <2>2, AfterNone
  <2>. QED  BY <2>1, <2>2
<1>2. After(p, T) = [o \in Offsets |-> After(p, T)[o]]
  BY DEF After
<1>. QED  BY <1>1, <1>2

-----------------------------------------------------------------------------
(* The kernels.                                                            *)

\* A thread of a write, and of the copy of a block of one layer.
WriteThread(a, i, e) == [dst |-> slot_offset(a[1], At(a)) + i, value |-> e[i]]
CopyThread(l, s, d, i) ==
  [dst |-> block_offset(l, d) + i, src |-> block_offset(l, s) + i]

\* What is a thread, and which ones load.
LEMMA Threads ==
  /\ \A o \in Offsets : \A v \in Elem :
       /\ [dst |-> o, value |-> v] \in Thread /\ ~Loading([dst |-> o, value |-> v])
  /\ \A o, s \in Offsets :
       /\ [dst |-> o, src |-> s] \in Thread /\ Loading([dst |-> o, src |-> s])
BY DEF Thread, Loading

\* The threads that write a token.
LEMMA WriteKernel ==
  ASSUME NEW l \in Layers, NEW d \in Block \X Slots, NEW e \in Entries, NEW at,
         at = [block |-> d[1], slot |-> d[2]]
  PROVE  /\ <<l, d[1], d[2]>> \in Address
         /\ reshape_and_cache(l, slot_mapping(at), e) =
              {WriteThread(<<l, d[1], d[2]>>, i, e) : i \in 0 .. entry_elems - 1}
<1>1. /\ l \in Nat /\ d[1] \in Nat /\ d[2] \in 0 .. BlockSize - 1 /\ NumBlocks \in Nat
      /\ BlockSize \in Nat \ {0} /\ entry_elems \in Nat \ {0}
  BY Sizes, GeometryAssumption DEF Layers, Block, Slots
<1> DEFINE slot == slot_mapping(at)
<1>2. slot = d[1] * BlockSize + d[2]
  BY DEF slot_mapping
<1>3. slot \div BlockSize = d[1] /\ slot % BlockSize = d[2]
  <2>1. PICK x \in Nat, y \in 0 .. BlockSize - 1 : x = d[1] /\ y = d[2]
    BY <1>1
  <2>2. (x * BlockSize + y) \div BlockSize = x /\ (x * BlockSize + y) % BlockSize = y
    BY <1>1, Divides
  <2>. HIDE DEF slot
  <2>. QED  BY <1>2, <2>1, <2>2
<1>4. ((l * NumBlocks + d[1]) * BlockSize + d[2]) * entry_elems = slot_offset(l, at)
  <2>1. PICK x \in Nat : x = l * NumBlocks + d[1]
    BY <1>1
  <2>2. (x * BlockSize + d[2]) * entry_elems = x * (BlockSize * entry_elems) + d[2] * entry_elems
    BY <1>1
  <2>. QED  BY <2>1, <2>2 DEF slot_offset, block_offset, block_elems
<1>5. reshape_and_cache(l, slot, e) =
        {[dst |-> slot_offset(l, at) + i, value |-> e[i]] : i \in 0 .. entry_elems - 1}
  BY <1>3, <1>4 DEF reshape_and_cache
<1>6. <<l, d[1], d[2]>> \in Address /\ At(<<l, d[1], d[2]>>) = at
  BY DEF Address, At
<1>. QED  BY <1>5, <1>6 DEF WriteThread

\* The flat index of copy_blocks_kernel visits every pair in every layer.
LEMMA CopyKernel ==
  ASSUME NEW pairs \in Seq(Nat \X Nat)
  PROVE  UNION {copy_blocks(idx, pairs) : idx \in 0 .. Len(pairs) * NumLayers - 1}
           = {CopyThread(x[2], pairs[x[1]][1], pairs[x[1]][2], x[3])
                : x \in (DOMAIN pairs) \X Layers \X (0 .. block_elems - 1)}
<1>1. PICK n \in Nat : n = Len(pairs) /\ DOMAIN pairs = 1 .. n
  BY LenProperties
<1>2. PICK m \in Nat : m = NumLayers /\ Layers = 0 .. m - 1
  BY GeometryAssumption DEF Layers
<1>3. ASSUME NEW idx \in 0 .. n * m - 1
      PROVE  idx \div m + 1 \in 1 .. n /\ idx % m \in 0 .. m - 1
  <2>1. m # 0 /\ idx \in Nat
    BY <1>3
  <2>2. idx \div m \in Nat /\ idx % m \in 0 .. m - 1 /\ (idx \div m) * m <= idx
    <3>1. idx \div m \in Nat /\ idx % m \in 0 .. m - 1
      BY <2>1
    <3>2. (idx \div m) * m <= idx
      BY <2>1
    <3>. QED  BY <3>1, <3>2
  <2>3. idx \div m < n
    <3> DEFINE q == idx \div m
    <3>1. SUFFICES ASSUME q >= n PROVE FALSE
      BY <2>2
    <3>. HIDE DEF q
    <3>2. PICK k \in Nat : q = n + k
      <4>1. q - n \in Nat /\ q = n + (q - n)
        BY <2>2, <3>1 DEF q
      <4>. QED  BY <4>1
    <3>3. q * m = n * m + k * m /\ k * m \in Nat /\ n * m \in Nat
      BY <3>2
    <3>4. q * m <= idx
      BY <2>2 DEF q
    <3>5. PICK x \in Nat, y \in Nat : x = n * m /\ y = k * m
      BY <3>3
    <3>6. x + y <= idx /\ idx \in 0 .. x - 1
      BY <3>3, <3>4, <3>5
    <3>. QED  BY ONLY <3>6, x \in Nat, y \in Nat
  <2>. QED  BY <2>2, <2>3
<1>4. ASSUME NEW k \in 1 .. n, NEW l \in 0 .. m - 1
      PROVE  (k - 1) * m + l \in 0 .. n * m - 1 /\ ((k - 1) * m + l) \div m + 1 = k
             /\ ((k - 1) * m + l) % m = l
  <2>1. PICK j \in 0 .. n - 1 : j = k - 1 /\ j + 1 = k
    OBVIOUS
  <2>2. m # 0 /\ j \in Nat
    OBVIOUS
  <2>. QED  BY <2>1, <2>2, Divides, DigitBelow
<1>5. \A idx : copy_blocks(idx, pairs) =
        {CopyThread(idx % m, pairs[idx \div m + 1][1], pairs[idx \div m + 1][2], i)
           : i \in 0 .. block_elems - 1}
  BY <1>2 DEF copy_blocks, CopyThread, block_offset
<1>. DEFINE L == UNION {copy_blocks(idx, pairs) : idx \in 0 .. n * m - 1}
            R == {CopyThread(x[2], pairs[x[1]][1], pairs[x[1]][2], x[3])
                    : x \in (1 .. n) \X (0 .. m - 1) \X (0 .. block_elems - 1)}
<1>6. ASSUME NEW t \in L PROVE t \in R
  <2>1. PICK idx \in 0 .. n * m - 1 : t \in copy_blocks(idx, pairs)
    BY <1>6
  <2>2. PICK i \in 0 .. block_elems - 1 :
          t = CopyThread(idx % m, pairs[idx \div m + 1][1], pairs[idx \div m + 1][2], i)
    BY <1>5, <2>1
  <2>3. PICK k \in 1 .. n, l \in 0 .. m - 1 : k = idx \div m + 1 /\ l = idx % m
    BY <1>3
  <2>4. <<k, l, i>> \in (1 .. n) \X (0 .. m - 1) \X (0 .. block_elems - 1)
    OBVIOUS
  <2>5. t = CopyThread(l, pairs[k][1], pairs[k][2], i)
    BY <2>2, <2>3
  <2>. QED  BY <2>4, <2>5
<1>7. ASSUME NEW t \in R PROVE t \in L
  <2>1. PICK x \in (1 .. n) \X (0 .. m - 1) \X (0 .. block_elems - 1) :
          t = CopyThread(x[2], pairs[x[1]][1], pairs[x[1]][2], x[3])
    BY <1>7
  <2>2. PICK k \in 1 .. n, l \in 0 .. m - 1, i \in 0 .. block_elems - 1 :
          k = x[1] /\ l = x[2] /\ i = x[3]
    OBVIOUS
  <2>3. PICK idx \in 0 .. n * m - 1 : idx \div m + 1 = k /\ idx % m = l
    BY <1>4
  <2>4. t = CopyThread(l, pairs[k][1], pairs[k][2], i)
    BY <2>1, <2>2
  <2>5. t \in copy_blocks(idx, pairs)
    BY <1>5, <2>3, <2>4
  <2>. QED  BY <2>5
<1>8. L = R
  BY <1>6, <1>7
<1>. QED  BY <1>1, <1>2, <1>8

\* One thread for every element of the block in every layer.
LEMMA ZeroKernel ==
  ASSUME NEW b
  PROVE  UNION {zero_block(l, b) : l \in Layers}
           = {[dst |-> block_offset(x[1], b) + x[2], value |-> Zero]
                : x \in Layers \X (0 .. block_elems - 1)}
<1>1. \A l : zero_block(l, b) =
        {[dst |-> block_offset(l, b) + i, value |-> Zero] : i \in 0 .. block_elems - 1}
  BY DEF zero_block, block_offset
<1> DEFINE R == {[dst |-> block_offset(x[1], b) + x[2], value |-> Zero]
                   : x \in Layers \X (0 .. block_elems - 1)}
<1>2. ASSUME NEW l \in Layers, NEW t \in zero_block(l, b) PROVE t \in R
  <2>1. PICK i \in 0 .. block_elems - 1 : t = [dst |-> block_offset(l, b) + i, value |-> Zero]
    BY <1>1, <1>2
  <2>2. <<l, i>> \in Layers \X (0 .. block_elems - 1)
    OBVIOUS
  <2>. QED  BY <2>1, <2>2
<1>3. ASSUME NEW t \in R PROVE \E l \in Layers : t \in zero_block(l, b)
  <2>1. PICK x \in Layers \X (0 .. block_elems - 1) :
          t = [dst |-> block_offset(x[1], b) + x[2], value |-> Zero]
    BY <1>3
  <2>2. x[1] \in Layers /\ x[2] \in 0 .. block_elems - 1
    OBVIOUS
  <2>. QED  BY <1>1, <2>1, <2>2
<1>. HIDE DEF R
<1>4. UNION {zero_block(l, b) : l \in Layers} = R
  BY <1>2, <1>3
<1>. QED  BY <1>4 DEF R

\* Places of the pool are told apart by layer, block and element, and every one
\* is such a place.
LEMMA PlacesDiffer ==
  ASSUME NEW l \in Layers, NEW b \in Block, NEW i \in 0 .. block_elems - 1,
         NEW m \in Layers, NEW c \in Block, NEW j \in 0 .. block_elems - 1,
         block_offset(l, b) + i = block_offset(m, c) + j
  PROVE  l = m /\ b = c /\ i = j
<1>1. l = m
  BY BlockOffsets
<1>2. block_offset(l, b) \in Nat /\ block_offset(l, c) \in Nat /\ block_elems \in Nat
  BY BlockOffsets, Sizes
<1>3. block_offset(l, c) + j \in block_offset(l, c) .. block_offset(l, c) + block_elems - 1
  BY <1>2
<1>4. b = c
  BY <1>1, <1>3, BlockOffsets
<1>5. block_offset(l, b) + i = block_offset(l, b) + j
  BY <1>1, <1>4
<1>. QED  BY <1>1, <1>2, <1>4, <1>5

\* The same for the elements of the slots.
LEMMA SlotPlacesDiffer ==
  ASSUME NEW a \in Address, NEW i \in 0 .. entry_elems - 1,
         NEW c \in Address, NEW j \in 0 .. entry_elems - 1,
         slot_offset(a[1], At(a)) + i = slot_offset(c[1], At(c)) + j
  PROVE  a = c /\ i = j
<1>1. slot_offset(a[1], At(a)) \in Nat /\ slot_offset(c[1], At(c)) \in Nat /\ entry_elems \in Nat
  BY SlotOffsets, Sizes
<1>2. slot_offset(c[1], At(c)) + j \in slot_offset(c[1], At(c)) .. slot_offset(c[1], At(c)) + entry_elems - 1
  BY <1>1
<1>3. a = c
  BY <1>2, SlotOffsets
<1>4. slot_offset(a[1], At(a)) + i = slot_offset(a[1], At(a)) + j
  BY <1>3
<1>. QED  BY <1>1, <1>3, <1>4

-----------------------------------------------------------------------------
(* Launches.                                                               *)

Adr(c, k) == <<c.layer, c.dsts[k].block, c.dsts[k].slot>>

TokenThreads(a, e) == {WriteThread(a, i, e) : i \in 0 .. entry_elems - 1}
BlockThreads(s, d) == {CopyThread(x[1], s, d, x[2]) : x \in Layers \X (0 .. block_elems - 1)}
ZeroThreads(b) == {[dst |-> block_offset(x[1], b) + x[2], value |-> Zero]
                     : x \in Layers \X (0 .. block_elems - 1)}

WriteCalls == [kind : {"write"}, layer : Nat, dsts : Seq(PhysicalSlot), values : Seq(Entries)]
CopyCalls == [kind : {"copy"}, pairs : Seq(Nat \X Nat)]

\* The threads of a token do not race.
LEMMA TokenThreadFacts ==
  ASSUME NEW a \in Address, NEW e \in Entries
  PROVE  /\ TokenThreads(a, e) \subseteq Thread
         /\ \A t \in TokenThreads(a, e) : ~Loading(t)
         /\ RaceFree(TokenThreads(a, e))
<1>1. \A i \in 0 .. entry_elems - 1 :
        WriteThread(a, i, e) \in Thread /\ ~Loading(WriteThread(a, i, e))
  BY SlotOffsets, Threads DEF WriteThread, Entries
<1>2. \A t \in TokenThreads(a, e) : t \in Thread /\ ~Loading(t)
  BY <1>1 DEF TokenThreads
<1>3. ASSUME NEW i \in 0 .. entry_elems - 1, NEW j \in 0 .. entry_elems - 1,
             WriteThread(a, i, e).dst = WriteThread(a, j, e).dst
      PROVE  i = j
  BY <1>3, SlotPlacesDiffer DEF WriteThread
<1>4. \A t, u \in TokenThreads(a, e) : t # u => t.dst # u.dst
  BY <1>3 DEF TokenThreads
<1>. QED  BY <1>2, <1>4 DEF RaceFree

\* What a write that is accepted launches.
LEMMA AcceptedWrite ==
  ASSUME NEW c \in WriteCalls, Accepts(c)
  PROVE  /\ c.kind = "write" /\ c.dsts \in Seq(PhysicalSlot) /\ c.values \in Seq(Entries)
         /\ Len(c.values) = Len(c.dsts)
         /\ \A k \in DOMAIN c.dsts :
              /\ Adr(c, k) \in Address /\ c.values[k] \in Entries /\ At(Adr(c, k)) = c.dsts[k]
              /\ validate(c.layer, c.dsts[k])
         /\ Launch(c) = UNION {TokenThreads(Adr(c, k), c.values[k]) : k \in DOMAIN c.dsts}
<1>1. /\ c.kind = "write" /\ c.dsts \in Seq(PhysicalSlot) /\ c.values \in Seq(Entries)
      /\ c.layer \in Nat
  BY DEF WriteCalls
<1>2. /\ Len(c.values) = Len(c.dsts)
      /\ \A k \in DOMAIN c.dsts : validate(c.layer, c.dsts[k])
  BY <1>1 DEF Accepts
<1>3. DOMAIN c.values = DOMAIN c.dsts
  BY <1>1, <1>2, LenProperties
<1>4. ASSUME NEW k \in DOMAIN c.dsts
      PROVE  /\ Adr(c, k) \in Address /\ c.values[k] \in Entries /\ At(Adr(c, k)) = c.dsts[k]
             /\ reshape_and_cache(c.layer, slot_mapping(c.dsts[k]), c.values[k])
                  = TokenThreads(Adr(c, k), c.values[k])
  <2>1. c.dsts[k] \in PhysicalSlot /\ c.values[k] \in Entries
    BY <1>1, <1>3, ElementOfSeq, LenProperties
  <2>2. /\ c.layer \in Layers /\ c.dsts[k].block \in Block /\ c.dsts[k].slot \in Slots
        /\ c.dsts[k] = [block |-> c.dsts[k].block, slot |-> c.dsts[k].slot]
    BY <1>1, <1>2, <2>1, GeometryAssumption
    DEF validate, validate_block, PhysicalSlot, Layers, Block, Slots
  <2>3. Adr(c, k) \in Address /\ At(Adr(c, k)) = c.dsts[k]
    BY <2>2 DEF Adr, Address, At
  <2> DEFINE d == <<c.dsts[k].block, c.dsts[k].slot>>
  <2>4. d \in Block \X Slots /\ d[1] = c.dsts[k].block /\ d[2] = c.dsts[k].slot
    BY <2>2
  <2>. HIDE DEF d
  <2>5. reshape_and_cache(c.layer, slot_mapping(c.dsts[k]), c.values[k])
          = {WriteThread(<<c.layer, d[1], d[2]>>, i, c.values[k]) : i \in 0 .. entry_elems - 1}
    BY <2>1, <2>2, <2>4, WriteKernel
  <2>. QED  BY <2>1, <2>3, <2>4, <2>5 DEF Adr, TokenThreads
<1>5. Launch(c) = UNION {reshape_and_cache(c.layer, slot_mapping(c.dsts[k]), c.values[k])
                           : k \in DOMAIN c.dsts}
  BY <1>1 DEF Launch
<1>6. Launch(c) = UNION {TokenThreads(Adr(c, k), c.values[k]) : k \in DOMAIN c.dsts}
  BY <1>4, <1>5
<1>. QED  BY <1>1, <1>2, <1>4, <1>6

\* Slots that differ: no two tokens race.
LEMMA WriteLaunch ==
  ASSUME NEW c \in WriteCalls, Accepts(c), Clean(c)
  PROVE  Launch(c) \subseteq Thread /\ RaceFree(Launch(c))
<1>1. /\ \A k \in DOMAIN c.dsts :
           Adr(c, k) \in Address /\ c.values[k] \in Entries /\ At(Adr(c, k)) = c.dsts[k]
      /\ Launch(c) = UNION {TokenThreads(Adr(c, k), c.values[k]) : k \in DOMAIN c.dsts}
      /\ c.kind = "write"
  BY AcceptedWrite
<1>2. \A t \in Launch(c) : t \in Thread /\ ~Loading(t)
  BY <1>1, TokenThreadFacts
<1>3. ASSUME NEW t \in Launch(c), NEW u \in Launch(c), t.dst = u.dst PROVE t = u
  <2>1. PICK k \in DOMAIN c.dsts, m \in DOMAIN c.dsts :
          t \in TokenThreads(Adr(c, k), c.values[k]) /\ u \in TokenThreads(Adr(c, m), c.values[m])
    BY <1>1
  <2>2. PICK i \in 0 .. entry_elems - 1, j \in 0 .. entry_elems - 1 :
          /\ t = WriteThread(Adr(c, k), i, c.values[k])
          /\ u = WriteThread(Adr(c, m), j, c.values[m])
    BY <2>1 DEF TokenThreads
  <2>3. slot_offset(Adr(c, k)[1], At(Adr(c, k))) + i = slot_offset(Adr(c, m)[1], At(Adr(c, m))) + j
    BY <1>3, <2>2 DEF WriteThread
  <2>4. Adr(c, k) = Adr(c, m) /\ i = j
    BY <1>1, <2>3, SlotPlacesDiffer
  <2>5. c.dsts[k] = c.dsts[m]
    BY <1>1, <2>4
  <2>6. k = m
    BY <1>1, <2>5 DEF Clean
  <2>. QED  BY <2>2, <2>4, <2>6
<1>. QED  BY <1>2, <1>3 DEF RaceFree

\* The threads of a copy do not race, not even of a block onto itself.
LEMMA BlockThreadFacts ==
  ASSUME NEW s \in Block, NEW d \in Block
  PROVE  /\ BlockThreads(s, d) \subseteq Thread
         /\ \A t \in BlockThreads(s, d) : Loading(t)
         /\ RaceFree(BlockThreads(s, d))
<1>1. \A l \in Layers, i \in 0 .. block_elems - 1 :
        CopyThread(l, s, d, i) \in Thread /\ Loading(CopyThread(l, s, d, i))
  BY BlockOffsets, Threads DEF CopyThread
<1>2. \A t \in BlockThreads(s, d) : t \in Thread /\ Loading(t)
  BY <1>1 DEF BlockThreads
<1>3. ASSUME NEW t \in BlockThreads(s, d), NEW u \in BlockThreads(s, d), t # u
      PROVE  t.dst # u.dst /\ t.dst # u.src
  <2>1. PICK x \in Layers \X (0 .. block_elems - 1), y \in Layers \X (0 .. block_elems - 1) :
          t = CopyThread(x[1], s, d, x[2]) /\ u = CopyThread(y[1], s, d, y[2])
    BY DEF BlockThreads
  <2>2. ~(x[1] = y[1] /\ x[2] = y[2])
    BY <1>3, <2>1
  <2>3. \A b \in Block : block_offset(x[1], d) + x[2] # block_offset(y[1], b) + y[2]
    BY <2>2, PlacesDiffer
  <2>. QED  BY <2>1, <2>3 DEF CopyThread
<1>. QED  BY <1>2, <1>3 DEF RaceFree

\* What a copy that is accepted launches.
LEMMA AcceptedCopy ==
  ASSUME NEW c \in CopyCalls, Accepts(c)
  PROVE  /\ c.kind = "copy" /\ c.pairs \in Seq(Nat \X Nat)
         /\ \A k \in DOMAIN c.pairs : c.pairs[k][1] \in Block /\ c.pairs[k][2] \in Block
         /\ Launch(c) = UNION {BlockThreads(c.pairs[k][1], c.pairs[k][2]) : k \in DOMAIN c.pairs}
<1>1. c.kind = "copy" /\ c.pairs \in Seq(Nat \X Nat)
  BY DEF CopyCalls
<1>2. \A k \in DOMAIN c.pairs : c.pairs[k][1] \in Block /\ c.pairs[k][2] \in Block
  <2> TAKE k \in DOMAIN c.pairs
  <2>1. c.pairs[k] \in Nat \X Nat
    BY <1>1, ElementOfSeq, LenProperties
  <2>2. c.pairs[k][1] < NumBlocks /\ c.pairs[k][2] < NumBlocks
    BY <1>1 DEF Accepts, validate_block
  <2>. QED  BY <2>1, <2>2, GeometryAssumption DEF Block
<1> DEFINE R == {CopyThread(x[2], c.pairs[x[1]][1], c.pairs[x[1]][2], x[3])
                   : x \in (DOMAIN c.pairs) \X Layers \X (0 .. block_elems - 1)}
           U == UNION {BlockThreads(c.pairs[k][1], c.pairs[k][2]) : k \in DOMAIN c.pairs}
<1>3. Launch(c) = R
  <2>1. Launch(c) = UNION {copy_blocks(idx, c.pairs) : idx \in 0 .. Len(c.pairs) * NumLayers - 1}
    BY <1>1 DEF Launch
  <2>. QED  BY <1>1, <2>1, CopyKernel
<1>4. ASSUME NEW t \in R PROVE t \in U
  <2>1. PICK x \in (DOMAIN c.pairs) \X Layers \X (0 .. block_elems - 1) :
          t = CopyThread(x[2], c.pairs[x[1]][1], c.pairs[x[1]][2], x[3])
    BY <1>4
  <2>2. /\ x[1] \in DOMAIN c.pairs /\ <<x[2], x[3]>> \in Layers \X (0 .. block_elems - 1)
    OBVIOUS
  <2>3. t \in BlockThreads(c.pairs[x[1]][1], c.pairs[x[1]][2])
    BY <2>1, <2>2 DEF BlockThreads
  <2>. QED  BY <2>2, <2>3
<1>5. ASSUME NEW t \in U PROVE t \in R
  <2>1. PICK k \in DOMAIN c.pairs : t \in BlockThreads(c.pairs[k][1], c.pairs[k][2])
    BY <1>5
  <2>2. PICK x \in Layers \X (0 .. block_elems - 1) :
          t = CopyThread(x[1], c.pairs[k][1], c.pairs[k][2], x[2])
    BY <2>1 DEF BlockThreads
  <2>3. <<k, x[1], x[2]>> \in (DOMAIN c.pairs) \X Layers \X (0 .. block_elems - 1)
    OBVIOUS
  <2>. QED  BY <2>2, <2>3
<1>6. R = U
  BY <1>4, <1>5
<1>. QED  BY <1>1, <1>2, <1>3, <1>6

\* No destination is read or written by another copy: no two copies race.
LEMMA CopyLaunch ==
  ASSUME NEW c \in CopyCalls, Accepts(c), Clean(c)
  PROVE  Launch(c) \subseteq Thread /\ RaceFree(Launch(c))
<1>1. /\ \A k \in DOMAIN c.pairs : c.pairs[k][1] \in Block /\ c.pairs[k][2] \in Block
      /\ Launch(c) = UNION {BlockThreads(c.pairs[k][1], c.pairs[k][2]) : k \in DOMAIN c.pairs}
      /\ c.kind = "copy"
  BY AcceptedCopy
<1>2. Launch(c) \subseteq Thread
  BY <1>1, BlockThreadFacts
<1>3. ASSUME NEW t \in Launch(c), NEW u \in Launch(c), t # u
      PROVE  t.dst # u.dst /\ t.dst # u.src
  <2>1. PICK k \in DOMAIN c.pairs, m \in DOMAIN c.pairs :
          /\ t \in BlockThreads(c.pairs[k][1], c.pairs[k][2])
          /\ u \in BlockThreads(c.pairs[m][1], c.pairs[m][2])
    BY <1>1
  <2>2. CASE k = m
    <3>1. RaceFree(BlockThreads(c.pairs[k][1], c.pairs[k][2])) /\ Loading(u)
      BY <1>1, <2>1, BlockThreadFacts
    <3>. QED  BY <1>3, <2>1, <2>2, <3>1 DEF RaceFree
  <2>3. CASE k # m
    <3>1. PICK x \in Layers \X (0 .. block_elems - 1), y \in Layers \X (0 .. block_elems - 1) :
            /\ t = CopyThread(x[1], c.pairs[k][1], c.pairs[k][2], x[2])
            /\ u = CopyThread(y[1], c.pairs[m][1], c.pairs[m][2], y[2])
      BY <2>1 DEF BlockThreads
    <3>2. c.pairs[k][2] # c.pairs[m][1] /\ c.pairs[k][2] # c.pairs[m][2]
      BY <1>1, <2>3 DEF Clean
    <3>3. \A b \in Block : b # c.pairs[k][2] =>
            block_offset(x[1], c.pairs[k][2]) + x[2] # block_offset(y[1], b) + y[2]
      BY <1>1, PlacesDiffer
    <3>. QED  BY <1>1, <3>1, <3>2, <3>3 DEF CopyThread
  <2>. QED  BY <2>2, <2>3
<1>. QED  BY <1>2, <1>3 DEF RaceFree

\* What zeroing a block launches.
LEMMA ZeroLaunch ==
  ASSUME NEW c \in [kind : {"zero"}, block : Nat], Accepts(c)
  PROVE  /\ c.kind = "zero" /\ c.block \in Block /\ Launch(c) = ZeroThreads(c.block)
         /\ Launch(c) \subseteq Thread /\ RaceFree(Launch(c)) /\ \A t \in Launch(c) : ~Loading(t)
<1>1. c.kind = "zero" /\ c.block \in Nat
  OBVIOUS
<1>2. c.block \in Block
  BY <1>1, GeometryAssumption DEF Accepts, validate_block, Block
<1>3. Launch(c) = ZeroThreads(c.block)
  <2>1. Launch(c) = UNION {zero_block(l, c.block) : l \in Layers}
    BY <1>1 DEF Launch
  <2>. QED  BY <2>1, ZeroKernel DEF ZeroThreads
<1>4. \A t \in ZeroThreads(c.block) : t \in Thread /\ ~Loading(t)
  <2>1. \A l \in Layers, i \in 0 .. block_elems - 1 :
          /\ [dst |-> block_offset(l, c.block) + i, value |-> Zero] \in Thread
          /\ ~Loading([dst |-> block_offset(l, c.block) + i, value |-> Zero])
    BY <1>2, BlockOffsets, Threads, GeometryAssumption
  <2>. QED  BY <2>1 DEF ZeroThreads
<1>5. \A t, u \in ZeroThreads(c.block) : t # u => t.dst # u.dst
  <2>1. \A x, y \in Layers \X (0 .. block_elems - 1) :
          block_offset(x[1], c.block) + x[2] = block_offset(y[1], c.block) + y[2] => x = y
    BY <1>2, PlacesDiffer
  <2>. QED  BY <2>1 DEF ZeroThreads
<1>. QED  BY <1>1, <1>2, <1>3, <1>4, <1>5 DEF RaceFree

-----------------------------------------------------------------------------
(* One iteration on the CPU is the threads of its element.                 *)

\* The first element of a batch and what is left.
LEMMA HeadAndTail ==
  ASSUME NEW S, NEW s \in Seq(S), s # <<>>
  PROVE  /\ 1 \in DOMAIN s /\ s[1] = Head(s) /\ Tail(s) \in Seq(S)
         /\ \A k \in DOMAIN Tail(s) : k + 1 \in DOMAIN s /\ Tail(s)[k] = s[k + 1]
         /\ \A k \in DOMAIN s : k = 1 \/ (k - 1 \in DOMAIN Tail(s) /\ k - 1 + 1 = k)
         /\ \A j, k \in DOMAIN Tail(s) : j # k => j + 1 # k + 1
         /\ \A k \in DOMAIN Tail(s) : k + 1 # 1
<1>1. PICK n \in Nat : n + 1 = Len(s)
  <2>1. Len(s) \in Nat /\ Len(s) # 0
    BY EmptySeq, LenProperties
  <2>. QED  BY <2>1
<1>2. /\ DOMAIN s = 1 .. n + 1 /\ Head(s) = s[1] /\ Tail(s) \in Seq(S)
      /\ DOMAIN Tail(s) = 1 .. n /\ \A k \in 1 .. n : Tail(s)[k] = s[k + 1]
  BY <1>1
<1>3. /\ 1 \in 1 .. n + 1 /\ \A k \in 1 .. n : k + 1 \in 1 .. n + 1 /\ k + 1 # 1
      /\ \A k \in 1 .. n + 1 : k = 1 \/ (k - 1 \in 1 .. n /\ k - 1 + 1 = k)
      /\ \A j, k \in 1 .. n : j # k => j + 1 # k + 1
  BY ONLY n \in Nat
<1>. QED  BY <1>2, <1>3

\* write_kv.
LEMMA CpuWritesToken ==
  ASSUME NEW a \in Address, NEW e \in Entries, pool \in [Offsets -> Elem],
         Set(slot_offset(a[1], At(a)), entry_elems, e)
  PROVE  pool' = After(pool, TokenThreads(a, e))
<1>1. PICK from \in Nat : from = slot_offset(a[1], At(a))
  BY SlotOffsets, Sizes
<1>2. entry_elems \in Nat \ {0}
  BY Sizes
<1>3. pool' = [o \in Offsets |-> IF o \in from .. from + entry_elems - 1 THEN e[o - from] ELSE pool[o]]
  BY <1>1 DEF Set
<1>4. TokenThreads(a, e) \in SUBSET Thread /\ RaceFree(TokenThreads(a, e))
  BY TokenThreadFacts
<1>5. ASSUME NEW t \in TokenThreads(a, e) PROVE pool'[t.dst] = Stored(pool, t)
  <2>1. PICK i \in 0 .. entry_elems - 1 : t = WriteThread(a, i, e)
    BY DEF TokenThreads
  <2>2. t.dst = from + i /\ from + i \in Offsets /\ from + i - from = i
        /\ from + i \in from .. from + entry_elems - 1
    BY <1>1, <1>2, <2>1, SlotOffsets DEF WriteThread
  <2>3. Stored(pool, t) = e[i]
    BY <2>1, TokenThreadFacts DEF Stored, WriteThread
  <2>4. pool'[from + i] = e[i]
    BY <1>3, <2>2
  <2>. QED  BY <2>2, <2>3, <2>4
<1>6. ASSUME NEW o \in Offsets, pool'[o] # pool[o]
      PROVE  \E t \in TokenThreads(a, e) : t.dst = o
  <2>1. o \in from .. from + entry_elems - 1 /\ o \in Nat
    BY <1>3, <1>6 DEF Offsets
  <2>2. o - from \in 0 .. entry_elems - 1 /\ from + (o - from) = o
    BY <1>2, <2>1
  <2>3. WriteThread(a, o - from, e) \in TokenThreads(a, e)
    BY <2>2 DEF TokenThreads
  <2>. QED  BY <1>1, <2>2, <2>3 DEF WriteThread
<1>7. PICK q : q = pool'
  OBVIOUS
<1>8. q = [o \in Offsets |-> q[o]]
  BY <1>3, <1>7
<1>9. q = After(pool, TokenThreads(a, e))
  BY <1>4, <1>5, <1>6, <1>7, <1>8, AfterIs
<1>. QED  BY <1>7, <1>9

\* copy_block.
LEMMA CpuCopiesBlock ==
  ASSUME NEW s \in Block, NEW d \in Block, pool \in [Offsets -> Elem],
         pool' = IF s = d THEN pool ELSE Copied(s, d)
  PROVE  pool' = After(pool, BlockThreads(s, d))
<1>1. BlockThreads(s, d) \in SUBSET Thread /\ RaceFree(BlockThreads(s, d))
  BY BlockThreadFacts
<1>2. block_elems \in Nat \ {0}
  BY Sizes
<1>3. \A l \in Layers : \A b \in Block : block_offset(l, b) \in Nat
  <2>1. 0 \in 0 .. block_elems - 1
    BY <1>2
  <2>. QED  BY <2>1, BlockOffsets
<1>4. PICK q : q = pool'
  OBVIOUS
<1>5. q = [o \in Offsets |-> q[o]]
  BY <1>4 DEF Copied
<1>6. ASSUME NEW l \in Layers, NEW i \in 0 .. block_elems - 1
      PROVE  q[block_offset(l, d) + i] = pool[block_offset(l, s) + i]
  <2>1. CASE s = d
    BY <1>4, <2>1
  <2>2. CASE s # d
    <3> DEFINE o == block_offset(l, d) + i
    <3>1. /\ o \in Offsets /\ o \div layer_elems = l /\ block_offset(l, d) \in Nat
          /\ o \in block_offset(l, d) .. block_offset(l, d) + block_elems - 1
          /\ block_offset(l, s) \in Nat
      BY <1>3, BlockOffsets
    <3>2. o - block_offset(l, d) + block_offset(l, s) = block_offset(l, s) + i
      BY <3>1
    <3>. HIDE DEF o
    <3>3. q[o] = pool[o - block_offset(l, d) + block_offset(l, s)]
      BY <1>4, <2>2, <3>1 DEF Copied
    <3>. QED  BY <3>2, <3>3 DEF o
  <2>. QED  BY <2>1, <2>2
<1>7. ASSUME NEW t \in BlockThreads(s, d) PROVE q[t.dst] = Stored(pool, t)
  <2>1. PICK x \in Layers \X (0 .. block_elems - 1) : t = CopyThread(x[1], s, d, x[2])
    BY DEF BlockThreads
  <2>2. Stored(pool, t) = pool[block_offset(x[1], s) + x[2]]
    BY <2>1, BlockThreadFacts DEF Stored, CopyThread
  <2>. QED  BY <1>6, <2>1, <2>2 DEF CopyThread
<1>8. ASSUME NEW o \in Offsets, q[o] # pool[o]
      PROVE  \E t \in BlockThreads(s, d) : t.dst = o
  <2> DEFINE l == o \div layer_elems
  <2>1. o \in block_offset(l, d) .. block_offset(l, d) + block_elems - 1 /\ o \in Nat
    BY <1>4, <1>8 DEF Copied, Offsets
  <2>2. l \in Layers
    BY <2>1, LayerOf
  <2>. HIDE DEF l
  <2>3. o - block_offset(l, d) \in 0 .. block_elems - 1
        /\ block_offset(l, d) + (o - block_offset(l, d)) = o
    BY <1>2, <1>3, <2>1, <2>2
  <2>4. <<l, o - block_offset(l, d)>> \in Layers \X (0 .. block_elems - 1)
    BY <2>2, <2>3
  <2>5. CopyThread(l, s, d, o - block_offset(l, d)) \in BlockThreads(s, d)
    BY <2>4 DEF BlockThreads
  <2>. QED  BY <2>3, <2>5 DEF CopyThread
<1>9. q = After(pool, BlockThreads(s, d))
  BY <1>1, <1>5, <1>7, <1>8, AfterIs
<1>. QED  BY <1>4, <1>9

\* zero_block.
LEMMA CpuZeroesBlock ==
  ASSUME NEW c \in [kind : {"zero"}, block : Nat], Accepts(c), pool \in [Offsets -> Elem],
         call = c, ZeroBlock
  PROVE  pool' = After(pool, Launch(c))
<1> DEFINE b == c.block
<1>1. /\ b \in Block /\ Launch(c) = ZeroThreads(b) /\ Launch(c) \in SUBSET Thread
      /\ RaceFree(Launch(c)) /\ \A t \in Launch(c) : ~Loading(t)
  BY ZeroLaunch
<1>2. block_elems \in Nat \ {0}
  BY Sizes
<1>3. PICK q : q = pool'
  OBVIOUS
<1>4. q = [o \in Offsets |-> IF o \in block_offset(o \div layer_elems, b)
                                      .. block_offset(o \div layer_elems, b) + block_elems - 1
                             THEN Zero ELSE pool[o]]
  BY <1>3 DEF ZeroBlock
<1>. HIDE DEF b
<1>5. ASSUME NEW t \in Launch(c) PROVE q[t.dst] = Stored(pool, t)
  <2>1. PICK x \in Layers \X (0 .. block_elems - 1) :
          t = [dst |-> block_offset(x[1], b) + x[2], value |-> Zero]
    BY <1>1 DEF ZeroThreads
  <2>2. Stored(pool, t) = Zero
    BY <1>1, <2>1 DEF Stored
  <2>3. /\ t.dst \in Offsets /\ t.dst \div layer_elems = x[1]
        /\ t.dst \in block_offset(x[1], b) .. block_offset(x[1], b) + block_elems - 1
    BY <1>1, <2>1, BlockOffsets
  <2>. QED  BY <1>4, <2>2, <2>3
<1>6. ASSUME NEW o \in Offsets, q[o] # pool[o] PROVE \E t \in Launch(c) : t.dst = o
  <2> DEFINE l == o \div layer_elems
  <2>1. o \in block_offset(l, b) .. block_offset(l, b) + block_elems - 1 /\ o \in Nat
    BY <1>4, <1>6 DEF Offsets
  <2>2. l \in Layers
    BY <1>1, <2>1, LayerOf
  <2>. HIDE DEF l
  <2>3. block_offset(l, b) \in Nat
    <3>1. 0 \in 0 .. block_elems - 1
      BY <1>2
    <3>. QED  BY <1>1, <2>2, <3>1, BlockOffsets
  <2>4. o - block_offset(l, b) \in 0 .. block_elems - 1
        /\ block_offset(l, b) + (o - block_offset(l, b)) = o
    BY <1>2, <2>1, <2>3
  <2>5. <<l, o - block_offset(l, b)>> \in Layers \X (0 .. block_elems - 1)
    BY <2>2, <2>4
  <2>6. [dst |-> block_offset(l, b) + (o - block_offset(l, b)), value |-> Zero] \in ZeroThreads(b)
    BY <2>5 DEF ZeroThreads
  <2>. QED  BY <1>1, <2>4, <2>6
<1>7. q = [o \in Offsets |-> q[o]]
  BY <1>4
<1>8. q = After(pool, Launch(c))
  BY <1>1, <1>5, <1>6, <1>7, AfterIs
<1>. QED  BY <1>3, <1>8

-----------------------------------------------------------------------------
(* Every step keeps the invariant.                                         *)

\* A token less on the CPU: what is left leads to the same pool.
LEMMA WriteStep ==
  ASSUME CpuInv, call # NoCall, Accepts(call), Clean(call), WriteKv
  PROVE  /\ call' # NoCall /\ Accepts(call') /\ Clean(call')
         /\ After(pool', Launch(call')) = After(pool, Launch(call))
<1>1. PICK c, d : c = call /\ d = call'
  OBVIOUS
<1>2. /\ c \in WriteCalls /\ pool \in [Offsets -> Elem] /\ c.dsts # <<>>
      /\ Set(slot_offset(c.layer, Head(c.dsts)), entry_elems, Head(c.values))
      /\ d = [c EXCEPT !.dsts = Tail(@), !.values = Tail(@)]
  BY <1>1, CallFacts DEF CpuInv, CpuTypeOK, WriteKv, WriteCalls
<1>3. /\ c.kind = "write" /\ c.dsts \in Seq(PhysicalSlot) /\ c.values \in Seq(Entries)
      /\ Len(c.values) = Len(c.dsts)
      /\ \A k \in DOMAIN c.dsts :
           /\ Adr(c, k) \in Address /\ c.values[k] \in Entries /\ At(Adr(c, k)) = c.dsts[k]
           /\ validate(c.layer, c.dsts[k])
      /\ Launch(c) = UNION {TokenThreads(Adr(c, k), c.values[k]) : k \in DOMAIN c.dsts}
  BY <1>1, <1>2, AcceptedWrite
<1>4. c.values # <<>>
  BY <1>2, <1>3, EmptySeq
<1>5. /\ d.kind = "write" /\ d.layer = c.layer /\ d.dsts = Tail(c.dsts)
      /\ d.values = Tail(c.values) /\ d \in WriteCalls
  <2>1. Tail(c.dsts) \in Seq(PhysicalSlot) /\ Tail(c.values) \in Seq(Entries)
    BY <1>2, <1>3, <1>4, HeadAndTail
  <2>. QED  BY <1>2, <2>1 DEF WriteCalls
<1>6. /\ 1 \in DOMAIN c.dsts /\ c.dsts[1] = Head(c.dsts)
      /\ \A k \in DOMAIN d.dsts : k + 1 \in DOMAIN c.dsts /\ d.dsts[k] = c.dsts[k + 1]
      /\ \A k \in DOMAIN c.dsts : k = 1 \/ (k - 1 \in DOMAIN d.dsts /\ k - 1 + 1 = k)
      /\ \A j, k \in DOMAIN d.dsts : j # k => j + 1 # k + 1
  BY <1>2, <1>3, <1>5, HeadAndTail
<1>7. /\ c.values[1] = Head(c.values) /\ Len(d.values) = Len(d.dsts)
      /\ \A k \in DOMAIN d.dsts : d.values[k] = c.values[k + 1]
  <2>1. Len(Tail(c.dsts)) = Len(Tail(c.values))
    BY <1>2, <1>3, <1>4, HeadTailProperties
  <2>2. DOMAIN d.values = DOMAIN d.dsts
    BY <1>5, <2>1, LenProperties DEF WriteCalls
  <2>3. c.values[1] = Head(c.values) /\ \A k \in DOMAIN d.values : d.values[k] = c.values[k + 1]
    BY <1>3, <1>4, <1>5, HeadAndTail
  <2>. QED  BY <1>5, <2>1, <2>2, <2>3
<1>8. Accepts(d)
  BY <1>3, <1>5, <1>6, <1>7 DEF Accepts
<1>9. Clean(d)
  <2>1. \A j, k \in DOMAIN d.dsts : j # k => d.dsts[j] # d.dsts[k]
    BY <1>1, <1>3, <1>6 DEF Clean
  <2>. QED  BY <1>5, <1>8, <2>1 DEF Clean
<1>10. Launch(d) = UNION {TokenThreads(Adr(d, k), d.values[k]) : k \in DOMAIN d.dsts}
  BY <1>5, <1>8, AcceptedWrite
<1>11. \A k \in DOMAIN d.dsts : Adr(d, k) = Adr(c, k + 1)
  BY <1>5, <1>6 DEF Adr
<1> DEFINE first == TokenThreads(Adr(c, 1), c.values[1])
<1>12. Launch(c) = first \cup Launch(d)
  <2>1. ASSUME NEW t \in Launch(c) PROVE t \in first \cup Launch(d)
    <3>1. PICK k \in DOMAIN c.dsts : t \in TokenThreads(Adr(c, k), c.values[k])
      BY <1>3, <2>1
    <3>2. CASE k = 1
      BY <3>1, <3>2
    <3>3. CASE k # 1
      <4>1. PICK j \in DOMAIN d.dsts : j + 1 = k
        BY <1>6, <3>3
      <4>2. t \in TokenThreads(Adr(d, j), d.values[j])
        BY <1>7, <1>11, <3>1, <4>1
      <4>. QED  BY <1>10, <4>2
    <3>. QED  BY <3>2, <3>3
  <2>2. ASSUME NEW t \in Launch(d) PROVE t \in Launch(c)
    <3>1. PICK k \in DOMAIN d.dsts : t \in TokenThreads(Adr(d, k), d.values[k])
      BY <1>10, <2>2
    <3>2. k + 1 \in DOMAIN c.dsts /\ t \in TokenThreads(Adr(c, k + 1), c.values[k + 1])
      BY <1>6, <1>7, <1>11, <3>1
    <3>. QED  BY <1>3, <3>2
  <2>3. first \subseteq Launch(c)
    BY <1>3, <1>6
  <2>. QED  BY <2>1, <2>2, <2>3
<1>13. Launch(c) \subseteq Thread /\ RaceFree(Launch(c))
  BY <1>1, <1>2, WriteLaunch
<1>14. pool' = After(pool, first)
  <2>1. /\ slot_offset(c.layer, Head(c.dsts)) = slot_offset(Adr(c, 1)[1], At(Adr(c, 1)))
        /\ Adr(c, 1) \in Address /\ c.values[1] \in Entries
    BY <1>3, <1>6 DEF Adr
  <2>. QED  BY <1>2, <1>7, <2>1, CpuWritesToken
<1>. HIDE DEF first
<1>15. After(After(pool, first), Launch(d)) = After(pool, Launch(c))
  <2>1. first \in SUBSET Thread /\ Launch(d) \in SUBSET Thread /\ RaceFree(first \cup Launch(d))
    BY <1>12, <1>13
  <2>. QED  BY <1>12, <2>1, AfterParts
<1>. QED  BY <1>1, <1>5, <1>8, <1>9, <1>14, <1>15 DEF NoCall

\* A pair less on the CPU: what is left leads to the same pool.
LEMMA CopyStep ==
  ASSUME CpuInv, call # NoCall, Accepts(call), Clean(call), CopyBlock
  PROVE  /\ call' # NoCall /\ Accepts(call') /\ Clean(call')
         /\ After(pool', Launch(call')) = After(pool, Launch(call))
<1>1. PICK c, d : c = call /\ d = call'
  OBVIOUS
<1>2. /\ c \in CopyCalls /\ pool \in [Offsets -> Elem] /\ c.pairs # <<>>
      /\ pool' = IF Head(c.pairs)[1] = Head(c.pairs)[2] THEN pool
                 ELSE Copied(Head(c.pairs)[1], Head(c.pairs)[2])
      /\ d = [c EXCEPT !.pairs = Tail(@)]
  BY <1>1, CallFacts DEF CpuInv, CpuTypeOK, CopyBlock, CopyCalls
<1>3. /\ c.kind = "copy" /\ c.pairs \in Seq(Nat \X Nat)
      /\ \A k \in DOMAIN c.pairs : c.pairs[k][1] \in Block /\ c.pairs[k][2] \in Block
      /\ Launch(c) = UNION {BlockThreads(c.pairs[k][1], c.pairs[k][2]) : k \in DOMAIN c.pairs}
  BY <1>1, <1>2, AcceptedCopy
<1>4. Tail(c.pairs) \in Seq(Nat \X Nat)
  BY <1>2, <1>3, HeadAndTail
<1>5. d.kind = "copy" /\ d.pairs = Tail(c.pairs) /\ d \in CopyCalls
  BY <1>2, <1>4 DEF CopyCalls
<1>6. /\ 1 \in DOMAIN c.pairs /\ c.pairs[1] = Head(c.pairs)
      /\ \A k \in DOMAIN d.pairs : k + 1 \in DOMAIN c.pairs /\ d.pairs[k] = c.pairs[k + 1]
      /\ \A k \in DOMAIN c.pairs : k = 1 \/ (k - 1 \in DOMAIN d.pairs /\ k - 1 + 1 = k)
      /\ \A j, k \in DOMAIN d.pairs : j # k => j + 1 # k + 1
  <2>0. PICK S : S = Nat \X Nat
    OBVIOUS
  <2>1. PICK s \in Seq(S) : s = c.pairs
    BY <1>3, <2>0
  <2>2. s # <<>> /\ d.pairs = Tail(s)
    BY <1>2, <1>5, <2>1
  <2>3. /\ 1 \in DOMAIN s /\ s[1] = Head(s)
        /\ \A k \in DOMAIN Tail(s) : k + 1 \in DOMAIN s /\ Tail(s)[k] = s[k + 1]
        /\ \A k \in DOMAIN s : k = 1 \/ (k - 1 \in DOMAIN Tail(s) /\ k - 1 + 1 = k)
        /\ \A j, k \in DOMAIN Tail(s) : j # k => j + 1 # k + 1
    BY ONLY <2>2, s \in Seq(S), HeadAndTail
  <2>. QED  BY ONLY <2>1, <2>2, <2>3
<1>7. Accepts(d)
  <2>1. \A k \in DOMAIN c.pairs : validate_block(c.pairs[k][1]) /\ validate_block(c.pairs[k][2])
    BY <1>1, <1>3 DEF Accepts
  <2>2. \A k \in DOMAIN d.pairs : validate_block(d.pairs[k][1]) /\ validate_block(d.pairs[k][2])
    BY <1>6, <2>1
  <2>. QED  BY <1>5, <2>2 DEF Accepts
<1>8. Clean(d)
  <2>1. \A j, k \in DOMAIN c.pairs :
          j # k => c.pairs[j][2] \notin {c.pairs[k][1], c.pairs[k][2]}
    BY <1>1, <1>3 DEF Clean
  <2>2. \A j, k \in DOMAIN d.pairs :
          j # k => d.pairs[j][2] \notin {d.pairs[k][1], d.pairs[k][2]}
    BY <1>6, <2>1
  <2>. QED  BY <1>5, <1>7, <2>2 DEF Clean
<1>9. Launch(d) = UNION {BlockThreads(d.pairs[k][1], d.pairs[k][2]) : k \in DOMAIN d.pairs}
  BY <1>5, <1>7, AcceptedCopy
<1> DEFINE first == BlockThreads(c.pairs[1][1], c.pairs[1][2])
<1>10. Launch(c) = first \cup Launch(d)
  <2>1. ASSUME NEW t \in Launch(c) PROVE t \in first \cup Launch(d)
    <3>1. PICK k \in DOMAIN c.pairs : t \in BlockThreads(c.pairs[k][1], c.pairs[k][2])
      BY <1>3, <2>1
    <3>2. CASE k = 1
      BY <3>1, <3>2
    <3>3. CASE k # 1
      <4>1. PICK j \in DOMAIN d.pairs : j + 1 = k
        BY <1>6, <3>3
      <4>2. t \in BlockThreads(d.pairs[j][1], d.pairs[j][2])
        BY <1>6, <3>1, <4>1
      <4>. QED  BY <1>9, <4>2
    <3>. QED  BY <3>2, <3>3
  <2>2. ASSUME NEW t \in Launch(d) PROVE t \in Launch(c)
    <3>1. PICK k \in DOMAIN d.pairs : t \in BlockThreads(d.pairs[k][1], d.pairs[k][2])
      BY <1>9, <2>2
    <3>2. k + 1 \in DOMAIN c.pairs /\ t \in BlockThreads(c.pairs[k + 1][1], c.pairs[k + 1][2])
      BY <1>6, <3>1
    <3>. QED  BY <1>3, <3>2
  <2>3. first \subseteq Launch(c)
    BY <1>3, <1>6
  <2>. QED  BY <2>1, <2>2, <2>3
<1>11. Launch(c) \subseteq Thread /\ RaceFree(Launch(c))
  BY <1>1, <1>2, CopyLaunch
<1>12. pool' = After(pool, first)
  <2>1. c.pairs[1][1] \in Block /\ c.pairs[1][2] \in Block
    BY <1>3, <1>6
  <2>. QED  BY <1>2, <1>6, <2>1, CpuCopiesBlock
<1>. HIDE DEF first
<1>13. After(After(pool, first), Launch(d)) = After(pool, Launch(c))
  <2>1. first \in SUBSET Thread /\ Launch(d) \in SUBSET Thread /\ RaceFree(first \cup Launch(d))
    BY <1>10, <1>11
  <2>. QED  BY <1>10, <2>1, AfterParts
<1>. QED  BY <1>1, <1>5, <1>7, <1>8, <1>12, <1>13 DEF NoCall

\* What is accepted is not invalid, and what is finished launches nothing more.
LEMMA AcceptedIsValid ==
  ASSUME NEW c \in Call, Accepts(c)
  PROVE  ~Invalid(c)
<1>1. CASE c \in WriteCalls
  <2>1. c.kind = "write" /\ c.dsts \in Seq(PhysicalSlot)
    BY <1>1 DEF WriteCalls
  <2>2. c.dsts # <<>> => validate(c.layer, Head(c.dsts))
    BY <1>1, <2>1, AcceptedWrite, HeadAndTail
  <2>. QED  BY <2>1, <2>2 DEF Invalid
<1>2. CASE c \in CopyCalls
  <2>1. c.kind = "copy" /\ c.pairs \in Seq(Nat \X Nat)
    BY <1>2 DEF CopyCalls
  <2>2. c.pairs # <<>> => validate_block(Head(c.pairs)[1]) /\ validate_block(Head(c.pairs)[2])
    <3>1. \A k \in DOMAIN c.pairs : validate_block(c.pairs[k][1]) /\ validate_block(c.pairs[k][2])
      BY <2>1 DEF Accepts
    <3>. QED  BY <2>1, <3>1, HeadAndTail
  <2>. QED  BY <2>1, <2>2 DEF Invalid
<1>3. CASE c \in [kind : {"zero"}, block : Nat]
  BY <1>3 DEF Accepts, Invalid
<1>. QED  BY <1>1, <1>2, <1>3 DEF Call, WriteCalls, CopyCalls

\* A batch that is through has no threads left.
LEMMA DoneLaunchesNothing ==
  ASSUME CpuInv, call # NoCall, Accepts(call), Done PROVE Launch(call) = {}
<1>1. PICK c : c = call
  OBVIOUS
<1>2. \/ c \in WriteCalls /\ c.dsts = <<>>
      \/ c \in CopyCalls /\ c.pairs = <<>>
  BY <1>1, CallFacts DEF Done, WriteCalls, CopyCalls
<1>3. DOMAIN <<>> = {}
  OBVIOUS
<1>4. CASE c \in WriteCalls /\ c.dsts = <<>>
  BY <1>1, <1>3, <1>4, AcceptedWrite
<1>5. CASE c \in CopyCalls /\ c.pairs = <<>>
  BY <1>1, <1>3, <1>5, AcceptedCopy
<1>. QED  BY <1>1, <1>2, <1>4, <1>5

\* A call begins on pools that are equal.
LEMMA CallStep ==
  ASSUME CudaInv, NEW c \in Calls, Invoke(c) PROVE CpuInv' => CudaInv'
<1>1. /\ c \in Call /\ Clean(c) /\ c # NoCall
  BY CallsAssumption, GeometryAssumption DEF Call, NoCall
<1>2. /\ threads = {} /\ call = NoCall /\ pool' = pool /\ gpu' = gpu
      /\ rejected' = ~Accepts(c) /\ threads' = IF Accepts(c) THEN Launch(c) ELSE {}
      /\ failed' = (c.kind = "write" /\ Len(c.values) # Len(c.dsts))
      /\ call' = IF failed' THEN NoCall ELSE c
  BY DEF Invoke, Begin
<1>3. pool \in [Offsets -> Elem] /\ gpu \in [Offsets -> Elem]
  BY DEF CudaInv, CpuInv, CpuTypeOK
<1>4. pool = gpu
  <2>1. CASE ~rejected
    <3>1. After(pool, {}) = After(gpu, {})
      BY <1>2, <2>1 DEF CudaInv, Rest
    <3>. QED  BY <1>3, <3>1, AfterNothing
  <2>2. CASE rejected
    BY <2>2 DEF CudaInv
  <2>. QED  BY <2>1, <2>2 DEF CudaInv
<1>5. CASE Accepts(c)
  <2>1. ~failed'
    BY <1>2, <1>5 DEF Accepts
  <2>2. /\ call' = c /\ threads' = Launch(c) /\ ~rejected'
        /\ Clean(call') /\ Accepts(call') /\ call' # NoCall
    BY <1>1, <1>2, <1>5, <2>1
  <2>3. threads' \subseteq Thread /\ RaceFree(threads')
    BY <1>1, <1>5, <2>2, WriteLaunch, CopyLaunch, ZeroLaunch DEF Call, WriteCalls, CopyCalls
  <2>4. Rest' = threads'
    BY <2>2 DEF Rest
  <2>. QED  BY <1>2, <1>3, <1>4, <2>1, <2>2, <2>3, <2>4 DEF CudaInv, RaceFree
<1>6. CASE ~Accepts(c)
  <2>1. rejected' /\ threads' = {} /\ pool' = gpu' /\ RaceFree(threads')
    BY <1>2, <1>4, <1>6 DEF RaceFree
  <2>2. CASE failed'
    BY <1>2, <1>3, <2>1, <2>2 DEF CudaInv
  <2>3. CASE ~failed'
    <3>1. call' = c /\ Clean(call') /\ Invalid(call')
      BY <1>1, <1>2, <1>6, <2>3 DEF Clean
    <3>. QED  BY <1>1, <1>2, <1>3, <2>1, <2>3, <3>1 DEF CudaInv
  <2>. QED  BY <2>2, <2>3
<1>. QED  BY <1>5, <1>6

\* One thread of the launch runs.
LEMMA ThreadStep ==
  ASSUME CudaInv, NEW t \in threads, RunThread(t) PROVE CpuInv' => CudaInv'
<1>1. /\ call = NoCall /\ call' = call /\ pool' = pool /\ failed' = failed /\ rejected' = rejected
      /\ threads' = threads \ {t}
      /\ gpu' = [gpu EXCEPT ![t.dst] = Stored(gpu, t)]
  BY DEF RunThread, cpuVars, Stored, Loading
<1>2. /\ ~rejected /\ failed = rejected /\ gpu \in [Offsets -> Elem] /\ threads \subseteq Thread
      /\ RaceFree(threads) /\ After(pool, Rest) = After(gpu, threads)
  BY <1>1 DEF CudaInv
<1>3. {t} \in SUBSET Thread /\ RaceFree({t}) /\ t.dst \in Offsets
  BY <1>2 DEF RaceFree, Thread
<1>4. PICK g : g = gpu'
  OBVIOUS
<1>5. g = After(gpu, {t})
  <2>1. g = [o \in Offsets |-> g[o]] /\ g[t.dst] = Stored(gpu, t)
        /\ \A o \in Offsets : o # t.dst => g[o] = gpu[o]
    BY <1>1, <1>2, <1>3, <1>4
  <2>. QED  BY <1>3, <2>1, AfterIs
<1>6. After(g, threads') = After(gpu, threads)
  <2>1. threads' \in SUBSET Thread /\ {t} \cup threads' = threads
    BY <1>1, <1>2
  <2>. QED  BY <1>2, <1>3, <1>5, <2>1, AfterParts
<1>7. gpu' \in [Offsets -> Elem]
  <2>1. Stored(gpu, t) \in Elem
    BY <1>2 DEF Thread, Stored, Loading
  <2>. QED  BY <1>1, <1>2, <2>1
<1>8. threads' \subseteq Thread /\ RaceFree(threads')
  BY <1>1, <1>2 DEF RaceFree
<1>9. Rest' = Rest
  BY <1>1 DEF Rest
<1>10. (After(pool, Rest) = After(gpu, threads))'
  BY <1>1, <1>2, <1>4, <1>6, <1>9
<1>. QED  BY <1>1, <1>2, <1>7, <1>8, <1>10 DEF CudaInv, RaceFree

\* The CPU executes an element, fails or is through.
LEMMA CpuSideStep ==
  ASSUME CudaInv, OnCpu PROVE CpuInv' => CudaInv'
<1>1. /\ gpu' = gpu /\ threads' = threads /\ rejected' = rejected
      /\ CpuInv /\ pool \in [Offsets -> Elem] /\ gpu \in [Offsets -> Elem]
      /\ threads \subseteq Thread /\ rejected \in BOOLEAN /\ RaceFree(threads)
  BY DEF OnCpu, CudaInv, CpuInv, CpuTypeOK
<1>2. call # NoCall
  BY DEF OnCpu, CpuStep, WriteKv, CopyBlock, ZeroBlock, Fail, Invalid, Done, NoCall
<1>3. /\ call \in Call /\ Clean(call) /\ ~failed
      /\ IF rejected THEN Invalid(call) ELSE Accepts(call)
  BY <1>2 DEF CudaInv, CpuInv, CpuTypeOK
<1>4. CASE rejected
  <2>1. Fail
    <3>1. ~WriteKv /\ ~CopyBlock /\ ~ZeroBlock /\ ~Done
      BY <1>3, <1>4 DEF Invalid, WriteKv, CopyBlock, ZeroBlock, Done
    <3>. QED  BY <3>1 DEF OnCpu, CpuStep
  <2>2. call' = NoCall /\ failed' = TRUE /\ pool' = pool
    BY <2>1 DEF Fail
  <2>. QED  BY <1>1, <1>4, <2>2 DEF CudaInv, RaceFree
<1>5. CASE ~rejected
  <2>1. Accepts(call) /\ After(pool, Launch(call)) = After(gpu, threads)
    BY <1>2, <1>3, <1>5 DEF CudaInv, Rest
  <2>2. ~Fail
    BY <1>3, <2>1, AcceptedIsValid DEF Fail
  <2>3. CASE WriteKv \/ CopyBlock
    <3>1. /\ call' # NoCall /\ Accepts(call') /\ Clean(call') /\ failed' = failed
          /\ After(pool', Launch(call')) = After(pool, Launch(call))
      BY <1>1, <1>2, <1>3, <2>1, <2>3, WriteStep, CopyStep DEF WriteKv, CopyBlock
    <3>2. After(pool', Rest') = After(gpu', threads')
      BY <1>1, <2>1, <3>1 DEF Rest
    <3>. QED  BY <1>1, <1>3, <1>5, <3>1, <3>2 DEF CudaInv, RaceFree
  <2>4. CASE ZeroBlock \/ Done
    <3>1. call' = NoCall /\ failed' = rejected'
      <4>1. call' = NoCall /\ failed' = failed
        BY <2>4 DEF ZeroBlock, Done
      <4>2. failed \in BOOLEAN
        BY <1>1 DEF CpuInv, CpuTypeOK
      <4>. QED  BY <1>1, <1>3, <1>5, <4>1, <4>2
    <3>2. pool' = After(pool, Launch(call))
      <4>1. CASE ZeroBlock
        <5>1. PICK c \in [kind : {"zero"}, block : Nat] : c = call
          BY <1>1, <4>1, CallFacts DEF ZeroBlock
        <5>. QED  BY <1>1, <2>1, <4>1, <5>1, CpuZeroesBlock
      <4>2. CASE Done
        BY <1>1, <1>2, <2>1, <4>2, DoneLaunchesNothing, AfterNothing DEF Done
      <4>. QED  BY <2>4, <4>1, <4>2
    <3>3. After(pool', Rest') = pool'
      <4>1. Rest' = {}
        BY <3>1 DEF Rest
      <4>2. PICK p : p = pool' /\ p = After(pool, Launch(call))
        BY <3>2
      <4>3. p = [o \in Offsets |-> p[o]]
        BY <4>2 DEF After
      <4>. QED  BY <4>1, <4>2, <4>3, AfterNothing
    <3>4. After(pool', Rest') = After(gpu', threads')
      BY <1>1, <2>1, <3>2, <3>3
    <3>5. RaceFree(threads')
      BY <1>1
    <3>. QED  BY <1>1, <1>5, <3>1, <3>4, <3>5 DEF CudaInv
  <2>. QED  BY <2>2, <2>3, <2>4 DEF OnCpu, CpuStep
<1>. QED  BY <1>1, <1>4, <1>5

LEMMA CudaInitInv == Init => CudaInv
<1> SUFFICES ASSUME Init PROVE CudaInv
  OBVIOUS
<1>1. CpuInit /\ gpu = [o \in Offsets |-> Zero] /\ threads = {} /\ rejected = FALSE
  BY DEF Init
<1>2. /\ CpuInv /\ pool = gpu /\ call = NoCall /\ failed = rejected
      /\ gpu \in [Offsets -> Elem]
  BY <1>1, CpuInitInv, GeometryAssumption DEF CpuInit
<1>3. Rest = threads /\ RaceFree(threads)
  BY <1>1, <1>2 DEF Rest, RaceFree
<1>. QED  BY <1>1, <1>2, <1>3 DEF CudaInv

LEMMA CudaNextInv == CudaInv /\ [Next]_cudaVars => CudaInv'
<1> SUFFICES ASSUME CudaInv, [Next]_cudaVars PROVE CudaInv'
  OBVIOUS
<1>1. CpuInv'
  <2>1. [CpuNext]_cpuVars
    BY DEF Next, OnCpu, RunThread, Invoke, CpuNext, cudaVars, cpuVars
  <2>. QED  BY <2>1, CpuNextInv DEF CudaInv
<1>2. CASE UNCHANGED cudaVars
  BY <1>1, <1>2 DEF cudaVars, cpuVars, CudaInv, Rest, After, Stored, RaceFree
<1>. QED  BY <1>1, <1>2, CallStep, ThreadStep, CpuSideStep DEF Next

\* After a call the pools are the same.
LEMMA QuietAgrees == ASSUME CudaInv, Quiet PROVE pool = gpu /\ failed = rejected
<1>1. /\ call = NoCall /\ threads = {} /\ failed = rejected /\ rejected \in BOOLEAN
      /\ pool \in [Offsets -> Elem] /\ gpu \in [Offsets -> Elem]
  BY DEF Quiet, CudaInv, CpuInv, CpuTypeOK
<1>2. CASE ~rejected
  <2>1. After(pool, {}) = After(gpu, {})
    BY <1>1, <1>2 DEF CudaInv, Rest
  <2>. QED  BY <1>1, <2>1, AfterNothing
<1>3. CASE rejected
  BY <1>1, <1>3 DEF CudaInv
<1>. QED  BY <1>1, <1>2, <1>3

(***************************************************************************)
(* backend.rs:8-10, "any difference between it and the CUDA backend is a   *)
(* kernel bug": for every geometry and every order of the threads, both    *)
(* pools are equal when a call has been executed, and both refused it or   *)
(* neither.                                                                *)
(***************************************************************************)
THEOREM KernelsAgree == Spec => []BackendsAgree
<1>1. CudaInv => BackendsAgree
  BY QuietAgrees DEF BackendsAgree
<1>. QED  BY <1>1, CudaInitInv, CudaNextInv, PTL DEF Spec

(***************************************************************************)
(* No two threads of a launch race, for any batch with distinct slots or   *)
(* separate destinations.                                                  *)
(***************************************************************************)
THEOREM ThreadsNeverRace == Spec => []NoThreadRace
<1>1. CudaInv => NoThreadRace
  BY DEF CudaInv, RaceFree, Loading, NoThreadRace
<1>. QED  BY <1>1, CudaInitInv, CudaNextInv, PTL DEF Spec

-----------------------------------------------------------------------------
(* Rows of a call of paged_attention.                                      *)

\* A least element, which is what the inductions need.
LEMMA Least ==
  ASSUME NEW T \in SUBSET Nat, T # {}
  PROVE  \E n \in T : \A m \in T : n <= m
<1>1. IsWellFoundedOn(OpToRel(<, Nat), Nat)
  BY NatLessThanWellFounded
<1>2. \A x, y \in Nat : x < y => <<x, y>> \in OpToRel(<, Nat)
  BY DEF OpToRel
<1> DEFINE R == OpToRel(<, Nat)
<1>. HIDE DEF R
<1>3. PICK x \in T : \A y \in T : <<y, x>> \notin R
  BY <1>1, WFMin DEF R
<1>4. \A y \in T : ~(y < x)
  BY <1>2, <1>3 DEF R
<1>. QED  BY <1>4

\* A set of naturals that holds 0 and, up to n, with every number the next one.
LEMMA UpTo ==
  ASSUME NEW n \in Nat, NEW T, 0 \in T,
         \A i \in 0 .. n : i + 1 <= n /\ i \in T => i + 1 \in T
  PROVE  0 .. n \subseteq T
<1> SUFFICES ASSUME ~(0 .. n \subseteq T) PROVE FALSE
  OBVIOUS
<1>1. PICK m \in (0 .. n) \ T : \A k \in (0 .. n) \ T : m <= k
  <2>1. (0 .. n) \ T \in SUBSET Nat /\ (0 .. n) \ T # {}
    OBVIOUS
  <2>. QED  BY <2>1, Least
<1>2. m # 0 /\ m - 1 \in 0 .. n /\ m - 1 + 1 = m
  OBVIOUS
<1>3. m - 1 \in T
  BY <1>1, <1>2
<1>. QED  BY <1>2, <1>3

LEMMA SeqFacts ==
  ASSUME NEW s \in Seq(AttentionSeq), NEW n \in Nat, n = Len(s)
  PROVE  \A k \in 1 .. n : s[k].num_queries \in Nat /\ s[k].context_len \in Nat
<1>1. \A k \in 1 .. n : s[k] \in AttentionSeq
  OBVIOUS
<1>. QED  BY ONLY <1>1 DEF AttentionSeq

\* f has the number of queries of the first sequences, from none to n.
Sums(f, s, n) == f[0] = 0 /\ \A m \in 1 .. n : f[m] = f[m - 1] + s[m].num_queries

\* The function that Rows recurs on exists.
LEMMA SumsExist ==
  ASSUME NEW s \in Seq(AttentionSeq), NEW n \in Nat, n = Len(s)
  PROVE  \E f : Sums(f, s, n) /\ Rows(s) = f[n]
<1> DEFINE UpToIs(f, m) == f = [k \in 0 .. m |-> IF k = 0 THEN 0 ELSE f[k - 1] + s[k].num_queries]
           T == {m \in Nat : \E f : UpToIs(f, m)}
<1>1. 0 \in T
  <2>1. UpToIs([k \in 0 .. 0 |-> 0], 0)
    OBVIOUS
  <2>. QED  BY <2>1
<1>2. ASSUME NEW m \in 0 .. n, m + 1 <= n, m \in T
      PROVE  m + 1 \in T
  <2>1. PICK f : UpToIs(f, m)
    BY <1>2
  <2> DEFINE g == [i \in 0 .. m + 1 |-> IF i = m + 1 THEN f[m] + s[i].num_queries ELSE f[i]]
  <2>2. \A i \in 0 .. m + 1 : g[i] = IF i = 0 THEN 0 ELSE g[i - 1] + s[i].num_queries
    <3> TAKE i \in 0 .. m + 1
    <3>1. CASE i = m + 1
      <4>1. i - 1 = m /\ m \in 0 .. m + 1 /\ m # m + 1 /\ i # 0
        BY <3>1
      <4>2. g[m] = f[m]
        BY <4>1
      <4>. QED  BY <3>1, <4>1, <4>2
    <3>2. CASE i # m + 1
      <4>1. i \in 0 .. m /\ (i # 0 => i - 1 \in 0 .. m + 1 /\ i - 1 # m + 1)
        BY <3>2
      <4>2. g[i] = f[i] /\ (i # 0 => g[i - 1] = f[i - 1])
        BY <3>2, <4>1
      <4>3. f[i] = IF i = 0 THEN 0 ELSE f[i - 1] + s[i].num_queries
        BY <2>1, <4>1
      <4>. QED  BY <4>2, <4>3
    <3>. QED  BY <3>1, <3>2
  <2>3. UpToIs(g, m + 1)
    <3>1. g = [i \in 0 .. m + 1 |-> g[i]]
      OBVIOUS
    <3>. HIDE DEF g
    <3>. QED  BY <2>2, <3>1
  <2>. HIDE DEF g
  <2>. QED  BY <2>3
<1>3. n \in T
  <2>. HIDE DEF T
  <2>1. 0 .. n \subseteq T
    BY ONLY <1>1, <1>2, n \in Nat, UpTo
  <2>. QED  BY <2>1
<1> DEFINE h == CHOOSE f : f = [k \in 0 .. Len(s) |-> IF k = 0 THEN 0 ELSE f[k - 1] + s[k].num_queries]
<1>4. UpToIs(h, n)
  <2>1. \E f : UpToIs(f, n)
    BY <1>3
  <2>. QED  BY <2>1
<1>5. Rows(s) = h[n]
  BY DEF Rows
<1>. HIDE DEF h
<1>6. Sums(h, s, n)
  <2>1. h[0] = 0
    BY <1>4
  <2>2. ASSUME NEW m \in 1 .. n PROVE h[m] = h[m - 1] + s[m].num_queries
    <3>1. m \in 0 .. n /\ m # 0
      OBVIOUS
    <3>. QED  BY <1>4, <3>1
  <2>. QED  BY <2>1, <2>2 DEF Sums
<1>. QED  BY <1>5, <1>6

LEMMA SumsGrow ==
  ASSUME NEW s \in Seq(AttentionSeq), NEW n \in Nat, n = Len(s), NEW f, Sums(f, s, n)
  PROVE  /\ \A k \in 0 .. n : f[k] \in Nat
         /\ \A j, k \in 0 .. n : j <= k => f[j] <= f[k]
<1>1. \A k \in 1 .. n : s[k].num_queries \in Nat
  BY SeqFacts
<1> DEFINE T == {k \in Nat : k <= n => f[k] \in Nat /\ \A j \in 0 .. k : f[j] \in Nat /\ f[j] <= f[k]}
<1>2. 0 \in T
  BY DEF Sums
<1>3. ASSUME NEW k \in 0 .. n, k + 1 <= n, k \in T
      PROVE  k + 1 \in T
  <2>1. f[k + 1] = f[k] + s[k + 1].num_queries
    <3>1. k + 1 \in 1 .. n /\ k + 1 - 1 = k
      BY <1>3
    <3>. QED  BY <3>1 DEF Sums
  <2>2. s[k + 1].num_queries \in Nat
    BY <1>1, <1>3
  <2>3. PICK x \in Nat, y \in Nat, z \in Nat : x = f[k] /\ y = s[k + 1].num_queries /\ z = f[k + 1] /\ z = x + y
    BY <1>3, <2>1, <2>2
  <2>4. ASSUME NEW j \in 0 .. k + 1 PROVE f[j] \in Nat /\ f[j] <= z
    <3>1. CASE j = k + 1
      <4>1. f[j] = z
        BY ONLY <2>3, <3>1
      <4>. QED  BY ONLY <4>1, z \in Nat
    <3>2. CASE j # k + 1
      <4>1. j \in 0 .. k
        BY <3>2
      <4>2. f[j] \in Nat /\ f[j] <= x
        BY <1>3, <2>3, <4>1
      <4>. QED  BY ONLY <2>3, <4>2, x \in Nat, y \in Nat
    <3>. QED  BY <3>1, <3>2
  <2>5. f[k + 1] \in Nat /\ \A j \in 0 .. k + 1 : f[j] \in Nat /\ f[j] <= f[k + 1]
    BY ONLY <2>3, <2>4, z \in Nat
  <2>. QED  BY <2>5
<1>4. 0 .. n \subseteq T
  <2>. HIDE DEF T
  <2>. QED  BY ONLY <1>2, <1>3, n \in Nat, UpTo
<1>. QED  BY <1>4

LEMMA FirstRows ==
  ASSUME NEW s \in Seq(AttentionSeq), NEW n \in Nat, n = Len(s), NEW f, Sums(f, s, n), NEW k \in 0 .. n
  PROVE  Rows(SubSeq(s, 1, k)) = f[k]
<1>1. PICK t \in Seq(AttentionSeq) : t = SubSeq(s, 1, k) /\ k = Len(t) /\ \A i \in 1 .. k : t[i] = s[i]
  <2>1. /\ SubSeq(s, 1, k) \in Seq(AttentionSeq) /\ Len(SubSeq(s, 1, k)) = k
        /\ \A i \in 1 .. k : SubSeq(s, 1, k)[i] = s[i]
    OBVIOUS
  <2>. QED  BY <2>1
<1>2. PICK g : Sums(g, t, k) /\ Rows(t) = g[k]
  <2>1. k \in Nat
    OBVIOUS
  <2>. QED  BY ONLY <1>1, <2>1, SumsExist, t \in Seq(AttentionSeq)
<1> DEFINE T == {i \in Nat : i <= k => f[i] = g[i]}
<1>3. 0 \in T
  BY <1>2 DEF Sums
<1>4. ASSUME NEW i \in 0 .. k, i + 1 <= k, i \in T
      PROVE  i + 1 \in T
  <2>1. i + 1 \in 1 .. n /\ i + 1 \in 1 .. k /\ i + 1 - 1 = i
    BY <1>4
  <2>2. f[i + 1] = f[i] + s[i + 1].num_queries /\ g[i + 1] = g[i] + t[i + 1].num_queries
    BY <1>2, <2>1 DEF Sums
  <2>. QED  BY <1>1, <1>4, <2>1, <2>2
<1>5. 0 .. k \subseteq T
  <2>. HIDE DEF T
  <2>. QED  BY ONLY <1>3, <1>4, k \in 0 .. n, n \in Nat, UpTo
<1>. QED  BY <1>1, <1>2, <1>5

\* The row of query i (from 0) of the k-th sequence.
LEMMA RowIs ==
  ASSUME NEW s \in Seq(AttentionSeq), NEW n \in Nat, n = Len(s), NEW f, Sums(f, s, n),
         NEW k \in 1 .. n, NEW i \in Nat, i < s[k].num_queries
  PROVE  /\ f[k - 1] + i + 1 \in 1 .. Rows(s)
         /\ RowSeq(s, f[k - 1] + i + 1) = k
         /\ RowQuery(s, f[k - 1] + i + 1) = i
<1>1. /\ \A j \in 0 .. n : f[j] \in Nat
      /\ \A j, m \in 0 .. n : j <= m => f[j] <= f[m]
  BY SumsGrow
<1>2. \A j \in 0 .. n : Rows(SubSeq(s, 1, j)) = f[j]
  BY FirstRows
<1>3. k - 1 \in 0 .. n /\ k \in 0 .. n /\ n \in 0 .. n
  OBVIOUS
<1>4. PICK a \in Nat, b \in Nat, c \in Nat, q \in Nat :
        /\ a = f[k - 1] /\ b = f[k] /\ c = f[n] /\ q = s[k].num_queries
        /\ b = a + q /\ b <= c /\ i < q
  <2>1. s[k].num_queries \in Nat
    BY SeqFacts
  <2>2. f[k] = f[k - 1] + s[k].num_queries
    BY DEF Sums
  <2>3. f[k] <= f[n]
    BY <1>1, <1>3
  <2>. QED  BY <1>1, <1>3, <2>1, <2>2, <2>3
<1>5. PICK r \in Nat : r = a + i + 1
  BY <1>4
<1>6. a < r /\ r <= b /\ r \in 1 .. c
  <2>1. b = a + q /\ b <= c /\ i < q /\ r = a + i + 1
    BY <1>4, <1>5
  <2>. QED  BY ONLY <2>1, i \in Nat, a \in Nat, b \in Nat, c \in Nat, q \in Nat, r \in Nat
<1>7. Rows(s) = c
  <2>1. SubSeq(s, 1, n) = s
    OBVIOUS
  <2>. QED  BY <1>2, <1>3, <1>4, <2>1
<1>8. DOMAIN s = 1 .. n
  OBVIOUS
<1>9. \A j \in 1 .. n : Rows(SubSeq(s, 1, j - 1)) = f[j - 1] /\ Rows(SubSeq(s, 1, j)) = f[j]
  BY <1>2
<1>10. ASSUME NEW j \in 1 .. n, f[j - 1] < r, r <= f[j]
       PROVE  j = k
  <2>1. j - 1 \in 0 .. n /\ j \in 0 .. n
    OBVIOUS
  <2>2. PICK x \in Nat, y \in Nat : x = f[j - 1] /\ y = f[j]
    BY <1>1, <2>1
  <2>3. CASE j < k
    <3>1. j <= k - 1
      BY <2>3
    <3>2. f[j] <= f[k - 1]
      BY <1>1, <1>3, <2>1, <3>1
    <3>3. r <= a
      BY ONLY <1>4, <1>10, <2>2, <3>2, a \in Nat, r \in Nat, y \in Nat
    <3>. QED  BY ONLY <1>6, <3>3, a \in Nat, r \in Nat
  <2>4. CASE k < j
    <3>1. k <= j - 1
      BY <2>4
    <3>2. f[k] <= f[j - 1]
      BY <1>1, <1>3, <2>1, <3>1
    <3>3. b < r
      BY ONLY <1>4, <1>10, <2>2, <3>2, b \in Nat, r \in Nat, x \in Nat
    <3>. QED  BY ONLY <1>6, <3>3, b \in Nat, r \in Nat
  <2>. QED  BY <2>3, <2>4
<1>11. RowSeq(s, r) = k
  <2> DEFINE P(j) == Rows(SubSeq(s, 1, j - 1)) < r /\ r <= Rows(SubSeq(s, 1, j))
  <2>1. P(k)
    BY <1>4, <1>6, <1>9
  <2>2. \A j \in 1 .. n : P(j) => j = k
    BY <1>9, <1>10
  <2>3. (CHOOSE j \in 1 .. n : P(j)) = k
    <3>. HIDE DEF P
    <3>. QED  BY <2>1, <2>2
  <2>. QED  BY <1>8, <2>3 DEF RowSeq
<1>12. RowQuery(s, r) = r - 1 - a
  BY <1>4, <1>9, <1>11 DEF RowQuery
<1>13. r - 1 - a = i
  BY ONLY <1>5, a \in Nat, i \in Nat
<1>. QED  BY <1>4, <1>5, <1>6, <1>7, <1>11, <1>12, <1>13

\* Every row is one.
LEMMA RowOf ==
  ASSUME NEW s \in Seq(AttentionSeq), NEW n \in Nat, n = Len(s), NEW f, Sums(f, s, n),
         NEW r \in 1 .. Rows(s)
  PROVE  \E k \in 1 .. n : \E i \in Nat : i < s[k].num_queries /\ r = f[k - 1] + i + 1
<1>1. /\ \A j \in 0 .. n : f[j] \in Nat
      /\ f[0] = 0
  BY SumsGrow DEF Sums
<1>2. Rows(s) = f[n]
  <2>1. SubSeq(s, 1, n) = s /\ n \in 0 .. n
    OBVIOUS
  <2>2. Rows(SubSeq(s, 1, n)) = f[n]
    BY <2>1, FirstRows
  <2>. QED  BY <2>1, <2>2
<1>3. r \in Nat /\ r <= f[n] /\ 0 < r
  BY <1>1, <1>2
<1> DEFINE T == {j \in 0 .. n : r <= f[j]}
<1>4. T \in SUBSET Nat /\ T # {}
  BY <1>3
<1>5. PICK k \in T : \A j \in T : k <= j
  <2>. HIDE DEF T
  <2>. QED  BY <1>4, Least
<1>6. k # 0 /\ k \in 1 .. n /\ k - 1 \in 0 .. n
  BY <1>1, <1>3
<1>7. ~(r <= f[k - 1])
  BY <1>5, <1>6
<1>8. f[k] = f[k - 1] + s[k].num_queries
  BY <1>6 DEF Sums
<1>9. PICK a \in Nat, b \in Nat, q \in Nat : a = f[k - 1] /\ b = f[k] /\ q = s[k].num_queries
  <2>1. s[k].num_queries \in Nat
    BY <1>6, SeqFacts
  <2>. QED  BY <1>1, <1>6, <2>1
<1>10. r <= b /\ ~(r <= a) /\ b = a + q
  BY <1>5, <1>7, <1>8, <1>9
<1>11. /\ r - 1 - a \in Nat /\ r - 1 - a < q /\ r = a + (r - 1 - a) + 1
  BY ONLY <1>3, <1>10, a \in Nat, b \in Nat, q \in Nat, r \in Nat
<1>. QED  BY <1>6, <1>9, <1>11

\* h has the concatenation of the first sequences of S, from one to n.
Flats(h, S, n) == \A m \in 1 .. n : h[m] = IF m = 1 THEN S[m] ELSE h[m - 1] \o S[m]

\* The function that FlattenSeq recurs on exists.
LEMMA FlatsExist ==
  ASSUME NEW S, NEW n \in Nat \ {0}, n = Len(S)
  PROVE  \E h : Flats(h, S, n) /\ FlattenSeq(S) = h[n]
<1> DEFINE UpToIs(f, m) == f = [i \in 1 .. m |-> IF i = 1 THEN S[i] ELSE f[i - 1] \o S[i]]
           T == {m \in Nat : \E f : UpToIs(f, m)}
<1>1. 0 \in T
  <2> DEFINE e == [i \in 1 .. 0 |-> S[i]]
  <2>1. UpToIs(e, 0)
    <3>1. \A i \in 1 .. 0 : FALSE
      OBVIOUS
    <3>. QED  BY <3>1
  <2>. QED  BY <2>1
<1>2. ASSUME NEW m \in 0 .. n, m + 1 <= n, m \in T
      PROVE  m + 1 \in T
  <2>1. PICK f : UpToIs(f, m)
    BY <1>2
  <2> DEFINE g == [i \in 1 .. m + 1 |->
               IF i = m + 1 THEN IF i = 1 THEN S[i] ELSE f[m] \o S[i] ELSE f[i]]
  <2>2. \A i \in 1 .. m + 1 : g[i] = IF i = 1 THEN S[i] ELSE g[i - 1] \o S[i]
    <3> TAKE i \in 1 .. m + 1
    <3>1. CASE i = m + 1
      <4>1. i # 1 => i - 1 = m /\ m \in 1 .. m + 1 /\ m # m + 1
        BY <3>1
      <4>2. i # 1 => g[m] = f[m]
        BY <4>1
      <4>. QED  BY <3>1, <4>1, <4>2
    <3>2. CASE i # m + 1
      <4>1. i \in 1 .. m /\ (i # 1 => i - 1 \in 1 .. m + 1 /\ i - 1 # m + 1)
        BY <3>2
      <4>2. g[i] = f[i] /\ (i # 1 => g[i - 1] = f[i - 1])
        BY <3>2, <4>1
      <4>3. f[i] = IF i = 1 THEN S[i] ELSE f[i - 1] \o S[i]
        BY <2>1, <4>1
      <4>. QED  BY <4>2, <4>3
    <3>. QED  BY <3>1, <3>2
  <2>3. UpToIs(g, m + 1)
    <3>1. g = [i \in 1 .. m + 1 |-> g[i]]
      OBVIOUS
    <3>. HIDE DEF g
    <3>. QED  BY <2>2, <3>1
  <2>4. m + 1 \in Nat
    OBVIOUS
  <2>. HIDE DEF g, UpToIs
  <2>. QED  BY <2>3, <2>4
<1>3. n \in T
  <2>. HIDE DEF T
  <2>1. 0 .. n \subseteq T
    BY ONLY <1>1, <1>2, n \in Nat, UpTo
  <2>. QED  BY <2>1
<1> DEFINE h == CHOOSE f : f = [i \in 1 .. Len(S) |-> IF i = 1 THEN S[i] ELSE f[i - 1] \o S[i]]
<1>4. UpToIs(h, n)
  <2>1. \E f : UpToIs(f, n)
    BY <1>3
  <2>. QED  BY <2>1
<1>5. FlattenSeq(S) = h[n]
  BY DEF FlattenSeq
<1>. HIDE DEF h
<1>6. Flats(h, S, n)
  BY <1>4 DEF Flats
<1>. QED  BY <1>5, <1>6

LEMMA ConcatAt ==
  ASSUME NEW a \in Seq(Int), NEW b \in Seq(Int), NEW c \in Nat, c = Len(a), NEW d \in Nat, d = Len(b)
  PROVE  /\ a \o b \in Seq(Int) /\ Len(a \o b) = c + d
         /\ \A i \in 1 .. c : (a \o b)[i] = a[i]
         /\ \A i \in 1 .. d : (a \o b)[c + i] = b[i]
OBVIOUS

\* What S has for query i (from 0) of the k-th sequence is in its row.
Placed(w, f, S, s, m) ==
  \A k \in 1 .. m : \A i \in Nat : i < s[k].num_queries => w[f[k - 1] + i + 1] = S[k][i + 1]

LEMMA FlattenPlaces ==
  ASSUME NEW s \in Seq(AttentionSeq), NEW n \in Nat \ {0}, n = Len(s), NEW f, Sums(f, s, n),
         NEW S \in Seq(Seq(Int)), n = Len(S), \A k \in 1 .. n : Len(S[k]) = s[k].num_queries
  PROVE  Placed(FlattenSeq(S), f, S, s, n)
<1>1. PICK h : Flats(h, S, n) /\ FlattenSeq(S) = h[n]
  BY FlatsExist
<1>2. /\ \A j \in 0 .. n : f[j] \in Nat
      /\ \A j, m \in 0 .. n : j <= m => f[j] <= f[m]
      /\ f[0] = 0
  BY SumsGrow DEF Sums
<1>3. \A k \in 1 .. n : S[k] \in Seq(Int) /\ s[k].num_queries \in Nat
  BY SeqFacts
<1> DEFINE Good(m) == h[m] \in Seq(Int) /\ Len(h[m]) = f[m] /\ Placed(h[m], f, S, s, m)
           T == {m \in Nat : m = 0 \/ (m <= n => Good(m))}
<1>4. 0 \in T
  OBVIOUS
<1>5. ASSUME NEW m \in 0 .. n, m + 1 <= n, m \in T
      PROVE  m + 1 \in T
  <2>1. m + 1 \in 1 .. n /\ m + 1 - 1 = m /\ m \in Nat /\ m + 1 \in Nat
    BY <1>5
  <2>2. PICK z \in Seq(Int), q \in Nat : z = S[m + 1] /\ q = Len(z) /\ q = s[m + 1].num_queries
    BY <1>3, <2>1
  <2>3. f[m + 1] = f[m] + q
    BY <2>1, <2>2 DEF Sums
  <2>4. CASE m = 0
    <3>1. h[m + 1] = z
      BY <1>1, <2>1, <2>2, <2>4 DEF Flats
    <3>2. f[m + 1] = q
      BY <1>2, <2>2, <2>3, <2>4
    <3>3. ASSUME NEW k \in 1 .. m + 1, NEW i \in Nat, i < s[k].num_queries
          PROVE  z[f[k - 1] + i + 1] = S[k][i + 1]
      <4>1. k = m + 1 /\ k - 1 = 0
        BY <2>4
      <4>2. f[k - 1] + i + 1 = i + 1
        BY <1>2, <4>1
      <4>. QED  BY <2>2, <4>1, <4>2
    <3>4. Placed(z, f, S, s, m + 1)
      BY <3>3 DEF Placed
    <3>5. Good(m + 1)
      BY ONLY <2>2, <3>1, <3>2, <3>4, z \in Seq(Int)
    <3>. HIDE DEF Good
    <3>. QED  BY <2>1, <3>5
  <2>5. CASE m # 0
    <3>1. PICK w \in Seq(Int), c \in Nat : w = h[m] /\ c = Len(w) /\ c = f[m] /\ Placed(w, f, S, s, m)
      BY <1>2, <1>5, <2>1, <2>5
    <3>2. h[m + 1] = w \o z
      <4>1. m + 1 # 1
        BY <2>5
      <4>2. h[m + 1] = h[m] \o S[m + 1]
        <5>1. PICK j \in 1 .. n : j = m + 1 /\ j # 1 /\ j - 1 = m
          BY <2>1, <4>1
        <5>2. h[j] = h[j - 1] \o S[j]
          BY <1>1, <5>1 DEF Flats
        <5>. QED  BY ONLY <5>1, <5>2
      <4>. QED  BY ONLY <2>2, <3>1, <4>2
    <3>3. PICK v \in Seq(Int) : /\ v = w \o z /\ Len(v) = c + q
                                /\ \A i \in 1 .. c : v[i] = w[i]
                                /\ \A i \in 1 .. q : v[c + i] = z[i]
      <4>1. c = Len(w) /\ q = Len(z)
        BY <2>2, <3>1
      <4>2. /\ w \o z \in Seq(Int) /\ Len(w \o z) = c + q
            /\ \A i \in 1 .. c : (w \o z)[i] = w[i]
            /\ \A i \in 1 .. q : (w \o z)[c + i] = z[i]
        BY ONLY ConcatAt, <4>1, w \in Seq(Int), z \in Seq(Int), c \in Nat, q \in Nat
      <4>. QED  BY <4>2
    <3>4. ASSUME NEW k \in 1 .. m + 1, NEW i \in Nat, i < s[k].num_queries
          PROVE  v[f[k - 1] + i + 1] = S[k][i + 1]
      <4>1. CASE k = m + 1
        <5>1. f[k - 1] + i + 1 = c + (i + 1) /\ i + 1 \in 1 .. q
          <6>1. f[k - 1] = c /\ i < q
            BY <2>1, <2>2, <3>1, <3>4, <4>1
          <6>. QED  BY ONLY <6>1, c \in Nat, q \in Nat, i \in Nat
        <5>. QED  BY <2>2, <3>3, <4>1, <5>1
      <4>2. CASE k # m + 1
        <5>1. k \in 1 .. m /\ k - 1 \in 0 .. n /\ k \in 0 .. n /\ m \in 0 .. n /\ k <= m
          BY <4>2
        <5>2. w[f[k - 1] + i + 1] = S[k][i + 1]
          BY <3>1, <3>4, <5>1 DEF Placed
        <5>3. f[k] = f[k - 1] + s[k].num_queries
          <6>1. k \in 1 .. n
            BY <5>1, <2>1
          <6>. QED  BY <6>1 DEF Sums
        <5>4. PICK x \in Nat, y \in Nat : x = f[k - 1] /\ y = s[k].num_queries
          <6>1. k \in 1 .. n
            BY <5>1, <2>1
          <6>. QED  BY <1>2, <1>3, <5>1, <6>1
        <5>5. x + y <= c
          <6>1. f[k] <= f[m]
            BY <1>2, <5>1
          <6>. QED  BY ONLY <3>1, <5>3, <5>4, <6>1
        <5>6. f[k - 1] + i + 1 \in 1 .. c
          <6>1. i < y
            BY <3>4, <5>4
          <6>2. x + i + 1 \in 1 .. c
            BY ONLY <5>5, <6>1, x \in Nat, y \in Nat, c \in Nat, i \in Nat
          <6>. QED  BY <5>4, <6>2
        <5>. QED  BY <3>3, <5>2, <5>6
      <4>. QED  BY <4>1, <4>2
    <3>5. Placed(v, f, S, s, m + 1)
      BY <3>4 DEF Placed
    <3>6. Good(m + 1)
      BY ONLY <2>3, <3>1, <3>2, <3>3, <3>5, v \in Seq(Int)
    <3>. HIDE DEF Good
    <3>. QED  BY <2>1, <3>6
  <2>. QED  BY <2>4, <2>5
<1>6. 0 .. n \subseteq T
  <2>. HIDE DEF T
  <2>. QED  BY ONLY <1>4, <1>5, n \in Nat, UpTo
<1>7. n \in T /\ n # 0
  <2>1. n \in 0 .. n /\ n # 0
    OBVIOUS
  <2>. HIDE DEF T
  <2>. QED  BY <1>6, <2>1
<1>. QED  BY <1>1, <1>7

\* In the kernel's arrays, the row of query i of the k-th sequence names both.
LEMMA RowNames ==
  ASSUME NEW s \in Seq(AttentionSeq), NEW n \in Nat \ {0}, n = Len(s), NEW f, Sums(f, s, n),
         NEW k \in 1 .. n, NEW i \in Nat, i < s[k].num_queries
  PROVE  /\ query_seq(s)[f[k - 1] + i + 1] = k - 1
         /\ query_pos(s)[f[k - 1] + i + 1] = s[k].context_len - s[k].num_queries + i
<1>1. \A m \in 1 .. n : s[m].num_queries \in Nat /\ s[m].context_len \in Nat
  BY SeqFacts
<1>2. DOMAIN s = 1 .. n /\ i + 1 \in 1 .. s[k].num_queries
  BY <1>1
<1> DEFINE A == [m \in 1 .. n |-> [j \in 1 .. s[m].num_queries |-> m - 1]]
           C == [m \in 1 .. n |-> [j \in 1 .. s[m].num_queries |-> s[m].context_len - s[m].num_queries + j - 1]]
<1>3. /\ A \in Seq(Seq(Int)) /\ Len(A) = n
      /\ \A m \in 1 .. n : Len(A[m]) = s[m].num_queries
  <2>1. \A m \in 1 .. n : /\ [j \in 1 .. s[m].num_queries |-> m - 1] \in Seq(Int)
                          /\ Len([j \in 1 .. s[m].num_queries |-> m - 1]) = s[m].num_queries
    BY <1>1
  <2>2. A = [m \in 1 .. n |-> A[m]] /\ \A m \in 1 .. n : A[m] \in Seq(Int) /\ Len(A[m]) = s[m].num_queries
    BY <2>1
  <2>. HIDE DEF A
  <2>3. A \in [1 .. n -> Seq(Int)]
    BY <2>2
  <2>. QED  BY <2>2, <2>3
<1>4. /\ C \in Seq(Seq(Int)) /\ Len(C) = n
      /\ \A m \in 1 .. n : Len(C[m]) = s[m].num_queries
  <2>1. ASSUME NEW m \in 1 .. n
        PROVE  LET c == [j \in 1 .. s[m].num_queries |-> s[m].context_len - s[m].num_queries + j - 1]
               IN  c \in Seq(Int) /\ Len(c) = s[m].num_queries
    <3>1. PICK x \in Nat, y \in Nat : x = s[m].num_queries /\ y = s[m].context_len
      BY <1>1
    <3>2. [j \in 1 .. x |-> y - x + j - 1] \in Seq(Int) /\ Len([j \in 1 .. x |-> y - x + j - 1]) = x
      OBVIOUS
    <3>. QED  BY <3>1, <3>2
  <2>2. C = [m \in 1 .. n |-> C[m]] /\ \A m \in 1 .. n : C[m] \in Seq(Int) /\ Len(C[m]) = s[m].num_queries
    BY <2>1
  <2>. HIDE DEF C
  <2>3. C \in [1 .. n -> Seq(Int)]
    BY <2>2
  <2>. QED  BY <2>2, <2>3
<1>5. A[k][i + 1] = k - 1
  BY <1>2
<1>6. C[k][i + 1] = s[k].context_len - s[k].num_queries + i
  <2>1. C[k][i + 1] = s[k].context_len - s[k].num_queries + (i + 1) - 1
    BY <1>2
  <2>2. PICK x \in Nat, y \in Nat : x = s[k].num_queries /\ y = s[k].context_len
    BY <1>1
  <2>3. y - x + (i + 1) - 1 = y - x + i
    BY ONLY x \in Nat, y \in Nat, i \in Nat
  <2>. QED  BY <2>1, <2>2, <2>3
<1>7. query_seq(s) = FlattenSeq(A) /\ query_pos(s) = FlattenSeq(C)
  BY <1>2 DEF query_seq, query_pos
<1>. HIDE DEF A, C
<1>8. Placed(FlattenSeq(A), f, A, s, n)
  BY ONLY <1>3, FlattenPlaces, s \in Seq(AttentionSeq), n \in Nat \ {0}, n = Len(s), Sums(f, s, n)
<1>9. Placed(FlattenSeq(C), f, C, s, n)
  BY ONLY <1>4, FlattenPlaces, s \in Seq(AttentionSeq), n \in Nat \ {0}, n = Len(s), Sums(f, s, n)
<1>. QED  BY <1>5, <1>6, <1>7, <1>8, <1>9 DEF Placed

-----------------------------------------------------------------------------
(* Blocks and heads.                                                       *)

\* Quotient and remainder.
LEMMA DivMod ==
  ASSUME NEW d \in Nat \ {0}, NEW a \in Nat
  PROVE  a \div d \in Nat /\ a % d \in 0 .. d - 1 /\ a = (a \div d) * d + (a % d)
<1> DEFINE T == {x \in Nat : \E q \in Nat, r \in 0 .. d - 1 : x = q * d + r}
<1>1. 0 \in T
  <2>1. 0 = 0 * d + 0 /\ 0 \in 0 .. d - 1
    OBVIOUS
  <2>. QED  BY <2>1
<1>2. ASSUME NEW x \in 0 .. a, x + 1 <= a, x \in T
      PROVE  x + 1 \in T
  <2>1. PICK q \in Nat, r \in 0 .. d - 1 : x = q * d + r
    BY <1>2
  <2>2. CASE r + 1 < d
    <3>1. r + 1 \in 0 .. d - 1 /\ x + 1 = q * d + (r + 1)
      BY <2>1, <2>2
    <3>. QED  BY <3>1
  <2>3. CASE ~(r + 1 < d)
    <3>1. r + 1 = d
      BY ONLY <2>3, r \in 0 .. d - 1, d \in Nat \ {0}
    <3>2. (q + 1) * d + 0 = q * d + d /\ q * d \in Nat
      BY ONLY q \in Nat, d \in Nat \ {0}
    <3>3. x + 1 = (q + 1) * d + 0 /\ 0 \in 0 .. d - 1 /\ q + 1 \in Nat
      BY <2>1, <3>1, <3>2
    <3>4. PICK p \in Nat, u \in 0 .. d - 1 : x + 1 = p * d + u
      BY <3>3
    <3>. QED  BY <3>4
  <2>. QED  BY <2>2, <2>3
<1>3. a \in T
  <2>1. a \in 0 .. a
    OBVIOUS
  <2>. HIDE DEF T
  <2>2. 0 .. a \subseteq T
    BY ONLY <1>1, <1>2, a \in Nat, UpTo
  <2>. QED  BY <2>1, <2>2
<1>4. PICK q \in Nat, r \in 0 .. d - 1 : a = q * d + r
  BY <1>3
<1>5. a \div d = q /\ a % d = r
  BY <1>4, Divides
<1>. QED  BY ONLY <1>4, <1>5, q \in Nat, r \in 0 .. d - 1

\* Division keeps the order.
LEMMA DivideMonotone ==
  ASSUME NEW d \in Nat \ {0}, NEW a \in Nat, NEW b \in Nat, a <= b
  PROVE  a \div d <= b \div d
<1>1. PICK q \in Nat, r \in 0 .. d - 1 : q = a \div d /\ a = q * d + r
  <2>1. a \div d \in Nat /\ a % d \in 0 .. d - 1 /\ a = (a \div d) * d + (a % d)
    BY DivMod
  <2>. QED  BY <2>1
<1>2. PICK p \in Nat, u \in 0 .. d - 1 : p = b \div d /\ b = p * d + u
  <2>1. b \div d \in Nat /\ b % d \in 0 .. d - 1 /\ b = (b \div d) * d + (b % d)
    BY DivMod
  <2>. QED  BY <2>1
<1>3. ASSUME p < q
      PROVE  FALSE
  <2>1. p * d + u \in 0 .. q * d - 1
    BY ONLY <1>3, DigitBelow, p \in Nat, q \in Nat, d \in Nat \ {0}, u \in 0 .. d - 1
  <2>2. PICK x \in Nat : x = q * d
    OBVIOUS
  <2>. QED  BY ONLY <1>1, <1>2, <2>1, <2>2, x \in Nat, a <= b, r \in 0 .. d - 1, d \in Nat \ {0}
<1>. QED  BY <1>1, <1>2, <1>3

\* The block of a position is among the blocks of its sequence.
LEMMA BlockOfToken ==
  ASSUME NEW c \in Nat, NEW t \in Nat, t < c
  PROVE  /\ blocks_for_tokens(c) \in Nat
         /\ t \div BlockSize \in 0 .. blocks_for_tokens(c) - 1 /\ t % BlockSize \in Slots
<1>1. BlockSize \in Nat \ {0}
  BY GeometryAssumption
<1>2. PICK d \in Nat \ {0} : d = BlockSize
  BY <1>1
<1>3. PICK q \in Nat, r \in 0 .. d - 1 : q = t \div d /\ r = t % d /\ t = q * d + r
  <2>1. t \div d \in Nat /\ t % d \in 0 .. d - 1 /\ t = (t \div d) * d + (t % d)
    BY DivMod
  <2>. QED  BY <2>1
<1>4. (q + 1) * d + r = t + d
  BY <1>3
<1>5. (t + d) \div d = q + 1
  BY ONLY <1>4, Divides, q \in Nat, r \in 0 .. d - 1, d \in Nat \ {0}
<1>6. t + d <= c + d - 1 /\ t + d \in Nat /\ c + d - 1 \in Nat
  BY ONLY c \in Nat, t \in Nat, t < c, d \in Nat \ {0}
<1>7. (t + d) \div d <= (c + d - 1) \div d
  BY ONLY <1>6, DivideMonotone, d \in Nat \ {0}
<1>8. PICK m \in Nat : m = (c + d - 1) \div d
  BY <1>6
<1>9. q \in 0 .. m - 1
  BY ONLY <1>5, <1>7, <1>8, q \in Nat, m \in Nat
<1>. QED  BY <1>2, <1>3, <1>8, <1>9 DEF blocks_for_tokens, Slots

LEMMA MaxOfBounds ==
  ASSUME NEW s \in Seq(AttentionSeq), NEW n \in Nat, n = Len(s)
  PROVE  MaxOf(s) \in Nat /\ \A k \in 1 .. n : s[k].context_len <= MaxOf(s)
<1>1. \A k \in 1 .. n : s[k].context_len \in Nat
  BY SeqFacts
<1> DEFINE D(m) == {s[k].context_len : k \in 1 .. m} \cup {0}
           T == {m \in Nat : m <= n => \E x \in D(m) : x \in Nat /\ \A y \in D(m) : y \in Nat /\ x >= y}
<1>2. 0 \in T
  <2>1. D(0) = {0}
    OBVIOUS
  <2>. QED  BY <2>1
<1>3. ASSUME NEW m \in 0 .. n, m + 1 <= n, m \in T
      PROVE  m + 1 \in T
  <2>1. PICK x \in D(m) : x \in Nat /\ \A y \in D(m) : y \in Nat /\ x >= y
    BY <1>3
  <2>2. PICK z \in Nat : z = s[m + 1].context_len
    BY <1>1, <1>3
  <2>3. D(m + 1) = D(m) \cup {z}
    <3>1. \A k : k \in 1 .. m + 1 <=> k \in 1 .. m \/ k = m + 1
      OBVIOUS
    <3>. QED  BY <2>2, <3>1
  <2>. HIDE DEF D
  <2>4. CASE x >= z
    BY <2>1, <2>2, <2>3, <2>4
  <2>5. CASE z > x
    <3>1. \A y \in D(m + 1) : y \in Nat /\ z >= y
      BY <2>1, <2>2, <2>3, <2>5
    <3>. QED  BY <2>2, <2>3, <3>1
  <2>. QED  BY <2>1, <2>2, <2>4, <2>5
<1>4. n \in T
  <2>. HIDE DEF T
  <2>1. 0 .. n \subseteq T
    BY ONLY <1>2, <1>3, n \in Nat, UpTo
  <2>. QED  BY <2>1
<1>5. \E x \in D(n) : x \in Nat /\ \A y \in D(n) : y \in Nat /\ x >= y
  BY <1>4
<1>6. MaxOf(s) = CHOOSE x \in D(n) : \A y \in D(n) : x >= y
  <2>1. DOMAIN s = 1 .. n
    OBVIOUS
  <2>. QED  BY <2>1 DEF MaxOf, Max
<1>7. MaxOf(s) \in D(n) /\ \A y \in D(n) : MaxOf(s) >= y
  <2>. HIDE DEF D
  <2>. QED  BY <1>5, <1>6
<1>8. \A k \in 1 .. n : s[k].context_len \in D(n)
  OBVIOUS
<1>. HIDE DEF D
<1>9. MaxOf(s) \in Nat
  BY <1>5, <1>7
<1>10. ASSUME NEW k \in 1 .. n PROVE s[k].context_len <= MaxOf(s)
  <2>1. PICK x \in Nat, y \in Nat : x = s[k].context_len /\ y = MaxOf(s)
    BY <1>1, <1>9
  <2>2. y >= x
    BY <1>7, <1>8, <2>1
  <2>. QED  BY <2>1, <2>2
<1>. QED  BY <1>9, <1>10

\* The padded tables hold the block of each position of each sequence.
LEMMA TableEntry ==
  ASSUME NEW s \in Seq(AttentionSeq), NEW n \in Nat, n = Len(s), NEW k \in 1 .. n,
         NEW t \in Nat, t < s[k].context_len
  PROVE  tables(s)[(k - 1) * blocks_for_tokens(MaxOf(s)) + (t \div BlockSize)]
           = s[k].block_table[(t \div BlockSize) + 1]
<1>1. PICK c \in Nat : c = s[k].context_len
  BY SeqFacts
<1>2. PICK M \in Nat : M = MaxOf(s) /\ c <= M
  BY <1>1, MaxOfBounds
<1>3. PICK b \in Nat : b = blocks_for_tokens(c) /\ t \div BlockSize \in 0 .. b - 1
  BY <1>1, BlockOfToken
<1>4. PICK m \in Nat : m = blocks_for_tokens(M) /\ b <= m
  <2>1. PICK d \in Nat \ {0} : d = BlockSize
    BY GeometryAssumption
  <2>2. c + d - 1 <= M + d - 1 /\ c + d - 1 \in Nat /\ M + d - 1 \in Nat
    BY ONLY <1>2, c \in Nat, M \in Nat, d \in Nat \ {0}
  <2>3. (c + d - 1) \div d <= (M + d - 1) \div d
    BY ONLY <2>2, DivideMonotone, d \in Nat \ {0}
  <2>4. (M + d - 1) \div d \in Nat
    BY ONLY <2>2, d \in Nat \ {0}
  <2>. QED  BY <1>3, <2>1, <2>3, <2>4 DEF blocks_for_tokens
<1>5. PICK j \in 0 .. b - 1 : j = t \div BlockSize
  BY <1>3
<1>6. j \in 0 .. m - 1 /\ m \in Nat \ {0}
  BY ONLY <1>4, j \in 0 .. b - 1, b \in Nat, m \in Nat
<1>7. PICK x \in 0 .. n * m - 1 : x = (k - 1) * m + j
  <2>1. k - 1 \in 0 .. n - 1
    OBVIOUS
  <2>2. (k - 1) * m + j \in 0 .. n * m - 1
    BY ONLY <1>6, <2>1, DigitBelow, n \in Nat, m \in Nat
  <2>. QED  BY <2>2
<1>8. x \div m = k - 1 /\ x % m = j
  <2>1. k - 1 \in Nat
    OBVIOUS
  <2>. QED  BY ONLY <1>6, <1>7, <2>1, Divides
<1>9. (x \div m) + 1 = k
  BY ONLY <1>8, k \in 1 .. n, n \in Nat
<1>10. tables(s)[x] = IF j < b THEN s[k].block_table[j + 1] ELSE 0
  BY <1>1, <1>2, <1>3, <1>4, <1>8, <1>9 DEF tables
<1>11. j < b
  BY ONLY j \in 0 .. b - 1, b \in Nat
<1>. QED  BY <1>2, <1>4, <1>5, <1>7, <1>10, <1>11

\* Equally many query heads for each KV head.
LEMMA HeadGroups ==
  ASSUME NEW rows \in Nat \ {0}, NEW q_len \in Nat \ {0}, q_len % rows = 0,
         (q_len \div rows) % entry_elems = 0,
         NEW heads, heads = (q_len \div rows) \div HeadDim, NEW h \in 0 .. heads - 1
  PROVE  /\ heads \in Nat
         /\ (h * NumKvHeads) \div heads = h \div (heads \div NumKvHeads)
         /\ h \div (heads \div NumKvHeads) \in 0 .. NumKvHeads - 1
<1>1. PICK N \in Nat \ {0}, H \in Nat \ {0} : N = NumKvHeads /\ H = HeadDim
  BY GeometryAssumption
<1>2. PICK c \in Nat : c = q_len \div rows /\ q_len = c * rows
  <2>1. /\ q_len \div rows \in Nat
        /\ q_len = (q_len \div rows) * rows + (q_len % rows)
    BY DivMod
  <2>2. q_len = (q_len \div rows) * rows
    BY <2>1
  <2>. QED  BY <2>1, <2>2
<1>3. c # 0
  BY <1>2
<1>4. PICK e \in Nat \ {0} : e = entry_elems /\ e = N * H
  BY <1>1, Sizes DEF entry_elems
<1>5. PICK g \in Nat : c = g * e
  <2>1. /\ c \div e \in Nat
        /\ c = (c \div e) * e + (c % e)
    BY DivMod
  <2>2. c % e = 0
    BY <1>2, <1>4
  <2>3. PICK g \in Nat : g = c \div e
    BY <2>1
  <2>4. c = g * e + 0
    BY <2>1, <2>2, <2>3
  <2>. QED  BY <2>4
<1>6. g # 0
  BY <1>3, <1>5
<1>7. PICK w \in Nat : w = g * N
  OBVIOUS
<1>8. c = w * H + 0
  BY <1>4, <1>5, <1>7
<1>9. 0 \in 0 .. H - 1 /\ 0 \in 0 .. N - 1
  OBVIOUS
<1>10. heads = w
  <2>1. c \div H = w
    BY ONLY <1>8, <1>9, Divides, w \in Nat, H \in Nat \ {0}
  <2>. QED  BY <1>1, <1>2, <2>1
<1>11. w \div N = g
  <2>1. w = g * N + 0
    BY <1>7
  <2>. QED  BY ONLY <1>9, <2>1, Divides, g \in Nat, N \in Nat \ {0}
<1>12. PICK q \in Nat, r \in 0 .. g - 1 : q = h \div g /\ h = q * g + r
  <2>1. h \in Nat /\ g \in Nat \ {0}
    BY <1>6, <1>10
  <2>2. h \div g \in Nat /\ h % g \in 0 .. g - 1 /\ h = (h \div g) * g + (h % g)
    BY ONLY <2>1, DivMod
  <2>. QED  BY <2>2
<1>13. h < N * g
  <2>1. h < w /\ w = N * g
    BY <1>7, <1>10
  <2>. QED  BY <2>1
<1>14. q \in 0 .. N - 1
  <2>1. ASSUME N <= q PROVE FALSE
    <3>1. N * g <= q * g
      <4>1. PICK k \in Nat : q = N + k
        <5>1. q - N \in Nat /\ q = N + (q - N)
          BY <2>1
        <5>. QED  BY <5>1
      <4>2. q * g = N * g + k * g /\ k * g \in Nat /\ N * g \in Nat
        BY <4>1
      <4>. QED  BY <4>2
    <3>2. PICK x \in Nat, y \in Nat : x = q * g /\ y = N * g
      OBVIOUS
    <3>3. h \in Nat
      BY <1>12
    <3>. QED  BY ONLY <1>12, <1>13, <3>1, <3>2, <3>3, x \in Nat, y \in Nat, r \in 0 .. g - 1, g \in Nat
  <2>. QED  BY <2>1
<1>15. (h * N) \div w = q
  <2>1. PICK u \in 0 .. w - 1 : u = r * N
    <3>1. r * N + 0 \in 0 .. g * N - 1
      BY ONLY <1>9, DigitBelow, g \in Nat, N \in Nat \ {0}, r \in 0 .. g - 1
    <3>2. r * N + 0 = r * N
      OBVIOUS
    <3>. QED  BY <1>7, <3>1, <3>2
  <2>2. h * N = q * w + u
    <3>1. (q * g + r) * N = q * (g * N) + r * N
      BY ONLY q \in Nat, g \in Nat, N \in Nat \ {0}, r \in 0 .. g - 1
    <3>. QED  BY ONLY <1>7, <1>12, <2>1, <3>1
  <2>3. w \in Nat \ {0}
    BY <1>6, <1>7
  <2>. QED  BY ONLY <2>2, <2>3, Divides, q \in Nat, u \in 0 .. w - 1
<1>. QED  BY <1>1, <1>10, <1>11, <1>12, <1>14, <1>15

\* Both backends address one and the same element, at x in a slot.
SameAddress(layer, block, slot, x, at) ==
  /\ slot_offset(layer, at) \in Nat
  /\ slot_offset(layer, at) + x
       = x + ((layer * NumBlocks + block) * BlockSize + slot) * entry_elems

LEMMA SameOffset ==
  ASSUME NEW layer \in Nat, NEW block \in Nat, NEW slot \in Nat, NEW x \in Nat,
         NEW at, at = [block |-> block, slot |-> slot]
  PROVE  SameAddress(layer, block, slot, x, at)
<1>1. PICK B \in Nat, e \in Nat, z \in Nat : B = BlockSize /\ e = entry_elems /\ z = layer * NumBlocks + block
  BY Sizes, GeometryAssumption
<1>3. slot_offset(layer, at) = z * (B * e) + slot * e
  BY <1>1 DEF slot_offset, block_offset, block_elems
<1>4. z * (B * e) + slot * e = (z * B + slot) * e /\ z * (B * e) + slot * e \in Nat /\ (z * B + slot) * e \in Nat
  BY ONLY B \in Nat, e \in Nat, z \in Nat, slot \in Nat
<1>. QED  BY <1>1, <1>3, <1>4 DEF SameAddress

\* What one query reads with one head, at one position: the CPU, the device,
\* and what it has to read.
ReadsAlike(layer, block, slot, kv, at) ==
  /\ HeadRead(pool, slot_offset(layer, at) + kv * HeadDim)
       = HeadRead(gpu, kv * HeadDim + ((layer * NumBlocks + block) * BlockSize + slot) * entry_elems)
  /\ HeadRead(pool, slot_offset(layer, at) + kv * HeadDim)
       = [j \in 0 .. HeadDim - 1 |-> read_kv(layer, at)[kv * HeadDim + j]]

LEMMA SameRead ==
  ASSUME pool = gpu, NEW layer \in Nat, NEW block \in Nat, NEW slot \in Nat, NEW kv \in 0 .. NumKvHeads - 1,
         NEW at, at = [block |-> block, slot |-> slot]
  PROVE  ReadsAlike(layer, block, slot, kv, at)
<1>1. PICK N \in Nat \ {0}, H \in Nat \ {0} : N = NumKvHeads /\ H = HeadDim
  BY GeometryAssumption
<1>2. PICK x \in Nat : x = kv * HeadDim
  BY <1>1
<1>4. PICK o \in Nat : /\ o = slot_offset(layer, at)
                       /\ o + x = x + ((layer * NumBlocks + block) * BlockSize + slot) * entry_elems
  <2>1. /\ slot_offset(layer, at) \in Nat
        /\ slot_offset(layer, at) + x = x + ((layer * NumBlocks + block) * BlockSize + slot) * entry_elems
    <3>1. SameAddress(layer, block, slot, x, at)
      BY SameOffset
    <3>. QED  BY <3>1 DEF SameAddress
  <2>. QED  BY <2>1
<1>5. ASSUME NEW j \in 0 .. HeadDim - 1
      PROVE  pool[o + x + j] = read_kv(layer, at)[x + j]
  <2>1. x + j \in 0 .. entry_elems - 1
    <3>1. kv * H + j \in 0 .. N * H - 1
      BY ONLY <1>1, DigitBelow, N \in Nat \ {0}, H \in Nat \ {0}, kv \in 0 .. NumKvHeads - 1, j \in 0 .. HeadDim - 1
    <3>. QED  BY <1>1, <1>2, <3>1 DEF entry_elems
  <2>2. o + (x + j) = o + x + j
    BY <1>1
  <2>3. read_kv(layer, at)[x + j] = pool[o + (x + j)]
    BY <1>4, <2>1 DEF read_kv
  <2>. QED  BY <2>2, <2>3
<1>6. HeadRead(pool, o + x) = [j \in 0 .. HeadDim - 1 |-> read_kv(layer, at)[x + j]]
  BY <1>5 DEF HeadRead
<1>7. HeadRead(pool, o + x) = HeadRead(gpu, o + x)
  OBVIOUS
<1>. QED  BY <1>2, <1>4, <1>6, <1>7 DEF ReadsAlike

\* A batch that is not refused and has a query.
LEMMA Legal ==
  ASSUME NEW layer \in Nat, NEW s \in Seq(AttentionSeq), NEW n \in Nat, n = Len(s), NEW q_len \in Nat,
         NEW heads, heads = check_attention(layer, s, q_len, q_len), heads # Refused,
         NEW rows \in Nat \ {0}, rows = Rows(s)
  PROVE  /\ \A k \in 1 .. n :
              /\ s[k].num_queries \in Nat /\ s[k].context_len \in Nat /\ s[k].num_queries <= s[k].context_len
              /\ \A d \in 0 .. blocks_for_tokens(s[k].context_len) - 1 : s[k].block_table[d + 1] \in Nat
         /\ q_len # 0 /\ q_len % rows = 0 /\ (q_len \div rows) % entry_elems = 0
         /\ heads = (q_len \div rows) \div HeadDim
<1>1. \A k \in 1 .. n : s[k] \in AttentionSeq
  OBVIOUS
<1>2. DOMAIN s = 1 .. n
  OBVIOUS
<1>3. /\ \A k \in 1 .. n : /\ s[k].num_queries <= s[k].context_len
                           /\ blocks_for_tokens(s[k].context_len) <= Len(s[k].block_table)
      /\ q_len # 0 /\ q_len % rows = 0 /\ (q_len \div rows) % entry_elems = 0
      /\ heads = (q_len \div rows) \div HeadDim
  BY <1>2 DEF check_attention, Refused
<1>4. ASSUME NEW k \in 1 .. n, NEW d \in 0 .. blocks_for_tokens(s[k].context_len) - 1
      PROVE  s[k].block_table[d + 1] \in Nat
  <2>1. PICK b \in Seq(Nat), l \in Nat, c \in Nat : b = s[k].block_table /\ l = Len(b) /\ c = s[k].context_len
    BY ONLY <1>1, k \in 1 .. n DEF AttentionSeq
  <2>2. PICK D \in Nat \ {0} : D = BlockSize
    BY GeometryAssumption
  <2>3. PICK m \in Nat : m = blocks_for_tokens(c)
    <3>1. c + D - 1 \in Nat
      OBVIOUS
    <3>2. (c + D - 1) \div D \in Nat
      BY ONLY <3>1, D \in Nat \ {0}
    <3>. QED  BY <2>2, <3>2 DEF blocks_for_tokens
  <2>4. d + 1 \in 1 .. l
    BY ONLY <1>3, <2>1, <2>3, k \in 1 .. n, d \in 0 .. blocks_for_tokens(s[k].context_len) - 1, m \in Nat, l \in Nat
  <2>. QED  BY <2>1, <2>4
<1>. QED  BY <1>3, <1>4, SeqFacts

\* A query and a head.
LEMMA QueryReads ==
  ASSUME pool = gpu, NEW layer \in Nat, NEW s \in Seq(AttentionSeq), NEW n \in Nat, n = Len(s),
         NEW q_len \in Nat,
         NEW heads, heads = check_attention(layer, s, q_len, q_len), heads # Refused,
         NEW f, Sums(f, s, n), NEW k \in 1 .. n, NEW i \in Nat, i < s[k].num_queries,
         NEW h \in 0 .. heads - 1
  PROVE  /\ CpuAttention(layer, s, heads)[f[k - 1] + i + 1][h]
              = Context(layer, s[k], i, (h * NumKvHeads) \div heads)
         /\ CudaAttention(layer, s, heads)[f[k - 1] + i + 1][h]
              = Context(layer, s[k], i, (h * NumKvHeads) \div heads)
<1>1. PICK r : r = f[k - 1] + i + 1
  OBVIOUS
<1>2. r \in 1 .. Rows(s) /\ RowSeq(s, r) = k /\ RowQuery(s, r) = i
  BY <1>1, RowIs
<1>3. n # 0 /\ query_seq(s)[r] = k - 1
      /\ query_pos(s)[r] = s[k].context_len - s[k].num_queries + i
  <2>1. n \in Nat \ {0}
    OBVIOUS
  <2>. QED  BY <1>1, <2>1, RowNames
<1>4. PICK rows \in Nat \ {0} : rows = Rows(s)
  <2>1. n \in 0 .. n /\ SubSeq(s, 1, n) = s
    OBVIOUS
  <2>2. Rows(SubSeq(s, 1, n)) = f[n]
    BY <2>1, FirstRows
  <2>3. f[n] \in Nat
    BY <2>1, SumsGrow
  <2>4. Rows(s) \in Nat
    BY <2>1, <2>2, <2>3
  <2>5. PICK x \in Nat : x = Rows(s)
    BY <2>4
  <2>6. x # 0
    BY <1>2, <2>5
  <2>. QED  BY <2>5, <2>6
<1>5. /\ s[k].num_queries \in Nat /\ s[k].context_len \in Nat /\ s[k].num_queries <= s[k].context_len
      /\ \A d \in 0 .. blocks_for_tokens(s[k].context_len) - 1 : s[k].block_table[d + 1] \in Nat
      /\ q_len # 0 /\ q_len % rows = 0 /\ (q_len \div rows) % entry_elems = 0
      /\ heads = (q_len \div rows) \div HeadDim
  BY <1>4, Legal
<1>6. PICK p \in Nat : p = s[k].context_len - s[k].num_queries + i /\ p < s[k].context_len
  <2>1. PICK x \in Nat, y \in Nat : x = s[k].context_len /\ y = s[k].num_queries /\ y <= x /\ i < y
    BY <1>5
  <2>2. x - y + i \in Nat /\ x - y + i < x
    BY ONLY <2>1, x \in Nat, y \in Nat, i \in Nat
  <2>. QED  BY <2>1, <2>2
<1>7. PICK kv \in 0 .. NumKvHeads - 1 :
        kv = h \div (heads \div NumKvHeads) /\ kv = (h * NumKvHeads) \div heads
  <2>1. q_len \in Nat \ {0}
    BY <1>5
  <2>2. /\ (h * NumKvHeads) \div heads = h \div (heads \div NumKvHeads)
        /\ h \div (heads \div NumKvHeads) \in 0 .. NumKvHeads - 1
    BY ONLY <1>5, <2>1, HeadGroups, rows \in Nat \ {0}, h \in 0 .. heads - 1
  <2>. QED  BY <2>2
<1> DEFINE at(t) == [block |-> s[k].block_table[(t \div BlockSize) + 1], slot |-> t % BlockSize]
           dev(t) == tables(s)[(k - 1) * blocks_for_tokens(MaxOf(s)) + (t \div BlockSize)]
           out(t) == HeadRead(pool, slot_offset(layer, at(t)) + kv * HeadDim)
           in(t) == HeadRead(gpu, kv * HeadDim + ((layer * NumBlocks + dev(t)) * BlockSize + (t % BlockSize)) * entry_elems)
           own(t) == [j \in 0 .. HeadDim - 1 |-> read_kv(layer, at(t))[kv * HeadDim + j]]
<1>8. ASSUME NEW t \in 0 .. p
      PROVE  out(t) = in(t) /\ out(t) = own(t)
  <2>1. t \in Nat /\ t < s[k].context_len
    BY <1>5, <1>6
  <2>2. /\ t \div BlockSize \in 0 .. blocks_for_tokens(s[k].context_len) - 1
        /\ t % BlockSize \in Slots
    BY <1>5, <2>1, BlockOfToken
  <2>3. PICK b \in Nat : b = s[k].block_table[(t \div BlockSize) + 1]
    BY <1>5, <2>2
  <2>4. dev(t) = b
    BY <2>1, <2>3, TableEntry
  <2>5. PICK c \in Nat : c = t % BlockSize
    BY <2>2, GeometryAssumption DEF Slots
  <2>6. PICK a : a = [block |-> b, slot |-> c] /\ a = at(t)
    BY <2>3, <2>5
  <2>7. /\ HeadRead(pool, slot_offset(layer, a) + kv * HeadDim)
             = HeadRead(gpu, kv * HeadDim + ((layer * NumBlocks + b) * BlockSize + c) * entry_elems)
        /\ HeadRead(pool, slot_offset(layer, a) + kv * HeadDim)
             = [j \in 0 .. HeadDim - 1 |-> read_kv(layer, a)[kv * HeadDim + j]]
    <3>1. ReadsAlike(layer, b, c, kv, a)
      BY <2>6, SameRead
    <3>. QED  BY <3>1 DEF ReadsAlike
  <2>. QED  BY <2>4, <2>5, <2>6, <2>7
<1>9. CpuAttention(layer, s, heads)[r][h] = [t \in 0 .. p |-> out(t)]
  BY <1>2, <1>6, <1>7 DEF CpuAttention
<1>10. CudaAttention(layer, s, heads)[r][h] = [t \in 0 .. p |-> in(t)]
  BY <1>2, <1>3, <1>6, <1>7 DEF CudaAttention
<1>11. Context(layer, s[k], i, (h * NumKvHeads) \div heads) = [t \in 0 .. p |-> own(t)]
  BY <1>6, <1>7 DEF Context
<1>. HIDE DEF out, in, own
<1>12. /\ [t \in 0 .. p |-> out(t)] = [t \in 0 .. p |-> own(t)]
       /\ [t \in 0 .. p |-> in(t)] = [t \in 0 .. p |-> own(t)]
  BY ONLY <1>8
<1>. QED  BY ONLY <1>1, <1>9, <1>10, <1>11, <1>12

LEMMA AttentionIsRight == AttentionReadsContext
<1> SUFFICES ASSUME pool = gpu, NEW qu \in Queries,
                    NEW heads, heads = check_attention(qu.layer, qu.seqs, qu.q_len, qu.q_len), heads # Refused
             PROVE  /\ CpuAttention(qu.layer, qu.seqs, heads) = CudaAttention(qu.layer, qu.seqs, heads)
                    /\ \A k \in DOMAIN qu.seqs : \A i \in 0 .. qu.seqs[k].num_queries - 1 :
                         \A h \in 0 .. heads - 1 :
                           CpuAttention(qu.layer, qu.seqs, heads)[Rows(SubSeq(qu.seqs, 1, k - 1)) + i + 1][h]
                             = Context(qu.layer, qu.seqs[k], i, (h * NumKvHeads) \div heads)
  BY DEF AttentionReadsContext
<1>1. PICK layer \in Nat, s \in Seq(AttentionSeq), q_len \in Nat :
        layer = qu.layer /\ s = qu.seqs /\ q_len = qu.q_len
  BY QueriesAssumption
<1>2. PICK n \in Nat : n = Len(s)
  OBVIOUS
<1>3. PICK f : Sums(f, s, n)
  BY <1>2, SumsExist
<1> DEFINE cpu == CpuAttention(layer, s, heads)
           cuda == CudaAttention(layer, s, heads)
<1>10. heads = check_attention(layer, s, q_len, q_len)
  BY <1>1
<1>4. ASSUME NEW k \in 1 .. n, NEW i \in Nat, i < s[k].num_queries, NEW h \in 0 .. heads - 1
      PROVE  /\ cpu[f[k - 1] + i + 1][h] = Context(layer, s[k], i, (h * NumKvHeads) \div heads)
             /\ cuda[f[k - 1] + i + 1][h] = cpu[f[k - 1] + i + 1][h]
  <2>1. /\ cpu[f[k - 1] + i + 1][h] = Context(layer, s[k], i, (h * NumKvHeads) \div heads)
        /\ cuda[f[k - 1] + i + 1][h] = Context(layer, s[k], i, (h * NumKvHeads) \div heads)
    BY ONLY <1>2, <1>3, <1>4, <1>10, QueryReads, pool = gpu, heads # Refused, layer \in Nat, n \in Nat,
            s \in Seq(AttentionSeq), q_len \in Nat, k \in 1 .. n, i \in Nat, h \in 0 .. heads - 1
  <2>. QED  BY <2>1
<1>5. ASSUME NEW r \in 1 .. Rows(s), NEW h \in 0 .. heads - 1
      PROVE  cpu[r][h] = cuda[r][h]
  <2>1. PICK k \in 1 .. n : \E i \in Nat : i < s[k].num_queries /\ r = f[k - 1] + i + 1
    BY <1>2, <1>3, RowOf
  <2>2. PICK i \in Nat : i < s[k].num_queries /\ r = f[k - 1] + i + 1
    BY <2>1
  <2>. QED  BY <1>4, <2>2
<1>6. cpu = [r \in 1 .. Rows(s) |-> [h \in 0 .. heads - 1 |-> cpu[r][h]]]
  BY DEF CpuAttention
<1>7. cuda = [r \in 1 .. Rows(s) |-> [h \in 0 .. heads - 1 |-> cuda[r][h]]]
  BY DEF CudaAttention
<1>. HIDE DEF cpu, cuda
<1>8. cpu = cuda
  BY <1>5, <1>6, <1>7
<1>9. ASSUME NEW k \in DOMAIN s, NEW i \in 0 .. s[k].num_queries - 1, NEW h \in 0 .. heads - 1
      PROVE  cpu[Rows(SubSeq(s, 1, k - 1)) + i + 1][h] = Context(layer, s[k], i, (h * NumKvHeads) \div heads)
  <2>1. k \in 1 .. n /\ k - 1 \in 0 .. n
    BY <1>2
  <2>2. s[k].num_queries \in Nat
    BY <1>2, <2>1, SeqFacts
  <2>3. i \in Nat /\ i < s[k].num_queries
    BY <2>2
  <2>4. Rows(SubSeq(s, 1, k - 1)) = f[k - 1]
    BY <1>2, <1>3, <2>1, FirstRows
  <2>. QED  BY <1>4, <2>1, <2>3, <2>4
<1>. QED  BY <1>1, <1>8, <1>9 DEF cpu, cuda

(***************************************************************************)
(* Both backends read for a query the K/V of its own sequence up to its    *)
(* own position, for every geometry and every batch and grouping of heads  *)
(* that is not refused (backend.rs:66-71).                                 *)
(***************************************************************************)
THEOREM AttentionStaysInContext == Spec => []AttentionReadsContext
<1>1. AttentionReadsContext
  BY AttentionIsRight
<1>. QED  BY <1>1, PTL

=============================================================================
