------------------------------- MODULE KvStore -------------------------------
(***************************************************************************)
(* What the trait KvBackend promises                                       *)
(* (src/crates/paged-kv-core/src/backend.rs): one K/V entry for every      *)
(* layer, block and slot, written one at a time, and copied or zeroed a    *)
(* block at a time across every layer.                                     *)
(***************************************************************************)
CONSTANTS Layer, Block, Slot, Entry, ZeroEntry

VARIABLE store   \* <<layer, block, slot>> -> Entry

Init == store = [a \in Layer \X Block \X Slot |-> ZeroEntry]

write_kv(layer, block, slot, e) ==
  store' = [store EXCEPT ![<<layer, block, slot>>] = e]

copy_block(src, dst) ==
  store' = [a \in Layer \X Block \X Slot |->
              IF a[2] = dst THEN store[<<a[1], src, a[3]>>] ELSE store[a]]

zero_block(block) ==
  store' = [a \in Layer \X Block \X Slot |-> IF a[2] = block THEN ZeroEntry ELSE store[a]]

Next ==
  \/ \E layer \in Layer, block \in Block, slot \in Slot, e \in Entry :
       write_kv(layer, block, slot, e)
  \/ \E src, dst \in Block : copy_block(src, dst)
  \/ \E block \in Block : zero_block(block)

Spec == Init /\ [][Next]_store
=============================================================================
