--------------------------------- MODULE Lru ---------------------------------
(***************************************************************************)
(* The list of evictable blocks as the code keeps it                       *)
(* (src/crates/paged-kv-core/src/lru.rs): a doubly linked list threaded    *)
(* through arrays indexed by block id.  AllocatorLru runs it next to the   *)
(* sequence that BlockAllocator has in its place.                          *)
(***************************************************************************)
EXTENDS Integers, Sequences

CONSTANTS
  Capacity,   \* the number of block ids
  NIL         \* no block: u32::MAX in the code

Elem == 0 .. Capacity - 1

ASSUME LruAssumption == Capacity \in Nat /\ NIL \notin Elem

VARIABLES
  prev, next,   \* id -> the neighbour towards the head, towards the tail
  linked,       \* id -> whether it is in the list
  head,         \* least recently used
  tail,         \* most recently used
  len           \* how many ids are in the list

vars == <<prev, next, linked, head, tail, len>>

Init ==
  /\ prev = [i \in Elem |-> NIL]
  /\ next = [i \in Elem |-> NIL]
  /\ linked = [i \in Elem |-> FALSE]
  /\ head = NIL
  /\ tail = NIL
  /\ len = 0

\* push_back of an id that is not in the list (debug_assert).
push_back(i) ==
  /\ ~linked[i]
  /\ prev' = [prev EXCEPT ![i] = tail]
  /\ next' = IF tail = NIL THEN [next EXCEPT ![i] = NIL]
                           ELSE [next EXCEPT ![i] = NIL, ![tail] = i]
  /\ head' = IF tail = NIL THEN i ELSE head
  /\ tail' = i
  /\ linked' = [linked EXCEPT ![i] = TRUE]
  /\ len' = len + 1

\* next with the id before i linked to the one after it, and i to none.
NextAround(i) ==
  [j \in Elem |-> IF j = i THEN NIL ELSE IF j = prev[i] THEN next[i] ELSE next[j]]

PrevAround(i) ==
  [j \in Elem |-> IF j = i THEN NIL ELSE IF j = next[i] THEN prev[i] ELSE prev[j]]

\* remove of an id that is in the list (debug_assert).
remove(i) ==
  /\ linked[i]
  /\ head' = IF prev[i] = NIL THEN next[i] ELSE head
  /\ tail' = IF next[i] = NIL THEN prev[i] ELSE tail
  /\ next' = NextAround(i)
  /\ prev' = PrevAround(i)
  /\ linked' = [linked EXCEPT ![i] = FALSE]
  /\ len' = len - 1

pop_front == head # NIL /\ remove(head)

Next == pop_front \/ \E i \in Elem : push_back(i) \/ remove(i)

Spec == Init /\ [][Next]_vars

-----------------------------------------------------------------------------
(* Properties.                                                             *)

\* The arrays hold the ids of the sequence s, in its order, and no others.
Represents(s) ==
  /\ len = Len(s)
  /\ \A j, k \in DOMAIN s : s[j] = s[k] => j = k
  /\ \A i \in Elem : linked[i] <=> \E k \in DOMAIN s : s[k] = i
  /\ head = IF s = <<>> THEN NIL ELSE s[1]
  /\ tail = IF s = <<>> THEN NIL ELSE s[Len(s)]
  /\ \A k \in DOMAIN s :
       /\ next[s[k]] = IF k = Len(s) THEN NIL ELSE s[k + 1]
       /\ prev[s[k]] = IF k = 1 THEN NIL ELSE s[k - 1]

(***************************************************************************)
(* The links of both directions, the two ends, the membership flags and    *)
(* the length agree on one and the same order of ids, without a cycle or   *)
(* an id that cannot be reached, after any calls in any order.             *)
(***************************************************************************)
ListWellFormed == \E s \in [1 .. len -> Elem] : Represents(s)

=============================================================================
