------------------------- MODULE AllocatorLruProofs -------------------------
(***************************************************************************)
(* For every capacity, the arrays of Lru always hold exactly one order of  *)
(* ids, and push_back and remove change it as they would a sequence.  For  *)
(* every size of the pool, they hold exactly the evictable blocks, in the  *)
(* order in which they were released.                                      *)
(***************************************************************************)
EXTENDS AllocatorLru, BlockAllocatorProofs

-----------------------------------------------------------------------------
(* The list alone.                                                         *)

LruTypeOK ==
  /\ prev \in [Elem -> Elem \cup {NIL}]
  /\ next \in [Elem -> Elem \cup {NIL}]
  /\ linked \in [Elem -> BOOLEAN]
  /\ len \in Nat

\* The sequence s without its n-th element.
Without(s, n) == [k \in 1 .. Len(s) - 1 |-> IF k < n THEN s[k] ELSE s[k + 1]]

\* push_back appends to the order the arrays hold.
LEMMA PushBackAppends ==
  ASSUME LruTypeOK, NEW s \in Seq(Elem), Represents(s), NEW i \in Elem, push_back(i)
  PROVE  LruTypeOK' /\ Represents(Append(s, i))'
<1> DEFINE t == Append(s, i)
           n == Len(s)
<1>1. /\ n \in Nat /\ DOMAIN s = 1 .. n /\ Len(t) = n + 1 /\ DOMAIN t = 1 .. n + 1
      /\ t \in Seq(Elem) /\ t # <<>> /\ t[n + 1] = i
      /\ \A k \in 1 .. n : t[k] = s[k] /\ s[k] \in Elem
      /\ (s = <<>>) <=> (n = 0)
  OBVIOUS
<1>. HIDE DEF t
<1>2. /\ len = n /\ ~linked[i] /\ NIL \notin Elem
      /\ \A j, k \in 1 .. n : s[j] = s[k] => j = k
      /\ \A j \in Elem : linked[j] <=> \E k \in 1 .. n : s[k] = j
      /\ head = IF n = 0 THEN NIL ELSE s[1]
      /\ tail = IF n = 0 THEN NIL ELSE s[n]
      /\ \A k \in 1 .. n : /\ next[s[k]] = IF k = n THEN NIL ELSE s[k + 1]
                           /\ prev[s[k]] = IF k = 1 THEN NIL ELSE s[k - 1]
  <2>1. len = n /\ ~linked[i] /\ NIL \notin Elem
    BY LruAssumption DEF Represents, push_back
  <2>2. /\ \A j, k \in 1 .. n : s[j] = s[k] => j = k
        /\ \A j \in Elem : linked[j] <=> \E k \in 1 .. n : s[k] = j
    BY <1>1 DEF Represents
  <2>3. /\ head = IF n = 0 THEN NIL ELSE s[1]
        /\ tail = IF n = 0 THEN NIL ELSE s[n]
    BY <1>1 DEF Represents
  <2>4. \A k \in 1 .. n : /\ next[s[k]] = IF k = n THEN NIL ELSE s[k + 1]
                         /\ prev[s[k]] = IF k = 1 THEN NIL ELSE s[k - 1]
    BY <1>1 DEF Represents
  <2>. QED  BY <2>1, <2>2, <2>3, <2>4
<1>. HIDE DEF n
<1>3. \A k \in 1 .. n : s[k] # i
  BY <1>1, <1>2
<1>4. tail = NIL <=> n = 0
  <2>1. n # 0 => n \in 1 .. n /\ s[n] \in Elem
    BY <1>1
  <2>. QED  BY <1>2, <2>1
<1>5. /\ prev' = [prev EXCEPT ![i] = tail]
      /\ next' = IF n = 0 THEN [next EXCEPT ![i] = NIL]
                          ELSE [next EXCEPT ![i] = NIL, ![tail] = i]
      /\ head' = IF n = 0 THEN i ELSE head
      /\ tail' = i /\ len' = n + 1
      /\ linked' = [linked EXCEPT ![i] = TRUE]
  BY <1>2, <1>4 DEF push_back
<1>6. LruTypeOK'
  BY <1>1, <1>2, <1>5 DEF LruTypeOK
<1>7. /\ \A j \in Elem : linked'[j] <=> (linked[j] \/ j = i)
      /\ prev'[i] = tail /\ \A j \in Elem \ {i} : prev'[j] = prev[j]
      /\ next'[i] = NIL
      /\ n # 0 => next'[s[n]] = i
      /\ \A j \in Elem \ {i} : n = 0 \/ j # s[n] => next'[j] = next[j]
  BY <1>1, <1>2, <1>3, <1>5 DEF LruTypeOK
<1>8. \A j, k \in 1 .. n + 1 : t[j] = t[k] => j = k
  BY <1>1, <1>2, <1>3
<1>9. \A j \in Elem : linked'[j] <=> \E k \in 1 .. n + 1 : t[k] = j
  <2>1. \A j \in Elem : (\E k \in 1 .. n + 1 : t[k] = j)
                          <=> ((\E k \in 1 .. n : s[k] = j) \/ j = i)
    BY <1>1
  <2>. QED  BY <1>2, <1>7, <2>1
<1>10. ASSUME NEW k \in 1 .. n + 1
       PROVE  /\ next'[t[k]] = IF k = n + 1 THEN NIL ELSE t[k + 1]
              /\ prev'[t[k]] = IF k = 1 THEN NIL ELSE t[k - 1]
  <2>1. CASE k = n + 1
    BY <1>1, <1>2, <1>7, <2>1
  <2>2. CASE k = n /\ n # 0
    BY <1>1, <1>2, <1>3, <1>7, <2>2
  <2>3. CASE k \in 1 .. n - 1
    <3>1. /\ s[k] # s[n] /\ s[k] # i /\ t[k] = s[k] /\ t[k + 1] = s[k + 1]
          /\ s[k] \in Elem /\ k # n /\ k \in 1 .. n /\ k # n + 1
      BY <1>1, <1>2, <1>3, <2>3
    <3>2. k # 1 => t[k - 1] = s[k - 1]
      BY <1>1, <2>3
    <3>3. next'[s[k]] = next[s[k]] /\ prev'[s[k]] = prev[s[k]]
      BY <1>7, <3>1
    <3>4. /\ next[s[k]] = s[k + 1]
          /\ prev[s[k]] = IF k = 1 THEN NIL ELSE s[k - 1]
      BY <1>2, <3>1
    <3>. QED  BY <3>1, <3>2, <3>3, <3>4
  <2>. QED  BY <1>1, <2>1, <2>2, <2>3
<1>11. head' = t[1] /\ tail' = t[n + 1] /\ len' = n + 1
  BY <1>1, <1>2, <1>5
<1>12. Represents(t)'
  <2>1. DOMAIN t = 1 .. n + 1 /\ Len(t) = n + 1 /\ t # <<>>
    BY <1>1
  <2>2. /\ \A j, k \in DOMAIN t : t[j] = t[k] => j = k
        /\ \A j \in Elem : linked'[j] <=> \E k \in DOMAIN t : t[k] = j
    BY <2>1, <1>8, <1>9
  <2>3. /\ len' = Len(t)
        /\ head' = IF t = <<>> THEN NIL ELSE t[1]
        /\ tail' = IF t = <<>> THEN NIL ELSE t[Len(t)]
    BY <2>1, <1>11
  <2>4. \A k \in DOMAIN t : /\ next'[t[k]] = IF k = Len(t) THEN NIL ELSE t[k + 1]
                            /\ prev'[t[k]] = IF k = 1 THEN NIL ELSE t[k - 1]
    BY <2>1, <1>10
  <2>. QED  BY <2>2, <2>3, <2>4 DEF Represents
<1>. QED  BY <1>6, <1>12 DEF t

\* remove takes the id out of the order, wherever it stands.
LEMMA RemoveTakesOut ==
  ASSUME LruTypeOK, NEW s \in Seq(Elem), Represents(s), NEW m \in DOMAIN s, remove(s[m])
  PROVE  LruTypeOK' /\ Without(s, m) \in Seq(Elem) /\ Represents(Without(s, m))'
<1> DEFINE t == Without(s, m)
           n == Len(s)
           i == s[m]
<1>1. /\ n \in Nat \ {0} /\ DOMAIN s = 1 .. n /\ m \in 1 .. n /\ i \in Elem
      /\ \A k \in 1 .. n : s[k] \in Elem
  OBVIOUS
<1>2. /\ t \in [1 .. n - 1 -> Elem]
      /\ \A k \in 1 .. n - 1 : t[k] = IF k < m THEN s[k] ELSE s[k + 1]
  BY <1>1 DEF Without
<1>3. /\ t \in Seq(Elem) /\ Len(t) = n - 1 /\ DOMAIN t = 1 .. n - 1
      /\ t = <<>> <=> n = 1
  <2>1. n - 1 \in Nat  BY <1>1
  <2>2. t \in Seq(Elem) /\ DOMAIN t = 1 .. n - 1  BY <1>2, <2>1
  <2>3. Len(t) = n - 1  BY <2>1, <2>2
  <2>. QED  BY <2>1, <2>2, <2>3
<1>4. /\ len = n /\ NIL \notin Elem
      /\ \A j, k \in 1 .. n : s[j] = s[k] => j = k
      /\ \A j \in Elem : linked[j] <=> \E k \in 1 .. n : s[k] = j
      /\ head = s[1]
      /\ tail = s[n]
      /\ \A k \in 1 .. n : /\ next[s[k]] = IF k = n THEN NIL ELSE s[k + 1]
                           /\ prev[s[k]] = IF k = 1 THEN NIL ELSE s[k - 1]
  <2>1. len = n /\ NIL \notin Elem /\ s # <<>>
    BY <1>1, LruAssumption DEF Represents
  <2>2. /\ \A j, k \in 1 .. n : s[j] = s[k] => j = k
        /\ \A j \in Elem : linked[j] <=> \E k \in 1 .. n : s[k] = j
    BY <1>1 DEF Represents
  <2>3. head = s[1] /\ tail = s[n]
    BY <2>1 DEF Represents
  <2>4. \A k \in 1 .. n : /\ next[s[k]] = IF k = n THEN NIL ELSE s[k + 1]
                         /\ prev[s[k]] = IF k = 1 THEN NIL ELSE s[k - 1]
    BY <1>1 DEF Represents
  <2>. QED  BY <2>1, <2>2, <2>3, <2>4
<1>5. /\ next[i] = IF m = n THEN NIL ELSE s[m + 1]
      /\ prev[i] = IF m = 1 THEN NIL ELSE s[m - 1]
      /\ next[i] = NIL <=> m = n
      /\ prev[i] = NIL <=> m = 1
  <2>1. /\ next[i] = IF m = n THEN NIL ELSE s[m + 1]
        /\ prev[i] = IF m = 1 THEN NIL ELSE s[m - 1]
    BY <1>1, <1>4
  <2>2. m # n => s[m + 1] \in Elem
    BY <1>1
  <2>3. m # 1 => s[m - 1] \in Elem
    BY <1>1
  <2>. QED  BY <1>4, <2>1, <2>2, <2>3
<1>6. /\ head' = IF m = 1 THEN next[i] ELSE head
      /\ tail' = IF m = n THEN prev[i] ELSE tail
      /\ next' = [j \in Elem |-> IF j = i THEN NIL ELSE IF j = prev[i] THEN next[i] ELSE next[j]]
      /\ prev' = [j \in Elem |-> IF j = i THEN NIL ELSE IF j = next[i] THEN prev[i] ELSE prev[j]]
      /\ linked' = [linked EXCEPT ![i] = FALSE]
      /\ len' = n - 1
  BY <1>4, <1>5 DEF remove, NextAround, PrevAround
<1>. HIDE DEF t, n, i
<1>7. LruTypeOK'
  BY <1>1, <1>5, <1>6, LruAssumption DEF LruTypeOK
<1>8. /\ \A j \in Elem : linked'[j] <=> (linked[j] /\ j # i)
      /\ \A j \in Elem \ {i} : /\ next'[j] = IF j = prev[i] THEN next[i] ELSE next[j]
                               /\ prev'[j] = IF j = next[i] THEN prev[i] ELSE prev[j]
  BY <1>1, <1>6 DEF LruTypeOK
<1>9. ASSUME NEW j \in 1 .. n - 1, NEW k \in 1 .. n - 1, t[j] = t[k]
      PROVE  j = k
  <2>1. /\ j \in 1 .. n /\ j + 1 \in 1 .. n /\ t[j] = IF j < m THEN s[j] ELSE s[j + 1]
        /\ k \in 1 .. n /\ k + 1 \in 1 .. n /\ t[k] = IF k < m THEN s[k] ELSE s[k + 1]
    BY <1>1, <1>2
  <2>2. /\ s[j] = s[k] => j = k
        /\ s[j + 1] = s[k + 1] => j + 1 = k + 1
        /\ s[j] = s[k + 1] => j = k + 1
        /\ s[j + 1] = s[k] => j + 1 = k
    BY <1>4, <2>1
  <2>3. j \in Int /\ k \in Int /\ m \in Int
    BY <1>1
  <2>4. CASE j < m /\ k < m  BY <1>9, <2>1, <2>2, <2>4
  <2>5. CASE j < m /\ ~(k < m)
    <3>1. s[j] = s[k + 1]  BY <1>9, <2>1, <2>5
    <3>2. j = k + 1  BY <2>2, <3>1
    <3>. QED  BY <2>3, <2>5, <3>2
  <2>6. CASE ~(j < m) /\ k < m
    <3>1. s[j + 1] = s[k]  BY <1>9, <2>1, <2>6
    <3>2. j + 1 = k  BY <2>2, <3>1
    <3>. QED  BY <2>3, <2>6, <3>2
  <2>7. CASE ~(j < m) /\ ~(k < m)
    <3>1. s[j + 1] = s[k + 1]  BY <1>9, <2>1, <2>7
    <3>2. j + 1 = k + 1  BY <2>2, <3>1
    <3>. QED  BY <2>3, <3>2
  <2>. QED  BY <2>4, <2>5, <2>6, <2>7
<1>10. ASSUME NEW j \in Elem
       PROVE  linked'[j] <=> \E k \in 1 .. n - 1 : t[k] = j
  <2>1. ASSUME NEW k \in 1 .. n - 1, t[k] = j PROVE linked'[j]
    BY <1>1, <1>2, <1>4, <1>8, <2>1 DEF i
  <2>2. ASSUME linked'[j] PROVE \E k \in 1 .. n - 1 : t[k] = j
    <3>1. PICK k \in 1 .. n : s[k] = j  BY <1>4, <1>8, <2>2
    <3>2. k # m  BY <1>8, <2>2, <3>1 DEF i
    <3>3. CASE k < m  BY <1>1, <1>2, <3>1, <3>3
    <3>4. CASE k > m
      <4>1. k - 1 \in 1 .. n - 1 /\ t[k - 1] = j  BY <1>1, <1>2, <3>1, <3>4
      <4>. QED  BY <4>1
    <3>. QED  BY <1>1, <3>1, <3>2, <3>3, <3>4
  <2>. QED  BY <2>1, <2>2
<1>11. ASSUME NEW k \in 1 .. n - 1
       PROVE  /\ next'[t[k]] = IF k = n - 1 THEN NIL ELSE t[k + 1]
              /\ prev'[t[k]] = IF k = 1 THEN NIL ELSE t[k - 1]
  <2>1. CASE k < m
    <3>1. /\ t[k] = s[k] /\ s[k] \in Elem /\ s[k] # i
          /\ s[k] = prev[i] <=> k = m - 1
          /\ s[k] # next[i]
      BY <1>1, <1>2, <1>4, <1>5, <2>1 DEF i
    <3>2. prev'[t[k]] = IF k = 1 THEN NIL ELSE t[k - 1]
      BY <1>1, <1>2, <1>4, <1>8, <2>1, <3>1
    <3>3. CASE k = m - 1
      <4>1. next'[t[k]] = next[i]
        BY <1>8, <3>1, <3>3
      <4>2. next[i] = IF m = n THEN NIL ELSE s[m + 1]
        BY <1>5
      <4>3. m # n => t[k + 1] = s[m + 1]
        <5>1. m # n => k + 1 \in 1 .. n - 1 /\ ~(k + 1 < m) /\ (k + 1) + 1 = m + 1
          BY <1>1, <3>3
        <5>. QED  BY <1>2, <5>1
      <4>4. m = n <=> k = n - 1
        BY <1>1, <3>3
      <4>. QED  BY <3>2, <4>1, <4>2, <4>3, <4>4
    <3>4. CASE k < m - 1
      <4>1. k + 1 \in 1 .. n - 1 /\ k + 1 < m /\ k \in 1 .. n /\ k # n /\ k # n - 1
        BY <1>1, <3>4
      <4>2. t[k + 1] = s[k + 1] /\ next[s[k]] = s[k + 1]
        BY <1>2, <1>4, <4>1
      <4>3. s[k] # prev[i]
        BY <3>1, <3>4
      <4>4. next'[t[k]] = next[s[k]]
        BY <1>8, <3>1, <4>3
      <4>. QED  BY <3>2, <4>1, <4>2, <4>4
    <3>. QED  BY <1>1, <2>1, <3>3, <3>4
  <2>2. CASE k >= m
    <3>1. /\ t[k] = s[k + 1] /\ s[k + 1] \in Elem /\ s[k + 1] # i
          /\ s[k + 1] = next[i] <=> k = m
          /\ s[k + 1] # prev[i]
          /\ k + 1 \in 1 .. n
      BY <1>1, <1>2, <1>4, <1>5, <2>2, SMTT(20) DEF i
    <3>2. next'[t[k]] = IF k = n - 1 THEN NIL ELSE t[k + 1]
      BY <1>1, <1>2, <1>4, <1>8, <2>2, <3>1
    <3>3. CASE k = m
      BY <1>1, <1>2, <1>4, <1>5, <1>8, <3>1, <3>3, <3>2
    <3>4. CASE k > m
      BY <1>1, <1>2, <1>4, <1>8, <3>1, <3>4, <3>2
    <3>. QED  BY <1>1, <2>2, <3>3, <3>4
  <2>. QED  BY <1>1, <2>1, <2>2
<1>12. /\ len' = n - 1
       /\ head' = IF n = 1 THEN NIL ELSE t[1]
       /\ tail' = IF n = 1 THEN NIL ELSE t[n - 1]
  <2>1. n # 1 => /\ t[1] = IF m = 1 THEN s[2] ELSE s[1]
                 /\ t[n - 1] = IF m = n THEN s[n - 1] ELSE s[n]
    BY <1>1, <1>2
  <2>2. head' = IF n = 1 THEN NIL ELSE t[1]
    BY <1>1, <1>4, <1>5, <1>6, <2>1
  <2>3. tail' = IF n = 1 THEN NIL ELSE t[n - 1]
    BY <1>1, <1>4, <1>5, <1>6, <2>1
  <2>. QED  BY <1>6, <2>2, <2>3
<1>13. Represents(t)'
  <2>1. /\ \A j, k \in DOMAIN t : t[j] = t[k] => j = k
        /\ \A j \in Elem : linked'[j] <=> \E k \in DOMAIN t : t[k] = j
    BY <1>3, <1>9, <1>10
  <2>2. /\ len' = Len(t)
        /\ head' = IF t = <<>> THEN NIL ELSE t[1]
        /\ tail' = IF t = <<>> THEN NIL ELSE t[Len(t)]
    BY <1>3, <1>12
  <2>3. \A k \in DOMAIN t : /\ next'[t[k]] = IF k = Len(t) THEN NIL ELSE t[k + 1]
                            /\ prev'[t[k]] = IF k = 1 THEN NIL ELSE t[k - 1]
    BY <1>3, <1>11
  <2>. QED  BY <2>1, <2>2, <2>3 DEF Represents
<1>. QED  BY <1>3, <1>7, <1>13 DEF t

-----------------------------------------------------------------------------

LruInv == LruTypeOK /\ ListWellFormed

LEMMA LruInitInv == Init => LruInv
<1> SUFFICES ASSUME Init PROVE LruInv
  OBVIOUS
<1>1. LruTypeOK
  BY DEF Init, LruTypeOK
<1>2. Represents(<<>>)
  BY DEF Init, Represents
<1>3. <<>> \in [1 .. len -> Elem]
  BY DEF Init
<1>. QED  BY <1>1, <1>2, <1>3 DEF LruInv, ListWellFormed

LEMMA LruNextInv == LruInv /\ [Next]_vars => LruInv'
<1> SUFFICES ASSUME LruInv, [Next]_vars PROVE LruInv'
  OBVIOUS
<1>1. PICK s \in [1 .. len -> Elem] : Represents(s)
  BY DEF LruInv, ListWellFormed
<1>2. LruTypeOK /\ s \in Seq(Elem) /\ DOMAIN s = 1 .. len
  BY DEF LruInv, LruTypeOK
<1>3. ASSUME NEW t \in Seq(Elem), Represents(t)', LruTypeOK' PROVE LruInv'
  <2>1. len' = Len(t) /\ t \in [1 .. Len(t) -> Elem]
    BY <1>3 DEF Represents
  <2>. QED  BY <1>3, <2>1 DEF LruInv, ListWellFormed
<1>4. ASSUME NEW i \in Elem, remove(i) PROVE LruInv'
  <2>1. PICK m \in DOMAIN s : s[m] = i
    BY <1>1, <1>2, <1>4 DEF remove, Represents, LruTypeOK
  <2>. QED  BY <1>1, <1>2, <1>3, <1>4, <2>1, RemoveTakesOut
<1>5. CASE pop_front
  <2>1. head \in Elem
    BY <1>1, <1>2, <1>5 DEF pop_front, Represents
  <2>. QED  BY <1>4, <1>5, <2>1 DEF pop_front
<1>6. ASSUME NEW i \in Elem, push_back(i) PROVE LruInv'
  <2>1. Append(s, i) \in Seq(Elem)  BY <1>2
  <2>. QED  BY <1>1, <1>2, <1>3, <1>6, <2>1, PushBackAppends
<1>7. CASE UNCHANGED vars
  <2>1. Represents(s)'
    BY <1>1, <1>7 DEF vars, Represents
  <2>2. LruTypeOK'
    BY <1>2, <1>7 DEF vars, LruTypeOK
  <2>. QED  BY <1>2, <1>3, <2>1, <2>2
<1>. QED  BY <1>4, <1>5, <1>6, <1>7 DEF Next

(***************************************************************************)
(* In every reachable state of the list there is one order of ids that the *)
(* links, the ends, the flags and the length all agree on.                 *)
(***************************************************************************)
THEOREM LruWellFormed == Spec => []ListWellFormed
<1>1. LruInv => ListWellFormed
  BY DEF LruInv
<1>. QED  BY LruInitInv, LruNextInv, <1>1, PTL DEF Spec

-----------------------------------------------------------------------------
(* The list inside the pool.                                               *)

\* The list, its types, and the pool whose evictable blocks it holds.
PoolListInv == AllocInv /\ LruTypeOK /\ ListsAgree

LEMMA ElemsAreBlocks == Elem = Blocks
  BY OneIdPerBlock DEF Elem, Blocks

\* Taking out the first element leaves the tail.
LEMMA WithoutFirst ==
  ASSUME NEW S, NEW s \in Seq(S), s # <<>>
  PROVE  1 \in DOMAIN s /\ Tail(s) = Without(s, 1)
<1> DEFINE n == Len(s) - 1
           t == Tail(s)
           w == Without(s, 1)
<1>1. /\ Len(s) \in Nat \ {0} /\ DOMAIN s = 1 .. Len(s) /\ n \in Nat
      /\ t \in Seq(S) /\ Len(t) = n /\ DOMAIN t = 1 .. n
  OBVIOUS
<1>2. \A k \in 1 .. n : t[k] = s[k + 1]
  OBVIOUS
<1>3. w = [k \in 1 .. n |-> IF k < 1 THEN s[k] ELSE s[k + 1]]
  BY DEF Without
<1>4. DOMAIN w = 1 .. n /\ \A k \in 1 .. n : w[k] = s[k + 1]
  BY <1>1, <1>3
<1>5. w = [k \in 1 .. n |-> w[k]]
  BY <1>3, <1>4
<1>6. t \in [1 .. n -> S]
  <2>1. \A u \in Seq(S) : u \in [1 .. Len(u) -> S]
    OBVIOUS
  <2>. QED  BY <1>1, <2>1
<1>. HIDE DEF t, w, n
<1>7. t = [k \in 1 .. n |-> t[k]]
  BY <1>6
<1>8. t = w
  BY <1>2, <1>4, <1>5, <1>7
<1>9. 1 \in DOMAIN s
  BY <1>1
<1>. QED  BY <1>8, <1>9 DEF t, w

LEMMA PoolListInit == PoolInit => PoolListInv
<1> SUFFICES ASSUME PoolInit PROVE PoolListInv
  OBVIOUS
<1>1. AllocInv
  BY InitInv DEF PoolInit
<1>2. LruTypeOK
  BY DEF PoolInit, Init, LruTypeOK
<1>3. ListsAgree
  BY DEF PoolInit, Init, AllocInit, ListsAgree, Represents
<1>. QED  BY <1>1, <1>2, <1>3 DEF PoolListInv

\* A step of the pool, whatever it does to the list.
LEMMA PoolStepIsAllocStep == PoolNext => AllocNext
  BY DEF PoolNext, AllocNext, AcquireCached

\* Calls that leave both the evictable blocks and the list alone.
LEMMA NothingMoves ==
  ASSUME LruTypeOK, ListsAgree, UNCHANGED vars, UNCHANGED evictable
  PROVE  LruTypeOK' /\ ListsAgree'
  BY DEF vars, LruTypeOK, ListsAgree, Represents

\* The list after a block is taken out of the evictable blocks.
LEMMA TakenOut ==
  ASSUME AllocInv, LruTypeOK, ListsAgree, NEW m \in DOMAIN evictable,
         remove(evictable[m]), evictable' = Without(evictable, m)
  PROVE  LruTypeOK' /\ ListsAgree'
<1>1. evictable \in Seq(Elem)
  BY ElemsAreBlocks DEF AllocInv, AllocTypeOK
<1>2. Represents(evictable)
  BY DEF ListsAgree
<1>3. PICK s \in Seq(Elem) : s = evictable
  BY <1>1
<1>4. m \in DOMAIN s /\ remove(s[m]) /\ Represents(s) /\ evictable' = Without(s, m)
  BY <1>2, <1>3 DEF Without
<1>5. LruTypeOK' /\ Represents(Without(s, m))'
  BY <1>4, RemoveTakesOut
<1>. QED  BY <1>4, <1>5 DEF ListsAgree, Represents

LEMMA PoolListNext == PoolListInv /\ [PoolNext]_pool => PoolListInv'
<1> SUFFICES ASSUME PoolListInv, [PoolNext]_pool PROVE PoolListInv'
  OBVIOUS
<1>1. AllocInv /\ LruTypeOK /\ ListsAgree
  BY DEF PoolListInv
<1>2. AllocInv'
  BY <1>1, NextKeepsInv, PoolStepIsAllocStep DEF pool
<1>3. evictable \in Seq(Blocks) /\ evictable \in Seq(Elem) /\ Represents(evictable)
  BY <1>1, ElemsAreBlocks DEF AllocInv, AllocTypeOK, ListsAgree
<1>4. CASE UNCHANGED pool
  BY <1>1, <1>2, <1>4, NothingMoves DEF pool, allocVars, PoolListInv
<1>5. ASSUME NEW b \in Blocks,
             Allocate(b) /\ IF free_list = <<>> THEN pop_front ELSE UNCHANGED vars
      PROVE  LruTypeOK' /\ ListsAgree'
  <2>1. CASE free_list # <<>>
    BY <1>1, <1>5, <2>1, NothingMoves DEF Allocate
  <2>2. CASE free_list = <<>>
    <3>1. evictable # <<>> /\ evictable' = Tail(evictable) /\ pop_front
      BY <1>5, <2>2 DEF Allocate, Evict
    <3>2. 1 \in DOMAIN evictable /\ Tail(evictable) = Without(evictable, 1)
      BY <1>3, <3>1, WithoutFirst
    <3>3. remove(evictable[1])
      BY <1>3, <3>1 DEF Represents, pop_front
    <3>. QED  BY <1>1, <3>1, <3>2, <3>3, TakenOut
  <2>. QED  BY <2>1, <2>2
<1>6. ASSUME NEW b \in Blocks, Incref(b) /\ UNCHANGED vars
      PROVE  LruTypeOK' /\ ListsAgree'
  BY <1>1, <1>6, NothingMoves DEF Incref
<1>7. ASSUME NEW b \in Blocks, Decref(b) /\ Released(b)
      PROVE  LruTypeOK' /\ ListsAgree'
  <2>1. CASE ref_counts[b] = 1 /\ is_cached(b)
    <3>1. evictable' = Append(evictable, b) /\ push_back(b)
      BY <1>7, <2>1 DEF Decref, Released
    <3>2. b \in Elem
      BY ElemsAreBlocks
    <3>3. PICK s \in Seq(Elem) : s = evictable
      BY <1>3
    <3>4. Represents(s) /\ evictable' = Append(s, b)
      BY <1>3, <3>1, <3>3
    <3>5. LruTypeOK' /\ Represents(Append(s, b))'
      BY <1>1, <3>1, <3>2, <3>4, PushBackAppends
    <3>. QED  BY <3>4, <3>5 DEF ListsAgree, Represents
  <2>2. CASE ~(ref_counts[b] = 1 /\ is_cached(b))
    <3>1. UNCHANGED vars /\ UNCHANGED evictable
      BY <1>7, <2>2 DEF Decref, Released
    <3>. QED  BY <1>1, <3>1, NothingMoves
  <2>. QED  BY <2>1, <2>2
<1>8. ASSUME NEW b \in Blocks, Reclaim(b) /\ remove(b)
      PROVE  LruTypeOK' /\ ListsAgree'
  <2>1. PICK m \in DOMAIN evictable : evictable[m] = b /\ Unlink(m)
    BY <1>8 DEF Reclaim
  <2>2. evictable' = Without(evictable, m)
    BY <2>1 DEF Unlink, Without
  <2>. QED  BY <1>1, <1>8, <2>1, <2>2, TakenOut
<1>9. ASSUME NEW b \in Blocks, NEW k, CacheBlock(b, k) /\ UNCHANGED vars
      PROVE  LruTypeOK' /\ ListsAgree'
  BY <1>1, <1>9, NothingMoves DEF CacheBlock
<1>10. CASE PoolNext
  BY <1>2, <1>5, <1>6, <1>7, <1>8, <1>9, <1>10 DEF PoolNext, PoolListInv
<1>. QED  BY <1>4, <1>10

(***************************************************************************)
(* Whatever calls are made of a pool of any size, the list the code keeps  *)
(* represents the evictable blocks, and evicts the one released first.     *)
(***************************************************************************)
THEOREM ListHoldsEvictable == PoolSpec => []ListsAgree
<1>1. PoolListInv => ListsAgree
  BY DEF PoolListInv
<1>. QED  BY PoolListInit, PoolListNext, <1>1, PTL DEF PoolSpec
=============================================================================
