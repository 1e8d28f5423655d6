---------------------------- MODULE SessionProofs ----------------------------
(***************************************************************************)
(* What holds of a simulation and of the session that shows it, for every  *)
(* pool, every command, every latency and every length of the caps: the    *)
(* books that the log keeps agree with the batch and with what the page is *)
(* told, the requests queue in the order of their numbers but for those    *)
(* preempted, the log read from its start gives the state, two ticks are   *)
(* an interval apart, and the page converges to the session.               *)
(*                                                                         *)
(* The first three are about the simulation and rest on SimInv.  A step of *)
(* the batch is seen as a walk over its events, and what one event does to *)
(* the counters, to the records and to the queue is a lemma of its own, so *)
(* that the sums over the walk agree with the totals.  The last rests on   *)
(* MirrorInv: every message the server sends leaves a page that was up to  *)
(* date up to date (Honest), and applying the messages on the way one by   *)
(* one is applying them all (Applied).                                     *)
(***************************************************************************)
EXTENDS Session, FiniteSetTheorems, SequenceTheorems, NaturalsInduction, WellFoundedInduction, TLAPS

-----------------------------------------------------------------------------
(* Numbers and sequences.                                                  *)

\* A least element, which is what the induction needs.
LEMMA Least ==
  ASSUME NEW T \in SUBSET Nat, T # {}
  PROVE  \E n \in T : \A m \in T : n <= m
<1>1. IsWellFoundedOn(OpToRel(<, Nat), Nat)
  BY NatLessThanWellFounded
<1>2. \A x, y \in Nat : x < y => <<x, y>> \in OpToRel(<, Nat)
  BY DEF OpToRel
<1> DEFINE R == OpToRel(<, Nat)
<1>. HIDE DEF R
<1>3. PICK x \in T : \A y \in T : <<y, x>> \notin R
  BY <1>1, WFMin DEF R
<1>4. \A y \in T : ~(y < x)
  BY <1>2, <1>3 DEF R
<1>. QED  BY <1>4

\* A set of naturals that holds 0 and, up to n, with every number the next one.
LEMMA UpTo ==
  ASSUME NEW n \in Nat, NEW T, 0 \in T,
         \A i \in 0 .. n : i + 1 <= n /\ i \in T => i + 1 \in T
  PROVE  0 .. n \subseteq T
<1> SUFFICES ASSUME ~(0 .. n \subseteq T) PROVE FALSE
  OBVIOUS
<1>1. PICK m \in (0 .. n) \ T : \A k \in (0 .. n) \ T : m <= k
  <2>1. (0 .. n) \ T \in SUBSET Nat /\ (0 .. n) \ T # {}
    OBVIOUS
  <2>. QED  BY <2>1, Least
<1>2. m # 0 /\ m - 1 \in 0 .. n /\ m - 1 + 1 = m
  OBVIOUS
<1>3. m - 1 \in T
  BY <1>1, <1>2
<1>. QED  BY <1>2, <1>3

\* The function that Keep recurs on exists.
Kept(s, K) ==
  CHOOSE f : f = [i \in 0 .. Len(s) |->
    IF i = 0 THEN <<>> ELSE IF s[i] \in K THEN Append(f[i - 1], s[i]) ELSE f[i - 1]]

KeptUpTo(s, K, m, f) ==
  f = [i \in 0 .. m |->
    IF i = 0 THEN <<>> ELSE IF s[i] \in K THEN Append(f[i - 1], s[i]) ELSE f[i - 1]]

LEMMA KeptExists ==
  ASSUME NEW S, NEW s \in Seq(S), NEW K
  PROVE  /\ B!Keep(s, K) = Kept(s, K)[Len(s)]
         /\ KeptUpTo(s, K, Len(s), Kept(s, K))
<1>1. Len(s) \in Nat
  OBVIOUS
<1> DEFINE T == {m \in Nat : \E f : KeptUpTo(s, K, m, f)}
<1>2. 0 \in T
  <2>1. KeptUpTo(s, K, 0, [i \in 0 .. 0 |-> <<>>])
    BY DEF KeptUpTo
  <2>. QED  BY <2>1
<1>3. ASSUME NEW m \in 0 .. Len(s), m + 1 <= Len(s), m \in T
      PROVE  m + 1 \in T
  <2>1. PICK f : KeptUpTo(s, K, m, f)
    BY <1>3
  <2> DEFINE g == [i \in 0 .. m + 1 |->
               IF i = m + 1 THEN IF s[i] \in K THEN Append(f[m], s[i]) ELSE f[m] ELSE f[i]]
  <2>2. \A i \in 0 .. m + 1 :
          g[i] = IF i = 0 THEN <<>> ELSE IF s[i] \in K THEN Append(g[i - 1], s[i]) ELSE g[i - 1]
    <3> TAKE i \in 0 .. m + 1
    <3>1. CASE i = m + 1
      <4>1. i - 1 = m /\ m \in 0 .. m + 1 /\ m # m + 1 /\ i # 0
        BY <3>1
      <4>2. g[m] = f[m]
        BY <4>1
      <4>. QED  BY <3>1, <4>1, <4>2
    <3>2. CASE i # m + 1
      <4>1. i \in 0 .. m /\ (i # 0 => i - 1 \in 0 .. m + 1 /\ i - 1 # m + 1)
        BY <3>2
      <4>2. g[i] = f[i] /\ (i # 0 => g[i - 1] = f[i - 1])
        BY <3>2, <4>1
      <4>3. f[i] = IF i = 0 THEN <<>> ELSE IF s[i] \in K THEN Append(f[i - 1], s[i]) ELSE f[i - 1]
        BY <2>1, <4>1 DEF KeptUpTo
      <4>. QED  BY <4>2, <4>3
    <3>. QED  BY <3>1, <3>2
  <2>3. KeptUpTo(s, K, m + 1, g)
    <3>1. g = [i \in 0 .. m + 1 |-> g[i]]
      OBVIOUS
    <3>. HIDE DEF g
    <3>. QED  BY <2>2, <3>1 DEF KeptUpTo
  <2>. HIDE DEF g
  <2>. QED  BY <2>3
<1>4. Len(s) \in T
  <2>. HIDE DEF T
  <2>1. PICK n \in Nat : n = Len(s)
    BY <1>1
  <2>2. \A i \in 0 .. n : i + 1 <= n /\ i \in T => i + 1 \in T
    BY ONLY <1>3, <2>1
  <2>3. 0 .. n \subseteq T
    BY ONLY <1>2, <2>2, n \in Nat, UpTo
  <2>. QED  BY ONLY <2>1, <2>3, n \in Nat
<1>5. KeptUpTo(s, K, Len(s), Kept(s, K))
  <2>1. \E f : KeptUpTo(s, K, Len(s), f)
    BY <1>4
  <2>. QED  BY <2>1 DEF KeptUpTo, Kept
<1>6. B!Keep(s, K) = Kept(s, K)[Len(s)]
  BY DEF B!Keep, Kept
<1>. QED  BY <1>5, <1>6


\* Keep goes through the sequence once.
LEMMA KeepSteps ==
  ASSUME NEW S, NEW s \in Seq(S), NEW K, NEW n \in Nat, n = Len(s)
  PROVE  \E f :
           /\ f[0] = <<>> /\ f[n] = B!Keep(s, K)
           /\ \A m \in 1 .. n : f[m] = IF s[m] \in K THEN Append(f[m - 1], s[m]) ELSE f[m - 1]
<1> DEFINE f == Kept(s, K)
<1>1. B!Keep(s, K) = f[n] /\ KeptUpTo(s, K, n, f)
  BY KeptExists
<1>. HIDE DEF f
<1>2. f = [i \in 0 .. n |->
        IF i = 0 THEN <<>> ELSE IF s[i] \in K THEN Append(f[i - 1], s[i]) ELSE f[i - 1]]
  BY <1>1 DEF KeptUpTo
<1>3. 0 \in 0 .. n /\ \A m \in 1 .. n : m \in 0 .. n /\ m # 0
  OBVIOUS
<1>4. f[0] = <<>>
  BY ONLY <1>2, <1>3
<1>5. \A m \in 1 .. n : f[m] = IF s[m] \in K THEN Append(f[m - 1], s[m]) ELSE f[m - 1]
  BY ONLY <1>2, <1>3
<1>. QED  BY <1>1, <1>4, <1>5

\* t is s at increasing positions up to m: those of the elements in K.
Picks(s, K, m, t, pos) ==
  /\ pos \in [1 .. Len(t) -> 1 .. m]
  /\ \A k, l \in 1 .. Len(t) : k < l => pos[k] < pos[l]
  /\ \A k \in 1 .. Len(t) : t[k] = s[pos[k]] /\ t[k] \in K
  /\ \A j \in 1 .. m : s[j] \in K => \E k \in 1 .. Len(t) : pos[k] = j

LEMMA KeepPicks ==
  ASSUME NEW S, NEW s \in Seq(S), NEW K
  PROVE  /\ B!Keep(s, K) \in Seq(S)
         /\ \E pos : Picks(s, K, Len(s), B!Keep(s, K), pos)
<1>1. PICK n \in Nat : n = Len(s)
  OBVIOUS
<1>2. PICK f :
        /\ f[0] = <<>> /\ f[n] = B!Keep(s, K)
        /\ \A m \in 1 .. n : f[m] = IF s[m] \in K THEN Append(f[m - 1], s[m]) ELSE f[m - 1]
  BY <1>1, KeepSteps
<1> DEFINE T == {m \in 0 .. n : f[m] \in Seq(S) /\ \E pos : Picks(s, K, m, f[m], pos)}
<1>4. 0 \in T
  <2>1. Picks(s, K, 0, <<>>, <<>>)
    BY DEF Picks
  <2>2. 0 \in 0 .. n /\ <<>> \in Seq(S)
    BY <1>1
  <2>. QED  BY <1>2, <2>1, <2>2
<1>5. ASSUME NEW m \in 0 .. n, m + 1 <= n, m \in T
      PROVE  m + 1 \in T
  <2>1. /\ m \in Nat /\ m + 1 \in 0 .. n /\ m + 1 # 0 /\ m + 1 - 1 = m
        /\ m + 1 \in DOMAIN s /\ s[m + 1] \in S
    BY <1>1, <1>5
  <2>2. f[m + 1] = IF s[m + 1] \in K THEN Append(f[m], s[m + 1]) ELSE f[m]
    BY ONLY <1>2, <2>1
  <2>3. f[m] \in Seq(S) /\ \E pos : Picks(s, K, m, f[m], pos)
    BY <1>5
  <2>4. PICK pos : Picks(s, K, m, f[m], pos)
    BY <2>3
  <2>5. PICK t \in Seq(S), l \in Nat : t = f[m] /\ l = Len(t)
    BY <2>3
  <2>6. /\ pos \in [1 .. l -> 1 .. m]
        /\ \A i, j \in 1 .. l : i < j => pos[i] < pos[j]
        /\ \A k \in 1 .. l : t[k] = s[pos[k]] /\ t[k] \in K
        /\ \A j \in 1 .. m : s[j] \in K => \E k \in 1 .. l : pos[k] = j
    BY <2>4, <2>5 DEF Picks
  <2>7. CASE s[m + 1] \in K
    <3> DEFINE u == Append(t, s[m + 1])
               by == [k \in 1 .. l + 1 |-> IF k = l + 1 THEN m + 1 ELSE pos[k]]
    <3>1. /\ u \in Seq(S) /\ Len(u) = l + 1 /\ u[l + 1] = s[m + 1]
          /\ \A k \in 1 .. l : u[k] = t[k]
      BY <2>1, <2>5
    <3>2. by \in [1 .. l + 1 -> 1 .. m + 1]
      BY <2>1, <2>6
    <3>3. by[l + 1] = m + 1 /\ \A k \in 1 .. l : by[k] = pos[k]
      OBVIOUS
    <3>. HIDE DEF u, by
    <3>9. /\ \A k \in 1 .. l + 1 : k \in 1 .. l \/ k = l + 1
          /\ \A k \in 1 .. l : k \in 1 .. l + 1 /\ k < l + 1 /\ ~(l + 1 < k)
          /\ \A k \in 1 .. m + 1 : k \in 1 .. m \/ k = m + 1
          /\ \A k \in 1 .. m : k < m + 1
          /\ l + 1 \in 1 .. l + 1 /\ ~(l + 1 < l + 1)
      BY ONLY <2>1, l \in Nat
    <3>4. \A i, j \in 1 .. l + 1 : i < j => by[i] < by[j]
      BY ONLY <2>6, <3>3, <3>9
    <3>5. \A k \in 1 .. l + 1 : u[k] = s[by[k]] /\ u[k] \in K
      BY ONLY <2>6, <2>7, <3>1, <3>3, <3>9
    <3>6. \A j \in 1 .. m + 1 : s[j] \in K => \E k \in 1 .. l + 1 : by[k] = j
      BY ONLY <2>6, <3>3, <3>9
    <3>7. Picks(s, K, m + 1, u, by)
      BY <3>1, <3>2, <3>4, <3>5, <3>6 DEF Picks
    <3>8. f[m + 1] = u
      BY <2>2, <2>5, <2>7 DEF u
    <3>. QED  BY <1>1, <2>1, <3>1, <3>7, <3>8
  <2>8. CASE s[m + 1] \notin K
    <3>1. pos \in [1 .. l -> 1 .. m + 1]
      BY <2>1, <2>6
    <3>3. \A j \in 1 .. m + 1 : j \in 1 .. m \/ j = m + 1
      BY <2>1
    <3>4. \A j \in 1 .. m + 1 : s[j] \in K => \E k \in 1 .. l : pos[k] = j
      BY ONLY <2>6, <2>8, <3>3
    <3>2. Picks(s, K, m + 1, t, pos)
      BY <2>5, <2>6, <3>1, <3>4 DEF Picks
    <3>. QED  BY <1>1, <2>1, <2>2, <2>5, <2>8, <3>2
  <2>. QED  BY <2>7, <2>8
<1>6. n \in T
  <2>. HIDE DEF T
  <2>1. 0 .. n \subseteq T
    BY ONLY <1>4, <1>5, n \in Nat, UpTo
  <2>. QED  BY ONLY <2>1, n \in Nat
<1>. QED  BY <1>1, <1>2, <1>6


\* Every element is kept by a set or by its complement.
LEMMA KeepSplit ==
  ASSUME NEW S, NEW s \in Seq(S), NEW K, NEW L, \A i \in DOMAIN s : s[i] \in K <=> s[i] \notin L
  PROVE  Len(B!Keep(s, K)) + Len(B!Keep(s, L)) = Len(s)
<1>1. PICK n \in Nat : n = Len(s) /\ DOMAIN s = 1 .. n /\ \A i \in 1 .. n : s[i] \in S
  OBVIOUS
<1>7. s \in Seq(S) /\ n \in Nat /\ n = Len(s)
  BY <1>1
<1>2. PICK f :
        /\ f[0] = <<>> /\ f[n] = B!Keep(s, K)
        /\ \A m \in 1 .. n : f[m] = IF s[m] \in K THEN Append(f[m - 1], s[m]) ELSE f[m - 1]
  BY ONLY <1>7, KeepSteps
<1>3. PICK g :
        /\ g[0] = <<>> /\ g[n] = B!Keep(s, L)
        /\ \A m \in 1 .. n : g[m] = IF s[m] \in L THEN Append(g[m - 1], s[m]) ELSE g[m - 1]
  BY ONLY <1>7, KeepSteps
<1> DEFINE T == {m \in 0 .. n : /\ f[m] \in Seq(S) /\ g[m] \in Seq(S)
                              /\ \E k, l \in Nat : k = Len(f[m]) /\ l = Len(g[m]) /\ k + l = m}
<1>4. 0 \in T
  <2>1. 0 \in 0 .. n /\ <<>> \in Seq(S) /\ Len(<<>>) = 0 /\ 0 + 0 = 0
    OBVIOUS
  <2>. QED  BY <1>2, <1>3, <2>1
<1>5. ASSUME NEW m \in 0 .. n, m + 1 <= n, m \in T
      PROVE  m + 1 \in T
  <2>1. m + 1 \in 1 .. n /\ m + 1 \in 0 .. n /\ m + 1 - 1 = m /\ s[m + 1] \in S
    BY <1>1, <1>5
  <2>9. PICK t \in Seq(S), u \in Seq(S) :
          t = f[m] /\ u = g[m] /\ \E k, l \in Nat : k = Len(t) /\ l = Len(u) /\ k + l = m
    BY <1>5
  <2>2. PICK k \in Nat, l \in Nat : t = f[m] /\ u = g[m] /\ k = Len(t) /\ l = Len(u) /\ k + l = m
    BY <2>9
  <2>11. \A x, y, z \in Nat : x + y = z => (x + 1) + y = z + 1 /\ x + (y + 1) = z + 1
    OBVIOUS
  <2>12. m \in Nat /\ k \in Nat /\ l \in Nat /\ k + l = m
    <3>1. k + l = m
      BY <2>2
    <3>2. m \in Nat
      BY n \in Nat
    <3>3. k \in Nat /\ l \in Nat
      OBVIOUS
    <3>. QED  BY ONLY <3>1, <3>2, <3>3
  <2>10. m \in Nat /\ k + 1 \in Nat /\ l + 1 \in Nat /\ (k + 1) + l = m + 1 /\ k + (l + 1) = m + 1
    BY ONLY <2>11, <2>12
  <2>3. /\ Append(t, s[m + 1]) \in Seq(S) /\ Len(Append(t, s[m + 1])) = k + 1
        /\ Append(u, s[m + 1]) \in Seq(S) /\ Len(Append(u, s[m + 1])) = l + 1
    BY <2>1, <2>2
  <2>4. f[m + 1] = IF s[m + 1] \in K THEN Append(t, s[m + 1]) ELSE t
    BY <1>2, <2>1, <2>2
  <2>5. g[m + 1] = IF s[m + 1] \in L THEN Append(u, s[m + 1]) ELSE u
    BY <1>3, <2>1, <2>2
  <2>6. s[m + 1] \in K <=> s[m + 1] \notin L
    BY <1>1, <2>1
  <2>7. CASE s[m + 1] \in K
    <3>1. f[m + 1] = Append(t, s[m + 1]) /\ g[m + 1] = u
      BY <2>4, <2>5, <2>6, <2>7
    <3>. QED  BY <2>1, <2>2, <2>3, <2>10, <3>1
  <2>8. CASE s[m + 1] \notin K
    <3>1. f[m + 1] = t /\ g[m + 1] = Append(u, s[m + 1])
      BY <2>4, <2>5, <2>6, <2>8
    <3>. QED  BY <2>1, <2>2, <2>3, <2>10, <3>1
  <2>. QED  BY <2>7, <2>8
<1>6. n \in T
  <2>. HIDE DEF T
  <2>1. 0 .. n \subseteq T
    BY ONLY <1>4, <1>5, n \in Nat, UpTo
  <2>. QED  BY ONLY <2>1, n \in Nat
<1>. QED  BY <1>1, <1>2, <1>3, <1>6

-----------------------------------------------------------------------------
(* The inductive invariant of the session.                                 *)

Waiting == [id : Nat, len : Nat, max_new : Int]
Running == [id : Nat, len : Nat, generated : Int, max_new : Int]
Record == [parent : Nat, origin : {"user", "traffic"}, system_prompt : Int, preempted : BOOLEAN]
Kinds == {"submitted", "admitted", "preempted", "forked", "finished"}
Story == [tick : Nat, seq_id : Nat, kind : Kinds]
Total == [submitted : Nat, admitted : Nat, finished : Nat, preempted : Nat, forks : Nat,
          tokens_generated : Nat]

BooksTypeOK(q, b, m, n, t) ==
  /\ q \in Seq(Waiting) /\ b \in Seq(Running)
  /\ m \in [DOMAIN m -> Record] /\ n \in Nat \ {0} /\ t \in Total

Balance(q, b, t) ==
  /\ t.submitted + t.preempted = t.admitted + Len(q)
  /\ t.admitted + t.forks = t.finished + t.preempted + Len(b)

\* The sequences the scheduler holds have different ids, all below n, and are
\* the ones there are records of.
Tracked(q, b, m, n) ==
  /\ \A i, j \in DOMAIN q : q[i].id = q[j].id => i = j
  /\ \A i, j \in DOMAIN b : b[i].id = b[j].id => i = j
  /\ Ids(q) \cap Ids(b) = {}
  /\ DOMAIN m = Ids(q) \cup Ids(b)
  /\ \A id \in DOMAIN m : id \in Nat /\ id < n

\* QueueOrder of a given queue.
Ordered(q, m) ==
  \A i \in DOMAIN q : ~m[q[i].id].preempted =>
    /\ Len(q) - i < max_waiting
    /\ \A j \in i + 1 .. Len(q) : ~m[q[j].id].preempted /\ q[i].id < q[j].id

Books(q, b, m, n, t) ==
  BooksTypeOK(q, b, m, n, t) /\ Balance(q, b, t) /\ Tracked(q, b, m, n) /\ Ordered(q, m)

\* What event e says of the sequence it is about.
Tells(e, q, b, m) ==
  CASE e.kind \in {"submitted", "preempted"} -> e.seq_id \in Ids(q)
    [] e.kind \in {"admitted", "forked"}     -> e.seq_id \in Ids(b)
    [] e.kind = "finished"                   -> e.seq_id \notin DOMAIN m

\* The latest event of each sequence tells where it is.
Truthful(log, q, b, m, n) ==
  \A i \in DOMAIN log :
    /\ log[i].seq_id < n
    /\ (\A j \in i + 1 .. Len(log) : log[j].seq_id # log[i].seq_id) => Tells(log[i], q, b, m)

SimInv ==
  /\ Books(queue, batch, meta, next_id, totals)
  /\ tick \in Nat
  /\ events \in Seq(Story) /\ Len(events) <= EVENT_LOG_LEN /\ fresh \in Seq(Story)
  /\ at \in {"idle", "traffic", "fork", "step"}
  /\ at = "idle" => fresh = <<>>
  /\ Truthful(events \o fresh, queue, batch, meta, next_id)

-----------------------------------------------------------------------------
(* What one event and one sequence more do.                                *)

\* The books, element by element.
InFull(q, b, m, n, t, l, k) ==
  /\ q \in Seq(Waiting) /\ DOMAIN q = 1 .. l
  /\ b \in Seq(Running) /\ DOMAIN b = 1 .. k
  /\ m \in [DOMAIN m -> Record] /\ n \in Nat \ {0} /\ t \in Total
  /\ \A i, j \in 1 .. l : q[i].id = q[j].id => i = j
  /\ \A i, j \in 1 .. k : b[i].id = b[j].id => i = j
  /\ \A i \in 1 .. l, j \in 1 .. k : q[i].id # b[j].id
  /\ \A i \in 1 .. l : q[i].id \in DOMAIN m
  /\ \A j \in 1 .. k : b[j].id \in DOMAIN m
  /\ Ids(q) = {q[i].id : i \in 1 .. l}
  /\ Ids(b) = {b[i].id : i \in 1 .. k}
  /\ DOMAIN m = Ids(q) \cup Ids(b)
  /\ \A id \in DOMAIN m : id \in Nat /\ id < n

LEMMA BooksFacts ==
  ASSUME NEW q, NEW b, NEW m, NEW n, NEW t, Books(q, b, m, n, t),
         NEW l \in Nat, l = Len(q), NEW k \in Nat, k = Len(b)
  PROVE  InFull(q, b, m, n, t, l, k)
<1>1. /\ q \in Seq(Waiting) /\ b \in Seq(Running) /\ m \in [DOMAIN m -> Record]
      /\ n \in Nat \ {0} /\ t \in Total
  BY DEF Books, BooksTypeOK
<1>2. DOMAIN q = 1 .. l /\ DOMAIN b = 1 .. k
  BY <1>1
<1>3. Ids(q) = {q[i].id : i \in 1 .. l} /\ Ids(b) = {b[i].id : i \in 1 .. k}
  BY <1>2 DEF Ids
<1>4. /\ \A i, j \in 1 .. l : q[i].id = q[j].id => i = j
      /\ \A i, j \in 1 .. k : b[i].id = b[j].id => i = j
      /\ Ids(q) \cap Ids(b) = {}
      /\ DOMAIN m = Ids(q) \cup Ids(b)
      /\ \A id \in DOMAIN m : id \in Nat /\ id < n
  BY <1>2 DEF Books, Tracked
<1>5. \A i \in 1 .. l : q[i].id \in Ids(q)
  BY <1>3
<1>6. \A j \in 1 .. k : b[j].id \in Ids(b)
  BY <1>3
<1>7. \A i \in 1 .. l, j \in 1 .. k : q[i].id # b[j].id
  BY ONLY <1>4, <1>5, <1>6
<1>8. /\ \A i \in 1 .. l : q[i].id \in DOMAIN m
      /\ \A j \in 1 .. k : b[j].id \in DOMAIN m
  BY ONLY <1>4, <1>5, <1>6
<1>. QED  BY <1>1, <1>2, <1>3, <1>4, <1>7, <1>8 DEF InFull

\* A new request has the newest id and waits behind all others.
LEMMA SubmitBooks ==
  ASSUME NEW q, NEW b, NEW m, NEW n, NEW t, Books(q, b, m, n, t), Len(q) < max_waiting,
         NEW r \in Waiting, r.id = n, NEW v \in Record, v.preempted = FALSE
  PROVE  Books(Append(q, r), b, Extend(m, n, v), n + 1, [t EXCEPT !.submitted = @ + 1])
<1> DEFINE q2 == Append(q, r)
           m2 == Extend(m, n, v)
           t2 == [t EXCEPT !.submitted = @ + 1]
<1>1. /\ q \in Seq(Waiting) /\ b \in Seq(Running) /\ m \in [DOMAIN m -> Record]
      /\ n \in Nat \ {0} /\ t \in Total
  BY DEF Books, BooksTypeOK
<1>2. PICK l \in Nat : l = Len(q) /\ DOMAIN q = 1 .. l
  BY <1>1
<1>3. PICK k \in Nat : k = Len(b) /\ DOMAIN b = 1 .. k
  BY <1>1
<1>4. /\ q2 \in Seq(Waiting) /\ Len(q2) = l + 1 /\ DOMAIN q2 = 1 .. l + 1
      /\ \A i \in 1 .. l : q2[i] = q[i]
      /\ q2[l + 1] = r
  BY <1>1, <1>2
<1>5. /\ DOMAIN m2 = DOMAIN m \cup {n}
      /\ \A id \in DOMAIN m2 : m2[id] = IF id = n THEN v ELSE m[id]
      /\ m2 \in [DOMAIN m2 -> Record]
  BY <1>1 DEF Extend
<1>6. /\ t2 \in Total /\ t2.submitted = t.submitted + 1
      /\ t2.preempted = t.preempted /\ t2.admitted = t.admitted /\ t2.forks = t.forks
      /\ t2.finished = t.finished
  BY <1>1 DEF Total
<1>. HIDE DEF q2, m2, t2
<1>16. InFull(q, b, m, n, t, l, k)
  BY <1>2, <1>3, BooksFacts
<1>7. /\ \A i, j \in 1 .. l : q[i].id = q[j].id => i = j
      /\ \A i, j \in 1 .. k : b[i].id = b[j].id => i = j
      /\ \A i \in 1 .. l, j \in 1 .. k : q[i].id # b[j].id
      /\ \A i \in 1 .. l : q[i].id \in DOMAIN m
      /\ \A j \in 1 .. k : b[j].id \in DOMAIN m
      /\ DOMAIN m = Ids(q) \cup Ids(b)
      /\ \A id \in DOMAIN m : id \in Nat /\ id < n
  BY <1>16 DEF InFull
<1>15. Ids(q2) = Ids(q) \cup {n}
  <2>1. \A i \in 1 .. l + 1 : i \in 1 .. l \/ i = l + 1
    OBVIOUS
  <2>2. \A i \in 1 .. l : i \in 1 .. l + 1
    OBVIOUS
  <2>3. l + 1 \in 1 .. l + 1
    OBVIOUS
  <2>4. Ids(q2) = {q2[i].id : i \in 1 .. l + 1} /\ Ids(q) = {q[i].id : i \in 1 .. l}
    BY <1>2, <1>4 DEF Ids
  <2>. QED  BY ONLY <1>4, r.id = n, <2>1, <2>2, <2>3, <2>4
<1>8. \A i \in 1 .. l + 1 : i \in 1 .. l \/ i = l + 1
  OBVIOUS
<1>9. \A id \in DOMAIN m : id # n /\ id < n + 1
  BY <1>1, <1>7
<1>10. Tracked(q2, b, m2, n + 1)
  <2>1. \A i, j \in 1 .. l + 1 : q2[i].id = q2[j].id => i = j
    BY <1>4, <1>7, <1>8, <1>9
  <2>2. Ids(q2) \cap Ids(b) = {}
    BY <1>9, <1>7, <1>15 DEF Books, Tracked
  <2>3. DOMAIN m2 = Ids(q2) \cup Ids(b)
    BY <1>5, <1>7, <1>15
  <2>4. \A id \in DOMAIN m2 : id \in Nat /\ id < n + 1
    BY <1>1, <1>5, <1>7, <1>9
  <2>. QED  BY <1>3, <1>4, <1>7, <2>1, <2>2, <2>3, <2>4 DEF Tracked
<1>11. Ordered(q2, m2)
  <2>1. \A i \in 1 .. l : ~m[q[i].id].preempted =>
          /\ l - i < max_waiting
          /\ \A j \in i + 1 .. l : ~m[q[j].id].preempted /\ q[i].id < q[j].id
    BY <1>2 DEF Books, Ordered
  <2>2. \A i \in 1 .. l : m2[q2[i].id] = m[q[i].id]
    BY <1>4, <1>5, <1>7, <1>9
  <2>3. m2[q2[l + 1].id].preempted = FALSE
    BY <1>4, <1>5
  <2>4. ASSUME NEW i \in 1 .. l, ~m2[q2[i].id].preempted
        PROVE  /\ l + 1 - i < max_waiting
               /\ \A j \in i + 1 .. l + 1 : ~m2[q2[j].id].preempted /\ q2[i].id < q2[j].id
    <3>1. /\ l - i < max_waiting
          /\ \A j \in i + 1 .. l : ~m[q[j].id].preempted /\ q[i].id < q[j].id
      BY <2>1, <2>2, <2>4
    <3>2. l + 1 - i < max_waiting
      BY <1>2, SimAssumption
    <3>3. \A j \in i + 1 .. l + 1 : j \in i + 1 .. l \/ j = l + 1
      OBVIOUS
    <3>4. \A j \in i + 1 .. l : j \in 1 .. l
      OBVIOUS
    <3>5. q2[i].id < n /\ q2[l + 1].id = n
      BY <1>4, <1>7
    <3>. QED  BY <1>4, <2>2, <2>3, <3>1, <3>2, <3>3, <3>4, <3>5
  <2>5. 0 < max_waiting /\ l + 1 - (l + 1) = 0 /\ l + 1 + 1 .. l + 1 = {}
    BY <1>2, SimAssumption
  <2>. QED  BY <1>4, <1>8, <2>4, <2>5 DEF Ordered
<1>12. Balance(q2, b, t2)
  <2>1. t.submitted + t.preempted = t.admitted + l /\ t.admitted + t.forks = t.finished + t.preempted + k
    BY <1>2, <1>3 DEF Books, Balance
  <2>2. /\ t.submitted \in Nat /\ t.preempted \in Nat /\ t.admitted \in Nat /\ t.forks \in Nat
        /\ t.finished \in Nat
    BY <1>1 DEF Total
  <2>3. t.submitted + 1 + t.preempted = t.admitted + (l + 1)
    BY ONLY <2>1, <2>2, l \in Nat
  <2>. QED  BY <1>3, <1>4, <1>6, <2>1, <2>3 DEF Balance
<1>13. BooksTypeOK(q2, b, m2, n + 1, t2)
  BY <1>1, <1>4, <1>5, <1>6 DEF BooksTypeOK
<1>14. Books(q2, b, m2, n + 1, t2)
  BY <1>10, <1>11, <1>12, <1>13 DEF Books
<1>. QED  BY <1>14 DEF q2, m2, t2

\* A fork has the newest id and runs with its parent.
LEMMA ForkBooks ==
  ASSUME NEW q, NEW b, NEW m, NEW n, NEW t, Books(q, b, m, n, t),
         NEW r \in Running, r.id = n, NEW v \in Record
  PROVE  Books(q, Append(b, r), Extend(m, n, v), n + 1, [t EXCEPT !.forks = @ + 1])
<1> DEFINE b2 == Append(b, r)
           m2 == Extend(m, n, v)
           t2 == [t EXCEPT !.forks = @ + 1]
<1>1. /\ q \in Seq(Waiting) /\ b \in Seq(Running) /\ m \in [DOMAIN m -> Record]
      /\ n \in Nat \ {0} /\ t \in Total
  BY DEF Books, BooksTypeOK
<1>2. PICK l \in Nat : l = Len(q) /\ DOMAIN q = 1 .. l
  BY <1>1
<1>3. PICK k \in Nat : k = Len(b) /\ DOMAIN b = 1 .. k
  BY <1>1
<1>4. /\ b2 \in Seq(Running) /\ Len(b2) = k + 1 /\ DOMAIN b2 = 1 .. k + 1
      /\ \A i \in 1 .. k : b2[i] = b[i]
      /\ b2[k + 1] = r
  BY <1>1, <1>3
<1>5. /\ DOMAIN m2 = DOMAIN m \cup {n}
      /\ \A id \in DOMAIN m2 : m2[id] = IF id = n THEN v ELSE m[id]
      /\ m2 \in [DOMAIN m2 -> Record]
  BY <1>1 DEF Extend
<1>6. /\ t2 \in Total /\ t2.forks = t.forks + 1
      /\ t2.preempted = t.preempted /\ t2.admitted = t.admitted /\ t2.submitted = t.submitted
      /\ t2.finished = t.finished
  BY <1>1 DEF Total
<1>. HIDE DEF b2, m2, t2
<1>16. InFull(q, b, m, n, t, l, k)
  BY <1>2, <1>3, BooksFacts
<1>7. /\ \A i, j \in 1 .. l : q[i].id = q[j].id => i = j
      /\ \A i, j \in 1 .. k : b[i].id = b[j].id => i = j
      /\ \A i \in 1 .. l : q[i].id \in DOMAIN m
      /\ \A j \in 1 .. k : b[j].id \in DOMAIN m
      /\ Ids(b) = {b[i].id : i \in 1 .. k}
      /\ DOMAIN m = Ids(q) \cup Ids(b)
      /\ \A id \in DOMAIN m : id \in Nat /\ id < n
  BY <1>16 DEF InFull
<1>8. /\ \A i \in 1 .. k + 1 : i \in 1 .. k \/ i = k + 1
      /\ \A i \in 1 .. k : i \in 1 .. k + 1
      /\ k + 1 \in 1 .. k + 1
  OBVIOUS
<1>9. \A id \in DOMAIN m : id # n /\ id < n + 1
  BY <1>1, <1>7
<1>10. Ids(b2) = Ids(b) \cup {n}
  <2>1. Ids(b2) = {b2[i].id : i \in 1 .. k + 1}
    BY <1>4 DEF Ids
  <2>. QED  BY ONLY <1>4, <1>7, <1>8, r.id = n, <2>1
<1>11. Tracked(q, b2, m2, n + 1)
  <2>1. \A i, j \in 1 .. k + 1 : b2[i].id = b2[j].id => i = j
    BY <1>4, <1>7, <1>8, <1>9
  <2>2. Ids(q) \cap Ids(b2) = {}
    BY <1>9, <1>7, <1>10 DEF Books, Tracked
  <2>3. DOMAIN m2 = Ids(q) \cup Ids(b2)
    BY <1>5, <1>7, <1>10
  <2>4. \A id \in DOMAIN m2 : id \in Nat /\ id < n + 1
    BY <1>1, <1>5, <1>7, <1>9
  <2>. QED  BY <1>2, <1>4, <1>7, <2>1, <2>2, <2>3, <2>4 DEF Tracked
<1>12. Ordered(q, m2)
  <2>1. \A i \in 1 .. l : m2[q[i].id] = m[q[i].id]
    BY <1>5, <1>7, <1>9
  <2>2. \A i \in 1 .. l : \A j \in i + 1 .. l : j \in 1 .. l
    OBVIOUS
  <2>3. \A i \in 1 .. l : ~m[q[i].id].preempted =>
          /\ Len(q) - i < max_waiting
          /\ \A j \in i + 1 .. l : ~m[q[j].id].preempted /\ q[i].id < q[j].id
    BY <1>2 DEF Books, Ordered
  <2>. QED  BY <1>2, <2>1, <2>2, <2>3 DEF Ordered
<1>13. Balance(q, b2, t2)
  <2>1. t.submitted + t.preempted = t.admitted + l /\ t.admitted + t.forks = t.finished + t.preempted + k
    BY <1>2, <1>3 DEF Books, Balance
  <2>2. /\ t.submitted \in Nat /\ t.preempted \in Nat /\ t.admitted \in Nat /\ t.forks \in Nat
        /\ t.finished \in Nat
    BY <1>1 DEF Total
  <2>3. t.admitted + (t.forks + 1) = t.finished + t.preempted + (k + 1)
    <3>1. PICK x \in Nat, y \in Nat, z \in Nat, u \in Nat :
            x = t.admitted /\ y = t.forks /\ z = t.finished /\ u = t.preempted
      BY <2>2
    <3>2. x + y = z + u + k
      BY ONLY <2>1, <3>1
    <3>3. x + (y + 1) = z + u + (k + 1)
      BY <3>2
    <3>. QED  BY ONLY <3>1, <3>3
  <2>. QED  BY <1>2, <1>4, <1>6, <2>1, <2>3 DEF Balance
<1>14. BooksTypeOK(q, b2, m2, n + 1, t2)
  BY <1>1, <1>4, <1>5, <1>6 DEF BooksTypeOK
<1>15. Books(q, b2, m2, n + 1, t2)
  BY <1>11, <1>12, <1>13, <1>14 DEF Books
<1>. QED  BY <1>15 DEF b2, m2, t2

-----------------------------------------------------------------------------
(* What a step does to the books.                                          *)

\* The ids of those a step admits, of those that yield, and of those it ends.
AdmittedSet(q, a) == {q[i].id : i \in 1 .. a}
YieldingSet(b, k, p) == {b[(k - p) + i].id : i \in 1 .. p}

\* d: who gets a token; b2: who runs on; over: who has all; q2: who waits now.
StepShape(q, b, l, k, a, p, d, b2, over, q2) ==
  /\ a <= l /\ p <= k
  /\ d \in Seq(Running) /\ Len(d) = (k - p) + a
  /\ \A i \in 1 .. k - p : d[i].id = b[i].id
  /\ \A i \in 1 .. a : d[(k - p) + i].id = q[i].id
  /\ b2 \in Seq(Running) /\ over \in Seq(Running)
  /\ \E K, L, e, f :
       /\ \A i \in DOMAIN d : d[i] \in K <=> d[i] \notin L
       /\ Picks(d, K, Len(d), b2, e) /\ Picks(d, L, Len(d), over, f)
  /\ \E x, y \in Nat : x = Len(b2) /\ y = Len(over) /\ x + y = (k - p) + a
  /\ q2 \in Seq(Waiting) /\ Len(q2) = p + (l - a)
  /\ \A i \in 1 .. p : q2[i].id = b[(k - p) + i].id
  /\ \A i \in 1 .. l - a : q2[p + i].id = q[a + i].id

\* Who runs then, who is gone, and that the two are different sequences.
RunsOn(q, b, k, a, p, b2, over) ==
  /\ \A i, j \in DOMAIN b2 : b2[i].id = b2[j].id => i = j
  /\ Ids(b2) \cap Ids(over) = {}
  /\ Ids(b2) \cup Ids(over) = (Ids(b) \ YieldingSet(b, k, p)) \cup AdmittedSet(q, a)

LEMMA StepRuns ==
  ASSUME NEW q, NEW b, NEW m, NEW n, NEW t, NEW l \in Nat, NEW k \in Nat,
         InFull(q, b, m, n, t, l, k), NEW a \in Nat, NEW p \in Nat, NEW d, NEW b2, NEW over, NEW q2,
         StepShape(q, b, l, k, a, p, d, b2, over, q2)
  PROVE  RunsOn(q, b, k, a, p, b2, over)
<1>1. PICK c \in Nat : c = k - p
  BY DEF StepShape
<1>2. /\ a <= l /\ p <= k
      /\ d \in Seq(Running) /\ Len(d) = c + a /\ DOMAIN d = 1 .. c + a
      /\ \A i \in 1 .. c : d[i].id = b[i].id
      /\ \A i \in 1 .. a : d[c + i].id = q[i].id
      /\ b2 \in Seq(Running) /\ over \in Seq(Running)
  BY <1>1 DEF StepShape
<1>3. PICK K, L, e, f :
        /\ \A i \in DOMAIN d : d[i] \in K <=> d[i] \notin L
        /\ Picks(d, K, Len(d), b2, e) /\ Picks(d, L, Len(d), over, f)
  BY DEF StepShape
<1>4. PICK x \in Nat, y \in Nat : x = Len(b2) /\ DOMAIN b2 = 1 .. x /\ y = Len(over) /\ DOMAIN over = 1 .. y
  BY <1>2
<1>5. /\ \A i \in 1 .. x : e[i] \in 1 .. c + a /\ b2[i] = d[e[i]] /\ b2[i] \in K
      /\ \A i, j \in 1 .. x : i < j => e[i] < e[j]
      /\ \A j \in 1 .. c + a : d[j] \in K => \E i \in 1 .. x : e[i] = j
  BY <1>2, <1>3, <1>4 DEF Picks
<1>6. /\ \A i \in 1 .. y : f[i] \in 1 .. c + a /\ over[i] = d[f[i]] /\ over[i] \in L
      /\ \A j \in 1 .. c + a : d[j] \in L => \E i \in 1 .. y : f[i] = j
  BY <1>2, <1>3, <1>4 DEF Picks
<1>7. \A i \in 1 .. c + a : d[i] \in K <=> d[i] \notin L
  BY <1>2, <1>3
<1>8. /\ \A i, j \in 1 .. l : q[i].id = q[j].id => i = j
      /\ \A i, j \in 1 .. k : b[i].id = b[j].id => i = j
      /\ \A i \in 1 .. l, j \in 1 .. k : q[i].id # b[j].id
      /\ Ids(q) = {q[i].id : i \in 1 .. l} /\ Ids(b) = {b[i].id : i \in 1 .. k}
  BY DEF InFull
<1>9. /\ \A i \in 1 .. c + a : i \in 1 .. c \/ \E j \in 1 .. a : i = c + j
      /\ \A i \in 1 .. c : i \in 1 .. c + a /\ i \in 1 .. k
      /\ \A i \in 1 .. a : i \in 1 .. l /\ c + i \in 1 .. c + a
  <2>1. \A i \in 1 .. c + a : i \in 1 .. c \/ (i - c \in 1 .. a /\ i = c + (i - c))
    OBVIOUS
  <2>2. \A i \in 1 .. c : i \in 1 .. c + a /\ i \in 1 .. k
    BY <1>1, <1>2
  <2>3. \A i \in 1 .. a : i \in 1 .. l /\ c + i \in 1 .. c + a
    BY <1>2
  <2>. QED  BY <2>1, <2>2, <2>3
<1>10. \A i, j \in 1 .. c + a : d[i].id = d[j].id => i = j
  <2> TAKE i, j \in 1 .. c + a
  <2> HAVE d[i].id = d[j].id
  <2>1. CASE i \in 1 .. c /\ j \in 1 .. c
    BY <1>2, <1>8, <1>9, <2>1
  <2>2. CASE \E u, v \in 1 .. a : i = c + u /\ j = c + v
    <3>1. PICK u \in 1 .. a, v \in 1 .. a : i = c + u /\ j = c + v
      BY <2>2
    <3>2. q[u].id = q[v].id /\ u \in 1 .. l /\ v \in 1 .. l
      BY <1>2, <1>9, <3>1
    <3>. QED  BY <1>8, <3>1, <3>2
  <2>3. CASE i \in 1 .. c /\ \E v \in 1 .. a : j = c + v
    <3>1. PICK v \in 1 .. a : j = c + v
      BY <2>3
    <3>2. b[i].id = q[v].id /\ i \in 1 .. k /\ v \in 1 .. l
      BY <1>2, <1>9, <2>3, <3>1
    <3>. QED  BY <1>8, <3>2
  <2>4. CASE j \in 1 .. c /\ \E v \in 1 .. a : i = c + v
    <3>1. PICK v \in 1 .. a : i = c + v
      BY <2>4
    <3>2. b[j].id = q[v].id /\ j \in 1 .. k /\ v \in 1 .. l
      BY <1>2, <1>9, <2>4, <3>1
    <3>. QED  BY <1>8, <3>2
  <2>. QED  BY <1>9, <2>1, <2>2, <2>3, <2>4
<1>11. \A i, j \in 1 .. x : b2[i].id = b2[j].id => i = j
  <2> TAKE i, j \in 1 .. x
  <2> HAVE b2[i].id = b2[j].id
  <2>1. e[i] = e[j] /\ e[i] \in 1 .. c + a
    BY <1>5, <1>10
  <2>2. ~(e[i] < e[j]) /\ ~(e[j] < e[i])
    BY <2>1
  <2>3. ~(i < j) /\ ~(j < i)
    BY <1>5, <2>2
  <2>. QED  BY <2>3
<1>12. Ids(b2) = {b2[i].id : i \in 1 .. x} /\ Ids(over) = {over[i].id : i \in 1 .. y}
  BY <1>4 DEF Ids
<1>13. Ids(b2) \cap Ids(over) = {}
  <2> SUFFICES ASSUME NEW i \in 1 .. x, NEW j \in 1 .. y, b2[i].id = over[j].id PROVE FALSE
    BY <1>12
  <2>1. e[i] = f[j]
    BY <1>5, <1>6, <1>10
  <2>. QED  BY <1>5, <1>6, <1>7, <2>1
<1>14. Ids(b2) \cup Ids(over) = {d[i].id : i \in 1 .. c + a}
  <2>1. \A i \in 1 .. c + a : d[i].id \in Ids(b2) \cup Ids(over)
    <3> TAKE i \in 1 .. c + a
    <3>1. CASE d[i] \in K
      BY <1>5, <1>12, <3>1
    <3>2. CASE d[i] \in L
      BY <1>6, <1>12, <3>2
    <3>. QED  BY <1>7, <3>1, <3>2
  <2>2. \A i \in 1 .. x : b2[i].id \in {d[j].id : j \in 1 .. c + a}
    BY <1>5
  <2>3. \A i \in 1 .. y : over[i].id \in {d[j].id : j \in 1 .. c + a}
    BY <1>6
  <2>. QED  BY ONLY <1>12, <2>1, <2>2, <2>3
<1>15. {d[i].id : i \in 1 .. c + a} = {b[i].id : i \in 1 .. c} \cup AdmittedSet(q, a)
  <2>1. \A i \in 1 .. c + a : d[i].id \in {b[j].id : j \in 1 .. c} \cup AdmittedSet(q, a)
    <3> TAKE i \in 1 .. c + a
    <3>1. CASE i \in 1 .. c
      BY <1>2, <3>1
    <3>2. CASE \E j \in 1 .. a : i = c + j
      <4>1. PICK j \in 1 .. a : i = c + j
        BY <3>2
      <4>. QED  BY <1>2, <4>1 DEF AdmittedSet
    <3>. QED  BY <1>9, <3>1, <3>2
  <2>2. \A i \in 1 .. c : b[i].id \in {d[j].id : j \in 1 .. c + a}
    <3> TAKE i \in 1 .. c
    <3>1. i \in 1 .. c + a /\ d[i].id = b[i].id
      BY <1>2, <1>9
    <3>. QED  BY <3>1
  <2>3. \A i \in 1 .. a : q[i].id \in {d[j].id : j \in 1 .. c + a}
    <3> TAKE i \in 1 .. a
    <3>1. c + i \in 1 .. c + a /\ d[c + i].id = q[i].id
      BY <1>2, <1>9
    <3>. QED  BY <3>1
  <2>. QED  BY ONLY <2>1, <2>2, <2>3 DEF AdmittedSet
<1>16. {b[i].id : i \in 1 .. c} = Ids(b) \ YieldingSet(b, k, p)
  <2>1. YieldingSet(b, k, p) = {b[c + i].id : i \in 1 .. p}
    BY <1>1 DEF YieldingSet
  <2>2. \A i \in 1 .. k : i \in 1 .. c \/ \E j \in 1 .. p : i = c + j
    <3>1. \A i \in 1 .. k : i \in 1 .. c \/ (i - c \in 1 .. p /\ i = c + (i - c))
      BY <1>1, <1>2
    <3>. QED  BY <3>1
  <2>3. \A i \in 1 .. c, j \in 1 .. p : c + j \in 1 .. k /\ i \in 1 .. k /\ i # c + j
    BY <1>1, <1>2
  <2>4. \A i \in 1 .. c, j \in 1 .. p : b[i].id # b[c + j].id
    BY ONLY <1>8, <2>3
  <2>. QED  BY ONLY <1>8, <1>9, <2>1, <2>2, <2>4
<1>. QED  BY <1>4, <1>11, <1>13, <1>14, <1>15, <1>16 DEF RunsOn

\* Who waits then.
LEMMA StepWaits ==
  ASSUME NEW q, NEW b, NEW m, NEW n, NEW t, NEW l \in Nat, NEW k \in Nat,
         InFull(q, b, m, n, t, l, k), NEW a \in Nat, NEW p \in Nat, NEW d, NEW b2, NEW over, NEW q2,
         StepShape(q, b, l, k, a, p, d, b2, over, q2)
  PROVE  /\ \A i, j \in DOMAIN q2 : q2[i].id = q2[j].id => i = j
         /\ Ids(q2) = YieldingSet(b, k, p) \cup (Ids(q) \ AdmittedSet(q, a))
         /\ YieldingSet(b, k, p) \subseteq Ids(b) /\ AdmittedSet(q, a) \subseteq Ids(q)
<1>1. PICK c \in Nat, r \in Nat : c = k - p /\ r = l - a
  BY DEF StepShape
<1>2. /\ a <= l /\ p <= k
      /\ q2 \in Seq(Waiting) /\ Len(q2) = p + r /\ DOMAIN q2 = 1 .. p + r
      /\ \A i \in 1 .. p : q2[i].id = b[c + i].id
      /\ \A i \in 1 .. r : q2[p + i].id = q[a + i].id
  BY <1>1 DEF StepShape
<1>3. /\ \A i, j \in 1 .. l : q[i].id = q[j].id => i = j
      /\ \A i, j \in 1 .. k : b[i].id = b[j].id => i = j
      /\ \A i \in 1 .. l, j \in 1 .. k : q[i].id # b[j].id
      /\ Ids(q) = {q[i].id : i \in 1 .. l} /\ Ids(b) = {b[i].id : i \in 1 .. k}
  BY DEF InFull
<1>4. /\ \A i \in 1 .. p + r : i \in 1 .. p \/ \E j \in 1 .. r : i = p + j
      /\ \A i \in 1 .. p : i \in 1 .. p + r /\ c + i \in 1 .. k
      /\ \A i \in 1 .. r : a + i \in 1 .. l /\ p + i \in 1 .. p + r
  <2>1. \A i \in 1 .. p + r : i \in 1 .. p \/ (i - p \in 1 .. r /\ i = p + (i - p))
    OBVIOUS
  <2>2. \A i \in 1 .. p : i \in 1 .. p + r /\ c + i \in 1 .. k
    BY <1>1, <1>2
  <2>3. \A i \in 1 .. r : a + i \in 1 .. l /\ p + i \in 1 .. p + r
    BY <1>1, <1>2
  <2>. QED  BY <2>1, <2>2, <2>3
<1>5. \A i, j \in 1 .. p + r : q2[i].id = q2[j].id => i = j
  <2> TAKE i, j \in 1 .. p + r
  <2> HAVE q2[i].id = q2[j].id
  <2>1. CASE i \in 1 .. p /\ j \in 1 .. p
    <3>1. b[c + i].id = b[c + j].id /\ c + i \in 1 .. k /\ c + j \in 1 .. k
      BY <1>2, <1>4, <2>1
    <3>2. c + i = c + j
      BY <1>3, <3>1
    <3>. QED  BY <3>2
  <2>2. CASE \E u, v \in 1 .. r : i = p + u /\ j = p + v
    <3>1. PICK u \in 1 .. r, v \in 1 .. r : i = p + u /\ j = p + v
      BY <2>2
    <3>2. q[a + u].id = q[a + v].id /\ a + u \in 1 .. l /\ a + v \in 1 .. l
      BY <1>2, <1>4, <3>1
    <3>3. a + u = a + v
      BY <1>3, <3>2
    <3>. QED  BY <3>1, <3>3
  <2>3. CASE i \in 1 .. p /\ \E v \in 1 .. r : j = p + v
    <3>1. PICK v \in 1 .. r : j = p + v
      BY <2>3
    <3>2. b[c + i].id = q[a + v].id /\ c + i \in 1 .. k /\ a + v \in 1 .. l
      BY <1>2, <1>4, <2>3, <3>1
    <3>. QED  BY <1>3, <3>2
  <2>4. CASE j \in 1 .. p /\ \E v \in 1 .. r : i = p + v
    <3>1. PICK v \in 1 .. r : i = p + v
      BY <2>4
    <3>2. b[c + j].id = q[a + v].id /\ c + j \in 1 .. k /\ a + v \in 1 .. l
      BY <1>2, <1>4, <2>4, <3>1
    <3>. QED  BY <1>3, <3>2
  <2>. QED  BY <1>4, <2>1, <2>2, <2>3, <2>4
<1>6. YieldingSet(b, k, p) = {b[c + i].id : i \in 1 .. p}
  BY <1>1 DEF YieldingSet
<1>7. YieldingSet(b, k, p) \subseteq Ids(b)
  BY <1>3, <1>4, <1>6
<1>8. AdmittedSet(q, a) \subseteq Ids(q)
  <2>1. \A i \in 1 .. a : i \in 1 .. l
    BY <1>2
  <2>. QED  BY <1>3, <2>1 DEF AdmittedSet
<1>9. Ids(q) \ AdmittedSet(q, a) = {q[a + i].id : i \in 1 .. r}
  <2>1. \A i \in 1 .. l : i \in 1 .. a \/ \E j \in 1 .. r : i = a + j
    <3>1. \A i \in 1 .. l : i \in 1 .. a \/ (i - a \in 1 .. r /\ i = a + (i - a))
      BY <1>1, <1>2
    <3>. QED  BY <3>1
  <2>2. \A i \in 1 .. a, j \in 1 .. r : i \in 1 .. l /\ a + j \in 1 .. l /\ i # a + j
    BY <1>1, <1>2
  <2>3. \A i \in 1 .. a, j \in 1 .. r : q[i].id # q[a + j].id
    BY ONLY <1>3, <2>2
  <2>. QED  BY ONLY <1>3, <1>4, <2>1, <2>3 DEF AdmittedSet
<1>10. Ids(q2) = YieldingSet(b, k, p) \cup {q[a + i].id : i \in 1 .. r}
  <2>1. Ids(q2) = {q2[i].id : i \in 1 .. p + r}
    BY <1>2 DEF Ids
  <2>2. \A i \in 1 .. p + r : q2[i].id \in YieldingSet(b, k, p) \cup {q[a + j].id : j \in 1 .. r}
    <3> TAKE i \in 1 .. p + r
    <3>1. CASE i \in 1 .. p
      BY <1>2, <1>6, <3>1
    <3>2. CASE \E j \in 1 .. r : i = p + j
      <4>1. PICK j \in 1 .. r : i = p + j
        BY <3>2
      <4>. QED  BY <1>2, <4>1
    <3>. QED  BY <1>4, <3>1, <3>2
  <2>3. \A i \in 1 .. p : b[c + i].id \in Ids(q2)
    <3> TAKE i \in 1 .. p
    <3>1. i \in 1 .. p + r /\ q2[i].id = b[c + i].id
      BY <1>2, <1>4
    <3>. QED  BY <2>1, <3>1
  <2>4. \A i \in 1 .. r : q[a + i].id \in Ids(q2)
    <3> TAKE i \in 1 .. r
    <3>1. p + i \in 1 .. p + r /\ q2[p + i].id = q[a + i].id
      BY <1>2, <1>4
    <3>. QED  BY <2>1, <3>1
  <2>. QED  BY ONLY <1>6, <2>1, <2>2, <2>3, <2>4
<1>. QED  BY <1>2, <1>5, <1>7, <1>8, <1>9, <1>10

\* The records and the totals of a step, as functions of what it did.
RecordsAfter(m, gone, yield) ==
  [id \in DOMAIN m \ gone |-> [m[id] EXCEPT !.preempted = @ \/ id \in yield]]

TotalsAfter(t, a, p, ended, served) ==
  [t EXCEPT !.admitted = @ + a, !.preempted = @ + p, !.finished = @ + ended,
            !.tokens_generated = @ + served]

LEMMA StepBooks ==
  ASSUME NEW q, NEW b, NEW m, NEW n, NEW t, NEW l \in Nat, NEW k \in Nat,
         Books(q, b, m, n, t), l = Len(q), k = Len(b),
         NEW a \in Nat, NEW p \in Nat, NEW d, NEW b2, NEW over, NEW q2,
         StepShape(q, b, l, k, a, p, d, b2, over, q2)
  PROVE  Books(q2, b2, RecordsAfter(m, Ids(over), YieldingSet(b, k, p)), n,
               TotalsAfter(t, a, p, Len(over), Len(d)))
<1> DEFINE m2 == RecordsAfter(m, Ids(over), YieldingSet(b, k, p))
           t2 == TotalsAfter(t, a, p, Len(over), Len(d))
<1>1. InFull(q, b, m, n, t, l, k)
  BY BooksFacts
<1>17. a <= l /\ p <= k
  BY DEF StepShape
<1>2. PICK c \in Nat, r \in Nat : c = k - p /\ r = l - a
  BY ONLY <1>17, a \in Nat, p \in Nat, l \in Nat, k \in Nat
<1>3. /\ a <= l /\ p <= k
      /\ d \in Seq(Running) /\ Len(d) = c + a
      /\ b2 \in Seq(Running) /\ over \in Seq(Running)
      /\ q2 \in Seq(Waiting) /\ Len(q2) = p + r /\ DOMAIN q2 = 1 .. p + r
      /\ \A i \in 1 .. p : q2[i].id = b[c + i].id
      /\ \A i \in 1 .. r : q2[p + i].id = q[a + i].id
  BY <1>2 DEF StepShape
<1>4. PICK x \in Nat, y \in Nat : x = Len(b2) /\ y = Len(over) /\ x + y = c + a
  BY <1>2 DEF StepShape
<1>18. InFull(q, b, m, n, t, l, k) /\ StepShape(q, b, l, k, a, p, d, b2, over, q2)
  BY <1>1
<1>5. /\ \A i, j \in DOMAIN b2 : b2[i].id = b2[j].id => i = j
      /\ Ids(b2) \cap Ids(over) = {}
      /\ Ids(b2) \cup Ids(over) = (Ids(b) \ YieldingSet(b, k, p)) \cup AdmittedSet(q, a)
  <2>1. RunsOn(q, b, k, a, p, b2, over)
    BY ONLY <1>18, StepRuns, a \in Nat, p \in Nat, l \in Nat, k \in Nat
  <2>. QED  BY <2>1 DEF RunsOn
<1>6. /\ \A i, j \in DOMAIN q2 : q2[i].id = q2[j].id => i = j
      /\ Ids(q2) = YieldingSet(b, k, p) \cup (Ids(q) \ AdmittedSet(q, a))
      /\ YieldingSet(b, k, p) \subseteq Ids(b) /\ AdmittedSet(q, a) \subseteq Ids(q)
  BY ONLY <1>18, StepWaits, a \in Nat, p \in Nat, l \in Nat, k \in Nat
<1>7. /\ Ids(q) \cap Ids(b) = {} /\ DOMAIN m = Ids(q) \cup Ids(b)
      /\ \A id \in DOMAIN m : id \in Nat /\ id < n
      /\ m \in [DOMAIN m -> Record] /\ n \in Nat \ {0} /\ t \in Total
  BY <1>1 DEF Books, Tracked, InFull
<1>8. /\ DOMAIN m2 = DOMAIN m \ Ids(over)
      /\ \A id \in DOMAIN m2 :
           /\ m2[id] \in Record
           /\ m2[id].preempted = (m[id].preempted \/ id \in YieldingSet(b, k, p))
  <2>1. \A id \in DOMAIN m2 : m2[id] = [m[id] EXCEPT !.preempted = @ \/ id \in YieldingSet(b, k, p)]
    BY DEF RecordsAfter
  <2>2. DOMAIN m2 = DOMAIN m \ Ids(over)
    BY DEF RecordsAfter
  <2>. HIDE DEF m2
  <2>3. ASSUME NEW v \in Record, NEW id
        PROVE  /\ [v EXCEPT !.preempted = @ \/ id \in YieldingSet(b, k, p)] \in Record
               /\ [v EXCEPT !.preempted = @ \/ id \in YieldingSet(b, k, p)].preempted
                    = (v.preempted \/ id \in YieldingSet(b, k, p))
    BY DEF Record
  <2>4. \A id \in DOMAIN m2 : m[id] \in Record
    BY <1>7, <2>2
  <2>5. ASSUME NEW id \in DOMAIN m2
        PROVE  m2[id] \in Record /\ m2[id].preempted = (m[id].preempted \/ id \in YieldingSet(b, k, p))
    <3>1. PICK v \in Record : v = m[id]
      BY <2>4
    <3>2. m2[id] = [v EXCEPT !.preempted = @ \/ id \in YieldingSet(b, k, p)]
      BY ONLY <2>1, <2>5, <3>1
    <3>3. m2[id] \in Record /\ m2[id].preempted = (v.preempted \/ id \in YieldingSet(b, k, p))
      BY ONLY <2>3, <3>2, v \in Record
    <3>. QED  BY ONLY <3>1, <3>3
  <2>. QED  BY <2>2, <2>5
<1>9. m2 \in [DOMAIN m2 -> Record]
  <2>1. m2 = [id \in DOMAIN m2 |-> m2[id]]
    BY DEF RecordsAfter
  <2>. HIDE DEF m2
  <2>. QED  BY <1>8, <2>1
<1>10. DOMAIN m2 = Ids(q2) \cup Ids(b2)
  <2>. HIDE DEF m2
  <2>. QED  BY <1>5, <1>6, <1>7, <1>8
<1>11. Ids(q2) \cap Ids(b2) = {}
  BY <1>5, <1>6, <1>7
<1>12. Tracked(q2, b2, m2, n)
  <2>. HIDE DEF m2
  <2>. QED  BY <1>5, <1>6, <1>7, <1>8, <1>10, <1>11 DEF Tracked
<1>13. Ordered(q2, m2)
  <2>. HIDE DEF m2
  <2>1. \A i \in 1 .. l : ~m[q[i].id].preempted =>
          /\ l - i < max_waiting
          /\ \A j \in i + 1 .. l : ~m[q[j].id].preempted /\ q[i].id < q[j].id
    BY <1>1 DEF Books, Ordered, InFull
  <2>2. \A i \in 1 .. p : m2[q2[i].id].preempted
    <3> TAKE i \in 1 .. p
    <3>1. q2[i].id \in YieldingSet(b, k, p)
      BY <1>2, <1>3 DEF YieldingSet
    <3>2. q2[i].id \in DOMAIN m2
      BY <1>6, <1>10, <3>1
    <3>. QED  BY <1>8, <3>1, <3>2
  <2>3. \A i \in 1 .. r : a + i \in 1 .. l /\ p + i \in 1 .. p + r
    <3>1. l = a + r
      BY ONLY <1>2, a \in Nat, l \in Nat, c \in Nat, r \in Nat
    <3>. QED  BY ONLY <3>1, a \in Nat, p \in Nat, r \in Nat
  <2>4. ASSUME NEW i \in 1 .. r
        PROVE  m2[q2[p + i].id].preempted = m[q[a + i].id].preempted
    <3>1. q2[p + i].id \in Ids(q2) /\ q[a + i].id \in Ids(q)
      BY <1>1, <1>3, <2>3 DEF Ids, InFull
    <3>2. q2[p + i].id \in DOMAIN m2 /\ q[a + i].id \notin YieldingSet(b, k, p)
      BY <1>6, <1>7, <1>10, <3>1
    <3>3. q[a + i].id \in DOMAIN m
      BY <1>7, <3>1
    <3>4. m[q[a + i].id].preempted \in BOOLEAN
      BY <1>7, <3>3 DEF Record
    <3>5. q2[p + i].id = q[a + i].id
      BY <1>3
    <3>. QED  BY <1>8, <3>2, <3>4, <3>5
  <2>5. \A i \in 1 .. p + r : i \in 1 .. p \/ (i - p \in 1 .. r /\ i = p + (i - p))
    OBVIOUS
  <2>6. ASSUME NEW i \in 1 .. r, ~m2[q2[p + i].id].preempted
        PROVE  /\ p + r - (p + i) < max_waiting
               /\ \A j \in p + i + 1 .. p + r :
                    ~m2[q2[j].id].preempted /\ q2[p + i].id < q2[j].id
    <3>1. a + i \in 1 .. l /\ ~m[q[a + i].id].preempted
      BY <2>3, <2>4, <2>6
    <3>2. /\ l - (a + i) < max_waiting
          /\ \A j \in a + i + 1 .. l : ~m[q[j].id].preempted /\ q[a + i].id < q[j].id
      BY <2>1, <3>1
    <3>3. p + r - (p + i) = l - (a + i)
      BY <1>2
    <3>4. ASSUME NEW j \in p + i + 1 .. p + r
          PROVE  ~m2[q2[j].id].preempted /\ q2[p + i].id < q2[j].id
      <4>1. PICK u \in 1 .. r : j = p + u /\ a + u \in a + i + 1 .. l
        <5>1. j - p \in 1 .. r /\ j = p + (j - p) /\ a + (j - p) \in a + i + 1 .. l
          BY <1>2, <1>3
        <5>. QED  BY <5>1
      <4>2. ~m[q[a + u].id].preempted /\ q[a + i].id < q[a + u].id
        BY <3>2, <4>1
      <4>3. q2[p + i].id = q[a + i].id /\ q2[p + u].id = q[a + u].id
        BY <1>3
      <4>. QED  BY <2>4, <4>1, <4>2, <4>3
    <3>. QED  BY <3>2, <3>3, <3>4
  <2>7. ASSUME NEW i \in 1 .. p + r, ~m2[q2[i].id].preempted
        PROVE  /\ p + r - i < max_waiting
               /\ \A j \in i + 1 .. p + r : ~m2[q2[j].id].preempted /\ q2[i].id < q2[j].id
    <3>1. PICK u \in 1 .. r : i = p + u
      BY <2>2, <2>5, <2>7
    <3>2. ~m2[q2[p + u].id].preempted
      BY <2>7, <3>1
    <3>. QED  BY ONLY <2>6, <3>1, <3>2
  <2>8. DOMAIN q2 = 1 .. p + r /\ Len(q2) = p + r
    BY <1>3
  <2>. QED  BY ONLY <2>7, <2>8 DEF Ordered
<1>14. /\ t2 \in Total
       /\ t2.submitted = t.submitted /\ t2.forks = t.forks
       /\ t2.admitted = t.admitted + a /\ t2.preempted = t.preempted + p
       /\ t2.finished = t.finished + y
  <2>1. PICK z \in Nat : z = Len(d)
    BY <1>3
  <2>2. t2 = TotalsAfter(t, a, p, y, z)
    BY <1>4, <2>1
  <2>. HIDE DEF t2
  <2>3. /\ t.submitted \in Nat /\ t.admitted \in Nat /\ t.finished \in Nat
        /\ t.preempted \in Nat /\ t.forks \in Nat /\ t.tokens_generated \in Nat
        /\ t = [submitted |-> t.submitted, admitted |-> t.admitted, finished |-> t.finished,
                preempted |-> t.preempted, forks |-> t.forks,
                tokens_generated |-> t.tokens_generated]
    BY <1>7 DEF Total
  <2>4. t2 = [submitted |-> t.submitted, admitted |-> t.admitted + a,
              finished |-> t.finished + y, preempted |-> t.preempted + p, forks |-> t.forks,
              tokens_generated |-> t.tokens_generated + z]
    BY ONLY <2>2, <2>3 DEF TotalsAfter
  <2>5. /\ t.admitted + a \in Nat /\ t.finished + y \in Nat /\ t.preempted + p \in Nat
        /\ t.tokens_generated + z \in Nat
    <3>1. \A u, v \in Nat : u + v \in Nat
      OBVIOUS
    <3>. QED  BY ONLY <2>3, <3>1, a \in Nat, p \in Nat, y \in Nat, z \in Nat
  <2>. QED  BY ONLY <2>3, <2>4, <2>5 DEF Total
<1>15. Balance(q2, b2, t2)
  <2>. HIDE DEF t2
  <2>1. t.submitted + t.preempted = t.admitted + l /\ t.admitted + t.forks = t.finished + t.preempted + k
    BY DEF Books, Balance
  <2>2. PICK s1 \in Nat, s2 \in Nat, s3 \in Nat, s4 \in Nat, s5 \in Nat :
          /\ s1 = t.submitted /\ s2 = t.preempted /\ s3 = t.admitted /\ s4 = t.forks
          /\ s5 = t.finished
    BY <1>7 DEF Total
  <2>3. s1 + s2 = s3 + l /\ s3 + s4 = s5 + s2 + k
    BY ONLY <2>1, <2>2
  <2>4. s1 + (s2 + p) = s3 + a + (p + r) /\ s3 + a + s4 = s5 + y + (s2 + p) + x
    <3>1. c \in Nat /\ r \in Nat /\ c = k - p /\ r = l - a /\ x + y = c + a
      BY <1>2, <1>4
    <3>2. l = a + r /\ k = c + p
      BY ONLY <3>1, a \in Nat, p \in Nat, l \in Nat, k \in Nat
    <3>. QED
      BY ONLY <2>3, <3>1, <3>2, a \in Nat, p \in Nat, x \in Nat, y \in Nat,
         s1 \in Nat, s2 \in Nat, s3 \in Nat, s4 \in Nat, s5 \in Nat
  <2>. QED  BY ONLY <1>3, <1>4, <1>14, <2>2, <2>4 DEF Balance
<1>16. Books(q2, b2, m2, n, t2)
  <2>. HIDE DEF m2, t2
  <2>. QED  BY <1>3, <1>7, <1>9, <1>12, <1>13, <1>14, <1>15 DEF Books, BooksTypeOK
<1>. QED  BY <1>16

-----------------------------------------------------------------------------
(* The event log.                                                          *)

\* What Latest leaves is the end of the sequence.
LEMMA LatestIs ==
  ASSUME NEW S, NEW s \in Seq(S), NEW N \in Nat
  PROVE  /\ Latest(s, N) \in Seq(S)
         /\ \E l, d \in Nat :
              /\ l = Len(Latest(s, N)) /\ l + d = Len(s) /\ l <= N
              /\ d = 0 \/ l = N
              /\ \A i \in 1 .. l : Latest(s, N)[i] = s[d + i]
<1>1. PICK c \in Nat : c = Len(s)
  OBVIOUS
<1>2. PICK l \in Nat, d \in Nat : l = (IF c < N THEN c ELSE N) /\ l + d = c /\ (d = 0 \/ l = N)
  <2>1. CASE c < N
    <3>1. c + 0 = c
      OBVIOUS
    <3>. QED  BY <2>1, <3>1
  <2>2. CASE ~(c < N)
    <3>1. c - N \in Nat /\ N + (c - N) = c
      BY <2>2
    <3>. QED  BY <2>2, <3>1
  <2>. QED  BY <2>1, <2>2
<1>3. c - l + 1 = d + 1 /\ l <= N /\ d <= c /\ c - (d + 1) + 1 = l
  BY <1>2
<1>4. Latest(s, N) = SubSeq(s, d + 1, c)
  BY <1>1, <1>2, <1>3 DEF Latest
<1>5. \A j \in d + 1 .. c : s[j] \in S
  BY <1>1
<1>6. /\ SubSeq(s, d + 1, c) \in Seq(S) /\ Len(SubSeq(s, d + 1, c)) = l
      /\ \A i \in 1 .. l : SubSeq(s, d + 1, c)[i] = s[d + i]
  <2>1. SubSeq(s, d + 1, c) \in Seq(S)
    BY <1>1
  <2>2. SubSeq(s, d + 1, c) = [i \in 1 .. l |-> s[i + (d + 1) - 1]]
    BY <1>3
  <2>3. \A i \in 1 .. l : i + (d + 1) - 1 = d + i
    OBVIOUS
  <2>4. Len(SubSeq(s, d + 1, c)) = l
    BY <2>1, <2>2
  <2>. QED  BY <2>1, <2>2, <2>3, <2>4
<1>7. /\ Latest(s, N) \in Seq(S)
      /\ l = Len(Latest(s, N)) /\ l + d = Len(s) /\ l <= N
      /\ d = 0 \/ l = N
      /\ \A i \in 1 .. l : Latest(s, N)[i] = s[d + i]
  BY ONLY <1>1, <1>2, <1>3, <1>4, <1>6
<1>. QED  BY ONLY <1>7, l \in Nat, d \in Nat

\* Forgetting the oldest events leaves the log truthful.
LEMMA LatestFits ==
  ASSUME NEW S, NEW s \in Seq(S), NEW N \in Nat
  PROVE  Latest(s, N) \in Seq(S) /\ Len(Latest(s, N)) <= N
BY LatestIs

LEMMA LatestTruthful ==
  ASSUME NEW q, NEW b, NEW m, NEW n, NEW log \in Seq(Story), Truthful(log, q, b, m, n), NEW N \in Nat
  PROVE  Truthful(Latest(log, N), q, b, m, n)
<1> DEFINE s == Latest(log, N)
<1>1. s \in Seq(Story)
  BY LatestIs
<1>2. PICK l \in Nat, d \in Nat :
        l = Len(s) /\ l + d = Len(log) /\ \A i \in 1 .. l : s[i] = log[d + i]
  BY LatestIs
<1>. HIDE DEF s
<1>3. /\ DOMAIN s = 1 .. l /\ DOMAIN log = 1 .. l + d /\ Len(log) = l + d
  BY <1>1, <1>2
<1>4. \A i \in 1 .. l :
        /\ d + i \in 1 .. l + d
        /\ \A j \in d + i + 1 .. l + d : j - d \in i + 1 .. l /\ j - d \in 1 .. l /\ j = d + (j - d)
  BY <1>2
<1>5. \A i \in 1 .. l + d :
        /\ log[i].seq_id < n
        /\ (\A j \in i + 1 .. l + d : log[j].seq_id # log[i].seq_id) => Tells(log[i], q, b, m)
  BY <1>3 DEF Truthful
<1>6. ASSUME NEW i \in 1 .. l
      PROVE  /\ s[i].seq_id < n
             /\ (\A j \in i + 1 .. l : s[j].seq_id # s[i].seq_id) => Tells(s[i], q, b, m)
  <2>1. s[i] = log[d + i] /\ d + i \in 1 .. l + d
    BY <1>2, <1>4
  <2>2. SUFFICES ASSUME \A j \in i + 1 .. l : s[j].seq_id # s[i].seq_id
                 PROVE  \A j \in d + i + 1 .. l + d : log[j].seq_id # log[d + i].seq_id
    BY <1>5, <2>1
  <2>3. TAKE j \in d + i + 1 .. l + d
  <2>4. j - d \in i + 1 .. l /\ j - d \in 1 .. l /\ j = d + (j - d)
    BY <1>4
  <2>5. s[j - d] = log[j]
    BY <1>2, <2>4
  <2>. QED  BY <2>1, <2>2, <2>4, <2>5
<1>7. Truthful(s, q, b, m, n)
  BY <1>2, <1>3, <1>6 DEF Truthful
<1>. QED  BY <1>7 DEF s

\* New events tell the truth, and of whoever they do not mention nothing changed.
LEMMA LogGrows ==
  ASSUME NEW q, NEW b, NEW m, NEW n \in Nat, NEW log \in Seq(Story), Truthful(log, q, b, m, n),
         NEW q2, NEW b2, NEW m2, NEW n2 \in Nat, n <= n2, NEW new \in Seq(Story),
         Truthful(new, q2, b2, m2, n2),
         \A id \in Nat : id < n /\ (\A i \in DOMAIN new : new[i].seq_id # id) =>
           /\ id \in Ids(q) => id \in Ids(q2)
           /\ id \in Ids(b) => id \in Ids(b2)
           /\ id \notin DOMAIN m => id \notin DOMAIN m2
  PROVE  Truthful(log \o new, q2, b2, m2, n2)
<1> DEFINE s == log \o new
<1>1. PICK c \in Nat, d \in Nat : c = Len(log) /\ d = Len(new)
  OBVIOUS
<1>2. /\ DOMAIN log = 1 .. c /\ DOMAIN new = 1 .. d
      /\ s \in Seq(Story) /\ Len(s) = c + d /\ DOMAIN s = 1 .. c + d
      /\ \A i \in 1 .. c : s[i] = log[i] /\ log[i] \in Story
      /\ \A i \in 1 .. d : s[c + i] = new[i]
  BY <1>1
<1>. HIDE DEF s
<1>3. /\ \A i \in 1 .. c + d : i \in 1 .. c \/ (i - c \in 1 .. d /\ i = c + (i - c))
      /\ \A i \in 1 .. c : \A j \in i + 1 .. c : j \in i + 1 .. c + d /\ j \in 1 .. c
      /\ \A i \in 1 .. c, j \in 1 .. d : c + j \in i + 1 .. c + d
      /\ \A i \in 1 .. d : \A j \in i + 1 .. d : c + j \in c + i + 1 .. c + d /\ j \in 1 .. d
  OBVIOUS
<1>4. \A i \in 1 .. c :
        /\ log[i].seq_id < n
        /\ (\A j \in i + 1 .. c : log[j].seq_id # log[i].seq_id) => Tells(log[i], q, b, m)
  BY <1>1, <1>2 DEF Truthful
<1>5. \A i \in 1 .. d :
        /\ new[i].seq_id < n2
        /\ (\A j \in i + 1 .. d : new[j].seq_id # new[i].seq_id) => Tells(new[i], q2, b2, m2)
  BY <1>1, <1>2 DEF Truthful
<1>6. ASSUME NEW i \in 1 .. c
      PROVE  /\ s[i].seq_id < n2
             /\ (\A j \in i + 1 .. c + d : s[j].seq_id # s[i].seq_id) => Tells(s[i], q2, b2, m2)
  <2>1. PICK e \in Story : e = log[i] /\ e = s[i] /\ e.seq_id \in Nat /\ e.seq_id < n
    BY <1>2, <1>4 DEF Story
  <2>2. e.seq_id < n2
    BY <2>1
  <2>3. ASSUME \A j \in i + 1 .. c + d : s[j].seq_id # e.seq_id
        PROVE  Tells(e, q2, b2, m2)
    <3>1. \A j \in i + 1 .. c : log[j].seq_id # e.seq_id
      BY <1>2, <1>3, <2>3
    <3>2. Tells(e, q, b, m)
      BY <1>4, <2>1, <3>1
    <3>3. \A j \in 1 .. d : new[j].seq_id # e.seq_id
      BY <1>2, <1>3, <2>3
    <3>4. /\ e.seq_id \in Ids(q) => e.seq_id \in Ids(q2)
          /\ e.seq_id \in Ids(b) => e.seq_id \in Ids(b2)
          /\ e.seq_id \notin DOMAIN m => e.seq_id \notin DOMAIN m2
      BY <1>2, <2>1, <3>3
    <3>. QED  BY <3>2, <3>4 DEF Tells, Story, Kinds
  <2>. QED  BY <2>1, <2>2, <2>3
<1>7. ASSUME NEW i \in 1 .. d
      PROVE  /\ s[c + i].seq_id < n2
             /\ (\A j \in c + i + 1 .. c + d : s[j].seq_id # s[c + i].seq_id)
                  => Tells(s[c + i], q2, b2, m2)
  <2>1. s[c + i] = new[i]
    BY <1>2
  <2>2. (\A j \in c + i + 1 .. c + d : s[j].seq_id # new[i].seq_id)
          => \A j \in i + 1 .. d : new[j].seq_id # new[i].seq_id
    BY <1>2, <1>3
  <2>. QED  BY <1>5, <2>1, <2>2
<1>8. \A i \in 1 .. c + d :
        /\ s[i].seq_id < n2
        /\ (\A j \in i + 1 .. c + d : s[j].seq_id # s[i].seq_id) => Tells(s[i], q2, b2, m2)
  <2> TAKE i \in 1 .. c + d
  <2>1. CASE i \in 1 .. c
    BY <1>6, <2>1
  <2>2. CASE i - c \in 1 .. d /\ i = c + (i - c)
    <3>1. PICK u \in 1 .. d : i = c + u
      BY <2>2
    <3>. QED  BY ONLY <1>7, <3>1
  <2>. QED  BY <1>3, <2>1, <2>2
<1>9. Truthful(s, q2, b2, m2, n2)
  BY ONLY <1>2, <1>8 DEF Truthful
<1>. QED  BY <1>9 DEF s

\* Log s tells of sequence id.
Mentions(s, id) == \E i \in DOMAIN s : s[i].seq_id = id

\* Log x reports kind of each of the sequences ids and of no other.
Reports(x, kind, ids) ==
  /\ x \in Seq(Story)
  /\ \A i \in DOMAIN x : x[i].kind = kind /\ x[i].seq_id \in ids
  /\ \A id \in ids : Mentions(x, id)

\* What x, y and z report is so in the state given by q, b, m, n, once z is last.
ReportsFit(q, b, m, n, Adm, Yld, Gone, x, y, z) ==
  /\ Reports(x, "admitted", Adm) /\ Reports(y, "preempted", Yld) /\ Reports(z, "finished", Gone)
  /\ Adm \subseteq Ids(b) \cup Gone /\ Yld \subseteq Ids(q) /\ Gone \cap DOMAIN m = {}
  /\ \A id \in Adm \cup Yld \cup Gone : id < n

\* The events of a step, in the order in which they are logged.
LEMMA StepStory ==
  ASSUME NEW q, NEW b, NEW m, NEW n \in Nat, NEW Adm, NEW Yld, NEW Gone,
         NEW x, NEW y, NEW z, ReportsFit(q, b, m, n, Adm, Yld, Gone, x, y, z),
         NEW s, s = x \o y \o z
  PROVE  Truthful(s, q, b, m, n) /\ s \in Seq(Story)
<1> DEFINE w == x \o y
<1>12. /\ Reports(x, "admitted", Adm) /\ Reports(y, "preempted", Yld) /\ Reports(z, "finished", Gone)
       /\ Adm \subseteq Ids(b) \cup Gone /\ Yld \subseteq Ids(q) /\ Gone \cap DOMAIN m = {}
       /\ \A id \in Adm \cup Yld \cup Gone : id < n
  BY DEF ReportsFit
<1>10. x \in Seq(Story) /\ y \in Seq(Story) /\ z \in Seq(Story)
  BY <1>12 DEF Reports
<1>11. /\ \A i \in DOMAIN x : x[i].kind = "admitted" /\ x[i].seq_id \in Adm
       /\ \A i \in DOMAIN y : y[i].kind = "preempted" /\ y[i].seq_id \in Yld
       /\ \A i \in DOMAIN z : z[i].kind = "finished" /\ z[i].seq_id \in Gone
       /\ \A id \in Gone : \E i \in DOMAIN z : z[i].seq_id = id
  BY <1>12 DEF Reports, Mentions
<1>1. PICK c1 \in Nat, c2 \in Nat, d \in Nat : c1 = Len(x) /\ c2 = Len(y) /\ d = Len(z)
  BY <1>10
<1>2. /\ DOMAIN x = 1 .. c1 /\ DOMAIN y = 1 .. c2 /\ DOMAIN z = 1 .. d
      /\ w \in Seq(Story) /\ Len(w) = c1 + c2 /\ DOMAIN w = 1 .. c1 + c2
      /\ \A i \in 1 .. c1 : w[i] = x[i]
      /\ \A i \in 1 .. c2 : w[c1 + i] = y[i]
  BY ONLY <1>1, <1>10, c1 \in Nat, c2 \in Nat, d \in Nat DEF w
<1>. HIDE DEF w
<1>3. \A i \in 1 .. c1 + c2 :
        \/ w[i].kind = "admitted" /\ w[i].seq_id \in Adm
        \/ w[i].kind = "preempted" /\ w[i].seq_id \in Yld
  <2> TAKE i \in 1 .. c1 + c2
  <2>1. CASE i \in 1 .. c1
    <3>1. w[i] = x[i] /\ i \in DOMAIN x
      BY <1>2, <2>1
    <3>. QED  BY <1>11, <3>1
  <2>2. CASE i - c1 \in 1 .. c2 /\ i = c1 + (i - c1)
    <3>1. PICK u \in 1 .. c2 : i = c1 + u
      BY <2>2
    <3>2. w[i] = y[u] /\ u \in DOMAIN y
      BY <1>2, <3>1
    <3>. QED  BY <1>11, <3>2
  <2>. QED  BY <2>1, <2>2
<1>4. PICK c \in Nat : c = c1 + c2
  OBVIOUS
<1>5. /\ s \in Seq(Story) /\ Len(s) = c + d /\ DOMAIN s = 1 .. c + d
      /\ \A i \in 1 .. c : s[i] = w[i]
      /\ \A i \in 1 .. d : s[c + i] = z[i]
  <2>1. w \in Seq(Story) /\ Len(w) = c /\ Len(z) = d
    BY <1>1, <1>2, <1>4
  <2>2. s = w \o z
    BY DEF w
  <2>3. /\ w \o z \in Seq(Story) /\ Len(w \o z) = c + d /\ DOMAIN (w \o z) = 1 .. c + d
        /\ \A i \in 1 .. c : (w \o z)[i] = w[i]
        /\ \A i \in 1 .. d : (w \o z)[c + i] = z[i]
    BY ONLY <1>10, <2>1, c \in Nat, d \in Nat
  <2>. QED  BY ONLY <2>2, <2>3, Zenon
<1>6. ASSUME NEW i \in 1 .. c
      PROVE  /\ s[i].seq_id < n
             /\ (\A j \in i + 1 .. c + d : s[j].seq_id # s[i].seq_id) => Tells(s[i], q, b, m)
  <2>1. \/ s[i].kind = "admitted" /\ s[i].seq_id \in Adm
        \/ s[i].kind = "preempted" /\ s[i].seq_id \in Yld
    BY <1>3, <1>4, <1>5
  <2>2. s[i].seq_id < n
    BY <1>12, <2>1
  <2>3. ASSUME \A j \in i + 1 .. c + d : s[j].seq_id # s[i].seq_id, s[i].seq_id \in Gone
        PROVE  FALSE
    <3>1. PICK j \in 1 .. d : z[j].seq_id = s[i].seq_id
      BY <1>2, <1>11, <2>3
    <3>2. c + j \in i + 1 .. c + d
      OBVIOUS
    <3>. QED  BY <1>5, <2>3, <3>1, <3>2
  <2>4. (\A j \in i + 1 .. c + d : s[j].seq_id # s[i].seq_id) => Tells(s[i], q, b, m)
    BY <1>12, <2>1, <2>3 DEF Tells
  <2>. QED  BY <2>2, <2>4
<1>7. ASSUME NEW i \in 1 .. d
      PROVE  s[c + i].seq_id < n /\ Tells(s[c + i], q, b, m)
  <2>1. s[c + i] = z[i] /\ i \in DOMAIN z
    BY <1>2, <1>5
  <2>2. z[i].kind = "finished" /\ z[i].seq_id \in Gone
    BY <1>11, <2>1
  <2>. QED  BY <1>12, <2>1, <2>2 DEF Tells
<1>8. ASSUME NEW i \in 1 .. c + d
      PROVE  /\ s[i].seq_id < n
             /\ (\A j \in i + 1 .. c + d : s[j].seq_id # s[i].seq_id) => Tells(s[i], q, b, m)
  <2>1. CASE i \in 1 .. c
    BY <1>6, <2>1
  <2>2. CASE i - c \in 1 .. d /\ i = c + (i - c)
    <3>1. PICK u \in 1 .. d : i = c + u
      BY <2>2
    <3>2. s[c + u].seq_id < n /\ Tells(s[c + u], q, b, m)
      BY <1>7
    <3>. QED  BY ONLY <3>1, <3>2
  <2>3. i \in 1 .. c \/ (i - c \in 1 .. d /\ i = c + (i - c))
    BY ONLY i \in 1 .. c + d, c \in Nat, d \in Nat
  <2>. QED  BY <2>1, <2>2, <2>3
<1>9. Truthful(s, q, b, m, n)
  BY ONLY <1>5, <1>8 DEF Truthful
<1>. QED  BY <1>5, <1>9

-----------------------------------------------------------------------------
(* The scheduler's step, seen that way.                                    *)

LEMMA ConcatIs ==
  ASSUME NEW S, NEW s \in Seq(S), NEW t \in Seq(S), NEW c \in Nat, c = Len(s), NEW d \in Nat, d = Len(t)
  PROVE  /\ s \o t \in Seq(S) /\ Len(s \o t) = c + d /\ DOMAIN (s \o t) = 1 .. c + d
         /\ \A i \in 1 .. c : (s \o t)[i] = s[i]
         /\ \A i \in 1 .. d : (s \o t)[c + i] = t[i]
OBVIOUS

\* d: who gets a token.
DecodedShape(q, b, l, k, a, p, d) ==
  /\ d \in Seq(Running) /\ Len(d) = (k - p) + a
  /\ \A i \in 1 .. k - p : d[i].id = b[i].id
  /\ \A i \in 1 .. a : d[(k - p) + i].id = q[i].id

\* q2: who waits after the step.
QueueShape(q, b, l, k, a, p, q2) ==
  /\ q2 \in Seq(Waiting) /\ Len(q2) = p + (l - a)
  /\ \A i \in 1 .. p : q2[i].id = b[(k - p) + i].id
  /\ \A i \in 1 .. l - a : q2[p + i].id = q[a + i].id

LEMMA DecodedIs ==
  ASSUME queue \in Seq(Waiting), batch \in Seq(Running),
         NEW l \in Nat, l = Len(queue), NEW k \in Nat, k = Len(batch),
         NEW a \in Nat, NEW p \in Nat, a <= l, p <= k
  PROVE  DecodedShape(queue, batch, l, k, a, p, B!Decoded(a, p))
<1>1. PICK c \in Nat : c = k - p
  BY ONLY p \in Nat, k \in Nat, p <= k
<1> DEFINE front == B!Drop(batch, p)
           back == B!Admitted(a)
           staying == front \o back
           d == B!Decoded(a, p)
<1>2. front \in Seq(Running) /\ Len(front) = c /\ \A i \in 1 .. c : front[i] = batch[i]
  BY <1>1 DEF B!Drop
<1>3. /\ back \in Seq(Running) /\ Len(back) = a
      /\ \A i \in 1 .. a : back[i].id = queue[i].id
  <2>1. \A i \in 1 .. a : queue[i] \in Waiting
    OBVIOUS
  <2>3. ASSUME NEW w \in Waiting
        PROVE  [id |-> w.id, len |-> w.len, generated |-> 0, max_new |-> w.max_new] \in Running
    BY DEF Waiting, Running
  <2>2. \A i \in 1 .. a :
          [id |-> queue[i].id, len |-> queue[i].len, generated |-> 0, max_new |-> queue[i].max_new]
            \in Running
    BY <2>1, <2>3
  <2>. QED  BY <2>2 DEF B!Admitted
<1>. HIDE DEF front, back
<1>4. /\ staying \in Seq(Running) /\ Len(staying) = c + a /\ DOMAIN staying = 1 .. c + a
      /\ \A i \in 1 .. c : staying[i] = front[i]
      /\ \A i \in 1 .. a : staying[c + i] = back[i]
  <2>1. /\ front \o back \in Seq(Running) /\ Len(front \o back) = c + a
        /\ \A i \in 1 .. c : (front \o back)[i] = front[i]
        /\ \A i \in 1 .. a : (front \o back)[c + i] = back[i]
    <3>1. PICK u \in Seq(Running), v \in Seq(Running) : u = front /\ v = back
      BY ONLY <1>2, <1>3
    <3>2. Len(u) = c /\ Len(v) = a
      BY ONLY <1>2, <1>3, <3>1
    <3>3. /\ u \o v \in Seq(Running) /\ Len(u \o v) = c + a
          /\ \A i \in 1 .. c : (u \o v)[i] = u[i]
          /\ \A i \in 1 .. a : (u \o v)[c + i] = v[i]
      BY ONLY <3>2, u \in Seq(Running), v \in Seq(Running), c \in Nat, a \in Nat
    <3>. QED  BY ONLY <3>1, <3>3
  <2>2. DOMAIN staying = 1 .. c + a
    BY <2>1
  <2>. QED  BY <2>1, <2>2
<1>5. d = [i \in DOMAIN staying |-> [staying[i] EXCEPT !.len = @ + 1, !.generated = @ + 1]]
  BY DEF B!Decoded, front, back
<1>. HIDE DEF staying, d
<1>6. \A i \in 1 .. c + a : d[i] \in Running /\ d[i].id = staying[i].id
  <2>1. ASSUME NEW r \in Running
        PROVE  /\ [r EXCEPT !.len = @ + 1, !.generated = @ + 1] \in Running
               /\ [r EXCEPT !.len = @ + 1, !.generated = @ + 1].id = r.id
    <3>1. /\ r.id \in Nat /\ r.len \in Nat /\ r.generated \in Int /\ r.max_new \in Int
          /\ r = [id |-> r.id, len |-> r.len, generated |-> r.generated, max_new |-> r.max_new]
      BY DEF Running
    <3>2. PICK x \in Nat, y \in Nat, z \in Int, u \in Int :
            r = [id |-> x, len |-> y, generated |-> z, max_new |-> u]
      BY ONLY <3>1
    <3>3. [r EXCEPT !.len = @ + 1, !.generated = @ + 1]
            = [id |-> x, len |-> y + 1, generated |-> z + 1, max_new |-> u]
      <4>1. [r EXCEPT !.len = @ + 1] = [id |-> x, len |-> y + 1, generated |-> z, max_new |-> u]
        BY ONLY <3>2
      <4>2. PICK q : q = [r EXCEPT !.len = @ + 1]
        OBVIOUS
      <4>3. q = [id |-> x, len |-> y + 1, generated |-> z, max_new |-> u] /\ r.generated = z
        BY ONLY <3>2, <4>1, <4>2
      <4>4. [q EXCEPT !.generated = r.generated + 1]
              = [id |-> x, len |-> y + 1, generated |-> z + 1, max_new |-> u]
        BY ONLY <4>3
      <4>. QED  BY ONLY <4>2, <4>4, Zenon
    <3>4. y + 1 \in Nat /\ z + 1 \in Int
      BY ONLY y \in Nat, z \in Int
    <3>. QED  BY ONLY <3>2, <3>3, <3>4 DEF Running
  <2>2. \A i \in 1 .. c + a : staying[i] \in Running
    BY <1>4
  <2>. QED  BY <1>4, <1>5, <2>1, <2>2
<1>7. d \in Seq(Running) /\ Len(d) = c + a
  <2>2. DOMAIN d = 1 .. c + a /\ d = [i \in DOMAIN d |-> d[i]]
    BY <1>4, <1>5
  <2>1. d = [i \in 1 .. c + a |-> d[i]] /\ c + a \in Nat
    BY <2>2
  <2>. QED  BY <1>6, <2>1
<1>8. \A i \in 1 .. c : i \in 1 .. c + a
  OBVIOUS
<1>9. \A i \in 1 .. a : c + i \in 1 .. c + a
  OBVIOUS
<1>10. \A i \in 1 .. c : d[i].id = batch[i].id
  BY <1>2, <1>4, <1>6, <1>8
<1>11. \A i \in 1 .. a : d[c + i].id = queue[i].id
  BY <1>3, <1>4, <1>6, <1>9
<1>12. DecodedShape(queue, batch, l, k, a, p, d)
  BY <1>1, <1>7, <1>10, <1>11 DEF DecodedShape
<1>. QED  BY <1>12 DEF d

LEMMA QueueIs ==
  ASSUME queue \in Seq(Waiting), batch \in Seq(Running),
         NEW l \in Nat, l = Len(queue), NEW k \in Nat, k = Len(batch),
         NEW a \in Nat, NEW p \in Nat, a <= l, p <= k
  PROVE  QueueShape(queue, batch, l, k, a, p, B!Victims(p) \o SubSeq(queue, a + 1, Len(queue)))
<1>1. PICK c \in Nat, r \in Nat : c = k - p /\ r = l - a
  <2>1. k - p \in Nat /\ l - a \in Nat
    BY ONLY a \in Nat, p \in Nat, k \in Nat, l \in Nat, a <= l, p <= k
  <2>. QED  BY <2>1
<1> DEFINE front == B!Victims(p)
           back == SubSeq(queue, a + 1, Len(queue))
           q2 == front \o back
<1>2. front \in Seq(Waiting) /\ Len(front) = p /\ \A i \in 1 .. p : front[i].id = batch[c + i].id
  <2>1. Len(batch) - p = c
    BY <1>1
  <2>2. \A i \in 1 .. p : batch[c + i] \in Running
    BY <1>1
  <2>4. ASSUME NEW w \in Running
        PROVE  [id |-> w.id, len |-> w.len, max_new |-> w.max_new - w.generated] \in Waiting
    BY DEF Waiting, Running
  <2>3. \A i \in 1 .. p :
          [id |-> batch[c + i].id, len |-> batch[c + i].len,
           max_new |-> batch[c + i].max_new - batch[c + i].generated] \in Waiting
    BY <2>2, <2>4
  <2>5. front = [i \in 1 .. p |-> [id |-> batch[c + i].id, len |-> batch[c + i].len,
                                   max_new |-> batch[c + i].max_new - batch[c + i].generated]]
    BY <2>1 DEF B!Victims
  <2>. HIDE DEF front
  <2>6. \A i \in 1 .. p : front[i] \in Waiting /\ front[i].id = batch[c + i].id
    BY <2>3, <2>5
  <2>7. front \in [1 .. p -> Waiting]
    BY <2>5, <2>6
  <2>. QED  BY <2>6, <2>7
<1>3. back \in Seq(Waiting) /\ Len(back) = r /\ \A i \in 1 .. r : back[i] = queue[a + i]
  <2>1. back = SubSeq(queue, a + 1, l) /\ l - (a + 1) + 1 = r
    BY <1>1
  <2>2. back = [i \in 1 .. r |-> queue[i + (a + 1) - 1]]
    BY <2>1
  <2>3. \A i \in 1 .. r : i + (a + 1) - 1 = a + i
    OBVIOUS
  <2>4. back \in Seq(Waiting)
    OBVIOUS
  <2>. HIDE DEF back
  <2>. QED  BY <2>2, <2>3, <2>4
<1>. HIDE DEF front, back
<1>4. /\ q2 \in Seq(Waiting) /\ Len(q2) = p + r
      /\ \A i \in 1 .. p : q2[i] = front[i]
      /\ \A i \in 1 .. r : q2[p + i] = back[i]
  <2>1. PICK s \in Seq(Waiting), z \in Seq(Waiting) : s = front /\ z = back
    BY <1>2, <1>3
  <2>2. Len(s) = p /\ Len(z) = r
    BY <1>2, <1>3, <2>1
  <2>3. /\ s \o z \in Seq(Waiting) /\ Len(s \o z) = p + r
        /\ \A i \in 1 .. p : (s \o z)[i] = s[i]
        /\ \A i \in 1 .. r : (s \o z)[p + i] = z[i]
    BY ONLY <2>2, s \in Seq(Waiting), z \in Seq(Waiting), p \in Nat, r \in Nat, ConcatIs
  <2>. QED  BY ONLY <2>1, <2>3
<1>. HIDE DEF q2
<1>5. QueueShape(queue, batch, l, k, a, p, q2)
  BY <1>1, <1>2, <1>3, <1>4 DEF QueueShape
<1>. QED  BY <1>5 DEF q2, front, back

LEMMA SubmitTells ==
  ASSUME NEW q, NEW b, NEW m, NEW n, NEW t, Books(q, b, m, n, t),
         NEW log \in Seq(Story), Truthful(log, q, b, m, n),
         NEW r \in Waiting, r.id = n, NEW v, NEW e \in Story, e.seq_id = n, e.kind = "submitted"
  PROVE  Truthful(log \o <<e>>, Append(q, r), b, Extend(m, n, v), n + 1)
<1>1. n \in Nat /\ n + 1 \in Nat /\ n <= n + 1 /\ <<e>> \in Seq(Story) /\ q \in Seq(Waiting)
  BY DEF Books, BooksTypeOK
<1>2. Ids(Append(q, r)) = Ids(q) \cup {n} /\ DOMAIN Extend(m, n, v) = DOMAIN m \cup {n}
  <2>1. PICK l \in Nat : l = Len(q)
    BY <1>1
  <2>2. /\ DOMAIN q = 1 .. l /\ DOMAIN Append(q, r) = 1 .. l + 1
        /\ \A i \in 1 .. l : Append(q, r)[i] = q[i]
        /\ Append(q, r)[l + 1] = r
    BY <1>1, <2>1
  <2>3. \A i \in 1 .. l + 1 : i \in 1 .. l \/ i = l + 1
    OBVIOUS
  <2>4. \A i \in 1 .. l : i \in 1 .. l + 1
    OBVIOUS
  <2>5. l + 1 \in 1 .. l + 1
    OBVIOUS
  <2>. QED  BY <2>2, <2>3, <2>4, <2>5 DEF Ids, Extend
<1>3. Truthful(<<e>>, Append(q, r), b, Extend(m, n, v), n + 1)
  <2>1. DOMAIN <<e>> = {1} /\ <<e>>[1] = e /\ n < n + 1
    BY <1>1
  <2>2. Tells(e, Append(q, r), b, Extend(m, n, v))
    BY <1>2 DEF Tells
  <2>. QED  BY <2>1, <2>2 DEF Truthful
<1>4. ASSUME NEW id \in Nat, id < n
      PROVE  /\ id \in Ids(q) => id \in Ids(Append(q, r))
             /\ id \in Ids(b) => id \in Ids(b)
             /\ id \notin DOMAIN m => id \notin DOMAIN Extend(m, n, v)
  BY <1>1, <1>2, <1>4
<1>. QED
  <2>1. PICK q2, b2, m2, n2, new :
          /\ q2 = Append(q, r) /\ b2 = b /\ m2 = Extend(m, n, v) /\ n2 = n + 1 /\ new = <<e>>
    OBVIOUS
  <2>2. n2 \in Nat /\ n <= n2 /\ new \in Seq(Story) /\ Truthful(new, q2, b2, m2, n2)
    BY <1>1, <1>3, <2>1
  <2>3. \A id \in Nat : id < n =>
          /\ id \in Ids(q) => id \in Ids(q2)
          /\ id \in Ids(b) => id \in Ids(b2)
          /\ id \notin DOMAIN m => id \notin DOMAIN m2
    BY <1>4, <2>1
  <2>4. n \in Nat /\ log \in Seq(Story) /\ Truthful(log, q, b, m, n)
    BY <1>1
  <2>5. Truthful(log \o new, q2, b2, m2, n2)
    BY ONLY <2>2, <2>3, <2>4, LogGrows
  <2>. QED  BY <2>1, <2>5

LEMMA ForkTells ==
  ASSUME NEW q, NEW b, NEW m, NEW n, NEW t, Books(q, b, m, n, t),
         NEW log \in Seq(Story), Truthful(log, q, b, m, n),
         NEW r \in Running, r.id = n, NEW v, NEW e \in Story, e.seq_id = n, e.kind = "forked"
  PROVE  Truthful(log \o <<e>>, q, Append(b, r), Extend(m, n, v), n + 1)
<1>1. n \in Nat /\ n + 1 \in Nat /\ n <= n + 1 /\ <<e>> \in Seq(Story) /\ b \in Seq(Running)
  BY DEF Books, BooksTypeOK
<1>2. Ids(Append(b, r)) = Ids(b) \cup {n} /\ DOMAIN Extend(m, n, v) = DOMAIN m \cup {n}
  <2>1. PICK l \in Nat : l = Len(b)
    BY <1>1
  <2>2. /\ DOMAIN b = 1 .. l /\ DOMAIN Append(b, r) = 1 .. l + 1
        /\ \A i \in 1 .. l : Append(b, r)[i] = b[i]
        /\ Append(b, r)[l + 1] = r
    BY <1>1, <2>1
  <2>3. \A i \in 1 .. l + 1 : i \in 1 .. l \/ i = l + 1
    OBVIOUS
  <2>4. \A i \in 1 .. l : i \in 1 .. l + 1
    OBVIOUS
  <2>5. l + 1 \in 1 .. l + 1
    OBVIOUS
  <2>. QED  BY <2>2, <2>3, <2>4, <2>5 DEF Ids, Extend
<1>3. Truthful(<<e>>, q, Append(b, r), Extend(m, n, v), n + 1)
  <2>1. DOMAIN <<e>> = {1} /\ <<e>>[1] = e /\ n < n + 1
    BY <1>1
  <2>2. Tells(e, q, Append(b, r), Extend(m, n, v))
    BY <1>2 DEF Tells
  <2>. QED  BY <2>1, <2>2 DEF Truthful
<1>4. ASSUME NEW id \in Nat, id < n
      PROVE  /\ id \in Ids(q) => id \in Ids(q)
             /\ id \in Ids(b) => id \in Ids(Append(b, r))
             /\ id \notin DOMAIN m => id \notin DOMAIN Extend(m, n, v)
  BY <1>1, <1>2, <1>4
<1>. QED
  <2>1. PICK q2, b2, m2, n2, new :
          /\ q2 = q /\ b2 = Append(b, r) /\ m2 = Extend(m, n, v) /\ n2 = n + 1 /\ new = <<e>>
    OBVIOUS
  <2>2. n2 \in Nat /\ n <= n2 /\ new \in Seq(Story) /\ Truthful(new, q2, b2, m2, n2)
    BY <1>1, <1>3, <2>1
  <2>3. \A id \in Nat : id < n =>
          /\ id \in Ids(q) => id \in Ids(q2)
          /\ id \in Ids(b) => id \in Ids(b2)
          /\ id \notin DOMAIN m => id \notin DOMAIN m2
    BY <1>4, <2>1
  <2>4. n \in Nat /\ log \in Seq(Story) /\ Truthful(log, q, b, m, n)
    BY <1>1
  <2>5. Truthful(log \o new, q2, b2, m2, n2)
    BY ONLY <2>2, <2>3, <2>4, LogGrows
  <2>. QED  BY <2>1, <2>5

-----------------------------------------------------------------------------
(* The actions.                                                            *)

\* The books are right after the step, and every true log stays true with e.
Continues(e) ==
  /\ Books(queue', batch', meta', next_id', totals')
  /\ e \in Story
  /\ \A log \in Seq(Story) :
       Truthful(log, queue, batch, meta, next_id)
         => Truthful(log \o <<e>>, queue', batch', meta', next_id')

LEMMA SubmitContinues ==
  ASSUME SimInv, NEW origin \in {"user", "traffic"}, NEW sp, NEW len \in Nat,
         NEW new \in Nat, submit(origin, sp, len, new)
  PROVE  Continues(Event(next_id, "submitted"))
<1> DEFINE r == [id |-> next_id, len |-> PrefixLen(sp) + len, max_new |-> new]
           v == [parent |-> NoParent, origin |-> origin, system_prompt |-> sp, preempted |-> FALSE]
           e == Event(next_id, "submitted")
<1>1. /\ queue' = Append(queue, r) /\ batch' = batch /\ next_id' = next_id + 1
      /\ meta' = Extend(meta, next_id, v)
      /\ totals' = [totals EXCEPT !.submitted = @ + 1]
      /\ Len(queue) < max_waiting
  BY DEF submit, B!Submit, CanSubmit
<1>2. Books(queue, batch, meta, next_id, totals) /\ next_id \in Nat /\ tick \in Nat
  BY DEF SimInv, Books, BooksTypeOK
<1>3. sp \in Int /\ PrefixLen(sp) \in Nat
  <2>1. sp \in PromptIds \cup {NoPrompt}
    BY DEF submit, CanSubmit
  <2>2. PICK l \in Nat : l = Len(system_prompts)
    BY SimAssumption
  <2>3. ASSUME sp \in 0 .. l - 1
        PROVE  system_prompts[sp + 1] \in Nat
    BY <2>2, <2>3, SimAssumption
  <2>. QED  BY <2>1, <2>2, <2>3 DEF PromptIds, NoPrompt, PrefixLen
<1>4. r \in Waiting /\ r.id = next_id
  <2>1. PrefixLen(sp) + len \in Nat /\ new \in Int
    BY <1>3
  <2>. QED  BY <1>2, <2>1 DEF Waiting
<1>5. v \in Record /\ v.preempted = FALSE
  BY <1>3 DEF Record, NoParent
<1>6. e \in Story /\ e.seq_id = next_id /\ e.kind = "submitted"
  BY <1>2 DEF Event, Story, Kinds
<1>. HIDE DEF r, v, e
<1>7. Books(queue', batch', meta', next_id', totals')
  BY <1>1, <1>2, <1>4, <1>5, SubmitBooks
<1>8. ASSUME NEW log \in Seq(Story), Truthful(log, queue, batch, meta, next_id)
      PROVE  Truthful(log \o <<e>>, queue', batch', meta', next_id')
  BY <1>1, <1>2, <1>4, <1>6, <1>8, SubmitTells
<1>. QED  BY <1>6, <1>7, <1>8 DEF Continues, e

LEMMA ForkContinues ==
  ASSUME SimInv, NEW origin \in {"user", "traffic"}, NEW i \in DOMAIN batch, fork(i, origin)
  PROVE  Continues(Event(next_id, "forked"))
<1> DEFINE r == [id |-> next_id, len |-> batch[i].len, generated |-> 0,
                 max_new |-> Remaining(batch[i])]
           v == [parent |-> batch[i].id, origin |-> origin,
                 system_prompt |-> meta[batch[i].id].system_prompt, preempted |-> FALSE]
           e == Event(next_id, "forked")
<1>1. /\ queue' = queue /\ batch' = Append(batch, r) /\ next_id' = next_id + 1
      /\ meta' = Extend(meta, next_id, v)
      /\ totals' = [totals EXCEPT !.forks = @ + 1]
  BY DEF fork, B!ForkSequence
<1>2. Books(queue, batch, meta, next_id, totals) /\ next_id \in Nat /\ tick \in Nat
  BY DEF SimInv, Books, BooksTypeOK
<1>3. batch[i] \in Running /\ meta[batch[i].id] \in Record
  <2>1. batch \in Seq(Running) /\ meta \in [DOMAIN meta -> Record]
    BY <1>2 DEF Books, BooksTypeOK
  <2>2. batch[i].id \in DOMAIN meta
    BY <1>2 DEF Books, Tracked, Ids
  <2>. QED  BY <2>1, <2>2
<1>4. r \in Running /\ r.id = next_id
  <2>1. batch[i].len \in Nat /\ Remaining(batch[i]) \in Int
    BY <1>3 DEF Running, Remaining
  <2>. QED  BY <1>2, <2>1 DEF Running
<1>5. v \in Record
  <2>1. batch[i].id \in Nat /\ meta[batch[i].id].system_prompt \in Int
    BY <1>3 DEF Running, Record
  <2>. QED  BY <2>1 DEF Record
<1>6. e \in Story /\ e.seq_id = next_id /\ e.kind = "forked"
  BY <1>2 DEF Event, Story, Kinds
<1>. HIDE DEF r, v, e
<1>7. Books(queue', batch', meta', next_id', totals')
  BY <1>1, <1>2, <1>4, <1>5, ForkBooks
<1>8. ASSUME NEW log \in Seq(Story), Truthful(log, queue, batch, meta, next_id)
      PROVE  Truthful(log \o <<e>>, queue', batch', meta', next_id')
  BY <1>1, <1>2, <1>4, <1>6, <1>8, ForkTells
<1>. QED  BY <1>6, <1>7, <1>8 DEF Continues, e

-----------------------------------------------------------------------------
(* The step of the scheduler, in the session.                              *)

LEMMA ConcatReports ==
  ASSUME NEW x \in Seq(Story), NEW y \in Seq(Story), NEW id,
         Mentions(x, id) \/ Mentions(y, id)
  PROVE  Mentions(x \o y, id)
<1>1. PICK c \in Nat, d \in Nat : c = Len(x) /\ d = Len(y)
  OBVIOUS
<1>2. /\ DOMAIN x = 1 .. c /\ DOMAIN y = 1 .. d /\ DOMAIN (x \o y) = 1 .. c + d
      /\ \A i \in 1 .. c : (x \o y)[i] = x[i]
      /\ \A i \in 1 .. d : (x \o y)[c + i] = y[i]
  BY ONLY <1>1, x \in Seq(Story), y \in Seq(Story), c \in Nat, d \in Nat
<1>3. CASE Mentions(x, id)
  <2>1. PICK i \in 1 .. c : x[i].seq_id = id
    BY <1>2, <1>3 DEF Mentions
  <2>2. i \in 1 .. c + d
    OBVIOUS
  <2>. QED  BY <1>2, <2>1, <2>2 DEF Mentions
<1>4. CASE Mentions(y, id)
  <2>1. PICK i \in 1 .. d : y[i].seq_id = id
    BY <1>2, <1>4 DEF Mentions
  <2>2. c + i \in 1 .. c + d
    OBVIOUS
  <2>. QED  BY <1>2, <2>1, <2>2 DEF Mentions
<1>. QED  BY <1>3, <1>4

\* A step and the log before it; x, y and z report the step.
StepReported(q, b, m, n, t, l, k, a, p, d, b2, over, q2, x, y, z, log, new, all) ==
  /\ Books(q, b, m, n, t) /\ l = Len(q) /\ k = Len(b)
  /\ StepShape(q, b, l, k, a, p, d, b2, over, q2)
  /\ Reports(x, "admitted", AdmittedSet(q, a)) /\ Reports(y, "preempted", YieldingSet(b, k, p))
  /\ Reports(z, "finished", Ids(over))
  /\ log \in Seq(Story) /\ Truthful(log, q, b, m, n)
  /\ new = x \o y \o z /\ all = log \o new

LEMMA StepLog ==
  ASSUME NEW q, NEW b, NEW m, NEW n, NEW t, NEW l \in Nat, NEW k \in Nat,
         NEW a \in Nat, NEW p \in Nat, NEW d, NEW b2, NEW over, NEW q2, NEW x, NEW y, NEW z, NEW log,
         NEW new, NEW all,
         StepReported(q, b, m, n, t, l, k, a, p, d, b2, over, q2, x, y, z, log, new, all)
  PROVE  /\ new \in Seq(Story)
         /\ Truthful(all, q2, b2, RecordsAfter(m, Ids(over), YieldingSet(b, k, p)), n)
<1> DEFINE Adm == AdmittedSet(q, a)
           Yld == YieldingSet(b, k, p)
           Gone == Ids(over)
           m2 == RecordsAfter(m, Gone, Yld)
<1>20. /\ Books(q, b, m, n, t) /\ l = Len(q) /\ k = Len(b)
       /\ StepShape(q, b, l, k, a, p, d, b2, over, q2)
       /\ Reports(x, "admitted", AdmittedSet(q, a)) /\ Reports(y, "preempted", YieldingSet(b, k, p))
       /\ Reports(z, "finished", Ids(over))
       /\ log \in Seq(Story) /\ Truthful(log, q, b, m, n)
       /\ new = x \o y \o z /\ all = log \o new
  BY DEF StepReported
<1>1. InFull(q, b, m, n, t, l, k)
  BY <1>20, BooksFacts
<1>2. RunsOn(q, b, k, a, p, b2, over)
  BY <1>1, <1>20, StepRuns
<1>3. Ids(q2) = Yld \cup (Ids(q) \ Adm) /\ Yld \subseteq Ids(b) /\ Adm \subseteq Ids(q)
  <2>1. InFull(q, b, m, n, t, l, k) /\ StepShape(q, b, l, k, a, p, d, b2, over, q2)
    BY <1>1, <1>20
  <2>2. /\ \A i, j \in DOMAIN q2 : q2[i].id = q2[j].id => i = j
        /\ Ids(q2) = YieldingSet(b, k, p) \cup (Ids(q) \ AdmittedSet(q, a))
        /\ YieldingSet(b, k, p) \subseteq Ids(b) /\ AdmittedSet(q, a) \subseteq Ids(q)
    BY ONLY <2>1, StepWaits, a \in Nat, p \in Nat, l \in Nat, k \in Nat
  <2>. QED  BY <2>2
<1>4. /\ Ids(b2) \cap Gone = {}
      /\ Ids(b2) \cup Gone = (Ids(b) \ Yld) \cup Adm
  BY <1>2 DEF RunsOn
<1>5. /\ n \in Nat /\ DOMAIN m = Ids(q) \cup Ids(b) /\ \A id \in DOMAIN m : id \in Nat /\ id < n
  BY <1>1 DEF InFull
<1>6. DOMAIN m2 = DOMAIN m \ Gone
  BY DEF RecordsAfter
<1>7. /\ x \in Seq(Story) /\ y \in Seq(Story) /\ z \in Seq(Story)
  BY <1>20 DEF Reports
<1>8. Reports(x, "admitted", Adm) /\ Reports(y, "preempted", Yld) /\ Reports(z, "finished", Gone)
  BY <1>20
<1>15. /\ \A id \in Adm : Mentions(x, id)
       /\ \A id \in Yld : Mentions(y, id)
       /\ \A id \in Gone : Mentions(z, id)
  BY <1>20 DEF Reports
<1>. HIDE DEF Adm, Yld, Gone, m2
<1>9. /\ Adm \subseteq Ids(b2) \cup Gone /\ Yld \subseteq Ids(q2) /\ Gone \cap DOMAIN m2 = {}
      /\ \A id \in Adm \cup Yld \cup Gone : id < n
  BY <1>3, <1>4, <1>5, <1>6
<1>10. Truthful(new, q2, b2, m2, n) /\ new \in Seq(Story)
  <2>3. n \in Nat
    BY <1>5
  <2>4. ReportsFit(q2, b2, m2, n, Adm, Yld, Gone, x, y, z)
    BY <1>8, <1>9 DEF ReportsFit
  <2>1. PICK s : s = x \o y \o z
    OBVIOUS
  <2>2. Truthful(s, q2, b2, m2, n) /\ s \in Seq(Story)
    BY ONLY <2>3, <2>4, <2>1, StepStory
  <2>. QED  BY <1>20, <2>1, <2>2
<1>11. ASSUME NEW id \in Adm \cup Yld \cup Gone
       PROVE  Mentions(new, id)
  <2>1. PICK w \in Seq(Story) : w = x \o y
    <3>1. x \o y \in Seq(Story)
      BY <1>7
    <3>. QED  BY <3>1
  <2>2. id \in Adm \cup Yld => Mentions(w, id)
    BY <1>7, <1>15, <2>1, ConcatReports
  <2>3. Mentions(w, id) \/ Mentions(z, id)
    BY <1>15, <2>2
  <2>4. Mentions(w \o z, id)
    BY ONLY <1>7, <2>3, w \in Seq(Story), ConcatReports
  <2>. QED  BY <1>20, <2>1, <2>4
<1>12. ASSUME NEW id \in Nat, id < n, \A i \in DOMAIN new : new[i].seq_id # id
       PROVE  /\ id \in Ids(q) => id \in Ids(q2)
              /\ id \in Ids(b) => id \in Ids(b2)
              /\ id \notin DOMAIN m => id \notin DOMAIN m2
  <2>1. id \notin Adm /\ id \notin Yld /\ id \notin Gone
    BY <1>11, <1>12 DEF Mentions
  <2>. QED  BY <1>3, <1>4, <1>6, <2>1
<1>13. n <= n
  BY <1>5
<1>14. Truthful(log \o new, q2, b2, m2, n)
  BY ONLY <1>5, <1>10, <1>12, <1>13, <1>20, LogGrows
<1>. QED  BY <1>10, <1>14, <1>20 DEF m2, Gone, Yld

LEMMA ReportsIs ==
  ASSUME NEW kind \in Kinds, NEW c \in Nat, NEW ids, DOMAIN ids = 1 .. c,
         NEW S, \A i \in 1 .. c : ids[i] \in Nat /\ ids[i] \in S,
         \A id \in S : \E i \in 1 .. c : ids[i] = id, tick \in Nat
  PROVE  Reports(EventsOf(ids, kind), kind, S)
<1> DEFINE x == EventsOf(ids, kind)
<1>1. x = [i \in 1 .. c |-> [tick |-> tick, seq_id |-> ids[i], kind |-> kind]]
  BY DEF EventsOf, Event
<1>2. \A i \in 1 .. c : [tick |-> tick, seq_id |-> ids[i], kind |-> kind] \in Story
  BY DEF Story
<1>. HIDE DEF x
<1>3. x \in Seq(Story) /\ DOMAIN x = 1 .. c
  BY <1>1, <1>2
<1>4. \A i \in 1 .. c : x[i].kind = kind /\ x[i].seq_id = ids[i]
  BY <1>1
<1>5. \A id \in S : Mentions(x, id)
  BY <1>3, <1>4 DEF Mentions
<1>. QED  BY <1>3, <1>4, <1>5 DEF Reports, x

Over(a, p) == B!Keep(B!Decoded(a, p), {s \in ToSet(B!Decoded(a, p)) : B!Finished(s)})

LEMMA StepShapeIs ==
  ASSUME queue \in Seq(Waiting), batch \in Seq(Running),
         NEW l \in Nat, l = Len(queue), NEW k \in Nat, k = Len(batch),
         NEW a \in Nat, NEW p \in Nat, a <= l, p <= k, B!Step(a, p)
  PROVE  StepShape(queue, batch, l, k, a, p, B!Decoded(a, p), batch', Over(a, p), queue')
<1>1. PICK d : d = B!Decoded(a, p)
  OBVIOUS
<1>2. /\ d \in Seq(Running) /\ Len(d) = (k - p) + a
      /\ \A i \in 1 .. k - p : d[i].id = batch[i].id
      /\ \A i \in 1 .. a : d[(k - p) + i].id = queue[i].id
  <2>1. DecodedShape(queue, batch, l, k, a, p, B!Decoded(a, p))
    BY DecodedIs
  <2>. QED  BY <1>1, <2>1 DEF DecodedShape
<1> DEFINE K == {s \in ToSet(d) : ~B!Finished(s)}
           L == {s \in ToSet(d) : B!Finished(s)}
           q2 == B!Victims(p) \o SubSeq(queue, a + 1, Len(queue))
<1>3. batch' = B!Keep(d, K) /\ Over(a, p) = B!Keep(d, L) /\ queue' = q2
  <2>1. batch' = B!Keep(B!Decoded(a, p), {s \in ToSet(B!Decoded(a, p)) : ~B!Finished(s)})
    BY DEF B!Step, ToSet, B!ToSet
  <2>2. queue' = q2
    BY DEF B!Step
  <2>. QED  BY <1>1, <2>1, <2>2 DEF Over
<1>4. \A i \in DOMAIN d : d[i] \in K <=> d[i] \notin L
  BY DEF ToSet
<1>. HIDE DEF K, L
<1>5. /\ q2 \in Seq(Waiting) /\ Len(q2) = p + (l - a)
      /\ \A i \in 1 .. p : q2[i].id = batch[(k - p) + i].id
      /\ \A i \in 1 .. l - a : q2[p + i].id = queue[a + i].id
  <2>1. QueueShape(queue, batch, l, k, a, p, q2)
    BY QueueIs
  <2>. QED  BY <2>1 DEF QueueShape
<1>. HIDE DEF q2
<1>6. PICK b2, over : b2 = B!Keep(d, K) /\ over = B!Keep(d, L)
  OBVIOUS
<1>7. b2 \in Seq(Running) /\ \E e : Picks(d, K, Len(d), b2, e)
  BY <1>2, <1>6, KeepPicks
<1>8. over \in Seq(Running) /\ \E f : Picks(d, L, Len(d), over, f)
  BY <1>2, <1>6, KeepPicks
<1>9. \E x, y \in Nat : x = Len(b2) /\ y = Len(over) /\ x + y = (k - p) + a
  <2>1. Len(b2) + Len(over) = Len(d)
    BY <1>2, <1>4, <1>6, KeepSplit
  <2>2. PICK x \in Nat, y \in Nat : x = Len(b2) /\ y = Len(over)
    BY <1>7, <1>8
  <2>. QED  BY <1>2, <2>1, <2>2
<1>10. StepShape(queue, batch, l, k, a, p, d, b2, over, q2)
  <2>1. \E K_, L_, e, f :
          /\ \A i \in DOMAIN d : d[i] \in K_ <=> d[i] \notin L_
          /\ Picks(d, K_, Len(d), b2, e) /\ Picks(d, L_, Len(d), over, f)
    BY <1>4, <1>7, <1>8
  <2>. QED  BY <1>2, <1>5, <1>7, <1>8, <1>9, <2>1 DEF StepShape
<1>. QED  BY <1>1, <1>3, <1>6, <1>10

LEMMA FinishedReports ==
  ASSUME tick \in Nat, NEW a, NEW p, Over(a, p) \in Seq(Running)
  PROVE  /\ Reports(EventsOf(FinishedIds(a, p), "finished"), "finished", Ids(Over(a, p)))
         /\ ToSet(FinishedIds(a, p)) = Ids(Over(a, p))
         /\ Len(FinishedIds(a, p)) = Len(Over(a, p))
<1>1. PICK over \in Seq(Running), c \in Nat : over = Over(a, p) /\ c = Len(over)
  OBVIOUS
<1>2. FinishedIds(a, p) = [i \in DOMAIN over |-> over[i].id]
  BY <1>1 DEF FinishedIds, Over
<1>3. PICK ids : ids = [i \in 1 .. c |-> over[i].id] /\ ids = FinishedIds(a, p)
  BY <1>1, <1>2
<1>4. \A i \in 1 .. c : over[i].id \in Nat
  <2>1. \A i \in 1 .. c : over[i] \in Running
    BY <1>1
  <2>. QED  BY <2>1 DEF Running
<1>5. ids \in Seq(Nat) /\ Len(ids) = c /\ DOMAIN ids = 1 .. c
  BY <1>3, <1>4
<1>6. Ids(over) = {over[i].id : i \in 1 .. c}
  BY <1>1 DEF Ids
<1>7. ToSet(ids) = Ids(over)
  <2>1. \A i \in 1 .. c : ids[i] = over[i].id
    BY <1>3
  <2>2. ToSet(ids) = {ids[i] : i \in 1 .. c}
    BY <1>5 DEF ToSet
  <2>. QED  BY <1>6, <2>1, <2>2
<1>8. Reports(EventsOf(ids, "finished"), "finished", Ids(over))
  <2>1. /\ \A i \in 1 .. c : ids[i] \in Nat /\ ids[i] \in Ids(over)
        /\ \A id \in Ids(over) : \E i \in 1 .. c : ids[i] = id
    BY <1>3, <1>4, <1>6
  <2>2. "finished" \in Kinds
    BY DEF Kinds
  <2>. QED  BY <1>5, <2>1, <2>2, ReportsIs
<1>. QED  BY <1>1, <1>3, <1>5, <1>7, <1>8

LEMMA AdmittedReports ==
  ASSUME tick \in Nat, queue \in Seq(Waiting), NEW l \in Nat, l = Len(queue), NEW a \in Nat, a <= l
  PROVE  Reports(EventsOf(AdmittedIds(a), "admitted"), "admitted", AdmittedSet(queue, a))
<1>1. PICK ids : ids = [i \in 1 .. a |-> queue[i].id] /\ ids = AdmittedIds(a)
  BY DEF AdmittedIds
<1>2. \A i \in 1 .. a : queue[i].id \in Nat
  <2>1. \A i \in 1 .. a : queue[i] \in Waiting
    OBVIOUS
  <2>. QED  BY <2>1 DEF Waiting
<1>3. /\ DOMAIN ids = 1 .. a
      /\ \A i \in 1 .. a : ids[i] \in Nat /\ ids[i] \in AdmittedSet(queue, a)
      /\ \A id \in AdmittedSet(queue, a) : \E i \in 1 .. a : ids[i] = id
  BY <1>1, <1>2 DEF AdmittedSet
<1>4. "admitted" \in Kinds
  BY DEF Kinds
<1>. QED  BY <1>1, <1>3, <1>4, ReportsIs

LEMMA PreemptedReports ==
  ASSUME tick \in Nat, batch \in Seq(Running), NEW k \in Nat, k = Len(batch), NEW p \in Nat, p <= k
  PROVE  /\ Reports(EventsOf(PreemptedIds(p), "preempted"), "preempted", YieldingSet(batch, k, p))
         /\ ToSet(PreemptedIds(p)) = YieldingSet(batch, k, p)
<1>1. PICK ids : ids = [i \in 1 .. p |-> batch[k + 1 - i].id] /\ ids = PreemptedIds(p)
  BY DEF PreemptedIds
<1>2. \A i \in 1 .. p : k + 1 - i \in 1 .. k /\ (k - p) + i \in 1 .. k
  OBVIOUS
<1>3. \A i \in 1 .. p : p + 1 - i \in 1 .. p /\ (k - p) + (p + 1 - i) = k + 1 - i
                        /\ k + 1 - (p + 1 - i) = (k - p) + i
  OBVIOUS
<1>4. \A i \in 1 .. k : batch[i].id \in Nat
  <2>1. \A i \in 1 .. k : batch[i] \in Running
    OBVIOUS
  <2>. QED  BY <2>1 DEF Running
<1>5. DOMAIN ids = 1 .. p /\ \A i \in 1 .. p : ids[i] = batch[k + 1 - i].id
  BY <1>1
<1>6. ASSUME NEW i \in 1 .. p
      PROVE  ids[i] \in Nat /\ ids[i] \in YieldingSet(batch, k, p)
  <2>1. ids[i] = batch[k + 1 - i].id /\ k + 1 - i \in 1 .. k
    BY <1>2, <1>5
  <2>2. PICK j \in 1 .. p : (k - p) + j = k + 1 - i
    BY <1>3
  <2>3. ids[i] = batch[(k - p) + j].id
    BY <2>1, <2>2
  <2>. QED  BY <1>4, <2>1, <2>3 DEF YieldingSet
<1>7. ASSUME NEW id \in YieldingSet(batch, k, p)
      PROVE  \E i \in 1 .. p : ids[i] = id
  <2>1. PICK j \in 1 .. p : id = batch[(k - p) + j].id
    BY DEF YieldingSet
  <2>2. PICK i \in 1 .. p : k + 1 - i = (k - p) + j
    BY <1>3
  <2>3. ids[i] = batch[k + 1 - i].id
    BY <1>5
  <2>. QED  BY <2>1, <2>2, <2>3
<1>8. ToSet(ids) = YieldingSet(batch, k, p)
  BY <1>5, <1>6, <1>7 DEF ToSet
<1>9. Reports(EventsOf(ids, "preempted"), "preempted", YieldingSet(batch, k, p))
  <2>1. "preempted" \in Kinds
    BY DEF Kinds
  <2>. QED  BY <1>5, <1>6, <1>7, <2>1, ReportsIs
<1>. QED  BY <1>1, <1>8, <1>9

LEMMA StepContinues ==
  ASSUME SimInv, NEW a \in 0 .. Len(queue), NEW p \in 0 .. Len(batch), SchedulerStep(a, p)
  PROVE  SimInv'
<1>1. /\ Books(queue, batch, meta, next_id, totals)
      /\ queue \in Seq(Waiting) /\ batch \in Seq(Running) /\ tick \in Nat
      /\ events \in Seq(Story) /\ fresh \in Seq(Story)
      /\ Truthful(events \o fresh, queue, batch, meta, next_id)
  BY DEF SimInv, Books, BooksTypeOK
<1>2. PICK l \in Nat, k \in Nat : l = Len(queue) /\ k = Len(batch)
  BY <1>1
<1>3. a \in Nat /\ p \in Nat /\ a <= l /\ p <= k
  BY <1>2
<1>4. PICK d, over : d = B!Decoded(a, p) /\ over = Over(a, p)
  OBVIOUS
<1>5. StepShape(queue, batch, l, k, a, p, d, batch', over, queue')
  <2>1. B!Step(a, p)
    BY DEF SchedulerStep
  <2>2. StepShape(queue, batch, l, k, a, p, B!Decoded(a, p), batch', Over(a, p), queue')
    BY ONLY <1>1, <1>2, <1>3, <2>1, StepShapeIs, l \in Nat, k \in Nat
  <2>. QED  BY <1>4, <2>2
<1>6. over \in Seq(Running)
  BY <1>5 DEF StepShape
<1> DEFINE x == EventsOf(AdmittedIds(a), "admitted")
           y == EventsOf(PreemptedIds(p), "preempted")
           z == EventsOf(FinishedIds(a, p), "finished")
           new == x \o y \o z
<1>7. /\ Reports(z, "finished", Ids(over)) /\ ToSet(FinishedIds(a, p)) = Ids(over)
      /\ Len(FinishedIds(a, p)) = Len(over)
  BY <1>1, <1>4, <1>6, FinishedReports
<1>8. Reports(x, "admitted", AdmittedSet(queue, a))
  BY ONLY <1>1, <1>2, <1>3, l \in Nat, AdmittedReports
<1>9. Reports(y, "preempted", YieldingSet(batch, k, p)) /\ ToSet(PreemptedIds(p)) = YieldingSet(batch, k, p)
  BY ONLY <1>1, <1>2, <1>3, k \in Nat, PreemptedReports
<1>10. /\ meta' = RecordsAfter(meta, Ids(over), YieldingSet(batch, k, p))
       /\ totals' = TotalsAfter(totals, a, p, Len(over), Len(d))
       /\ next_id' = next_id /\ tick' = tick /\ fresh' = <<>> /\ at' = "idle"
       /\ events' = Latest(events \o (fresh \o new), EVENT_LOG_LEN)
  <2>1. meta' = RecordsAfter(meta, Ids(over), YieldingSet(batch, k, p))
    BY <1>7, <1>9 DEF SchedulerStep, record_meta, RecordsAfter
  <2>2. totals' = TotalsAfter(totals, a, p, Len(over), Len(d))
    BY <1>4, <1>7 DEF SchedulerStep, record_totals, TotalsAfter
  <2>3. StepEvents(a, p) = new
    BY DEF StepEvents
  <2>4. /\ next_id' = next_id /\ tick' = tick /\ fresh' = <<>> /\ at' = "idle"
        /\ Log(fresh \o StepEvents(a, p))
    BY DEF SchedulerStep
  <2>. QED  BY <2>1, <2>2, <2>3, <2>4 DEF Log
<1>. HIDE DEF x, y, z
<1>11. Books(queue', batch', meta', next_id', totals')
  <2>1. PICK q2, b2 : q2 = queue' /\ b2 = batch'
    OBVIOUS
  <2>2. Books(q2, b2, RecordsAfter(meta, Ids(over), YieldingSet(batch, k, p)), next_id,
              TotalsAfter(totals, a, p, Len(over), Len(d)))
    <3>1. StepShape(queue, batch, l, k, a, p, d, b2, over, q2)
      BY <1>5, <2>1
    <3>. QED  BY ONLY <1>1, <1>2, <1>3, <3>1, l \in Nat, k \in Nat, StepBooks
  <2>. QED  BY <1>10, <2>1, <2>2
<1>12. new \in Seq(Story) /\ Truthful((events \o fresh) \o new, queue', batch', meta', next_id')
  <2>1. PICK q2, b2 : q2 = queue' /\ b2 = batch'
    OBVIOUS
  <2>2. events \o fresh \in Seq(Story)
    BY <1>1
  <2>4. PICK log, s, all : log = events \o fresh /\ s = x \o y \o z /\ all = log \o s
    OBVIOUS
  <2>3. /\ s \in Seq(Story)
        /\ Truthful(all, q2, b2, RecordsAfter(meta, Ids(over), YieldingSet(batch, k, p)), next_id)
    <3>1. StepShape(queue, batch, l, k, a, p, d, b2, over, q2)
      BY <1>5, <2>1
    <3>2. log \in Seq(Story) /\ Truthful(log, queue, batch, meta, next_id)
      BY <1>1, <2>2, <2>4
    <3>3. StepReported(queue, batch, meta, next_id, totals, l, k, a, p, d, b2, over, q2, x, y, z, log,
                      s, all)
      BY <1>1, <1>2, <1>7, <1>8, <1>9, <2>4, <3>1, <3>2 DEF StepReported
    <3>. QED  BY ONLY <1>3, <3>3, l \in Nat, k \in Nat, StepLog
  <2>. QED  BY <1>10, <2>1, <2>3, <2>4
<1>. HIDE DEF new
<1>13. (events \o fresh) \o new = events \o (fresh \o new)
  BY <1>1, <1>12, ConcatAssociative
<1>14. events \o (fresh \o new) \in Seq(Story)
  BY <1>1, <1>12
<1>15. EVENT_LOG_LEN \in Nat
  BY SimAssumption
<1>16. events' \in Seq(Story) /\ Len(events') <= EVENT_LOG_LEN /\ Truthful(events', queue', batch', meta', next_id')
  <2>1. PICK log \in Seq(Story) : log = events \o (fresh \o new)
    BY <1>14
  <2>2. events' = Latest(log, EVENT_LOG_LEN) /\ Truthful(log, queue', batch', meta', next_id')
    BY <1>10, <1>12, <1>13, <2>1
  <2>. QED  BY <1>15, <2>2, LatestFits, LatestTruthful
<1>17. events' \o fresh' = events'
  BY <1>10, <1>16
<1>. QED  BY <1>1, <1>10, <1>11, <1>16, <1>17 DEF SimInv

-----------------------------------------------------------------------------
(* The other actions of the session.                                       *)

LEMMA EmptyBooks ==
  Books(<<>>, <<>>, <<>>, 1, Zero) /\ Truthful(<<>>, <<>>, <<>>, <<>>, 1)
<1>1. DOMAIN <<>> = {} /\ Len(<<>>) = 0 /\ Ids(<<>>) = {}
  BY DEF Ids
<1>2. <<>> \in Seq(Waiting) /\ <<>> \in Seq(Running) /\ <<>> \in [DOMAIN <<>> -> Record]
  BY <1>1
<1>3. Zero \in Total
  BY DEF Zero, Total
<1>4. BooksTypeOK(<<>>, <<>>, <<>>, 1, Zero)
  BY <1>2, <1>3 DEF BooksTypeOK
<1>5. Balance(<<>>, <<>>, Zero)
  BY <1>1 DEF Balance, Zero
<1>6. Tracked(<<>>, <<>>, <<>>, 1) /\ Ordered(<<>>, <<>>) /\ Truthful(<<>>, <<>>, <<>>, <<>>, 1)
  BY <1>1 DEF Tracked, Ordered, Truthful
<1>. QED  BY <1>4, <1>5, <1>6 DEF Books

LEMMA SimInitInv ==
  ASSUME SimInit
  PROVE  SimInv
<1>1. events \o fresh = <<>> /\ <<>> \in Seq(Story)
  BY DEF SimInit
<1>2. Len(<<>>) <= EVENT_LOG_LEN
  BY SimAssumption
<1>. QED  BY <1>1, <1>2, EmptyBooks DEF SimInit, SimInv

\* What is not about the sequences changes.
LEMMA FrameInv ==
  ASSUME SimInv, UNCHANGED <<queue, batch, meta, next_id, totals, events, fresh>>, tick' \in Nat,
         at' = at \/ at' \in {"traffic", "fork", "step"}
  PROVE  SimInv'
BY DEF SimInv

LEMMA StartInv ==
  ASSUME SimInv, at = "idle", Start, UNCHANGED <<queue, batch, meta, next_id, totals, events>>
  PROVE  SimInv'
<1>1. fresh' = fresh /\ tick' \in Nat /\ at' \in {"traffic", "step"}
  BY DEF SimInv, Start
<1>. QED  BY <1>1, FrameInv

LEMMA FreshGrows ==
  ASSUME SimInv, NEW e, Continues(e), fresh' = Append(fresh, e), events' = events, tick' = tick,
         at' \in {"traffic", "fork", "step"}
  PROVE  SimInv'
<1>1. /\ events \in Seq(Story) /\ fresh \in Seq(Story) /\ Len(events) <= EVENT_LOG_LEN /\ tick \in Nat
      /\ Truthful(events \o fresh, queue, batch, meta, next_id)
  BY DEF SimInv
<1>2. /\ Books(queue', batch', meta', next_id', totals') /\ e \in Story
      /\ \A log \in Seq(Story) :
           Truthful(log, queue, batch, meta, next_id)
             => Truthful(log \o <<e>>, queue', batch', meta', next_id')
  BY DEF Continues
<1>3. events \o fresh \in Seq(Story) /\ <<e>> \in Seq(Story) /\ Append(fresh, e) \in Seq(Story)
  BY <1>1, <1>2
<1>4. Truthful((events \o fresh) \o <<e>>, queue', batch', meta', next_id')
  BY <1>1, <1>2, <1>3
<1>5. (events \o fresh) \o <<e>> = events \o Append(fresh, e)
  <2>1. Append(fresh, e) = fresh \o <<e>>
    BY <1>1, <1>2, AppendIsConcat
  <2>2. (events \o fresh) \o <<e>> = events \o (fresh \o <<e>>)
    BY <1>1, <1>3, ConcatAssociative
  <2>. QED  BY <2>1, <2>2
<1>. QED  BY <1>1, <1>2, <1>3, <1>4, <1>5 DEF SimInv

LEMMA TrafficRequestInv ==
  ASSUME SimInv, TrafficRequest
  PROVE  SimInv'
<1>1. tick \in Nat
  BY DEF SimInv
<1>2. CASE UNCHANGED <<queue, batch, records, fresh>>
  BY <1>1, <1>2, FrameInv DEF TrafficRequest, records
<1>3. CASE \E sp \in PromptIds \cup {NoPrompt}, len \in TrafficLen, new \in TrafficNew :
             /\ submit("traffic", sp, len, new)
             /\ fresh' = Append(fresh, Event(next_id, "submitted"))
  <2>1. PICK sp \in PromptIds \cup {NoPrompt}, len \in TrafficLen, new \in TrafficNew :
          /\ submit("traffic", sp, len, new)
          /\ fresh' = Append(fresh, Event(next_id, "submitted"))
    BY <1>3
  <2>2. len \in Nat /\ new \in Nat
    BY SimAssumption
  <2>3. Continues(Event(next_id, "submitted"))
    BY <2>1, <2>2, SubmitContinues
  <2>4. at' = "fork" /\ tick' = tick /\ events' = events
    BY DEF TrafficRequest
  <2>. QED  BY <2>1, <2>3, <2>4, FreshGrows
<1>. QED  BY <1>2, <1>3 DEF TrafficRequest

LEMMA TrafficForkInv ==
  ASSUME SimInv, TrafficFork
  PROVE  SimInv'
<1>1. tick \in Nat
  BY DEF SimInv
<1>2. CASE UNCHANGED <<queue, batch, records, fresh>>
  BY <1>1, <1>2, FrameInv DEF TrafficFork, records
<1>3. CASE \E i \in DOMAIN batch :
             fork(i, "traffic") /\ fresh' = Append(fresh, Event(next_id, "forked"))
  <2>1. PICK i \in DOMAIN batch :
          fork(i, "traffic") /\ fresh' = Append(fresh, Event(next_id, "forked"))
    BY <1>3
  <2>2. Continues(Event(next_id, "forked"))
    BY <2>1, ForkContinues
  <2>3. at' = "step" /\ tick' = tick /\ events' = events
    BY DEF TrafficFork
  <2>. QED  BY <2>1, <2>2, <2>3, FreshGrows
<1>. QED  BY <1>2, <1>3 DEF TrafficFork

LEMMA AdvanceInv ==
  ASSUME SimInv, AdvanceStep
  PROVE  SimInv'
BY TrafficRequestInv, TrafficForkInv, StepContinues DEF AdvanceStep

LEMMA CreatedInv ==
  ASSUME SimInv, at = "idle", NEW id, NEW kind, Continues(Event(next_id, kind)), Created(id, kind)
  PROVE  SimInv'
<1> DEFINE e == Event(next_id, kind)
<1>1. /\ events' = Latest(events \o <<e>>, EVENT_LOG_LEN)
      /\ tick' = tick /\ at' = at /\ fresh' = fresh
  BY DEF Created, Log
<1>2. /\ events \in Seq(Story) /\ fresh = <<>> /\ tick \in Nat
      /\ Truthful(events \o fresh, queue, batch, meta, next_id)
  BY DEF SimInv
<1>3. /\ Books(queue', batch', meta', next_id', totals') /\ e \in Story
      /\ \A log \in Seq(Story) :
           Truthful(log, queue, batch, meta, next_id)
             => Truthful(log \o <<e>>, queue', batch', meta', next_id')
  BY DEF Continues
<1>. HIDE DEF e
<1>4. events \o fresh = events
  BY <1>2
<1>5. PICK log \in Seq(Story) : log = events \o <<e>>
  <2>1. events \o <<e>> \in Seq(Story)
    BY <1>2, <1>3
  <2>. QED  BY <2>1
<1>6. Truthful(log, queue', batch', meta', next_id') /\ events' = Latest(log, EVENT_LOG_LEN)
  BY <1>1, <1>2, <1>3, <1>4, <1>5
<1>7. EVENT_LOG_LEN \in Nat
  BY SimAssumption
<1>8. events' \in Seq(Story) /\ Len(events') <= EVENT_LOG_LEN /\ Truthful(events', queue', batch', meta', next_id')
  BY <1>6, <1>7, LatestFits, LatestTruthful
<1>9. events' \o fresh' = events'
  BY <1>1, <1>2, <1>8
<1>. QED  BY <1>1, <1>2, <1>3, <1>8, <1>9 DEF SimInv

LEMMA HandleInv ==
  ASSUME SimInv, NEW id, NEW c \in Commands, handle(id, c)
  PROVE  SimInv'
<1>1. at = "idle" /\ tick \in Nat /\ c \in Command
  BY SimAssumption DEF handle, SimInv
<1>2. ASSUME NEW refused, RejectWhen(id, refused)
      PROVE  SimInv'
  <2>1. UNCHANGED <<queue, batch, meta, next_id, totals, events, fresh>> /\ tick' = tick /\ at' = at
    BY <1>2 DEF RejectWhen, records
  <2>. QED  BY <1>1, <2>1, FrameInv
<1>3. CASE AddRequest(id, c)
  <2>1. CASE RejectWhen(id, ~CanSubmit(c.system_prompt, c.prompt_len, c.max_new_tokens))
    BY <1>2, <2>1
  <2>2. CASE /\ submit("user", c.system_prompt, c.prompt_len, c.max_new_tokens)
             /\ Created(id, "submitted")
    <3>1. c.prompt_len \in Nat /\ c.max_new_tokens \in Nat
      BY <1>1, <1>3 DEF AddRequest, Command
    <3>2. Continues(Event(next_id, "submitted"))
      BY <2>2, <3>1, SubmitContinues
    <3>. QED  BY <1>1, <2>2, <3>2, CreatedInv
  <2>. QED  BY <1>3, <2>1, <2>2 DEF AddRequest
<1>4. CASE ForkRunning(id, c)
  <2>1. CASE RejectWhen(id, ~\E i \in DOMAIN batch : batch[i].id = c.seq_id /\ CanFork(i))
    BY <1>2, <2>1
  <2>2. CASE /\ \E i \in DOMAIN batch : batch[i].id = c.seq_id /\ fork(i, "user")
             /\ Created(id, "forked")
    <3>1. PICK i \in DOMAIN batch : fork(i, "user")
      BY <2>2
    <3>2. Continues(Event(next_id, "forked"))
      BY <3>1, ForkContinues
    <3>. QED  BY <1>1, <2>2, <3>2, CreatedInv
  <2>. QED  BY <1>4, <2>1, <2>2 DEF ForkRunning
<1>5. CASE Pause(id, c) \/ Resume(id, c) \/ SetTraffic(id, c)
  <2>1. UNCHANGED <<queue, batch, meta, next_id, totals, events, fresh>> /\ tick' = tick /\ at' = at
    BY <1>5 DEF Pause, Resume, SetTraffic, Changed, records
  <2>. QED  BY <1>1, <2>1, FrameInv
<1>6. CASE StepOnce(id, c)
  <2>1. CASE RejectWhen(id, ~paused)
    BY <1>2, <2>1
  <2>2. CASE Start /\ UNCHANGED <<queue, batch, controls, records, history, events>>
    BY <1>1, <2>2, StartInv DEF records
  <2>. QED  BY <1>6, <2>1, <2>2 DEF StepOnce
<1>7. CASE Reset(id, c) \/ SetPrefixCaching(id, c)
  <2>1. /\ queue' = <<>> /\ batch' = <<>> /\ tick' = 0 /\ next_id' = 1 /\ meta' = <<>>
        /\ totals' = Zero /\ events' = <<>> /\ at' = at /\ fresh' = fresh
    BY <1>7 DEF Reset, SetPrefixCaching, Restarted, restart
  <2>2. fresh = <<>>
    BY <1>1 DEF SimInv
  <2>3. <<>> \o <<>> = <<>> /\ <<>> \in Seq(Story) /\ Len(<<>>) <= EVENT_LOG_LEN
    BY SimAssumption
  <2>. QED  BY <1>1, <2>1, <2>2, <2>3, EmptyBooks DEF SimInv
<1>. QED  BY <1>3, <1>4, <1>5, <1>6, <1>7 DEF handle

LEMMA SimNextInv ==
  ASSUME SimInv, [SimNext]_simVars
  PROVE  SimInv'
<1>1. tick \in Nat
  BY DEF SimInv
<1>2. CASE Tick
  BY <1>2, StartInv DEF Tick, Calm, records
<1>3. CASE AdvanceStep
  BY <1>3, AdvanceInv
<1>4. CASE Sent \/ UNCHANGED simVars
  <2>1. UNCHANGED <<queue, batch, meta, next_id, totals, events, fresh>> /\ tick' = tick /\ at' = at
    BY <1>4 DEF Sent, simVars, records
  <2>. QED  BY <1>1, <2>1, FrameInv
<1>5. CASE Calm /\ \E c \in Commands : handle(0, c)
  BY <1>5, HandleInv
<1>. QED  BY <1>2, <1>3, <1>4, <1>5 DEF SimNext

LEMMA JoinedIds ==
  ASSUME SimInv
  PROVE  /\ Ids(batch \o queue) = Ids(batch) \cup Ids(queue)
         /\ IsInjective(IdSeq(batch \o queue))
<1>1. /\ queue \in Seq(Waiting) /\ batch \in Seq(Running)
      /\ \A i, j \in DOMAIN queue : queue[i].id = queue[j].id => i = j
      /\ \A i, j \in DOMAIN batch : batch[i].id = batch[j].id => i = j
      /\ Ids(queue) \cap Ids(batch) = {}
  BY DEF SimInv, Books, BooksTypeOK, Tracked
<1>2. PICK k \in Nat, l \in Nat : k = Len(batch) /\ l = Len(queue)
  BY <1>1
<1>3. PICK s : s = batch \o queue
  OBVIOUS
<1>4. /\ DOMAIN batch = 1 .. k /\ DOMAIN queue = 1 .. l /\ DOMAIN s = 1 .. k + l
      /\ \A i \in 1 .. k : s[i] = batch[i]
      /\ \A i \in 1 .. l : s[k + i] = queue[i]
  <2>1. PICK S : S = Waiting \cup Running
    OBVIOUS
  <2>2. batch \in Seq(S) /\ queue \in Seq(S)
    BY <1>1, <2>1
  <2>3. /\ DOMAIN (batch \o queue) = 1 .. k + l
        /\ \A i \in 1 .. k : (batch \o queue)[i] = batch[i]
        /\ \A i \in 1 .. l : (batch \o queue)[k + i] = queue[i]
    BY ONLY <1>2, <2>2, k \in Nat, l \in Nat
  <2>4. DOMAIN batch = 1 .. k /\ DOMAIN queue = 1 .. l
    BY <1>1, <1>2
  <2>. QED  BY <1>3, <2>3, <2>4
<1>5. ASSUME NEW i \in 1 .. k + l
      PROVE  \/ i \in 1 .. k /\ s[i].id = batch[i].id /\ s[i].id \in Ids(batch)
             \/ \E u \in 1 .. l : i = k + u /\ s[i].id = queue[u].id /\ s[i].id \in Ids(queue)
  <2>1. i \in 1 .. k \/ \E u \in 1 .. l : i = k + u
    <3>1. i \in 1 .. k \/ (i - k \in 1 .. l /\ i = k + (i - k))
      BY ONLY i \in 1 .. k + l, k \in Nat, l \in Nat
    <3>. QED  BY <3>1
  <2>2. CASE i \in 1 .. k
    BY <1>4, <2>2 DEF Ids
  <2>3. CASE \E u \in 1 .. l : i = k + u
    <3>1. PICK u \in 1 .. l : i = k + u
      BY <2>3
    <3>2. s[i] = queue[u]
      BY <1>4, <3>1
    <3>. QED  BY <1>4, <3>1, <3>2 DEF Ids
  <2>. QED  BY <2>1, <2>2, <2>3
<1>6. Ids(s) \subseteq Ids(batch) \cup Ids(queue)
  BY <1>4, <1>5 DEF Ids
<1>7. Ids(batch) \subseteq Ids(s)
  <2>1. \A i \in 1 .. k : i \in 1 .. k + l
    OBVIOUS
  <2>. QED  BY <1>4, <2>1 DEF Ids
<1>8. Ids(queue) \subseteq Ids(s)
  <2>1. \A i \in 1 .. l : k + i \in 1 .. k + l
    OBVIOUS
  <2>. QED  BY <1>4, <2>1 DEF Ids
<1>9. ASSUME NEW i \in 1 .. k + l, NEW j \in 1 .. k + l, s[i].id = s[j].id
      PROVE  i = j
  <2>1. CASE i \in 1 .. k /\ s[i].id = batch[i].id /\ s[i].id \in Ids(batch)
    <3>1. j \in 1 .. k /\ s[j].id = batch[j].id
      BY <1>1, <1>5, <1>9, <2>1
    <3>. QED  BY <1>1, <1>4, <1>9, <2>1, <3>1
  <2>2. CASE \E u \in 1 .. l : i = k + u /\ s[i].id = queue[u].id /\ s[i].id \in Ids(queue)
    <3>1. PICK u \in 1 .. l : i = k + u /\ s[i].id = queue[u].id /\ s[i].id \in Ids(queue)
      BY <2>2
    <3>2. PICK v \in 1 .. l : j = k + v /\ s[j].id = queue[v].id
      BY <1>1, <1>5, <1>9, <3>1
    <3>3. u = v
      BY <1>1, <1>4, <1>9, <3>1, <3>2
    <3>. QED  BY <3>1, <3>2, <3>3
  <2>. QED  BY <1>5, <2>1, <2>2
<1>10. IsInjective(IdSeq(s))
  <2>1. IdSeq(s) = [i \in 1 .. k + l |-> s[i].id]
    BY <1>4 DEF IdSeq
  <2>. QED  BY <1>9, <2>1 DEF IsInjective
<1>. QED  BY <1>3, <1>6, <1>7, <1>8, <1>10

LEMMA SimInvImplies ==
  ASSUME SimInv
  PROVE  BooksExact /\ QueueOrder /\ LogTellsState
<1>1. /\ Balance(queue, batch, totals) /\ Tracked(queue, batch, meta, next_id) /\ Ordered(queue, meta)
      /\ Truthful(events \o fresh, queue, batch, meta, next_id)
      /\ events \in Seq(Story) /\ (at = "idle" => fresh = <<>>)
  BY DEF SimInv, Books
<1>2. BooksExact
  BY <1>1, JoinedIds DEF BooksExact, TotalsBalance, MetaExact, Balance, Tracked
<1>3. QueueOrder
  BY <1>1 DEF QueueOrder, Ordered
<1>4. ASSUME at = "idle"
      PROVE  LogTellsState
  <2>1. events \o fresh = events
    BY <1>1, <1>4
  <2>2. PICK c \in Nat : c = Len(events)
    BY <1>1
  <2>3. \A i \in DOMAIN events :
          (\A j \in i + 1 .. c : events[j].seq_id # events[i].seq_id)
            => Tells(events[i], queue, batch, meta)
    BY <1>1, <2>1, <2>2 DEF Truthful
  <2>. QED  BY <2>2, <2>3 DEF LogTellsState, Tells
<1>5. LogTellsState
  BY <1>4 DEF LogTellsState
<1>. QED  BY <1>2, <1>3, <1>5

(***************************************************************************)
(* The invariant of a session (sim.rs:186-208) holds in every state of it: *)
(* records, totals, queue and event log tell the same story.               *)
(***************************************************************************)
THEOREM SessionInvariant == SimSpec => []SimInv
<1>1. SimAlone => SimInv
  BY SimInitInv DEF SimAlone
<1>2. SimInv /\ [SimNext]_simVars => SimInv'
  BY SimNextInv
<1>. QED  BY <1>1, <1>2, PTL DEF SimSpec

(***************************************************************************)
(* The totals account for every sequence, and there is a record of exactly *)
(* the sequences the scheduler holds (sim.rs:322, 378, 428-430, 445).      *)
(***************************************************************************)
THEOREM BooksStayExact == SimSpec => []BooksExact
<1>1. SimInv => BooksExact
  BY SimInvImplies
<1>. QED  BY <1>1, SessionInvariant, PTL

(***************************************************************************)
(* New requests wait behind preempted ones, in the order of arrival, at    *)
(* most max_waiting of them (sim.rs:297 and 417).                          *)
(***************************************************************************)
THEOREM QueueStaysOrdered == SimSpec => []QueueOrder
<1>1. SimInv => QueueOrder
  BY SimInvImplies
<1>. QED  BY <1>1, SessionInvariant, PTL

(***************************************************************************)
(* The log never tells a stale story of a sequence (sim.rs:386-426).       *)
(***************************************************************************)
THEOREM LogStaysTrue == SimSpec => []LogTellsState
<1>1. SimInv => LogTellsState
  BY SimInvImplies
<1>. QED  BY <1>1, SessionInvariant, PTL

-----------------------------------------------------------------------------
(* The ticker.                                                             *)

\* What the ticker's countdown and the time since its last tick have in common.
Spaced ==
  /\ since \in Nat /\ tick_left \in Nat /\ since + tick_left = Interval
  /\ up \in Seq([id : Nat, command : Commands \cup {Unreadable}])
  /\ next_cmd \in Nat

LEMMA SpacedInv ==
  ASSUME Spaced, [Next]_vars
  PROVE  Spaced'
<1>1. Interval \in Nat
  BY SessionAssumption
<1>2. ASSUME NEW c \in Commands \cup {Unreadable}, SendCommand(c)
      PROVE  Spaced'
  BY <1>2 DEF SendCommand, Spaced, serverVars, timers
<1>3. CASE RecvText
  <2>1. up' = Tail(up) /\ up # <<>> /\ next_cmd' = next_cmd
    BY <1>3 DEF RecvText, page
  <2>2. up' \in Seq([id : Nat, command : Commands \cup {Unreadable}])
    BY <2>1 DEF Spaced
  <2>3. \/ Resumes /\ tick_left' = Interval /\ since' = 0
        \/ ~Resumes /\ tick_left' = tick_left /\ since' = since
    BY <1>3 DEF RecvText, ResetTicker
  <2>. QED  BY <1>1, <2>1, <2>2, <2>3 DEF Spaced
<1>4. CASE Time
  <2>1. /\ tick_left' = Less(tick_left) /\ up' = up /\ next_cmd' = next_cmd
        /\ since' = IF since < Interval THEN since + 1 ELSE since
    BY <1>4 DEF Time, page
  <2>. QED  BY <1>1, <2>1 DEF Spaced, Less
<1>5. CASE TickerFires
  BY <1>1, <1>5 DEF TickerFires, Spaced, page
<1>6. CASE InAdvance \/ RecvEnd \/ SendReply \/ SendFails \/ IdleFires
  BY <1>6 DEF InAdvance, RecvEnd, SendReply, SendFails, IdleFires, Spaced, page, timers
<1>7. CASE OnMessage \/ OnClose \/ Break \/ UNCHANGED vars
  BY <1>7 DEF OnMessage, OnClose, Break, Spaced, page, timers, serverVars, vars
<1>. QED  BY <1>2, <1>3, <1>4, <1>5, <1>6, <1>7 DEF Next, Server

LEMMA SpacedStep ==
  ASSUME Spaced, Next, Selecting, ~paused, at' # "idle", up' = up
  PROVE  since = Interval
<1>1. at = "idle"
  BY DEF Selecting
<1>2. CASE TickerFires
  BY <1>2, SessionAssumption DEF TickerFires, Spaced
<1>3. CASE RecvText
  <2>1. up' = Tail(up) /\ up # <<>>
    BY <1>3 DEF RecvText
  <2>2. PICK S : up \in Seq(S)
    BY DEF Spaced
  <2>3. Len(Tail(up)) = Len(up) - 1 /\ Len(up) \in Nat
    BY <2>1, <2>2
  <2>. QED  BY <2>1, <2>3
<1>4. CASE InAdvance
  BY <1>1, <1>4 DEF InAdvance, AdvanceStep, TrafficRequest, TrafficFork, SchedulerStep
<1>5. at' = at => FALSE
  BY <1>1
<1>6. ~(RecvEnd \/ SendReply \/ SendFails \/ IdleFires \/ Time \/ OnMessage \/ OnClose \/ Break)
  BY <1>5 DEF RecvEnd, SendReply, SendFails, IdleFires, Time, OnMessage, OnClose, Break, simVars, serverVars
<1>7. ~\E c \in Commands \cup {Unreadable} : SendCommand(c)
  BY <1>5 DEF SendCommand, simVars, serverVars
<1>. QED  BY <1>2, <1>3, <1>4, <1>6, <1>7 DEF Next, Server

(***************************************************************************)
(* A whole interval passes between two ticks of the ticker, and between a  *)
(* resume and the next tick (ws.rs:84).                                    *)
(***************************************************************************)
THEOREM TicksStaySpaced == Spec => TicksSpaced
<1>1. Init => Spaced
  BY SessionAssumption DEF Init, Spaced
<1>2. Spaced /\ [Next]_vars => Spaced'
  BY SpacedInv
<1>3. Spaced /\ [Next]_vars => [Selecting /\ ~paused /\ at' # "idle" /\ up' = up => since = Interval]_vars
  BY SpacedStep DEF vars
<1>. QED  BY <1>1, <1>2, <1>3, PTL DEF Spec, TicksSpaced

-----------------------------------------------------------------------------
(* Applied goes through the messages once.                                 *)

\* The function that Applied recurs on.
After(s, ms) ==
  CHOOSE f : f = [i \in 0 .. Len(ms) |-> IF i = 0 THEN s ELSE applyMessage(f[i - 1], ms[i])]

AfterUpTo(s, ms, m, f) ==
  f = [i \in 0 .. m |-> IF i = 0 THEN s ELSE applyMessage(f[i - 1], ms[i])]

LEMMA AfterExists ==
  ASSUME NEW S, NEW ms \in Seq(S), NEW s
  PROVE  /\ Applied(s, ms) = After(s, ms)[Len(ms)]
         /\ AfterUpTo(s, ms, Len(ms), After(s, ms))
<1>1. Len(ms) \in Nat
  OBVIOUS
<1> DEFINE T == {m \in Nat : \E f : AfterUpTo(s, ms, m, f)}
<1>2. 0 \in T
  <2>1. AfterUpTo(s, ms, 0, [i \in 0 .. 0 |-> s])
    BY DEF AfterUpTo
  <2>. QED  BY <2>1
<1>3. ASSUME NEW m \in 0 .. Len(ms), m + 1 <= Len(ms), m \in T
      PROVE  m + 1 \in T
  <2>1. PICK f : AfterUpTo(s, ms, m, f)
    BY <1>3
  <2> DEFINE g == [i \in 0 .. m + 1 |-> IF i = m + 1 THEN applyMessage(f[m], ms[i]) ELSE f[i]]
  <2>2. \A i \in 0 .. m + 1 : g[i] = IF i = 0 THEN s ELSE applyMessage(g[i - 1], ms[i])
    <3> TAKE i \in 0 .. m + 1
    <3>1. CASE i = m + 1
      <4>1. i - 1 = m /\ m \in 0 .. m + 1 /\ m # m + 1 /\ i # 0
        BY <3>1
      <4>2. g[m] = f[m]
        BY <4>1
      <4>. QED  BY <3>1, <4>1, <4>2
    <3>2. CASE i # m + 1
      <4>1. i \in 0 .. m /\ (i # 0 => i - 1 \in 0 .. m + 1 /\ i - 1 # m + 1)
        BY <3>2
      <4>2. g[i] = f[i] /\ (i # 0 => g[i - 1] = f[i - 1])
        BY <3>2, <4>1
      <4>3. f[i] = IF i = 0 THEN s ELSE applyMessage(f[i - 1], ms[i])
        BY <2>1, <4>1 DEF AfterUpTo
      <4>. QED  BY <4>2, <4>3
    <3>. QED  BY <3>1, <3>2
  <2>3. AfterUpTo(s, ms, m + 1, g)
    <3>1. g = [i \in 0 .. m + 1 |-> g[i]]
      OBVIOUS
    <3>. HIDE DEF g
    <3>. QED  BY <2>2, <3>1 DEF AfterUpTo
  <2>. HIDE DEF g
  <2>. QED  BY <2>3
<1>4. Len(ms) \in T
  <2>. HIDE DEF T
  <2>1. PICK n \in Nat : n = Len(ms)
    BY <1>1
  <2>2. \A i \in 0 .. n : i + 1 <= n /\ i \in T => i + 1 \in T
    BY ONLY <1>3, <2>1
  <2>3. 0 .. n \subseteq T
    BY ONLY <1>2, <2>2, n \in Nat, UpTo
  <2>. QED  BY ONLY <2>1, <2>3, n \in Nat
<1>5. AfterUpTo(s, ms, Len(ms), After(s, ms))
  <2>1. \E f : AfterUpTo(s, ms, Len(ms), f)
    BY <1>4
  <2>. QED  BY <2>1 DEF AfterUpTo, After
<1>6. Applied(s, ms) = After(s, ms)[Len(ms)]
  BY DEF Applied, After
<1>. QED  BY <1>5, <1>6

\* The session after each of the first n of ms.
Through(s, ms, n, f) ==
  f[0] = s /\ \A m \in 1 .. n : f[m] = applyMessage(f[m - 1], ms[m])

LEMMA AppliedSteps ==
  ASSUME NEW S, NEW ms \in Seq(S), NEW s, NEW n \in Nat, n = Len(ms)
  PROVE  \E f : Through(s, ms, n, f) /\ f[n] = Applied(s, ms)
<1> DEFINE f == After(s, ms)
<1>1. Applied(s, ms) = f[n] /\ AfterUpTo(s, ms, n, f)
  BY AfterExists
<1>. HIDE DEF f
<1>2. f = [i \in 0 .. n |-> IF i = 0 THEN s ELSE applyMessage(f[i - 1], ms[i])]
  BY <1>1 DEF AfterUpTo
<1>3. 0 \in 0 .. n /\ \A m \in 1 .. n : m \in 0 .. n /\ m # 0
  OBVIOUS
<1>4. f[0] = s
  BY ONLY <1>2, <1>3
<1>5. \A m \in 1 .. n : f[m] = applyMessage(f[m - 1], ms[m])
  BY ONLY <1>2, <1>3
<1>. QED  BY <1>1, <1>4, <1>5 DEF Through

\* f goes through the n messages ms from s, and g through c of them, which are
\* ns, from where f is after k.
Walks(s, ms, n, f, k, ns, c, g) ==
  /\ Through(s, ms, n, f) /\ Through(f[k], ns, c, g)
  /\ k + c <= n /\ \A i \in 1 .. c : ns[i] = ms[k + i]

LEMMA ThroughAgree ==
  ASSUME NEW s, NEW ms, NEW n \in Nat, NEW f, NEW k \in Nat, NEW ns, NEW c \in Nat, NEW g,
         Walks(s, ms, n, f, k, ns, c, g)
  PROVE  f[k + c] = g[c]
<1>5. /\ Through(s, ms, n, f) /\ Through(f[k], ns, c, g)
      /\ k + c <= n /\ \A i \in 1 .. c : ns[i] = ms[k + i]
  BY DEF Walks
<1> DEFINE T == {i \in 0 .. c : f[k + i] = g[i]}
<1>1. 0 \in T
  <2>1. k + 0 = k /\ 0 \in 0 .. c
    OBVIOUS
  <2>2. g[0] = f[k]
    BY <1>5 DEF Through
  <2>. QED  BY <2>1, <2>2
<1>2. ASSUME NEW i \in 0 .. c, i + 1 <= c, i \in T
      PROVE  i + 1 \in T
  <2>1. i + 1 \in 1 .. c /\ k + (i + 1) \in 1 .. n /\ (i + 1) - 1 = i /\ k + (i + 1) - 1 = k + i
    BY <1>2, <1>5
  <2>2. g[i + 1] = applyMessage(g[i], ns[i + 1])
    BY <1>5, <2>1 DEF Through
  <2>3. f[k + (i + 1)] = applyMessage(f[k + i], ms[k + (i + 1)])
    BY <1>5, <2>1 DEF Through
  <2>4. f[k + i] = g[i] /\ ns[i + 1] = ms[k + (i + 1)]
    BY <1>2, <1>5, <2>1
  <2>5. f[k + (i + 1)] = g[i + 1] /\ i + 1 \in 0 .. c
    BY <2>1, <2>2, <2>3, <2>4
  <2>. QED  BY <2>5
<1>3. 0 .. c \subseteq T
  <2>. HIDE DEF T
  <2>1. \A i \in 0 .. c : i + 1 <= c /\ i \in T => i + 1 \in T
    BY <1>2
  <2>. QED  BY ONLY <1>1, <2>1, c \in Nat, UpTo
<1>4. c \in 0 .. c
  OBVIOUS
<1>. QED  BY <1>3, <1>4

LEMMA AppliedEmpty ==
  ASSUME NEW s
  PROVE  Applied(s, <<>>) = s
<1>1. <<>> \in Seq({}) /\ 0 = Len(<<>>) /\ 0 \in Nat
  OBVIOUS
<1>2. PICK f : Through(s, <<>>, 0, f) /\ f[0] = Applied(s, <<>>)
  BY ONLY <1>1, AppliedSteps
<1>. QED  BY <1>2 DEF Through

\* The messages of ms, then those of ns.
LEMMA AppliedConcat ==
  ASSUME NEW S, NEW ms \in Seq(S), NEW ns \in Seq(S), NEW s
  PROVE  Applied(s, ms \o ns) = Applied(Applied(s, ms), ns)
<1>1. PICK k \in Nat, c \in Nat : k = Len(ms) /\ c = Len(ns)
  OBVIOUS
<1>2. PICK all \in Seq(S) : all = ms \o ns
  <2>1. ms \o ns \in Seq(S)
    OBVIOUS
  <2>. QED  BY <2>1
<1>3. /\ Len(all) = k + c
      /\ \A i \in 1 .. k : all[i] = ms[i]
      /\ \A i \in 1 .. c : all[k + i] = ns[i]
  BY ONLY <1>1, <1>2, ms \in Seq(S), ns \in Seq(S), k \in Nat, c \in Nat
<1>4. PICK n \in Nat : n = k + c
  OBVIOUS
<1>5. PICK f : Through(s, all, n, f) /\ f[n] = Applied(s, all)
  BY <1>3, <1>4, AppliedSteps
<1>6. PICK g : Through(s, ms, k, g) /\ g[k] = Applied(s, ms)
  BY <1>1, AppliedSteps
<1>7. PICK t : t = Applied(s, ms)
  OBVIOUS
<1>8. PICK h : Through(t, ns, c, h) /\ h[c] = Applied(t, ns)
  BY <1>1, AppliedSteps
<1>9. f[k] = t
  <2>1. f[0] = s /\ 0 + k = k /\ 0 \in Nat
    BY <1>5 DEF Through
  <2>2. Walks(s, all, n, f, 0, ms, k, g)
    BY <1>3, <1>4, <1>5, <1>6, <2>1 DEF Walks
  <2>3. f[0 + k] = g[k]
    BY ONLY <2>1, <2>2, n \in Nat, k \in Nat, ThroughAgree
  <2>. QED  BY <1>6, <1>7, <2>1, <2>3
<1>10. f[k + c] = h[c]
  <2>1. Walks(s, all, n, f, k, ns, c, h)
    BY <1>3, <1>4, <1>5, <1>8, <1>9 DEF Walks
  <2>. QED  BY ONLY <2>1, n \in Nat, k \in Nat, c \in Nat, ThroughAgree
<1>. QED  BY <1>2, <1>4, <1>5, <1>7, <1>8, <1>10

LEMMA AppliedOne ==
  ASSUME NEW s, NEW m
  PROVE  Applied(s, <<m>>) = applyMessage(s, m)
<1>1. <<m>> \in Seq({m}) /\ 1 = Len(<<m>>) /\ 1 \in Nat
  OBVIOUS
<1>2. PICK f : Through(s, <<m>>, 1, f) /\ f[1] = Applied(s, <<m>>)
  BY ONLY <1>1, AppliedSteps
<1>3. 1 \in 1 .. 1 /\ 1 - 1 = 0 /\ <<m>>[1] = m
  OBVIOUS
<1>. QED  BY <1>2, <1>3 DEF Through

-----------------------------------------------------------------------------
(* What the page shows.                                                    *)

Point == [tick : Nat, running : Nat, waiting : Nat]

Shown(x, h, e) == [snapshot |-> x, history |-> h, events |-> e]

LEMMA LatestShort ==
  ASSUME NEW S, NEW s \in Seq(S), NEW N \in Nat, Len(s) <= N
  PROVE  Latest(s, N) = s
<1>1. PICK l \in Nat, d \in Nat :
        /\ l = Len(Latest(s, N)) /\ l + d = Len(s) /\ l <= N
        /\ d = 0 \/ l = N
        /\ \A i \in 1 .. l : Latest(s, N)[i] = s[d + i]
  BY LatestIs
<1>2. PICK n \in Nat : n = Len(s) /\ n <= N
  OBVIOUS
<1>3. d = 0 /\ l = n
  BY <1>1, <1>2
<1>4. \A i \in 1 .. l : d + i = i
  BY <1>3
<1>5. \A i \in 1 .. n : Latest(s, N)[i] = s[i]
  BY <1>1, <1>3, <1>4
<1>6. Latest(s, N) \in Seq(S)
  BY LatestIs
<1>. QED  BY <1>1, <1>2, <1>3, <1>5, <1>6, SeqEqual

LEMMA CapsAgree ==
  /\ HISTORY_LEN \in Nat /\ EVENT_LOG_LEN \in Nat /\ 1 <= HISTORY_LEN
  /\ PAGE_HISTORY_LEN = HISTORY_LEN /\ PAGE_EVENT_LOG_LEN = EVENT_LOG_LEN
BY SimAssumption, SessionAssumption

LEMMA ShowsTick ==
  ASSUME NEW x, NEW h, NEW e, NEW y, NEW new
  PROVE  applyMessage(Shown(x, h, e), TickMessage(y, new))
           = Shown(y, Latest(h \o <<y.metrics>>, HISTORY_LEN), Latest(e \o new, EVENT_LOG_LEN))
<1>1. PICK s, m : s = Shown(x, h, e) /\ m = TickMessage(y, new)
  OBVIOUS
<1>2. s.history = h /\ s.events = e /\ m.type = "tick" /\ m.snapshot = y /\ m.events = new
  BY <1>1 DEF Shown, TickMessage
<1>. QED  BY <1>1, <1>2, CapsAgree DEF applyMessage, appendCapped, Shown

LEMMA ShowsInit ==
  ASSUME NEW s, NEW m, m.type = "init"
  PROVE  applyMessage(s, m)
           = Shown(m.snapshot, Latest(m.history, HISTORY_LEN), Latest(m.events, EVENT_LOG_LEN))
BY CapsAgree DEF applyMessage, Shown

LEMMA ShowsState ==
  ASSUME NEW x, NEW h, NEW e, NEW y, NEW new
  PROVE  applyMessage(Shown(x, h, e), StateMessage(y, new))
           = Shown(y, h, Latest(e \o new, EVENT_LOG_LEN))
<1>1. PICK s, m : s = Shown(x, h, e) /\ m = StateMessage(y, new)
  OBVIOUS
<1>2. s.events = e /\ m.type = "state" /\ m.snapshot = y /\ m.events = new
  BY <1>1 DEF Shown, StateMessage
<1>3. applyMessage(s, m)
        = [s EXCEPT !.snapshot = m.snapshot,
                    !.events = appendCapped(@, m.events, PAGE_EVENT_LOG_LEN)]
  BY <1>2 DEF applyMessage
<1>4. PICK z : z = appendCapped(s.events, m.events, PAGE_EVENT_LOG_LEN)
  OBVIOUS
<1>5. z = Latest(e \o new, EVENT_LOG_LEN)
  BY <1>2, <1>4, CapsAgree DEF appendCapped
<1>6. PICK q : q = [s EXCEPT !.snapshot = m.snapshot]
  OBVIOUS
<1>7. q = [snapshot |-> y, history |-> h, events |-> e]
  BY ONLY <1>1, <1>2, <1>6 DEF Shown
<1>8. [q EXCEPT !.events = z] = [snapshot |-> y, history |-> h, events |-> z]
  BY ONLY <1>7
<1>9. [s EXCEPT !.snapshot = m.snapshot,
                !.events = appendCapped(@, m.events, PAGE_EVENT_LOG_LEN)]
        = [snapshot |-> y, history |-> h, events |-> z]
  BY ONLY <1>4, <1>6, <1>8, Zenon
<1>. QED  BY ONLY <1>1, <1>3, <1>5, <1>9 DEF Shown

LEMMA ShowsNothing ==
  ASSUME NEW s, NEW m, m.type \in {"ack", "error", "close"}
  PROVE  applyMessage(s, m) = s
BY DEF applyMessage

LEMMA AppliedTwo ==
  ASSUME NEW s, NEW m, NEW n
  PROVE  Applied(s, <<m, n>>) = applyMessage(applyMessage(s, m), n)
<1>1. PICK S : m \in S /\ n \in S
  <2>1. m \in {m, n} /\ n \in {m, n}
    OBVIOUS
  <2>. QED  BY <2>1
<1>2. <<m>> \in Seq(S) /\ <<n>> \in Seq(S) /\ <<m>> \o <<n>> = <<m, n>>
  <2>1. <<m>> \in Seq(S) /\ <<n>> \in Seq(S) /\ <<m, n>> \in Seq(S)
    BY <1>1
  <2>2. PICK a \in Seq(S), b \in Seq(S), c \in Seq(S) : a = <<m>> /\ b = <<n>> /\ c = <<m, n>>
    BY <2>1
  <2>3. /\ Len(a) = 1 /\ Len(b) = 1 /\ Len(c) = 2
        /\ a[1] = m /\ b[1] = n /\ c[1] = m /\ c[2] = n
    BY <2>2
  <2>4. a \o b \in Seq(S) /\ Len(a \o b) = 2 /\ (a \o b)[1] = m /\ (a \o b)[2] = n
    <3>1. PICK one \in Nat : one = 1
      OBVIOUS
    <3>2. Len(a) = one /\ Len(b) = one
      BY <2>3, <3>1
    <3>3. /\ a \o b \in Seq(S) /\ Len(a \o b) = one + one
          /\ \A i \in 1 .. one : (a \o b)[i] = a[i]
          /\ \A i \in 1 .. one : (a \o b)[one + i] = b[i]
      BY ONLY <3>2, a \in Seq(S), b \in Seq(S), one \in Nat
    <3>4. 1 \in 1 .. one /\ one + 1 = 2 /\ one + one = 2
      BY <3>1
    <3>5. (a \o b)[1] = a[1] /\ (a \o b)[one + 1] = b[1]
      BY <3>3, <3>4
    <3>. QED  BY <2>3, <3>3, <3>4, <3>5
  <2>5. PICK d \in Seq(S) : d = a \o b /\ Len(d) = 2 /\ d[1] = m /\ d[2] = n
    BY <2>4
  <2>6. \A i \in 1 .. 2 : d[i] = c[i]
    BY <2>3, <2>5
  <2>7. d = c
    BY <2>3, <2>5, <2>6, SeqEqual
  <2>. QED  BY <2>1, <2>2, <2>5, <2>7
<1>3. Applied(s, <<m>> \o <<n>>) = Applied(Applied(s, <<m>>), <<n>>)
  BY <1>2, AppliedConcat
<1>4. PICK t : t = Applied(s, <<m>>)
  OBVIOUS
<1>5. t = applyMessage(s, m) /\ Applied(t, <<n>>) = applyMessage(t, n)
  BY <1>4, AppliedOne
<1>. QED  BY <1>2, <1>3, <1>4, <1>5

-----------------------------------------------------------------------------
(* The mirror.                                                             *)

\* What the page shows once everything sent has arrived; the snapshot is that
\* of now unless the session is in the middle of an advance.
Mirrors ==
  \E x : /\ Applied(session, down \o replies) = Shown(x, history, events)
         /\ at = "idle" => x = snapshot

MirrorInv ==
  /\ history \in Seq(Point) /\ Len(history) <= HISTORY_LEN
  /\ \E S : down \in Seq(S) /\ replies \in Seq(S)
  /\ ~left => Mirrors

\* The messages new tell a page that mirrors the session what a step changes.
Told(new) ==
  \A x : (at = "idle" => x = snapshot) =>
    \E y : /\ Applied(Shown(x, history, events), new) = Shown(y, history', events')
           /\ at' = "idle" => y = snapshot'

\* A step of the session that says what it changes.
Honest ==
  /\ history' \in Seq(Point) /\ Len(history') <= HISTORY_LEN
  /\ \E T, new : new \in Seq(T) /\ replies' = replies \o new /\ Told(new)

LEMMA WiderSeq ==
  ASSUME NEW S, NEW T, NEW s \in Seq(S), S \subseteq T
  PROVE  s \in Seq(T)
OBVIOUS

LEMMA HonestMirror ==
  ASSUME MirrorInv, Honest, UNCHANGED <<session, down, left>>
  PROVE  MirrorInv'
<1>1. PICK S : down \in Seq(S) /\ replies \in Seq(S)
  BY DEF MirrorInv
<1>2. PICK T, new : new \in Seq(T) /\ replies' = replies \o new /\ Told(new)
  BY DEF Honest
<1>3. PICK U : S \subseteq U /\ T \subseteq U
  <2>1. S \subseteq S \cup T /\ T \subseteq S \cup T
    OBVIOUS
  <2>. QED  BY <2>1
<1>4. down \in Seq(U) /\ replies \in Seq(U) /\ new \in Seq(U)
  BY <1>1, <1>2, <1>3, WiderSeq
<1>5. down' \in Seq(U) /\ replies' \in Seq(U)
  BY <1>2, <1>4
<1>6. ASSUME ~left
      PROVE  Mirrors'
  <2>1. PICK x : /\ Applied(session, down \o replies) = Shown(x, history, events)
                 /\ at = "idle" => x = snapshot
    BY <1>6 DEF MirrorInv, Mirrors
  <2>2. PICK y : /\ Applied(Shown(x, history, events), new) = Shown(y, history', events')
                 /\ at' = "idle" => y = snapshot'
    BY <1>2, <2>1 DEF Told
  <2>3. PICK sent \in Seq(U) : sent = down \o replies
    <3>1. down \o replies \in Seq(U)
      BY <1>4
    <3>. QED  BY <3>1
  <2>4. Applied(session, sent \o new) = Applied(Applied(session, sent), new)
    BY <1>4, AppliedConcat
  <2>5. down \o (replies \o new) = sent \o new
    BY <1>4, <2>3, ConcatAssociative
  <2>6. down' \o replies' = sent \o new
    BY <1>2, <2>5
  <2>7. Applied(session', down' \o replies') = Shown(y, history', events')
    BY <2>1, <2>2, <2>3, <2>4, <2>6
  <2>. QED  BY <2>2, <2>7 DEF Mirrors
<1>. QED  BY <1>5, <1>6 DEF MirrorInv, Honest

-----------------------------------------------------------------------------
(* Every step of the session is honest.                                    *)

LEMMA MirrorTypes ==
  ASSUME SimInv, MirrorInv
  PROVE  /\ history \in Seq(Point) /\ Len(history) <= HISTORY_LEN
         /\ events \in Seq(Story) /\ Len(events) <= EVENT_LOG_LEN
BY DEF SimInv, MirrorInv

\* Nothing is sent in the middle of an advance.
LEMMA SilentHonest ==
  ASSUME MirrorInv, UNCHANGED <<history, events, replies>>, at' # "idle"
  PROVE  Honest
<1>1. PICK S : replies \in Seq(S)
  BY DEF MirrorInv
<1>2. <<>> \in Seq({}) /\ replies' = replies \o <<>>
  BY <1>1
<1>3. Told(<<>>)
  BY AppliedEmpty DEF Told
<1>. QED  BY <1>2, <1>3 DEF Honest, MirrorInv

LEMMA NothingHonest ==
  ASSUME MirrorInv, NEW m, m.type \in {"ack", "error", "close"}, replies' = replies \o <<m>>,
         UNCHANGED <<history, events>>, at' = "idle" => at = "idle" /\ snapshot' = snapshot
  PROVE  Honest
<1>1. <<m>> \in Seq({m})
  OBVIOUS
<1>2. ASSUME NEW x, at = "idle" => x = snapshot
      PROVE  \E y : /\ Applied(Shown(x, history, events), <<m>>) = Shown(y, history', events')
                    /\ at' = "idle" => y = snapshot'
  <2>1. PICK s : s = Shown(x, history, events)
    OBVIOUS
  <2>2. Applied(s, <<m>>) = s
    BY AppliedOne, ShowsNothing
  <2>3. Applied(Shown(x, history, events), <<m>>) = Shown(x, history', events')
    BY <2>1, <2>2
  <2>4. at' = "idle" => x = snapshot'
    BY <1>2
  <2>. QED  BY <2>3, <2>4
<1>3. Told(<<m>>)
  BY <1>2 DEF Told
<1>. QED  BY <1>1, <1>3 DEF Honest, MirrorInv

LEMMA StateHonest ==
  ASSUME MirrorInv, NEW id, NEW result, NEW new,
         replies' = replies \o <<Ack(id, result), StateMessage(snapshot', new)>>,
         history' = history, events' = Latest(events \o new, EVENT_LOG_LEN)
  PROVE  Honest
<1>1. PICK m, y, n : m = Ack(id, result) /\ y = snapshot' /\ n = StateMessage(y, new)
  OBVIOUS
<1>2. m.type = "ack"
  BY <1>1 DEF Ack
<1>3. <<m, n>> \in Seq({m, n}) /\ replies' = replies \o <<m, n>>
  BY <1>1
<1>4. ASSUME NEW x
      PROVE  Applied(Shown(x, history, events), <<m, n>>) = Shown(y, history', events')
  <2>1. PICK s : s = Shown(x, history, events)
    OBVIOUS
  <2>2. Applied(s, <<m, n>>) = applyMessage(applyMessage(s, m), n)
    BY AppliedTwo
  <2>3. applyMessage(s, m) = s
    BY <1>2, ShowsNothing
  <2>4. applyMessage(Shown(x, history, events), StateMessage(y, new))
          = Shown(y, history, Latest(events \o new, EVENT_LOG_LEN))
    BY ShowsState
  <2>5. applyMessage(s, n) = Shown(y, history', events')
    BY <1>1, <2>1, <2>4
  <2>. QED  BY <2>1, <2>2, <2>3, <2>5
<1>5. Told(<<m, n>>)
  BY <1>1, <1>4 DEF Told
<1>. QED  BY <1>3, <1>5 DEF Honest, MirrorInv

LEMMA InitHonest ==
  ASSUME NEW id, NEW result, replies' = replies \o <<Ack(id, result), InitMessage'>>,
         history' \in Seq(Point), Len(history') <= HISTORY_LEN,
         SimInv'
  PROVE  Honest
<1>1. PICK m, y, h, e, n : /\ m = Ack(id, result) /\ y = snapshot' /\ h = history' /\ e = events'
                           /\ n = [type |-> "init", snapshot |-> y, history |-> h, events |-> e]
  OBVIOUS
<1>2. m.type = "ack" /\ n = InitMessage'
  BY <1>1 DEF Ack, InitMessage
<1>3. <<m, n>> \in Seq({m, n}) /\ replies' = replies \o <<m, n>>
  BY <1>1, <1>2
<1>4. n.type = "init" /\ n.snapshot = y /\ n.history = h /\ n.events = e
  BY <1>1
<1>5. Latest(h, HISTORY_LEN) = h /\ Latest(e, EVENT_LOG_LEN) = e
  BY <1>1, CapsAgree, LatestShort DEF SimInv
<1>6. ASSUME NEW s
      PROVE  Applied(s, <<m, n>>) = Shown(y, h, e)
  <2>1. applyMessage(s, m) = s
    BY <1>2, ShowsNothing
  <2>2. applyMessage(s, n) = Shown(y, h, e)
    BY <1>4, <1>5, ShowsInit
  <2>. QED  BY <2>1, <2>2, AppliedTwo
<1>7. Told(<<m, n>>)
  BY <1>1, <1>6 DEF Told
<1>. QED  BY <1>3, <1>7 DEF Honest

LEMMA TickHonest ==
  ASSUME SimInv, SimInv', MirrorInv, NEW a, NEW p, SchedulerStep(a, p)
  PROVE  Honest
<1>1. PICK all : all = fresh \o StepEvents(a, p)
  OBVIOUS
<1>2. PICK w : w = metrics'
  OBVIOUS
<1>3. PICK y : y = snapshot'
  OBVIOUS
<1>4. y.metrics = w
  BY <1>2, <1>3 DEF snapshot
<1>5. w \in Point
  <2>1. tick' \in Nat /\ queue' \in Seq(Waiting) /\ batch' \in Seq(Running)
    BY DEF SimInv, Books, BooksTypeOK
  <2>2. Len(queue') \in Nat /\ Len(batch') \in Nat
    BY <2>1
  <2>3. w = [tick |-> tick', running |-> Len(batch'), waiting |-> Len(queue')]
    BY <1>2 DEF metrics, Metrics
  <2>. QED  BY <2>1, <2>2, <2>3 DEF Point
<1>6. /\ history \in Seq(Point) /\ Len(history) <= HISTORY_LEN
      /\ events \in Seq(Story) /\ Len(events) <= EVENT_LOG_LEN
  BY MirrorTypes
<1>7. /\ history' = Latest(Append(history, w), HISTORY_LEN)
      /\ events' = Latest(events \o all, EVENT_LOG_LEN)
      /\ replies' = replies \o <<TickMessage(y, all)>>
  BY <1>1, <1>2, <1>3 DEF SchedulerStep, Remember, Log, Reply
<1>8. Append(history, w) \in Seq(Point) /\ history \o <<w>> = Append(history, w)
  BY <1>5, <1>6, AppendIsConcat
<1>9. history' \in Seq(Point) /\ Len(history') <= HISTORY_LEN
  BY <1>7, <1>8, CapsAgree, LatestFits
<1>11. PICK m : m = TickMessage(y, all)
  OBVIOUS
<1>12. ASSUME NEW x
       PROVE  Applied(Shown(x, history, events), <<m>>) = Shown(y, history', events')
  <2>1. applyMessage(Shown(x, history, events), TickMessage(y, all))
          = Shown(y, Latest(history \o <<y.metrics>>, HISTORY_LEN), Latest(events \o all, EVENT_LOG_LEN))
    BY ShowsTick
  <2>2. applyMessage(Shown(x, history, events), m) = Shown(y, history', events')
    BY <1>4, <1>7, <1>8, <1>11, <2>1
  <2>. QED  BY <2>2, AppliedOne
<1>13. Told(<<m>>)
  BY <1>3, <1>12 DEF Told
<1>14. <<m>> \in Seq({m}) /\ replies' = replies \o <<m>>
  BY <1>7, <1>11
<1>. QED  BY <1>9, <1>13, <1>14 DEF Honest

LEMMA HandleHonest ==
  ASSUME SimInv, SimInv', MirrorInv, NEW id, NEW c, handle(id, c)
  PROVE  Honest
<1>1. at = "idle"
  BY DEF handle
<1>2. ASSUME NEW refused, RejectWhen(id, refused)
      PROVE  Honest
  <2>1. PICK m : m = Ack(id, Rejected)
    OBVIOUS
  <2>4. m.type = "ack"
    BY <2>1 DEF Ack
  <2>2. replies' = replies \o <<m>> /\ UNCHANGED <<history, events>> /\ at' = at
    BY <1>2, <2>1 DEF RejectWhen, Reply
  <2>3. snapshot' = snapshot
    BY <1>2 DEF RejectWhen, snapshot, metrics, records, controls
  <2>. QED  BY <1>1, <2>2, <2>3, <2>4, NothingHonest
<1>3. ASSUME NEW kind, Created(id, kind)
      PROVE  Honest
  <2>1. PICK new : new = <<Event(next_id, kind)>>
    OBVIOUS
  <2>2. /\ replies' = replies \o <<Ack(id, OkSeq(next_id)), StateMessage(snapshot', new)>>
        /\ history' = history /\ events' = Latest(events \o new, EVENT_LOG_LEN)
    BY <1>3, <2>1 DEF Created, Reply, Log
  <2>. QED  BY <2>2, StateHonest
<1>4. CASE AddRequest(id, c) \/ ForkRunning(id, c)
  BY <1>2, <1>3, <1>4 DEF AddRequest, ForkRunning
<1>5. CASE Pause(id, c) \/ Resume(id, c) \/ SetTraffic(id, c)
  <2>1. PICK new : new = <<>>
    OBVIOUS
  <2>2. /\ replies' = replies \o <<Ack(id, Ok), StateMessage(snapshot', new)>>
        /\ history' = history /\ events' = events
    BY <1>5, <2>1 DEF Pause, Resume, SetTraffic, Changed, Reply
  <2>3. events \o new = events
    BY <2>1, MirrorTypes
  <2>4. events' = Latest(events \o new, EVENT_LOG_LEN)
    BY <2>2, <2>3, MirrorTypes, CapsAgree, LatestShort
  <2>. QED  BY <2>2, <2>4, StateHonest
<1>6. CASE StepOnce(id, c)
  <2>1. CASE RejectWhen(id, ~paused)
    BY <1>2, <2>1
  <2>2. CASE Start /\ Reply(<<Ack(id, Ok)>>) /\ UNCHANGED <<queue, batch, controls, records, history, events>>
    <3>1. PICK m : m = Ack(id, Ok)
      OBVIOUS
    <3>3. m.type = "ack"
      BY <3>1 DEF Ack
    <3>2. replies' = replies \o <<m>> /\ UNCHANGED <<history, events>> /\ at' # "idle"
      BY <2>2, <3>1 DEF Start, Reply
    <3>. QED  BY <3>2, <3>3, NothingHonest
  <2>. QED  BY <1>6, <2>1, <2>2 DEF StepOnce
<1>7. CASE Reset(id, c) \/ SetPrefixCaching(id, c)
  <2>1. /\ replies' = replies \o <<Ack(id, Ok), InitMessage'>>
        /\ history' = <<Metrics(0, <<>>, <<>>)>>
    BY <1>7 DEF Reset, SetPrefixCaching, Restarted, restart, Reply
  <2>2. Metrics(0, <<>>, <<>>) \in Point
    BY DEF Metrics, Point
  <2>3. PICK w \in Point : w = Metrics(0, <<>>, <<>>)
    BY <2>2
  <2>4. history' \in Seq(Point) /\ Len(history') = 1
    BY <2>1, <2>3
  <2>5. Len(history') <= HISTORY_LEN
    BY <2>4, CapsAgree
  <2>6. /\ events' \in Seq(Story) /\ Len(events') <= EVENT_LOG_LEN
    BY DEF SimInv
  <2>. QED  BY <2>1, <2>4, <2>5, <2>6, InitHonest
<1>. QED  BY <1>4, <1>5, <1>6, <1>7 DEF handle

LEMMA AdvanceHonest ==
  ASSUME SimInv, SimInv', MirrorInv, AdvanceStep
  PROVE  Honest
<1>1. CASE TrafficRequest \/ TrafficFork
  <2>1. UNCHANGED <<history, events, replies>> /\ at' # "idle"
    BY <1>1 DEF TrafficRequest, TrafficFork
  <2>. QED  BY <2>1, SilentHonest
<1>2. ASSUME NEW a, NEW p, SchedulerStep(a, p)
      PROVE  Honest
  BY <1>2, TickHonest
<1>. QED  BY <1>1, <1>2 DEF AdvanceStep

-----------------------------------------------------------------------------
(* The two ends of the socket.                                             *)

LEMMA MirrorFrame ==
  ASSUME MirrorInv, UNCHANGED <<simVars, session, down>>, left' = left \/ left' = TRUE
  PROVE  MirrorInv'
<1>1. UNCHANGED <<history, events, replies, at, session, down>>
  BY DEF simVars
<1>2. snapshot' = snapshot
  BY DEF simVars, snapshot, metrics, records, controls
<1>3. Mirrors => Mirrors'
  <2>1. SUFFICES ASSUME Mirrors PROVE Mirrors'
    OBVIOUS
  <2>2. PICK x : /\ Applied(session, down \o replies) = Shown(x, history, events)
                 /\ at = "idle" => x = snapshot
    BY <2>1 DEF Mirrors
  <2>3. Applied(session', down' \o replies') = Shown(x, history', events')
    BY <1>1, <2>2
  <2>. QED  BY <1>1, <1>2, <2>2, <2>3 DEF Mirrors
<1>. QED  BY <1>1, <1>3 DEF MirrorInv

\* What is still to arrive is what it was.
LEMMA MirrorMoves ==
  ASSUME MirrorInv, UNCHANGED <<history, events, at, left>>, snapshot' = snapshot,
         \E S : down' \in Seq(S) /\ replies' \in Seq(S),
         Applied(session', down' \o replies') = Applied(session, down \o replies)
  PROVE  MirrorInv'
<1>1. ASSUME ~left
      PROVE  Mirrors'
  <2>1. PICK x : /\ Applied(session, down \o replies) = Shown(x, history, events)
                 /\ at = "idle" => x = snapshot
    BY <1>1 DEF MirrorInv, Mirrors
  <2>2. Applied(session', down' \o replies') = Shown(x, history', events')
    BY <2>1
  <2>. QED  BY <2>1, <2>2 DEF Mirrors
<1>. QED  BY <1>1 DEF MirrorInv

LEMMA HeadAndTail ==
  ASSUME NEW S, NEW s \in Seq(S), s # <<>>
  PROVE  Head(s) \in S /\ Tail(s) \in Seq(S) /\ s = <<Head(s)>> \o Tail(s)
<1>1. PICK n \in Nat : n = Len(s)
  OBVIOUS
<1>2. n # 0
  BY <1>1
<1>3. PICK c \in Nat : n = 1 + c
  <2>1. n - 1 \in Nat /\ n = 1 + (n - 1)
    BY ONLY <1>2, n \in Nat
  <2>. QED  BY <2>1
<1>4. PICK h \in S, t \in Seq(S) : h = Head(s) /\ t = Tail(s)
  BY HeadTailProperties
<1>5. Len(t) = c /\ h = s[1] /\ \A i \in 1 .. c : t[i] = s[1 + i]
  <2>1. Len(t) = c
    <3>1. Len(Tail(s)) = Len(s) - 1
      BY HeadTailProperties
    <3>. QED  BY <1>1, <1>3, <1>4, <3>1
  <2>2. \A i \in 1 .. Len(Tail(s)) : Tail(s)[i] = s[i + 1]
    BY HeadTailProperties
  <2>3. \A i \in 1 .. c : i + 1 = 1 + i
    OBVIOUS
  <2>4. h = s[1]
    BY <1>4
  <2>. QED  BY <1>4, <2>1, <2>2, <2>3, <2>4
<1>6. PICK o \in Seq(S) : o = <<h>> /\ Len(o) = 1 /\ o[1] = h
  <2>1. <<h>> \in Seq(S) /\ Len(<<h>>) = 1 /\ <<h>>[1] = h
    OBVIOUS
  <2>. QED  BY <2>1
<1>7. PICK one \in Nat : one = 1
  OBVIOUS
<1>8. /\ o \o t \in Seq(S) /\ Len(o \o t) = one + c
      /\ \A i \in 1 .. one : (o \o t)[i] = o[i]
      /\ \A i \in 1 .. c : (o \o t)[one + i] = t[i]
  <2>1. Len(o) = one /\ Len(t) = c
    BY <1>5, <1>6, <1>7
  <2>. QED  BY ONLY <2>1, o \in Seq(S), t \in Seq(S), one \in Nat, c \in Nat
<1>9. PICK u \in Seq(S) : u = o \o t
  BY <1>8
<1>10. \A i \in 1 .. n : u[i] = s[i]
  <2> TAKE i \in 1 .. n
  <2>1. CASE i = 1
    BY <1>5, <1>6, <1>7, <1>8, <1>9, <2>1
  <2>2. CASE i # 1
    <3>1. PICK v \in 1 .. c : i = 1 + v
      <4>1. i - 1 \in 1 .. c /\ i = 1 + (i - 1)
        BY ONLY <1>3, <2>2, i \in 1 .. n, n \in Nat, c \in Nat
      <4>. QED  BY <4>1
    <3>2. u[one + v] = t[v]
      BY <1>8, <1>9
    <3>. QED  BY <1>5, <1>7, <3>1, <3>2
  <2>. QED  BY <2>1, <2>2
<1>11. u = s
  <2>1. Len(u) = n
    BY <1>3, <1>7, <1>8, <1>9
  <2>. QED  BY <1>1, <1>10, <2>1, SeqEqual
<1>. QED  BY <1>4, <1>6, <1>9, <1>11

LEMMA SendReplyMirror ==
  ASSUME MirrorInv, SendReply
  PROVE  MirrorInv'
<1>1. PICK S : down \in Seq(S) /\ replies \in Seq(S)
  BY DEF MirrorInv
<1>2. /\ replies # <<>> /\ down' = Append(down, Head(replies)) /\ replies' = Tail(replies)
      /\ UNCHANGED <<queue, batch, tick, controls, records, history, events, at, left, session>>
  BY DEF SendReply, page
<1>3. PICK h \in S, t \in Seq(S) : h = Head(replies) /\ t = Tail(replies) /\ replies = <<h>> \o t
  BY <1>1, <1>2, HeadAndTail
<1>4. down' = Append(down, h) /\ Append(down, h) = down \o <<h>> /\ down' \in Seq(S) /\ <<h>> \in Seq(S)
  BY <1>1, <1>2, <1>3, AppendIsConcat
<1>5. down' \o replies' = down \o replies
  <2>1. (down \o <<h>>) \o t = down \o (<<h>> \o t)
    BY <1>1, <1>4, ConcatAssociative
  <2>. QED  BY <1>2, <1>3, <1>4, <2>1
<1>6. snapshot' = snapshot
  BY <1>2 DEF snapshot, metrics, records, controls
<1>7. down' \in Seq(S) /\ replies' \in Seq(S)
  BY <1>2, <1>3, <1>4
<1>. QED  BY <1>2, <1>5, <1>6, <1>7, MirrorMoves

LEMMA OnMessageMirror ==
  ASSUME MirrorInv, OnMessage
  PROVE  MirrorInv'
<1>1. PICK S : down \in Seq(S) /\ replies \in Seq(S)
  BY DEF MirrorInv
<1>2. /\ down # <<>> /\ down' = Tail(down) /\ session' = applyMessage(session, Head(down))
      /\ UNCHANGED <<simVars, left>>
  BY DEF OnMessage, serverVars
<1>3. PICK h \in S, t \in Seq(S) : h = Head(down) /\ t = Tail(down) /\ down = <<h>> \o t
  BY <1>1, <1>2, HeadAndTail
<1>4. UNCHANGED <<history, events, replies, at, left>>
  BY <1>2 DEF simVars
<1>5. snapshot' = snapshot
  BY <1>2 DEF simVars, snapshot, metrics, records, controls
<1>6. PICK rest \in Seq(S) : rest = t \o replies
  <2>1. t \o replies \in Seq(S)
    BY <1>1
  <2>. QED  BY <2>1
<1>7. <<h>> \in Seq(S)
  OBVIOUS
<1>8. down \o replies = <<h>> \o rest
  BY <1>1, <1>3, <1>6, <1>7, ConcatAssociative
<1>9. Applied(session, <<h>> \o rest) = Applied(Applied(session, <<h>>), rest)
  BY <1>7, AppliedConcat
<1>10. Applied(session, <<h>>) = session'
  BY <1>2, <1>3, AppliedOne
<1>11. Applied(session', down' \o replies') = Applied(session, down \o replies)
  BY <1>2, <1>3, <1>4, <1>6, <1>8, <1>9, <1>10
<1>12. down' \in Seq(S) /\ replies' \in Seq(S)
  BY <1>1, <1>2, <1>3, <1>4
<1>. QED  BY <1>4, <1>5, <1>11, <1>12, MirrorMoves

LEMMA IdleFiresMirror ==
  ASSUME MirrorInv, IdleFires
  PROVE  MirrorInv'
<1>1. PICK S : down \in Seq(S) /\ replies \in Seq(S)
  BY DEF MirrorInv
<1>12. PICK m : m = [type |-> "close", code |-> CLOSE_IDLE]
  OBVIOUS
<1>2. m.type = "close"
  BY <1>12
<1>3. /\ replies = <<>> /\ down' = Append(down, m) /\ UNCHANGED <<simVars, left, session>>
  BY <1>12 DEF IdleFires, Selecting, page
<1>4. UNCHANGED <<history, events, replies, at, left>>
  BY <1>3 DEF simVars
<1>5. snapshot' = snapshot
  BY <1>3 DEF simVars, snapshot, metrics, records, controls
<1>6. PICK T : S \subseteq T /\ m \in T
  <2>1. S \subseteq S \cup {m} /\ m \in S \cup {m}
    OBVIOUS
  <2>. QED  BY <2>1
<1>7. down \in Seq(T) /\ replies \in Seq(T) /\ <<m>> \in Seq(T)
  BY <1>1, <1>6, WiderSeq
<1>8. down' = down \o <<m>> /\ down' \in Seq(T)
  BY <1>3, <1>6, <1>7, AppendIsConcat
<1>9. Applied(session, down \o <<m>>) = Applied(session, down)
  <2>1. Applied(session, down \o <<m>>) = Applied(Applied(session, down), <<m>>)
    BY <1>7, AppliedConcat
  <2>. QED  BY <1>2, <2>1, AppliedOne, ShowsNothing
<1>10. down \o replies = down /\ down' \o replies' = down'
  BY <1>3, <1>4, <1>7, <1>8
<1>11. Applied(session', down' \o replies') = Applied(session, down \o replies)
  BY <1>3, <1>8, <1>9, <1>10
<1>. QED  BY <1>4, <1>5, <1>7, <1>8, <1>11, MirrorMoves

-----------------------------------------------------------------------------
(* The session and its page together.                                      *)

SessionInv == SimInv /\ Spaced /\ MirrorInv

LEMMA RecvTextInv ==
  ASSUME SimInv, Spaced, MirrorInv, RecvText
  PROVE  SimInv' /\ MirrorInv'
<1>1. up # <<>> /\ at = "idle" /\ tick \in Nat /\ UNCHANGED <<session, down, left>>
  BY DEF RecvText, Selecting, page, SimInv
<1>2. PICK m \in [id : Nat, command : Commands \cup {Unreadable}] : m = Head(up)
  <2>1. PICK C : C = [id : Nat, command : Commands \cup {Unreadable}]
    OBVIOUS
  <2>2. up \in Seq(C)
    BY <2>1 DEF Spaced
  <2>3. Head(up) \in C
    BY <1>1, <2>2, HeadTailProperties
  <2>. QED  BY <2>1, <2>3
<1>3. CASE m.command = Unreadable
  <2>1. /\ Reply(<<ErrorMessage>>)
        /\ UNCHANGED <<queue, batch, tick, controls, records, history, events, at, fresh>>
    BY <1>2, <1>3 DEF RecvText
  <2>2. UNCHANGED <<queue, batch, meta, next_id, totals, events, fresh>> /\ tick' = tick /\ at' = at
    BY <2>1 DEF records
  <2>3. SimInv'
    BY <1>1, <2>2, FrameInv
  <2>4. PICK e : e = ErrorMessage
    OBVIOUS
  <2>5. e.type = "error"
    BY <2>4 DEF ErrorMessage
  <2>6. replies' = replies \o <<e>> /\ UNCHANGED <<history, events>>
    BY <2>1, <2>4 DEF Reply
  <2>7. snapshot' = snapshot
    BY <2>1 DEF snapshot, metrics, records, controls
  <2>8. Honest
    BY <1>1, <2>2, <2>5, <2>6, <2>7, NothingHonest
  <2>. QED  BY <1>1, <2>3, <2>8, HonestMirror
<1>4. CASE m.command # Unreadable
  <2>1. handle(m.id, m.command) /\ m.command \in Commands
    BY <1>2, <1>4 DEF RecvText
  <2>0. PICK c \in Commands : c = m.command
    BY <2>1
  <2>a. PICK i : i = m.id
    OBVIOUS
  <2>2. handle(i, c)
    BY ONLY <2>0, <2>a, <2>1
  <2>3. SimInv'
    BY <2>2, HandleInv
  <2>4. Honest
    BY <2>2, <2>3, HandleHonest
  <2>. QED  BY <1>1, <2>3, <2>4, HonestMirror
<1>. QED  BY <1>3, <1>4

LEMMA StillSim ==
  ASSUME SimInv, UNCHANGED simVars
  PROVE  SimInv'
<1>1. tick \in Nat
  BY DEF SimInv
<1>2. UNCHANGED <<queue, batch, meta, next_id, totals, events, fresh>> /\ tick' = tick /\ at' = at
  BY DEF simVars, records
<1>. QED  BY <1>1, <1>2, FrameInv

LEMMA SessionNextInv ==
  ASSUME SessionInv, [Next]_vars
  PROVE  SessionInv'
<1>1. SimInv /\ Spaced /\ MirrorInv /\ tick \in Nat
  BY DEF SessionInv, SimInv
<1>2. Spaced'
  BY <1>1, SpacedInv
<1>3. CASE TickerFires
  <2>1. /\ Start /\ at = "idle" /\ UNCHANGED <<queue, batch, records, history, events, replies>>
        /\ UNCHANGED <<session, down, left>>
    BY <1>3 DEF TickerFires, Selecting, page
  <2>2. SimInv'
    BY <1>1, <2>1, StartInv DEF records
  <2>3. UNCHANGED <<history, events, replies>> /\ at' # "idle"
    BY <2>1 DEF Start
  <2>4. Honest
    BY <1>1, <2>3, SilentHonest
  <2>. QED  BY <1>1, <1>2, <2>1, <2>2, <2>4, HonestMirror DEF SessionInv
<1>4. CASE InAdvance
  <2>1. AdvanceStep /\ UNCHANGED <<session, down, left>>
    BY <1>4 DEF InAdvance, page
  <2>2. SimInv'
    BY <1>1, <2>1, AdvanceInv
  <2>3. Honest
    BY <1>1, <2>1, <2>2, AdvanceHonest
  <2>. QED  BY <1>1, <1>2, <2>1, <2>2, <2>3, HonestMirror DEF SessionInv
<1>5. CASE RecvText
  BY <1>1, <1>2, <1>5, RecvTextInv DEF SessionInv
<1>6. CASE SendReply
  <2>1. /\ UNCHANGED <<queue, batch, meta, next_id, totals, events, fresh>> /\ tick' = tick
        /\ at' = at
    BY <1>6 DEF SendReply, records
  <2>2. SimInv'
    BY <1>1, <2>1, FrameInv
  <2>. QED  BY <1>1, <1>2, <1>6, <2>2, SendReplyMirror DEF SessionInv
<1>7. CASE IdleFires
  <2>1. UNCHANGED simVars
    BY <1>7 DEF IdleFires
  <2>. QED  BY <1>1, <1>2, <1>7, <2>1, StillSim, IdleFiresMirror DEF SessionInv
<1>8. CASE OnMessage
  <2>1. UNCHANGED simVars
    BY <1>8 DEF OnMessage, serverVars
  <2>. QED  BY <1>1, <1>2, <1>8, <2>1, StillSim, OnMessageMirror DEF SessionInv
<1>9. CASE \/ RecvEnd \/ SendFails \/ Time \/ OnClose \/ Break \/ UNCHANGED vars
           \/ \E c \in Commands \cup {Unreadable} : SendCommand(c)
  <2>1. UNCHANGED <<simVars, session, down>> /\ (left' = left \/ left' = TRUE)
    BY <1>9 DEF RecvEnd, SendFails, Time, OnClose, Break, SendCommand, serverVars, page, vars
  <2>. QED  BY <1>1, <1>2, <2>1, StillSim, MirrorFrame DEF SessionInv
<1>. QED  BY <1>3, <1>4, <1>5, <1>6, <1>7, <1>8, <1>9 DEF Next, Server

LEMMA SessionInitInv ==
  ASSUME Init
  PROVE  SessionInv
<1>1. SimInv
  BY SimInitInv DEF Init
<1>2. Spaced
  BY SessionAssumption DEF Init, Spaced
<1>3. /\ history = <<Metrics(0, <<>>, <<>>)>> /\ events = <<>> /\ down = <<>>
      /\ replies = <<InitMessage>> /\ session = NoSession
  BY DEF Init, SimInit
<1>4. history \in Seq(Point) /\ Len(history) <= HISTORY_LEN
  <2>1. PICK w \in Point : w = Metrics(0, <<>>, <<>>)
    <3>1. Metrics(0, <<>>, <<>>) \in Point
      BY DEF Metrics, Point
    <3>. QED  BY <3>1
  <2>2. history \in Seq(Point) /\ Len(history) = 1
    BY <1>3, <2>1
  <2>. QED  BY <2>2, CapsAgree
<1>5. PICK m : m = InitMessage
  OBVIOUS
<1>6. m.type = "init" /\ m.snapshot = snapshot /\ m.history = history /\ m.events = events
  BY <1>5 DEF InitMessage
<1>7. <<m>> \in Seq({m}) /\ <<>> \in Seq({m}) /\ <<>> \o <<m>> = <<m>>
  <2>1. PICK o \in Seq({m}) : o = <<m>>
    <3>1. <<m>> \in Seq({m})
      OBVIOUS
    <3>. QED  BY <3>1
  <2>2. <<>> \o o = o
    BY ConcatEmptySeq
  <2>. QED  BY <2>1, <2>2
<1>8. Latest(history, HISTORY_LEN) = history
  BY <1>4, CapsAgree, LatestShort
<1>9. Latest(events, EVENT_LOG_LEN) = events
  BY <1>1, CapsAgree, LatestShort DEF SimInv
<1>10. applyMessage(session, m) = Shown(snapshot, history, events)
  BY <1>6, <1>8, <1>9, ShowsInit
<1>11. Applied(session, down \o replies) = Shown(snapshot, history, events)
  BY <1>3, <1>5, <1>7, <1>10, AppliedOne
<1>12. Mirrors
  BY <1>11 DEF Mirrors
<1>13. \E S : down \in Seq(S) /\ replies \in Seq(S)
  BY <1>3, <1>5, <1>7
<1>14. MirrorInv
  BY <1>4, <1>12, <1>13 DEF MirrorInv
<1>. QED  BY <1>1, <1>2, <1>14 DEF SessionInv

(***************************************************************************)
(* The page converges to the session: with every message under way         *)
(* applied, it shows what the server would tell a page that connects now   *)
(* (protocol.rs:144, 151 and 156).                                         *)
(***************************************************************************)
THEOREM MirrorAlwaysConverges == Spec => []MirrorConverges
<1>1. Init => SessionInv
  BY SessionInitInv
<1>2. SessionInv /\ [Next]_vars => SessionInv'
  BY SessionNextInv
<1>3. SessionInv => MirrorConverges
  BY DEF SessionInv, MirrorInv, Mirrors, Shown, MirrorConverges
<1>. QED  BY <1>1, <1>2, <1>3, PTL DEF Spec

==============================================================================
