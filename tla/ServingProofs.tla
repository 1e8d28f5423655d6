---------------------------- MODULE ServingProofs ----------------------------
(***************************************************************************)
(* For every number of clients and every limit: the in-flight counter is   *)
(* exact, no handler that was let in finds the worker gone, the engine     *)
(* holds what the worker's map holds, the metrics count every request once *)
(* and a client that left is served at most once more.                     *)
(***************************************************************************)
EXTENDS Serving, FiniteSetTheorems, NaturalsInduction, WellFoundedInduction, TLAPS

Phases == {"new", "arrived", "over", "counted", "waiting", "ending", "answered", "gone"}
GuardPhases == {"counted", "waiting", "ending"}

PhaseTypeOK == phase \in [Client -> Phases]

-----------------------------------------------------------------------------
(* The counter.                                                            *)

CountInv == PhaseTypeOK /\ in_flight \in Int /\ InFlightExact

\* A set that gains or loses at most one element, counted.
LEMMA CountAfter ==
  ASSUME NEW S, NEW T, NEW c, IsFiniteSet(S), NEW was \in BOOLEAN, NEW is \in BOOLEAN,
         was <=> c \in S, T = IF is THEN S \cup {c} ELSE S \ {c}
  PROVE  /\ Cardinality(S) \in Nat
         /\ Cardinality(T) = Cardinality(S) + (IF is THEN 1 ELSE 0) - (IF was THEN 1 ELSE 0)
<1>1. Cardinality(S) \in Nat
  BY FS_CardinalityType
<1>2. CASE is
  BY <1>1, <1>2, FS_AddElement
<1>3. CASE ~is
  BY <1>1, <1>3, FS_RemoveElement
<1>. QED  BY <1>1, <1>2, <1>3

\* What a client that moves to another phase adds to the two sets.
LEMMA PhaseMoves ==
  ASSUME PhaseTypeOK, NEW c \in Client, NEW p \in Phases,
         phase' = [phase EXCEPT ![c] = p]
  PROVE  /\ PhaseTypeOK'
         /\ Cardinality(Guards) \in Nat /\ Cardinality(Refusing) \in Nat
         /\ Cardinality(Guards)' = Cardinality(Guards)
              + (IF p \in GuardPhases THEN 1 ELSE 0)
              - (IF phase[c] \in GuardPhases THEN 1 ELSE 0)
         /\ Cardinality(Refusing)' = Cardinality(Refusing)
              + (IF p = "over" THEN 1 ELSE 0) - (IF phase[c] = "over" THEN 1 ELSE 0)
<1>1. PhaseTypeOK' /\ \A d \in Client : phase'[d] = IF d = c THEN p ELSE phase[d]
  BY DEF PhaseTypeOK
<1>2. IsFiniteSet(Guards) /\ IsFiniteSet(Refusing)
  <2>1. Guards \subseteq Client /\ Refusing \subseteq Client
    BY DEF Guards, Refusing
  <2>. QED  BY <2>1, ServingAssumption, FS_Subset
<1>3. Guards' = IF p \in GuardPhases THEN Guards \cup {c} ELSE Guards \ {c}
  BY <1>1 DEF Guards, GuardPhases
<1>4. Refusing' = IF p = "over" THEN Refusing \cup {c} ELSE Refusing \ {c}
  BY <1>1 DEF Refusing
<1>5. /\ (phase[c] \in GuardPhases) <=> c \in Guards
      /\ (phase[c] = "over") <=> c \in Refusing
  BY DEF Guards, Refusing, GuardPhases
<1>6. PICK G, H, R, Q : G = Guards /\ H = Guards' /\ R = Refusing /\ Q = Refusing'
  OBVIOUS
<1>7. /\ Cardinality(G) \in Nat
      /\ Cardinality(H) = Cardinality(G) + (IF p \in GuardPhases THEN 1 ELSE 0)
                            - (IF phase[c] \in GuardPhases THEN 1 ELSE 0)
  BY <1>2, <1>3, <1>5, <1>6, CountAfter
<1>8. /\ Cardinality(R) \in Nat
      /\ Cardinality(Q) = Cardinality(R) + (IF p = "over" THEN 1 ELSE 0)
                            - (IF phase[c] = "over" THEN 1 ELSE 0)
  BY <1>2, <1>4, <1>5, <1>6, CountAfter
<1>. QED  BY <1>1, <1>6, <1>7, <1>8

LEMMA CountInit == Init => CountInv
<1> SUFFICES ASSUME Init PROVE CountInv
  OBVIOUS
<1>1. Guards = {} /\ Refusing = {}
  BY DEF Init, Guards, Refusing
<1>. QED
  BY <1>1, FS_EmptySet, ServingAssumption
  DEF Init, CountInv, PhaseTypeOK, Phases, InFlightExact, CapRespected

\* A step that leaves the phases and the counter alone.
LEMMA CountStays ==
  ASSUME CountInv, UNCHANGED <<phase, in_flight>>
  PROVE  CountInv'
  BY DEF CountInv, PhaseTypeOK, InFlightExact, CapRespected, Guards, Refusing

\* The worker and the shutdown.
LEMMA WorkerLeavesApi == Worker => UNCHANGED <<phase, ask, status, in_flight, router>>
  BY DEF Worker, apiVars, Recv, Stop, Loop, TryRecv, DrainEnd, DropNext, DropEnd, StepOk,
         SendNext, SendEnd, StepFailed, FailNext, FailEnd, Report

\* What a client in a phase adds to the counter.
Weight(p) == IF p \in GuardPhases \cup {"over"} THEN 1 ELSE 0

\* A move that counts right, and is let in only below the limit.
LEMMA CountMoves ==
  ASSUME CountInv, NEW c \in Client, NEW p \in Phases,
         phase' = [phase EXCEPT ![c] = p],
         in_flight' = in_flight + Weight(p) - Weight(phase[c]),
         p \in GuardPhases => phase[c] \in GuardPhases \/ in_flight < max_in_flight
  PROVE  CountInv'
<1> DEFINE g == IF p \in GuardPhases THEN 1 ELSE 0
           h == IF phase[c] \in GuardPhases THEN 1 ELSE 0
           r == IF p = "over" THEN 1 ELSE 0
           q == IF phase[c] = "over" THEN 1 ELSE 0
<1>1. /\ PhaseTypeOK /\ in_flight \in Int /\ max_in_flight \in Nat
      /\ in_flight = Cardinality(Guards) + Cardinality(Refusing)
      /\ Cardinality(Guards) <= max_in_flight
  BY ServingAssumption DEF CountInv, InFlightExact, CapRespected
<1>2. PhaseTypeOK' /\ Cardinality(Guards) \in Nat /\ Cardinality(Refusing) \in Nat
      /\ Cardinality(Guards)' = Cardinality(Guards) + g - h
      /\ Cardinality(Refusing)' = Cardinality(Refusing) + r - q
  BY <1>1, PhaseMoves
<1>3. Weight(p) = g + r /\ Weight(phase[c]) = h + q
  BY DEF Weight, GuardPhases
<1>4. g \in 0 .. 1 /\ h \in 0 .. 1 /\ r \in 0 .. 1 /\ q \in 0 .. 1
  OBVIOUS
<1>5. g = 1 => h = 1 \/ in_flight < max_in_flight
  OBVIOUS
<1>. HIDE DEF g, h, r, q
<1>6. in_flight' = Cardinality(Guards)' + Cardinality(Refusing)' /\ in_flight' \in Int
  BY <1>1, <1>2, <1>3, <1>4
<1>7. Cardinality(Guards)' <= max_in_flight
  BY <1>1, <1>2, <1>4, <1>5
<1>. QED  BY <1>2, <1>6, <1>7 DEF CountInv, InFlightExact, CapRespected

LEMMA CountNext == CountInv /\ [Next]_vars => CountInv'
<1> SUFFICES ASSUME CountInv, [Next]_vars PROVE CountInv'
  OBVIOUS
<1>1. in_flight \in Int /\ max_in_flight \in Nat
  BY ServingAssumption DEF CountInv
<1>2. CASE UNCHANGED vars
  BY <1>2, CountStays DEF vars, apiVars
<1>3. CASE Shutdown
  BY <1>3, CountStays DEF Shutdown
<1>4. CASE Worker
  BY <1>4, WorkerLeavesApi, CountStays
<1>5. /\ Weight("new") = 0 /\ Weight("arrived") = 0 /\ Weight("answered") = 0
      /\ Weight("gone") = 0 /\ Weight("over") = 1 /\ Weight("counted") = 1
      /\ Weight("waiting") = 1 /\ Weight("ending") = 1
  BY DEF Weight, GuardPhases
<1>6. ASSUME NEW c \in Client, NEW a \in Asks, Arrive(c, a) PROVE CountInv'
  <2>1. /\ phase' = [phase EXCEPT ![c] = "arrived"]
        /\ in_flight' = in_flight + Weight("arrived") - Weight(phase[c])
        /\ "arrived" \in GuardPhases => phase[c] \in GuardPhases \/ in_flight < max_in_flight
    BY <1>1, <1>5, <1>6 DEF Arrive, GuardPhases
  <2>. QED  BY <2>1, CountMoves DEF Phases
<1>7. ASSUME NEW c \in Client, Refuse(c) PROVE CountInv'
  <2>1. /\ phase' = [phase EXCEPT ![c] = "answered"]
        /\ in_flight' = in_flight + Weight("answered") - Weight(phase[c])
        /\ "answered" \in GuardPhases => phase[c] \in GuardPhases \/ in_flight < max_in_flight
    BY <1>1, <1>5, <1>7 DEF Refuse, Answer, GuardPhases
  <2>. QED  BY <2>1, CountMoves DEF Phases
<1>8. ASSUME NEW c \in Client, CountIn(c) PROVE CountInv'
  <2>1. CASE in_flight >= max_in_flight
    <3>1. /\ phase' = [phase EXCEPT ![c] = "over"]
          /\ in_flight' = in_flight + Weight("over") - Weight(phase[c])
          /\ "over" \in GuardPhases => phase[c] \in GuardPhases \/ in_flight < max_in_flight
      BY <1>1, <1>5, <1>8, <2>1 DEF CountIn, GuardPhases
    <3>. QED  BY <3>1, CountMoves DEF Phases
  <2>2. CASE ~(in_flight >= max_in_flight)
    <3>1. /\ phase' = [phase EXCEPT ![c] = "counted"]
          /\ in_flight' = in_flight + Weight("counted") - Weight(phase[c])
          /\ "counted" \in GuardPhases => phase[c] \in GuardPhases \/ in_flight < max_in_flight
      BY <1>1, <1>5, <1>8, <2>2 DEF CountIn, GuardPhases
    <3>. QED  BY <3>1, CountMoves DEF Phases
  <2>. QED  BY <2>1, <2>2
<1>9. ASSUME NEW c \in Client, TooMany(c) PROVE CountInv'
  <2>1. /\ phase' = [phase EXCEPT ![c] = "answered"]
        /\ in_flight' = in_flight + Weight("answered") - Weight(phase[c])
        /\ "answered" \in GuardPhases => phase[c] \in GuardPhases \/ in_flight < max_in_flight
    BY <1>1, <1>5, <1>9 DEF TooMany, Answer, GuardPhases
  <2>. QED  BY <2>1, CountMoves DEF Phases
<1>10. ASSUME NEW c \in Client, Submit(c) PROVE CountInv'
  <2>1. /\ phase' = [phase EXCEPT ![c] = "waiting"]
        /\ in_flight' = in_flight + Weight("waiting") - Weight(phase[c])
        /\ "waiting" \in GuardPhases => phase[c] \in GuardPhases \/ in_flight < max_in_flight
    BY <1>1, <1>5, <1>10 DEF Submit, GuardPhases
  <2>. QED  BY <2>1, CountMoves DEF Phases
<1>11. ASSUME NEW c \in Client, ReadToken(c) PROVE CountInv'
  BY <1>11, CountStays DEF ReadToken, apiVars
<1>12. ASSUME NEW c \in Client, ReadFinal(c) PROVE CountInv'
  <2>1. CASE ask[c].stream
    <3>1. /\ phase' = [phase EXCEPT ![c] = "ending"]
          /\ in_flight' = in_flight + Weight("ending") - Weight(phase[c])
          /\ "ending" \in GuardPhases => phase[c] \in GuardPhases \/ in_flight < max_in_flight
      BY <1>1, <1>5, <1>12, <2>1 DEF ReadFinal, GuardPhases
    <3>. QED  BY <3>1, CountMoves DEF Phases
  <2>2. CASE ~ask[c].stream
    <3>1. /\ phase' = [phase EXCEPT ![c] = "answered"]
          /\ in_flight' = in_flight + Weight("answered") - Weight(phase[c])
          /\ "answered" \in GuardPhases => phase[c] \in GuardPhases \/ in_flight < max_in_flight
      BY <1>1, <1>5, <1>12, <2>2 DEF ReadFinal, GuardPhases
    <3>. QED  BY <3>1, CountMoves DEF Phases
  <2>. QED  BY <2>1, <2>2
<1>13. ASSUME NEW c \in Client, EndStream(c) PROVE CountInv'
  <2>1. /\ phase' = [phase EXCEPT ![c] = "answered"]
        /\ in_flight' = in_flight + Weight("answered") - Weight(phase[c])
        /\ "answered" \in GuardPhases => phase[c] \in GuardPhases \/ in_flight < max_in_flight
    BY <1>1, <1>5, <1>13 DEF EndStream, GuardPhases
  <2>. QED  BY <2>1, CountMoves DEF Phases
<1>14. ASSUME NEW c \in Client, Disconnect(c) PROVE CountInv'
  <2>1. /\ phase' = [phase EXCEPT ![c] = "gone"]
        /\ in_flight' = in_flight + Weight("gone") - Weight(phase[c])
        /\ "gone" \in GuardPhases => phase[c] \in GuardPhases \/ in_flight < max_in_flight
    BY <1>1, <1>5, <1>14 DEF Disconnect, GuardPhases
  <2>. QED  BY <2>1, CountMoves DEF Phases
<1>. QED
  BY <1>2, <1>3, <1>4, <1>6, <1>7, <1>8, <1>9, <1>10, <1>11, <1>12, <1>13, <1>14
  DEF Next, Handler, Reading

(***************************************************************************)
(* However many clients race on the counter, however their requests end    *)
(* and wherever they disconnect, it counts the guards and the refusals     *)
(* that are under way, and no more than max_in_flight are let through.     *)
(***************************************************************************)
THEOREM InFlightStaysExact == Spec => []InFlightExact
<1>1. CountInv => InFlightExact
  BY DEF CountInv
<1>. QED  BY CountInit, CountNext, <1>1, PTL DEF Spec

-----------------------------------------------------------------------------
(* The end of the worker.                                                  *)

\* A worker that stopped has nobody left who could send to it.
HeardInv == wpc = "stopped" => ~Senders

LEMMA HeardInit == Init => HeardInv
  BY DEF Init, HeardInv

\* A step without the worker: nobody becomes a sender who was none, for only
\* the router lets clients in.
LEMMA SendersOnlyLeave ==
  ASSUME PhaseTypeOK, Next, ~Worker
  PROVE  (Senders' => Senders) /\ wpc' = wpc
<1> USE DEF PhaseTypeOK, Senders, HoldsState
<1>1. CASE Shutdown
  BY <1>1 DEF Shutdown, workerVars
<1>2. ASSUME NEW c \in Client, NEW a \in Asks, Arrive(c, a)
      PROVE  (Senders' => Senders) /\ wpc' = wpc
  BY <1>2 DEF Arrive, workerVars
<1>3. ASSUME NEW c \in Client, Handler(c)
      PROVE  (Senders' => Senders) /\ wpc' = wpc
  <2>1. HoldsState(c) /\ router' = router /\ wpc' = wpc
    BY <1>3 DEF Handler, Refuse, CountIn, TooMany, Submit, workerVars
  <2>. QED  BY <2>1
<1>4. ASSUME NEW c \in Client, Reading(c) \/ Disconnect(c)
      PROVE  (Senders' => Senders) /\ wpc' = wpc
  <2>1. HoldsState(c) /\ wpc' = wpc
    BY <1>4 DEF Reading, ReadToken, ReadFinal, EndStream, Disconnect, workerVars
  <2>. QED  BY <2>1
<1>. QED  BY <1>1, <1>2, <1>3, <1>4 DEF Next

LEMMA HeardNext == CountInv /\ HeardInv /\ [Next]_vars => HeardInv'
<1> SUFFICES ASSUME CountInv, HeardInv, [Next]_vars PROVE HeardInv'
  OBVIOUS
<1>1. CASE UNCHANGED vars
  BY <1>1 DEF vars, apiVars, workerVars, HeardInv, Senders, HoldsState
<1>2. CASE Next /\ ~Worker
  BY <1>2, SendersOnlyLeave DEF HeardInv, CountInv
<1>3. CASE Worker
  <2>1. Senders' <=> Senders
    BY <1>3, WorkerLeavesApi DEF Senders, HoldsState
  <2>2. wpc' = "stopped" => ~Senders
    BY <1>3
    DEF Worker, Recv, Stop, Loop, TryRecv, DrainEnd, DropNext, DropEnd, StepOk, SendNext,
        SendEnd, StepFailed, FailNext, FailEnd, Report
  <2>. QED  BY <2>1, <2>2 DEF HeardInv
<1>. QED  BY <1>1, <1>2, <1>3

(***************************************************************************)
(* Whatever the order of shutdown, disconnects and answers, the worker is  *)
(* there for every handler that was let in, so none answers 503.           *)
(***************************************************************************)
THEOREM EverySubmitIsHeard == Spec => []SubmitIsHeard
<1>1. HeardInv => SubmitIsHeard
  BY DEF HeardInv, SubmitIsHeard, Senders, HoldsState
<1>. QED  BY CountInit, CountNext, HeardInit, HeardNext, <1>1, PTL DEF Spec

-----------------------------------------------------------------------------
(* What Keep returns, by induction over the sequence.                      *)

\* A least element, which is what the induction needs.
LEMMA Least ==
  ASSUME NEW T \in SUBSET Nat, T # {}
  PROVE  \E n \in T : \A m \in T : n <= m
<1>1. IsWellFoundedOn(OpToRel(<, Nat), Nat)
  BY NatLessThanWellFounded
<1>2. \A x, y \in Nat : x < y => <<x, y>> \in OpToRel(<, Nat)
  BY DEF OpToRel
<1> DEFINE R == OpToRel(<, Nat)
<1>. HIDE DEF R
<1>3. PICK x \in T : \A y \in T : <<y, x>> \notin R
  BY <1>1, WFMin DEF R
<1>4. \A y \in T : ~(y < x)
  BY <1>2, <1>3 DEF R
<1>. QED  BY <1>4

\* A set of naturals that holds 0 and, up to n, with every number the next one.
LEMMA UpTo ==
  ASSUME NEW n \in Nat, NEW T, 0 \in T,
         \A i \in 0 .. n : i + 1 <= n /\ i \in T => i + 1 \in T
  PROVE  0 .. n \subseteq T
<1> SUFFICES ASSUME ~(0 .. n \subseteq T) PROVE FALSE
  OBVIOUS
<1>1. PICK m \in (0 .. n) \ T : \A k \in (0 .. n) \ T : m <= k
  <2>1. (0 .. n) \ T \in SUBSET Nat /\ (0 .. n) \ T # {}
    OBVIOUS
  <2>. QED  BY <2>1, Least
<1>2. m # 0 /\ m - 1 \in 0 .. n /\ m - 1 + 1 = m
  OBVIOUS
<1>3. m - 1 \in T
  BY <1>1, <1>2
<1>. QED  BY <1>2, <1>3

\* The function that Keep recurs on exists.
Kept(s, K) ==
  CHOOSE f : f = [i \in 0 .. Len(s) |->
    IF i = 0 THEN <<>> ELSE IF s[i] \in K THEN Append(f[i - 1], s[i]) ELSE f[i - 1]]

KeptUpTo(s, K, m, f) ==
  f = [i \in 0 .. m |->
    IF i = 0 THEN <<>> ELSE IF s[i] \in K THEN Append(f[i - 1], s[i]) ELSE f[i - 1]]

LEMMA KeptExists ==
  ASSUME NEW S, NEW s \in Seq(S), NEW K
  PROVE  /\ Gen!Keep(s, K) = Kept(s, K)[Len(s)]
         /\ KeptUpTo(s, K, Len(s), Kept(s, K))
<1>1. Len(s) \in Nat
  OBVIOUS
<1> DEFINE T == {m \in Nat : \E f : KeptUpTo(s, K, m, f)}
<1>2. 0 \in T
  <2>1. KeptUpTo(s, K, 0, [i \in 0 .. 0 |-> <<>>])
    BY DEF KeptUpTo
  <2>. QED  BY <2>1
<1>3. ASSUME NEW m \in 0 .. Len(s), m + 1 <= Len(s), m \in T
      PROVE  m + 1 \in T
  <2>1. PICK f : KeptUpTo(s, K, m, f)
    BY <1>3
  <2> DEFINE g == [i \in 0 .. m + 1 |->
               IF i = m + 1 THEN IF s[i] \in K THEN Append(f[m], s[i]) ELSE f[m] ELSE f[i]]
  <2>2. \A i \in 0 .. m + 1 :
          g[i] = IF i = 0 THEN <<>> ELSE IF s[i] \in K THEN Append(g[i - 1], s[i]) ELSE g[i - 1]
    <3> TAKE i \in 0 .. m + 1
    <3>1. CASE i = m + 1
      <4>1. i - 1 = m /\ m \in 0 .. m + 1 /\ m # m + 1 /\ i # 0
        BY <3>1
      <4>2. g[m] = f[m]
        BY <4>1
      <4>. QED  BY <3>1, <4>1, <4>2
    <3>2. CASE i # m + 1
      <4>1. i \in 0 .. m /\ (i # 0 => i - 1 \in 0 .. m + 1 /\ i - 1 # m + 1)
        BY <3>2
      <4>2. g[i] = f[i] /\ (i # 0 => g[i - 1] = f[i - 1])
        BY <3>2, <4>1
      <4>3. f[i] = IF i = 0 THEN <<>> ELSE IF s[i] \in K THEN Append(f[i - 1], s[i]) ELSE f[i - 1]
        BY <2>1, <4>1 DEF KeptUpTo
      <4>. QED  BY <4>2, <4>3
    <3>. QED  BY <3>1, <3>2
  <2>3. KeptUpTo(s, K, m + 1, g)
    <3>1. g = [i \in 0 .. m + 1 |-> g[i]]
      OBVIOUS
    <3>. HIDE DEF g
    <3>. QED  BY <2>2, <3>1 DEF KeptUpTo
  <2>. HIDE DEF g
  <2>. QED  BY <2>3
<1>4. Len(s) \in T
  <2>. HIDE DEF T
  <2>1. PICK n \in Nat : n = Len(s)
    BY <1>1
  <2>2. \A i \in 0 .. n : i + 1 <= n /\ i \in T => i + 1 \in T
    BY ONLY <1>3, <2>1
  <2>3. 0 .. n \subseteq T
    BY ONLY <1>2, <2>2, n \in Nat, UpTo
  <2>. QED  BY ONLY <2>1, <2>3, n \in Nat
<1>5. KeptUpTo(s, K, Len(s), Kept(s, K))
  <2>1. \E f : KeptUpTo(s, K, Len(s), f)
    BY <1>4
  <2>. QED  BY <2>1 DEF KeptUpTo, Kept
<1>6. Gen!Keep(s, K) = Kept(s, K)[Len(s)]
  BY DEF Gen!Keep, Kept
<1>. QED  BY <1>5, <1>6

\* What is kept: every element of K, by increasing positions.
Picks(s, K, m, t, at) ==
  /\ at \in [1 .. Len(t) -> 1 .. m]
  /\ \A k, l \in 1 .. Len(t) : k < l => at[k] < at[l]
  /\ \A k \in 1 .. Len(t) : t[k] = s[at[k]] /\ t[k] \in K
  /\ \A j \in 1 .. m : s[j] \in K => \E k \in 1 .. Len(t) : at[k] = j

\* What is kept is s at increasing positions, and nothing of K is missed.
LEMMA KeepPicks ==
  ASSUME NEW S, NEW s \in Seq(S), NEW K
  PROVE  /\ Gen!Keep(s, K) \in Seq(S)
         /\ \E at : Picks(s, K, Len(s), Gen!Keep(s, K), at)
<1> DEFINE f == Kept(s, K)
           T == {m \in 0 .. Len(s) : f[m] \in Seq(S) /\ \E at : Picks(s, K, m, f[m], at)}
<1>1. PICK n \in Nat : n = Len(s)
  OBVIOUS
<1>2. Gen!Keep(s, K) = f[n] /\ KeptUpTo(s, K, n, f)
  BY <1>1, KeptExists
<1>. HIDE DEF f
<1>3. /\ f[0] = <<>>
      /\ \A m \in 0 .. n : m # 0 =>
           f[m] = IF s[m] \in K THEN Append(f[m - 1], s[m]) ELSE f[m - 1]
  <2>1. f = [i \in 0 .. n |->
          IF i = 0 THEN <<>> ELSE IF s[i] \in K THEN Append(f[i - 1], s[i]) ELSE f[i - 1]]
    BY <1>2 DEF KeptUpTo
  <2>2. 0 \in 0 .. n
    BY <1>1
  <2>. QED  BY ONLY <2>1, <2>2
<1>4. 0 \in T
  <2>1. Picks(s, K, 0, <<>>, <<>>)
    BY DEF Picks
  <2>2. 0 \in 0 .. Len(s) /\ <<>> \in Seq(S)
    BY <1>1
  <2>. QED  BY <1>3, <2>1, <2>2
<1>5. ASSUME NEW m \in 0 .. n, m + 1 <= n, m \in T
      PROVE  m + 1 \in T
  <2>1. /\ m \in Nat /\ m + 1 \in 0 .. n /\ m + 1 # 0 /\ m + 1 - 1 = m
        /\ m + 1 \in DOMAIN s /\ s[m + 1] \in S
    BY <1>1, <1>5
  <2>2. f[m + 1] = IF s[m + 1] \in K THEN Append(f[m], s[m + 1]) ELSE f[m]
    BY ONLY <1>3, <2>1
  <2>3. f[m] \in Seq(S) /\ \E at : Picks(s, K, m, f[m], at)
    BY <1>5
  <2>4. PICK at : Picks(s, K, m, f[m], at)
    BY <2>3
  <2>5. PICK t \in Seq(S), l \in Nat : t = f[m] /\ l = Len(t)
    BY <2>3
  <2>6. /\ at \in [1 .. l -> 1 .. m]
        /\ \A i, j \in 1 .. l : i < j => at[i] < at[j]
        /\ \A k \in 1 .. l : t[k] = s[at[k]] /\ t[k] \in K
        /\ \A j \in 1 .. m : s[j] \in K => \E k \in 1 .. l : at[k] = j
    BY <2>4, <2>5 DEF Picks
  <2>7. CASE s[m + 1] \in K
    <3> DEFINE u == Append(t, s[m + 1])
               by == [k \in 1 .. l + 1 |-> IF k = l + 1 THEN m + 1 ELSE at[k]]
    <3>1. /\ u \in Seq(S) /\ Len(u) = l + 1 /\ u[l + 1] = s[m + 1]
          /\ \A k \in 1 .. l : u[k] = t[k]
      BY <2>1, <2>5
    <3>2. by \in [1 .. l + 1 -> 1 .. m + 1]
      BY <2>1, <2>6
    <3>3. by[l + 1] = m + 1 /\ \A k \in 1 .. l : by[k] = at[k]
      OBVIOUS
    <3>. HIDE DEF u, by
    <3>9. /\ \A k \in 1 .. l + 1 : k \in 1 .. l \/ k = l + 1
          /\ \A k \in 1 .. l : k \in 1 .. l + 1 /\ k < l + 1 /\ ~(l + 1 < k)
          /\ \A k \in 1 .. m + 1 : k \in 1 .. m \/ k = m + 1
          /\ \A k \in 1 .. m : k < m + 1
          /\ l + 1 \in 1 .. l + 1 /\ ~(l + 1 < l + 1)
      BY ONLY <2>1, l \in Nat
    <3>4. \A i, j \in 1 .. l + 1 : i < j => by[i] < by[j]
      BY ONLY <2>6, <3>3, <3>9
    <3>5. \A k \in 1 .. l + 1 : u[k] = s[by[k]] /\ u[k] \in K
      BY ONLY <2>6, <2>7, <3>1, <3>3, <3>9
    <3>6. \A j \in 1 .. m + 1 : s[j] \in K => \E k \in 1 .. l + 1 : by[k] = j
      BY ONLY <2>6, <3>3, <3>9
    <3>7. Picks(s, K, m + 1, u, by)
      BY <3>1, <3>2, <3>4, <3>5, <3>6 DEF Picks
    <3>8. f[m + 1] = u
      BY <2>2, <2>5, <2>7 DEF u
    <3>. QED  BY <1>1, <2>1, <3>1, <3>7, <3>8
  <2>8. CASE s[m + 1] \notin K
    <3>1. at \in [1 .. l -> 1 .. m + 1]
      BY <2>1, <2>6
    <3>2. Picks(s, K, m + 1, t, at)
      BY <2>1, <2>5, <2>6, <2>8, <3>1 DEF Picks
    <3>. QED  BY <1>1, <2>1, <2>2, <2>5, <2>8, <3>2
  <2>. QED  BY <2>7, <2>8
<1>6. n \in T
  <2>. HIDE DEF T
  <2>1. 0 .. n \subseteq T
    BY ONLY <1>4, <1>5, n \in Nat, UpTo
  <2>. QED  BY ONLY <2>1, n \in Nat
<1>. QED  BY <1>1, <1>2, <1>6

\* What is kept, as a set.
LEMMA KeepSet ==
  ASSUME NEW S, NEW s \in Seq(S), NEW K
  PROVE  /\ Gen!Keep(s, K) \in Seq(S)
         /\ ToSet(Gen!Keep(s, K)) = ToSet(s) \cap K
<1>1. PICK t \in Seq(S), n, l \in Nat : t = Gen!Keep(s, K) /\ n = Len(s) /\ l = Len(t)
  BY KeepPicks
<1>2. PICK at : Picks(s, K, n, t, at)
  BY <1>1, KeepPicks
<1>3. /\ DOMAIN s = 1 .. n /\ DOMAIN t = 1 .. l
      /\ at \in [1 .. l -> 1 .. n]
      /\ \A k \in 1 .. l : t[k] = s[at[k]] /\ t[k] \in K
      /\ \A j \in 1 .. n : s[j] \in K => \E k \in 1 .. l : at[k] = j
  BY <1>1, <1>2 DEF Picks
<1>4. ToSet(t) = {t[i] : i \in 1 .. l} /\ ToSet(s) = {s[i] : i \in 1 .. n}
  BY <1>3 DEF ToSet
<1>5. ToSet(t) = ToSet(s) \cap K
  BY ONLY <1>3, <1>4
<1>. QED  BY <1>1, <1>5

\* What holds of every pair in its order still does.
LEMMA KeepPairs ==
  ASSUME NEW S, NEW s \in Seq(S), NEW K, NEW R,
         \A i, j \in DOMAIN s : i < j => <<s[i], s[j]>> \in R
  PROVE  \A i, j \in DOMAIN Gen!Keep(s, K) :
           i < j => <<Gen!Keep(s, K)[i], Gen!Keep(s, K)[j]>> \in R
<1>1. PICK t \in Seq(S), n, l \in Nat : t = Gen!Keep(s, K) /\ n = Len(s) /\ l = Len(t)
  BY KeepPicks
<1>2. PICK at : Picks(s, K, n, t, at)
  BY <1>1, KeepPicks
<1>3. /\ DOMAIN s = 1 .. n /\ DOMAIN t = 1 .. l
      /\ at \in [1 .. l -> 1 .. n]
      /\ \A i, j \in 1 .. l : i < j => at[i] < at[j]
      /\ \A k \in 1 .. l : t[k] = s[at[k]]
  BY <1>1, <1>2 DEF Picks
<1>4. \A i, j \in DOMAIN t : i < j => <<t[i], t[j]>> \in R
  BY <1>3
<1>. QED  BY <1>1, <1>4

-----------------------------------------------------------------------------
(* The line.                                                               *)

Entry == [id : Client, left : Int]
Ids(l) == {l[i].id : i \in DOMAIN l}
OneEach(l) == \A i, j \in DOMAIN l : i < j => l[i].id # l[j].id
LineOK(l) == l \in Seq(Entry) /\ OneEach(l)

Apart == {p \in Entry \X Entry : p[1].id # p[2].id}

\* Of a line, some of its requests.
LEMMA KeepLine ==
  ASSUME NEW l, LineOK(l), NEW K
  PROVE  /\ LineOK(Gen!Keep(l, K))
         /\ Ids(Gen!Keep(l, K)) = {e.id : e \in ToSet(l) \cap K}
<1>1. l \in Seq(Entry) /\ OneEach(l)
  BY DEF LineOK
<1>2. \A i, j \in DOMAIN l : i < j => <<l[i], l[j]>> \in Apart
  BY <1>1 DEF OneEach, Apart
<1>3. PICK t \in Seq(Entry) : t = Gen!Keep(l, K) /\ ToSet(t) = ToSet(l) \cap K
  BY <1>1, KeepSet
<1>4. \A i, j \in DOMAIN t : i < j => <<t[i], t[j]>> \in Apart
  BY <1>1, <1>2, <1>3, KeepPairs
<1>5. OneEach(t)
  BY <1>4 DEF OneEach, Apart
<1>6. Ids(t) = {e.id : e \in ToSet(t)}
  BY DEF Ids, ToSet
<1>. QED  BY <1>3, <1>5, <1>6 DEF LineOK

\* cancel takes the one request out.
LEMMA CancelLine ==
  ASSUME LineOK(line), NEW c, Gen!cancel(c)
  PROVE  LineOK(line') /\ Ids(line') = Ids(line) \ {c}
<1> DEFINE K == {r \in ToSet(line) : r.id # c}
<1>1. line' = Gen!Keep(line, K)
  BY DEF Gen!cancel, Gen!ToSet, ToSet
<1>2. LineOK(line') /\ Ids(line') = {e.id : e \in ToSet(line) \cap K}
  <2>. HIDE DEF K
  <2>. QED  BY <1>1, KeepLine
<1>3. {e.id : e \in ToSet(line) \cap K} = {line[i].id : i \in DOMAIN line} \ {c}
  <2>1. ToSet(line) = {line[i] : i \in DOMAIN line}
    BY DEF ToSet
  <2>. QED  BY <2>1
<1>. QED  BY <1>2, <1>3 DEF Ids

\* add_request puts one at the end.
LEMMA AddLine ==
  ASSUME LineOK(line), NEW c \in Client, NEW m \in Int, c \notin Ids(line),
         Gen!add_request(c, m)
  PROVE  LineOK(line') /\ Ids(line') = Ids(line) \cup {c} /\ Len(line') = Len(line) + 1
<1>1. PICK n \in Nat : n = Len(line) /\ DOMAIN line = 1 .. n
  BY DEF LineOK
<1>2. /\ line' \in Seq(Entry) /\ DOMAIN line' = 1 .. n + 1 /\ Len(line') = n + 1
      /\ line'[n + 1].id = c
      /\ \A i \in 1 .. n : line'[i] = line[i]
  BY <1>1 DEF LineOK, Gen!add_request, Entry
<1>3. /\ \A k \in 1 .. n + 1 : k \in 1 .. n \/ k = n + 1
      /\ \A k \in 1 .. n : k \in 1 .. n + 1 /\ ~(n + 1 < k)
      /\ n + 1 \in 1 .. n + 1 /\ ~(n + 1 < n + 1)
  BY ONLY n \in Nat
<1>4. \A i \in 1 .. n : line[i].id # c
  BY <1>1 DEF Ids
<1>5. OneEach(line')
  <2>1. \A i, j \in 1 .. n : i < j => line[i].id # line[j].id
    BY <1>1 DEF LineOK, OneEach
  <2>. QED  BY ONLY <1>2, <1>3, <1>4, <2>1 DEF OneEach
<1>6. Ids(line') = Ids(line) \cup {c}
  BY ONLY <1>1, <1>2, <1>3 DEF Ids
<1>. QED  BY <1>1, <1>2, <1>5, <1>6 DEF LineOK

-----------------------------------------------------------------------------
(* A step and what it sends.                                               *)

Msg == [to : Client, event : {"token", "stop", "length"}]
Finals(m) == {m[i].to : i \in {j \in DOMAIN m : Final(m[j].event)}}
FinalOnce(m) ==
  \A i, j \in DOMAIN m : i < j /\ Final(m[i].event) /\ Final(m[j].event) => m[i].to # m[j].to
TodoOK(m) == m \in Seq(Msg) /\ FinalOnce(m)

Ending(n, stopped) == {line[i].id : i \in {j \in DOMAIN line : Gen!Ends(j, n, stopped)}}

\* A step takes out who ends.
LEMMA StepLine ==
  ASSUME LineOK(line), NEW n, NEW stopped, Gen!step(n, stopped)
  PROVE  LineOK(line') /\ Ids(line') = Ids(line) \ Ending(n, stopped)
<1> DEFINE after == [i \in DOMAIN line |-> [line[i] EXCEPT !.left = IF i <= n THEN @ - 1 ELSE @]]
           K == {r \in ToSet(after) : r.id \notin Ending(n, stopped)}
<1>1. PICK m \in Nat : m = Len(line) /\ DOMAIN line = 1 .. m /\ line \in Seq(Entry)
  BY DEF LineOK
<1>0. \A i \in 1 .. m : line[i] \in Entry
  <2>1. \A l \in Seq(Entry) : \A i \in DOMAIN l : l[i] \in Entry
    OBVIOUS
  <2>. QED  BY ONLY <1>1, <2>1
<1>2. line' = Gen!Keep(after, K)
  BY DEF Gen!step, Gen!Served, Gen!ToSet, ToSet, Ending
<1>3. \A i \in 1 .. m : after[i] \in Entry /\ after[i].id = line[i].id
  <2>1. n \in Int
    BY DEF Gen!step
  <2>2. \A e \in Entry, x \in Int :
          [e EXCEPT !.left = x] \in Entry /\ [e EXCEPT !.left = x].id = e.id
    BY DEF Entry
  <2> TAKE i \in 1 .. m
  <2>3. line[i] \in Entry /\ line[i].left \in Int
    BY ONLY <1>0, i \in 1 .. m DEF Entry
  <2>4. after[i] = [line[i] EXCEPT !.left = IF i <= n THEN line[i].left - 1 ELSE line[i].left]
    BY <1>1
  <2>. HIDE DEF after
  <2>5. (IF i <= n THEN line[i].left - 1 ELSE line[i].left) \in Int
    BY <2>1, <2>3
  <2>. QED  BY ONLY <2>2, <2>3, <2>4, <2>5
<1>4. DOMAIN after = 1 .. m
  BY <1>1
<1>5. LineOK(after)
  <2>1. after = [i \in 1 .. m |-> after[i]]
    BY <1>1
  <2>. HIDE DEF after
  <2>2. after \in Seq(Entry)
    BY ONLY <1>3, <2>1, m \in Nat
  <2>3. OneEach(after)
    BY <1>1, <1>3, <1>4 DEF LineOK, OneEach
  <2>. QED  BY <2>2, <2>3 DEF LineOK
<1>6. {e.id : e \in ToSet(after) \cap K} = Ids(line) \ Ending(n, stopped)
  <2>. HIDE DEF after
  <2>1. ToSet(after) = {after[i] : i \in 1 .. m}
    BY <1>4 DEF ToSet
  <2>2. Ids(line) = {line[i].id : i \in 1 .. m}
    BY <1>1 DEF Ids
  <2>. QED  BY <1>3, <2>1, <2>2
<1>. QED
  <2>. HIDE DEF after, K
  <2>. QED  BY <1>2, <1>5, <1>6, KeepLine

\* Who ends is told so, once.
LEMMA MessagesAre ==
  ASSUME LineOK(line), NEW n \in 1 .. Len(line), NEW stopped
  PROVE  /\ TodoOK(Messages(n, stopped))
         /\ Finals(Messages(n, stopped)) = Ending(n, stopped)
<1> DEFINE sampled == [i \in 1 .. n |-> line[i].id]
           A == ToSet(sampled) \ stopped
           B == {line[i].id : i \in {j \in 1 .. n : Gen!Ends(j, n, stopped)}}
           told == [i \in DOMAIN Gen!Keep(sampled, A) |->
                      [to |-> Gen!Keep(sampled, A)[i], event |-> "token"]]
           over == [i \in DOMAIN Gen!Keep(sampled, B) |->
                      [to |-> Gen!Keep(sampled, B)[i],
                       event |-> IF Gen!Keep(sampled, B)[i] \in stopped THEN "stop" ELSE "length"]]
<1>1. PICK m \in Nat : m = Len(line) /\ DOMAIN line = 1 .. m /\ line \in Seq(Entry)
  BY DEF LineOK
<1>0. \A i \in 1 .. m : line[i] \in Entry
  <2>1. \A l \in Seq(Entry) : \A i \in DOMAIN l : l[i] \in Entry
    OBVIOUS
  <2>. QED  BY ONLY <1>1, <2>1
<1>2. n \in 1 .. m /\ \A i \in 1 .. n : i \in 1 .. m
  BY <1>1
<1>3. sampled \in Seq(Client) /\ DOMAIN sampled = 1 .. n
  <2>1. n \in Nat
    BY <1>2
  <2>2. \A i \in 1 .. n : sampled[i] \in Client
    <3>1. \A e \in Entry : e.id \in Client
      BY DEF Entry
    <3>. QED  BY <1>0, <1>2, <3>1
  <2>3. sampled = [i \in 1 .. n |-> sampled[i]]
    OBVIOUS
  <2>. HIDE DEF sampled
  <2>. QED  BY ONLY <2>1, <2>2, <2>3
<1>4. \A i, j \in 1 .. n : i < j => sampled[i] # sampled[j]
  BY <1>1, <1>2 DEF LineOK, OneEach
<1>5. Messages(n, stopped) = told \o over
  BY DEF Messages
<1>6. B = Ending(n, stopped) /\ B \subseteq ToSet(sampled)
  <2>1. \A j \in DOMAIN line : Gen!Ends(j, n, stopped) => j \in 1 .. n
    BY <1>1, <1>2 DEF Gen!Ends
  <2>2. ToSet(sampled) = {line[i].id : i \in 1 .. n}
    BY <1>3 DEF ToSet
  <2>. QED  BY <1>1, <1>2, <2>1, <2>2 DEF Ending
<1>. HIDE DEF sampled, A, B
<1>7. PICK t \in Seq(Client), a \in Nat : t = Gen!Keep(sampled, A) /\ a = Len(t)
  BY <1>3, KeepSet
<1>8. PICK u \in Seq(Client), b \in Nat :
        u = Gen!Keep(sampled, B) /\ b = Len(u) /\ ToSet(u) = B
  <2>1. Gen!Keep(sampled, B) \in Seq(Client) /\ ToSet(Gen!Keep(sampled, B)) = ToSet(sampled) \cap B
    BY <1>3, KeepSet
  <2>2. ToSet(sampled) \cap B = B
    BY <1>6
  <2>3. PICK u \in Seq(Client) : u = Gen!Keep(sampled, B)
    BY ONLY <2>1
  <2>4. Len(u) \in Nat
    BY ONLY u \in Seq(Client)
  <2>. QED  BY ONLY <2>1, <2>2, <2>3, <2>4
<1>9. \A i, j \in 1 .. b : i < j => u[i] # u[j]
  <2> DEFINE R == {p \in Client \X Client : p[1] # p[2]}
  <2>1. \A i, j \in DOMAIN sampled : i < j => <<sampled[i], sampled[j]>> \in R
    BY <1>3, <1>4
  <2>. HIDE DEF R
  <2>2. \A i, j \in DOMAIN Gen!Keep(sampled, B) :
          i < j => <<Gen!Keep(sampled, B)[i], Gen!Keep(sampled, B)[j]>> \in R
    BY ONLY <1>3, <2>1, KeepPairs
  <2>3. \A i, j \in 1 .. b : i < j => <<u[i], u[j]>> \in R
    <3>1. DOMAIN u = 1 .. b
      BY <1>8
    <3>. QED  BY ONLY <1>8, <2>2, <3>1
  <2>. USE DEF R
  <2>. QED  BY <2>3
<1>10. /\ told = [i \in 1 .. a |-> [to |-> t[i], event |-> "token"]]
       /\ over = [i \in 1 .. b |-> [to |-> u[i],
                                    event |-> IF u[i] \in stopped THEN "stop" ELSE "length"]]
  BY <1>7, <1>8
<1>. HIDE DEF told, over
<1>11. told \in Seq(Msg) /\ over \in Seq(Msg) /\ Len(told) = a /\ Len(over) = b
  BY <1>7, <1>8, <1>10 DEF Msg
<1>12. PICK w \in Seq(Msg), c \in Nat :
         /\ w = told \o over /\ c = a + b /\ Len(w) = c /\ DOMAIN w = 1 .. c
  <2>1. \A x, y \in Seq(Msg) : x \o y \in Seq(Msg) /\ Len(x \o y) = Len(x) + Len(y)
    OBVIOUS
  <2>2. told \o over \in Seq(Msg) /\ Len(told \o over) = a + b /\ a + b \in Nat
    <3>1. told \o over \in Seq(Msg) /\ Len(told \o over) = Len(told) + Len(over)
      BY ONLY <1>11, <2>1
    <3>2. a + b \in Nat
      OBVIOUS
    <3>. QED  BY ONLY <1>11, <3>1, <3>2
  <2>3. \A x \in Seq(Msg) : DOMAIN x = 1 .. Len(x)
    OBVIOUS
  <2>. QED  BY ONLY <2>2, <2>3
<1>13. /\ \A i \in 1 .. a : w[i] = told[i]
       /\ \A i \in 1 .. b : w[a + i] = over[i]
  BY <1>11, <1>12
<1>14. /\ \A i \in 1 .. a : ~Final(w[i].event)
       /\ \A i \in 1 .. b : w[a + i].to = u[i] /\ Final(w[a + i].event)
  <2>1. \A i \in 1 .. a : told[i] = [to |-> t[i], event |-> "token"]
    BY <1>10
  <2>2. \A i \in 1 .. b : over[i].to = u[i] /\ over[i].event \in {"stop", "length"}
    BY <1>10
  <2>3. \A i \in 1 .. a : told[i].event = "token"
    <3> TAKE i \in 1 .. a
    <3>1. told[i] = [to |-> t[i], event |-> "token"]
      BY <2>1
    <3>. QED  BY ONLY <3>1
  <2>. QED  BY ONLY <1>13, <2>2, <2>3 DEF Final
<1>15. /\ \A i \in 1 .. c : i \in 1 .. a \/ \E k \in 1 .. b : i = a + k
       /\ \A k \in 1 .. b : a + k \in 1 .. c
       /\ \A k, l \in 1 .. b : a + k < a + l => k < l
  <2>1. \A i \in 1 .. c : i \in 1 .. a \/ (i - a \in 1 .. b /\ i = a + (i - a))
    BY <1>12
  <2>. QED  BY <1>12, <2>1
<1>16. FinalOnce(w)
  <2> SUFFICES ASSUME NEW i \in 1 .. c, NEW j \in 1 .. c, i < j,
                      Final(w[i].event), Final(w[j].event)
               PROVE  w[i].to # w[j].to
    BY <1>12 DEF FinalOnce
  <2>1. PICK k \in 1 .. b : i = a + k
    BY <1>14, <1>15
  <2>2. PICK l \in 1 .. b : j = a + l
    BY <1>14, <1>15
  <2>3. k < l
    BY ONLY <1>15, <2>1, <2>2, i < j
  <2>4. w[i].to = u[k] /\ w[j].to = u[l]
    BY ONLY <1>14, <2>1, <2>2, k \in 1 .. b, l \in 1 .. b
  <2>5. u[k] # u[l]
    BY ONLY <1>9, <2>3, k \in 1 .. b, l \in 1 .. b
  <2>. QED  BY <2>4, <2>5
<1>17. Finals(w) = {u[k] : k \in 1 .. b}
  <2>1. Finals(w) = {w[i].to : i \in {j \in 1 .. c : Final(w[j].event)}}
    BY <1>12 DEF Finals
  <2>2. ASSUME NEW x \in Finals(w) PROVE \E k \in 1 .. b : x = u[k]
    <3>1. PICK j \in 1 .. c : Final(w[j].event) /\ x = w[j].to
      BY ONLY <2>1, <2>2
    <3>2. PICK k \in 1 .. b : j = a + k
      BY ONLY <1>14, <1>15, <3>1, j \in 1 .. c
    <3>. QED  BY ONLY <1>14, <3>1, <3>2, k \in 1 .. b
  <2>3. ASSUME NEW k \in 1 .. b PROVE u[k] \in Finals(w)
    <3>1. a + k \in {j \in 1 .. c : Final(w[j].event)} /\ w[a + k].to = u[k]
      BY ONLY <1>14, <1>15, <2>3
    <3>. QED  BY ONLY <2>1, <3>1
  <2>. QED  BY ONLY <2>2, <2>3
<1>18. ToSet(u) = {u[k] : k \in 1 .. b}
  <2>1. DOMAIN u = 1 .. b
    BY <1>8
  <2>. QED  BY ONLY <2>1 DEF ToSet
<1>. QED  BY <1>5, <1>6, <1>8, <1>12, <1>16, <1>17, <1>18 DEF TodoOK

-----------------------------------------------------------------------------
(* Where a request is, and what has been told and counted of it.           *)

InChannel(c) == \E i \in DOMAIN inbox : inbox[i] = c
Pending(c) == c \in live \/ InChannel(c)

ServTypes ==
  /\ phase \in [Client -> Phases]
  /\ ask \in [Client -> Ask]
  /\ status \in [Client -> {"none", "200", "400", "429", "stream error"}]
  /\ inbox \in Seq(Client)
  /\ events \in [Client -> Seq({"token", "stop", "length", "failed"})]
  /\ done \in [Client -> Seq({"rejected", "error", "cancelled", "finished"})]
  /\ late \in [Client -> Nat]

\* What the worker has of the engine.
LineInv ==
  /\ LineOK(line) /\ TodoOK(todo)
  /\ live = Ids(line) \cup Finals(todo) /\ Ids(line) \cap Finals(todo) = {}
  /\ live \subseteq Client
  /\ wpc # "send" => todo = <<>>
  /\ wpc \in {"drop", "fail"} => left \subseteq live
  /\ wpc = "loop" => gauge = Len(line)

Early == {"new", "arrived", "over", "counted"}

\* One outcome, once a request is neither in the channel nor live.
Life(c) ==
  /\ phase[c] \in Early =>
       ~Pending(c) /\ done[c] = <<>> /\ status[c] = "none" /\ events[c] = <<>>
  /\ Pending(c) =>
       /\ phase[c] \in {"waiting", "gone"} /\ done[c] = <<>> /\ status[c] = "none"
       /\ \A i \in DOMAIN events[c] : ~Final(events[c][i])
  /\ phase[c] \in {"waiting", "ending", "gone"} /\ ~Pending(c) => Len(done[c]) = 1
  /\ phase[c] = "answered" =>
       Len(done[c]) <= 1 /\ (status[c] # "400" => Len(done[c]) = 1)

LifeInv ==
  /\ \A i, j \in DOMAIN inbox : i < j => inbox[i] # inbox[j]
  /\ \A c \in Client : InChannel(c) => c \notin live
  /\ \A c \in Client : Life(c)

\* Who was served after it left is dropped before the next step.
LateInv ==
  \A c \in Client :
    /\ late[c] <= 1
    /\ late[c] = 1 =>
         /\ phase[c] = "gone" /\ ~InChannel(c)
         /\ \/ c \notin live
            \/ wpc \in {"send", "report", "loop", "drain"}
            \/ wpc = "drop" /\ c \in left

ServInv == ServTypes /\ LineInv /\ LifeInv /\ LateInv

-----------------------------------------------------------------------------
(* The invariant, action by action.                                        *)

\* It holds at the start.
LEMMA ServInit == Init => ServInv
<1> SUFFICES ASSUME Init PROVE ServInv
  OBVIOUS
<1>1. NoAsk \in Ask
  BY ServingAssumption DEF NoAsk, Ask
<1>2. ServTypes
  BY <1>1 DEF Init, ServTypes, Phases
<1>3. DOMAIN line = {} /\ DOMAIN todo = {} /\ DOMAIN inbox = {} /\ Len(line) = 0
  BY DEF Init
<1>4. LineInv
  <2>1. LineOK(line) /\ TodoOK(todo)
    BY <1>3 DEF Init, LineOK, OneEach, TodoOK, FinalOnce
  <2>2. Ids(line) = {} /\ Finals(todo) = {}
    BY <1>3 DEF Ids, Finals
  <2>. QED  BY <1>3, <2>1, <2>2 DEF Init, LineInv
<1>5. LifeInv
  <2>1. \A c \in Client : ~InChannel(c) /\ ~Pending(c)
    BY <1>3 DEF Init, InChannel, Pending
  <2>. QED  BY <1>3, <2>1 DEF Init, LifeInv, Life, Early
<1>6. LateInv
  BY DEF Init, LateInv
<1>. QED  BY <1>2, <1>4, <1>5, <1>6 DEF ServInv

\* A submission at the end of the channel, and one that leaves it.
LEMMA ChannelGains ==
  ASSUME inbox \in Seq(Client), NEW c \in Client, inbox' = Append(inbox, c)
  PROVE  /\ \A d \in Client : InChannel(d)' <=> InChannel(d) \/ d = c
         /\ /\ ~InChannel(c)
            /\ \A i, j \in DOMAIN inbox : i < j => inbox[i] # inbox[j]
            => \A i, j \in DOMAIN inbox' : i < j => inbox'[i] # inbox'[j]
<1>1. PICK n \in Nat : n = Len(inbox) /\ DOMAIN inbox = 1 .. n
  OBVIOUS
<1>2. /\ DOMAIN inbox' = 1 .. n + 1 /\ inbox'[n + 1] = c
      /\ \A i \in 1 .. n : inbox'[i] = inbox[i]
  BY <1>1
<1>3. /\ \A k \in 1 .. n + 1 : k \in 1 .. n \/ k = n + 1
      /\ \A k \in 1 .. n : k \in 1 .. n + 1 /\ ~(n + 1 < k)
      /\ n + 1 \in 1 .. n + 1 /\ ~(n + 1 < n + 1)
  BY ONLY n \in Nat
<1>4. \A d \in Client : InChannel(d)' <=> InChannel(d) \/ d = c
  <2>1. ASSUME NEW d \in Client, InChannel(d)' PROVE InChannel(d) \/ d = c
    BY <1>1, <1>2, <1>3, <2>1 DEF InChannel
  <2>2. ASSUME NEW d \in Client, InChannel(d) PROVE InChannel(d)'
    <3>1. PICK i \in 1 .. n : inbox[i] = d
      BY <1>1, <2>2 DEF InChannel
    <3>2. i \in DOMAIN inbox' /\ inbox'[i] = d
      BY <1>2, <1>3, <3>1
    <3>. QED  BY <3>2 DEF InChannel
  <2>3. InChannel(c)'
    BY <1>2, <1>3 DEF InChannel
  <2>. QED  BY <2>1, <2>2, <2>3
<1>5. ASSUME ~InChannel(c), \A i, j \in DOMAIN inbox : i < j => inbox[i] # inbox[j]
      PROVE  \A i, j \in DOMAIN inbox' : i < j => inbox'[i] # inbox'[j]
  <2>1. \A i \in 1 .. n : inbox[i] # c
    BY <1>1, <1>5 DEF InChannel
  <2>2. \A i, j \in 1 .. n : i < j => inbox[i] # inbox[j]
    BY <1>1, <1>5
  <2>. QED  BY ONLY <1>2, <1>3, <2>1, <2>2
<1>. QED  BY <1>4, <1>5

LEMMA ChannelLoses ==
  ASSUME inbox \in Seq(Client), inbox # <<>>, inbox' = Tail(inbox),
         \A i, j \in DOMAIN inbox : i < j => inbox[i] # inbox[j]
  PROVE  /\ Head(inbox) \in Client /\ InChannel(Head(inbox))
         /\ \A d \in Client : InChannel(d)' <=> InChannel(d) /\ d # Head(inbox)
         /\ \A i, j \in DOMAIN inbox' : i < j => inbox'[i] # inbox'[j]
<1>1. PICK n \in Nat : n = Len(inbox) /\ DOMAIN inbox = 1 .. n
  OBVIOUS
<1>2. n >= 1 /\ Head(inbox) = inbox[1] /\ inbox[1] \in Client
  BY <1>1
<1>3. DOMAIN inbox' = 1 .. n - 1 /\ \A i \in 1 .. n - 1 : inbox'[i] = inbox[i + 1]
  BY <1>1, <1>2
<1>4. /\ 1 \in 1 .. n
      /\ \A i \in 1 .. n - 1 : i + 1 \in 1 .. n /\ 1 < i + 1
      /\ \A i, j \in 1 .. n - 1 : i < j => i + 1 < j + 1
      /\ \A i \in 1 .. n : i = 1 \/ (i - 1 \in 1 .. n - 1 /\ i - 1 + 1 = i)
  BY ONLY <1>2, n \in Nat
<1>5. \A i, j \in 1 .. n : i < j => inbox[i] # inbox[j]
  BY <1>1
<1>6. InChannel(Head(inbox))
  BY <1>1, <1>2, <1>4 DEF InChannel
<1>7. ASSUME NEW d \in Client, InChannel(d)' PROVE InChannel(d) /\ d # Head(inbox)
  <2>1. PICK i \in 1 .. n - 1 : inbox[i + 1] = d
    BY <1>3, <1>7 DEF InChannel
  <2>2. i + 1 \in 1 .. n /\ inbox[1] # inbox[i + 1]
    BY ONLY <1>4, <1>5, i \in 1 .. n - 1
  <2>. QED  BY <1>1, <1>2, <2>1, <2>2 DEF InChannel
<1>8. ASSUME NEW d \in Client, InChannel(d), d # Head(inbox) PROVE InChannel(d)'
  <2>1. PICK i \in 1 .. n : inbox[i] = d
    BY <1>1, <1>8 DEF InChannel
  <2>2. i - 1 \in 1 .. n - 1 /\ i - 1 + 1 = i
    BY <1>2, <1>4, <1>8, <2>1
  <2>3. i - 1 \in DOMAIN inbox' /\ inbox'[i - 1] = d
    BY <1>3, <2>1, <2>2
  <2>. QED  BY <2>3 DEF InChannel
<1>9. \A i, j \in 1 .. n - 1 : i < j => inbox'[i] # inbox'[j]
  BY ONLY <1>3, <1>4, <1>5
<1>. QED  BY <1>2, <1>3, <1>6, <1>7, <1>8, <1>9

\* A step that does not concern a request.
LEMMA LifeElsewhere ==
  ASSUME NEW c \in Client, Life(c), phase'[c] = phase[c], done'[c] = done[c],
         status'[c] = status[c], events'[c] = events[c], Pending(c)' <=> Pending(c)
  PROVE  Life(c)'
  BY DEF Life

\* What a step of the client c and its handler may do.
ClientMove(c) ==
  (\E a \in Asks : Arrive(c, a)) \/ Handler(c) \/ Reading(c) \/ Disconnect(c)

\* Types, for a step of a client.
LEMMA ClientTypes ==
  ASSUME ServTypes, NEW c \in Client, ClientMove(c)
  PROVE  ServTypes'
<1>1. Asks \subseteq Ask
  BY ServingAssumption
<1>2. phase' \in [Client -> Phases] /\ ask' \in [Client -> Ask]
  BY <1>1
  DEF ServTypes, ClientMove, Arrive, Handler, Refuse, CountIn, TooMany, Submit, Answer, Reading,
      ReadToken, ReadFinal, EndStream, Disconnect, apiVars, Phases
<1>3. status' \in [Client -> {"none", "200", "400", "429", "stream error"}]
  BY DEF ServTypes, ClientMove, Arrive, Handler, Refuse, CountIn, TooMany, Submit, Answer, Reading,
      ReadToken, ReadFinal, EndStream, Disconnect, apiVars, Verdict
<1>4. inbox' \in Seq(Client)
  <2>1. inbox' = inbox \/ inbox' = Append(inbox, c)
    BY DEF ClientMove, Arrive, Handler, Refuse, CountIn, TooMany, Submit, Reading,
        ReadToken, ReadFinal, EndStream, Disconnect
  <2>2. \A s \in Seq(Client) : Append(s, c) \in Seq(Client)
    OBVIOUS
  <2>. QED  BY <2>1, <2>2 DEF ServTypes
<1>5. events' \in [Client -> Seq({"token", "stop", "length", "failed"})]
  <2>1. events' = events \/ (events[c] # <<>> /\ events' = [events EXCEPT ![c] = Tail(@)])
    BY DEF ClientMove, Arrive, Handler, Refuse, CountIn, TooMany, Submit, Reading,
        ReadToken, ReadFinal, EndStream, Disconnect, Received
  <2>2. events[c] # <<>> => Tail(events[c]) \in Seq({"token", "stop", "length", "failed"})
    <3>1. \A s \in Seq({"token", "stop", "length", "failed"}) :
            s # <<>> => Tail(s) \in Seq({"token", "stop", "length", "failed"})
      OBVIOUS
    <3>. QED  BY <3>1 DEF ServTypes
  <2>. QED  BY <2>1, <2>2 DEF ServTypes
<1>6. done' \in [Client -> Seq({"rejected", "error", "cancelled", "finished"})]
  <2>1. done' = done \/ done' = [done EXCEPT ![c] = Append(@, "rejected")]
    BY DEF ClientMove, Arrive, Handler, Refuse, CountIn, TooMany, Submit, Reading,
        ReadToken, ReadFinal, EndStream, Disconnect
  <2>2. Append(done[c], "rejected") \in Seq({"rejected", "error", "cancelled", "finished"})
    <3>1. \A s \in Seq({"rejected", "error", "cancelled", "finished"}) :
            Append(s, "rejected") \in Seq({"rejected", "error", "cancelled", "finished"})
      OBVIOUS
    <3>. QED  BY <3>1 DEF ServTypes
  <2>. QED  BY <2>1, <2>2 DEF ServTypes
<1>7. late' \in [Client -> Nat]
  BY DEF ServTypes, ClientMove, Arrive, Handler, Refuse, CountIn, TooMany, Submit, Reading,
      ReadToken, ReadFinal, EndStream, Disconnect, workerVars
<1>. QED  BY <1>2, <1>3, <1>4, <1>5, <1>6, <1>7 DEF ServTypes

\* Only the one client is concerned, and only Submit uses the channel.
LEMMA ClientAlone ==
  ASSUME ServTypes, NEW c \in Client, ClientMove(c)
  PROVE  /\ UNCHANGED workerVars /\ phase[c] # "gone"
         /\ inbox' = inbox \/ Submit(c)
         /\ \A d \in Client \ {c} :
              /\ phase'[d] = phase[d] /\ done'[d] = done[d]
              /\ status'[d] = status[d] /\ events'[d] = events[d]
<1>1. UNCHANGED workerVars /\ phase[c] # "gone" /\ (inbox' = inbox \/ Submit(c))
  BY DEF ClientMove, Arrive, Handler, Refuse, CountIn, TooMany, Submit, Reading,
      ReadToken, ReadFinal, EndStream, Disconnect
<1>2. \A d \in Client \ {c} : phase'[d] = phase[d] /\ done'[d] = done[d]
  BY DEF ServTypes, ClientMove, Arrive, Handler, Refuse, CountIn, TooMany, Submit, Answer, Reading,
      ReadToken, ReadFinal, EndStream, Disconnect, apiVars
<1>3. \A d \in Client \ {c} : status'[d] = status[d] /\ events'[d] = events[d]
  BY DEF ServTypes, ClientMove, Arrive, Handler, Refuse, CountIn, TooMany, Submit, Answer, Reading,
      ReadToken, ReadFinal, EndStream, Disconnect, apiVars, Received
<1>. QED  BY <1>1, <1>2, <1>3

\* The life of the client that moves.
LEMMA ClientLife ==
  ASSUME ServTypes, LifeInv, NEW c \in Client, ClientMove(c),
         Pending(c)' <=> Pending(c) \/ Submit(c)
  PROVE  Life(c)'
<1>1. Life(c)
  BY DEF LifeInv
<1>2. /\ phase \in [Client -> Phases]
      /\ status \in [Client -> {"none", "200", "400", "429", "stream error"}]
      /\ events \in [Client -> Seq({"token", "stop", "length", "failed"})]
      /\ done \in [Client -> Seq({"rejected", "error", "cancelled", "finished"})]
  BY DEF ServTypes
<1>3. CASE \E a \in Asks : Arrive(c, a)
  BY <1>1, <1>2, <1>3 DEF Arrive, Life, Early, Submit
<1>4. CASE Refuse(c)
  <2>1. /\ phase'[c] = "answered" /\ status'[c] = "400" /\ ~Pending(c)'
        /\ done'[c] = <<>>
    BY <1>1, <1>2, <1>4 DEF Refuse, Answer, Life, Early, Submit
  <2>2. Len(done'[c]) = 0
    BY <2>1
  <2>. QED  BY <2>1, <2>2 DEF Life, Early
<1>5. CASE CountIn(c)
  BY <1>1, <1>2, <1>5 DEF CountIn, Life, Early, Submit
<1>6. CASE TooMany(c)
  <2>1. /\ ~Pending(c) /\ done[c] = <<>> /\ phase'[c] = "answered" /\ status'[c] = "429"
        /\ done'[c] = Append(done[c], "rejected") /\ ~Pending(c)'
    BY <1>1, <1>2, <1>6 DEF TooMany, Answer, Life, Early, Submit
  <2>2. Len(done'[c]) = 1
    BY <2>1
  <2>. QED  BY <2>1, <2>2 DEF Life, Early
<1>7. CASE Submit(c)
  <2>1. /\ phase'[c] = "waiting" /\ Pending(c)' /\ done'[c] = <<>> /\ status'[c] = "none"
        /\ events'[c] = <<>>
    BY <1>1, <1>2, <1>7 DEF Submit, apiVars, Life, Early
  <2>. QED  BY <2>1 DEF Life, Early
<1>8. CASE ReadToken(c)
  <2>1. /\ phase' = phase /\ status' = status /\ done' = done /\ phase[c] = "waiting"
        /\ events'[c] = Tail(events[c]) /\ (Pending(c)' <=> Pending(c))
        /\ events[c] \in Seq({"token", "stop", "length", "failed"}) /\ events[c] # <<>>
    BY <1>2, <1>8 DEF ReadToken, apiVars, Received, Submit
  <2>2. ASSUME \A i \in DOMAIN events[c] : ~Final(events[c][i])
        PROVE  \A i \in DOMAIN events'[c] : ~Final(events'[c][i])
    <3>1. \A i \in DOMAIN events'[c] :
            i + 1 \in DOMAIN events[c] /\ events'[c][i] = events[c][i + 1]
      BY <2>1
    <3>. QED  BY <2>2, <3>1
  <2>. QED  BY <1>1, <2>1, <2>2 DEF Life, Early
<1>9. CASE ReadFinal(c)
  <2>1. /\ phase[c] = "waiting" /\ done' = done /\ phase'[c] \in {"ending", "answered"}
        /\ ~Submit(c)
    BY <1>2, <1>9 DEF ReadFinal, Submit
  <2>2. ~Pending(c)
    <3>1. /\ events[c] # <<>> /\ Final(Head(events[c]))
          /\ events[c] \in Seq({"token", "stop", "length", "failed"})
      BY <1>2, <1>9 DEF ReadFinal
    <3>2. 1 \in DOMAIN events[c] /\ events[c][1] = Head(events[c])
      BY <3>1
    <3>. QED  BY <1>1, <3>1, <3>2 DEF Life
  <2>3. ~Pending(c)' /\ Len(done[c]) = 1
    BY <1>1, <2>1, <2>2 DEF Life
  <2>. QED  BY <2>1, <2>3 DEF Life, Early
<1>10. CASE EndStream(c)
  <2>1. phase[c] = "ending" /\ phase'[c] = "answered" /\ done' = done /\ ~Submit(c)
    BY <1>2, <1>10 DEF EndStream, Submit
  <2>2. ~Pending(c)' /\ Len(done[c]) = 1
    BY <1>1, <2>1 DEF Life
  <2>. QED  BY <2>1, <2>2 DEF Life, Early
<1>11. CASE Disconnect(c)
  BY <1>1, <1>2, <1>11 DEF Disconnect, Life, Early, Submit
<1>. QED  BY <1>3, <1>4, <1>5, <1>6, <1>7, <1>8, <1>9, <1>10, <1>11 DEF ClientMove, Handler, Reading

\* A step of a client and its handler.
LEMMA ClientServ ==
  ASSUME ServInv, NEW c \in Client, ClientMove(c)
  PROVE  ServInv'
<1>1. ServTypes /\ LineInv /\ LifeInv /\ LateInv
  BY DEF ServInv
<1>2. /\ UNCHANGED workerVars /\ phase[c] # "gone"
      /\ inbox' = inbox \/ Submit(c)
      /\ \A d \in Client \ {c} :
           /\ phase'[d] = phase[d] /\ done'[d] = done[d]
           /\ status'[d] = status[d] /\ events'[d] = events[d]
  BY <1>1, ClientAlone
<1>3. LineInv'
  BY <1>1, <1>2 DEF LineInv, Ids, Finals, workerVars
<1>4. CASE Submit(c)
  <2>1. inbox' = Append(inbox, c) /\ phase[c] = "counted" /\ inbox \in Seq(Client)
    BY <1>1, <1>4 DEF Submit, ServTypes
  <2>2. ~InChannel(c) /\ c \notin live
    BY <1>1, <2>1 DEF LifeInv, Life, Early, Pending
  <2>3. \A d \in Client : InChannel(d)' <=> InChannel(d) \/ d = c
    BY <2>1, ChannelGains
  <2>4. \A i, j \in DOMAIN inbox' : i < j => inbox'[i] # inbox'[j]
    BY <1>1, <2>1, <2>2, ChannelGains DEF LifeInv
  <2>5. live' = live
    BY <1>2 DEF workerVars
  <2>6. \A d \in Client : Life(d)'
    <3> TAKE d \in Client
    <3>1. CASE d = c
      BY <1>1, <1>4, <2>3, <2>5, <3>1, ClientLife DEF Pending
    <3>2. CASE d # c
      BY <1>1, <1>2, <2>3, <2>5, <3>2, LifeElsewhere DEF Pending, LifeInv
    <3>. QED  BY <3>1, <3>2
  <2>7. \A d \in Client : InChannel(d)' => d \notin live'
    BY <1>1, <2>2, <2>3, <2>5 DEF LifeInv
  <2>8. LifeInv'
    BY <2>4, <2>6, <2>7 DEF LifeInv
  <2>9. LateInv'
    BY <1>1, <1>2, <2>3 DEF LateInv, workerVars
  <2>. QED  BY <1>1, <1>3, <2>8, <2>9, ClientTypes DEF ServInv
<1>5. CASE inbox' = inbox /\ ~Submit(c)
  <2>1. live' = live /\ \A d : InChannel(d)' <=> InChannel(d)
    BY <1>2, <1>5 DEF workerVars, InChannel
  <2>2. \A d \in Client : Life(d)'
    <3> TAKE d \in Client
    <3>1. CASE d = c
      BY <1>1, <1>5, <2>1, <3>1, ClientLife DEF Pending
    <3>2. CASE d # c
      BY <1>1, <1>2, <2>1, <3>2, LifeElsewhere DEF Pending, LifeInv
    <3>. QED  BY <3>1, <3>2
  <2>3. LifeInv'
    BY <1>1, <1>5, <2>1, <2>2 DEF LifeInv
  <2>4. LateInv'
    BY <1>1, <1>2, <2>1 DEF LateInv, workerVars
  <2>. QED  BY <1>1, <1>3, <2>3, <2>4, ClientTypes DEF ServInv
<1>. QED  BY <1>2, <1>4, <1>5

\* The shutdown, and stuttering.
LEMMA ServStays ==
  ASSUME ServInv, UNCHANGED <<phase, ask, status, workerVars, inbox, events, done>>
  PROVE  ServInv'
<1>1. \A d : (InChannel(d)' <=> InChannel(d)) /\ (Pending(d)' <=> Pending(d))
  BY DEF InChannel, Pending, workerVars
<1>2. ServTypes'
  BY DEF ServInv, ServTypes, workerVars
<1>3. LineInv'
  BY DEF ServInv, LineInv, Ids, Finals, workerVars
<1>4. \A d \in Client : Life(d)'
  BY <1>1, LifeElsewhere DEF ServInv, LifeInv
<1>5. LifeInv'
  BY <1>1, <1>4 DEF ServInv, LifeInv, workerVars
<1>6. LateInv'
  BY <1>1 DEF ServInv, LateInv, workerVars
<1>. QED  BY <1>2, <1>3, <1>5, <1>6 DEF ServInv

\* The worker moves on, and touches neither requests nor the engine.
MovesOn ==
  /\ UNCHANGED <<phase, ask, status, live, line, todo, late, inbox, events, done>>
  /\ wpc' # "loop" \/ gauge' = Len(line)
  /\ wpc' # "send" => todo = <<>>
  /\ wpc' \in {"drop", "fail"} => left' \subseteq live
  /\ \A c \in Client :
       late[c] = 1 /\ c \in live =>
         \/ wpc' \in {"send", "report", "loop", "drain"}
         \/ wpc' = "drop" /\ c \in left'

\* Such a move keeps the invariant.
LEMMA ServMovesOn ==
  ASSUME ServInv, MovesOn
  PROVE  ServInv'
<1>1. \A d : (InChannel(d)' <=> InChannel(d)) /\ (Pending(d)' <=> Pending(d))
  BY DEF MovesOn, InChannel, Pending
<1>2. ServTypes'
  BY DEF ServInv, ServTypes, MovesOn
<1>3. LineInv'
  <2>1. line' = line /\ todo' = todo /\ live' = live
    BY DEF MovesOn
  <2>2. /\ LineOK(line)' /\ TodoOK(todo)' /\ Ids(line)' = Ids(line)
        /\ Finals(todo)' = Finals(todo)
    BY <2>1 DEF ServInv, LineInv, Ids, Finals
  <2>3. /\ wpc' # "send" => todo' = <<>>
        /\ wpc' \in {"drop", "fail"} => left' \subseteq live'
        /\ wpc' = "loop" => gauge' = Len(line')
    BY <2>1 DEF MovesOn
  <2>. QED  BY <2>1, <2>2, <2>3 DEF ServInv, LineInv
<1>4. \A d \in Client : Life(d)'
  BY <1>1, LifeElsewhere DEF ServInv, LifeInv, MovesOn
<1>5. LifeInv'
  BY <1>1, <1>4 DEF ServInv, LifeInv, MovesOn
<1>6. LateInv'
  BY <1>1 DEF ServInv, LateInv, MovesOn
<1>. QED  BY <1>2, <1>3, <1>5, <1>6 DEF ServInv

\* Every step of the worker between its loops is such a move.
LEMMA MovingOn ==
  ASSUME ServInv,
         Stop \/ Loop \/ DrainEnd \/ DropEnd \/ SendEnd \/ StepFailed \/ FailEnd \/ Report
  PROVE  MovesOn
<1>1. /\ LineInv /\ \A c \in Client : late[c] = 1 /\ c \in live =>
            \/ wpc \in {"send", "report", "loop", "drain"}
            \/ wpc = "drop" /\ c \in left
  BY DEF ServInv, LateInv
<1>2. CASE Stop \/ Loop
  BY <1>1, <1>2 DEF Stop, Loop, MovesOn, LineInv, apiVars
<1>3. CASE DrainEnd
  BY <1>1, <1>3 DEF DrainEnd, MovesOn, LineInv, apiVars
<1>4. CASE DropEnd
  BY <1>1, <1>4 DEF DropEnd, MovesOn, LineInv, apiVars
<1>5. CASE SendEnd \/ FailEnd \/ Report
  BY <1>1, <1>5 DEF SendEnd, FailEnd, Report, MovesOn, LineInv, apiVars
<1>6. CASE StepFailed
  BY <1>1, <1>6 DEF StepFailed, MovesOn, LineInv, apiVars
<1>. QED  BY <1>2, <1>3, <1>4, <1>5, <1>6

\* One more outcome for a client.
LEMMA Counted ==
  ASSUME ServTypes, NEW c \in Client, NEW x \in {"rejected", "error", "cancelled", "finished"},
         done' = [done EXCEPT ![c] = Append(@, x)]
  PROVE  /\ done' \in [Client -> Seq({"rejected", "error", "cancelled", "finished"})]
         /\ \A d \in Client \ {c} : done'[d] = done[d]
         /\ done[c] = <<>> => Len(done'[c]) = 1
<1> DEFINE O == {"rejected", "error", "cancelled", "finished"}
<1>1. done \in [Client -> Seq(O)] /\ x \in O
  BY DEF ServTypes
<1>. HIDE DEF O
<1>2. \A s \in Seq(O) : Append(s, x) \in Seq(O) /\ Len(Append(s, x)) = Len(s) + 1
  BY <1>1
<1>3. Len(<<>>) = 0
  OBVIOUS
<1>4. done'[c] = Append(done[c], x) /\ done' \in [Client -> Seq(O)]
  BY <1>1, <1>2
<1>5. done[c] = <<>> => Len(done'[c]) = 1
  BY <1>1, <1>2, <1>3, <1>4
<1>. QED  BY <1>1, <1>4, <1>5 DEF O

\* One more event for a client.
LEMMA Told ==
  ASSUME ServTypes, NEW c \in Client, NEW e \in {"token", "stop", "length", "failed"},
         events' = [events EXCEPT ![c] = Send(c, e)]
  PROVE  /\ events' \in [Client -> Seq({"token", "stop", "length", "failed"})]
         /\ \A d \in Client \ {c} : events'[d] = events[d]
         /\ ~Final(e) /\ (\A i \in DOMAIN events[c] : ~Final(events[c][i])) =>
              \A i \in DOMAIN events'[c] : ~Final(events'[c][i])
<1> DEFINE E == {"token", "stop", "length", "failed"}
<1>1. events \in [Client -> Seq(E)] /\ e \in E
  BY DEF ServTypes
<1>. HIDE DEF E
<1>2. PICK s \in Seq(E), n \in Nat : s = events[c] /\ n = Len(s) /\ DOMAIN s = 1 .. n
  BY <1>1
<1>3. Append(s, e) \in Seq(E)
  BY <1>1
<1>4. /\ DOMAIN Append(s, e) = 1 .. n + 1 /\ Append(s, e)[n + 1] = e
      /\ \A i \in 1 .. n : Append(s, e)[i] = s[i]
  BY <1>1, <1>2
<1>5. \A k \in 1 .. n + 1 : k \in 1 .. n \/ k = n + 1
  BY ONLY n \in Nat
<1>6. events'[c] = s \/ events'[c] = Append(s, e)
  BY <1>1, <1>2 DEF Send
<1>7. events' \in [Client -> Seq(E)] /\ \A d \in Client \ {c} : events'[d] = events[d]
  BY <1>1, <1>2, <1>3, <1>6
<1>8. ASSUME ~Final(e), \A i \in DOMAIN events[c] : ~Final(events[c][i])
      PROVE  \A i \in DOMAIN events'[c] : ~Final(events'[c][i])
  <2>1. \A i \in 1 .. n : ~Final(s[i])
    BY <1>2, <1>8
  <2>2. \A i \in 1 .. n + 1 : ~Final(Append(s, e)[i])
    BY ONLY <1>4, <1>5, <1>8, <2>1
  <2>. QED  BY <1>2, <1>4, <1>6, <2>1, <2>2
<1>. QED  BY <1>7, <1>8 DEF E

\* A request that leaves the worker, counted.
LEMMA LifeLeaves ==
  ASSUME NEW c \in Client, Life(c), Pending(c), phase' = phase, ~Pending(c)',
         Len(done'[c]) = 1
  PROVE  Life(c)'
  BY DEF Life, Early

\* The next submission: taken, or told that it cannot be.
LEMMA AdmitServ ==
  ASSUME ServInv, Admit, UNCHANGED <<apiVars, left, todo, gauge, late>>,
         wpc \in {"loop", "drain"}, wpc' = "drain"
  PROVE  ServInv'
<1>1. PICK c : c = Head(inbox)
  OBVIOUS
<1>2. /\ ServTypes /\ LineInv /\ LifeInv /\ LateInv
      /\ inbox \in Seq(Client) /\ inbox # <<>> /\ inbox' = Tail(inbox)
      /\ \A i, j \in DOMAIN inbox : i < j => inbox[i] # inbox[j]
  BY DEF ServInv, ServTypes, LifeInv, Admit
<1>3. /\ c \in Client /\ InChannel(c)
      /\ \A d \in Client : InChannel(d)' <=> InChannel(d) /\ d # c
      /\ \A i, j \in DOMAIN inbox' : i < j => inbox'[i] # inbox'[j]
  BY <1>1, <1>2, ChannelLoses
<1>4. /\ Life(c) /\ c \notin live /\ Pending(c)
      /\ phase[c] \in {"waiting", "gone"} /\ done[c] = <<>> /\ status[c] = "none"
      /\ \A i \in DOMAIN events[c] : ~Final(events[c][i])
  BY <1>2, <1>3 DEF LifeInv, Life, Pending
<1>5. inbox' \in Seq(Client)
  BY <1>2
<1>6. phase' = phase /\ ask' = ask /\ status' = status /\ todo' = todo /\ late' = late
  BY DEF apiVars
<1>7. todo = <<>> /\ Finals(todo) = {} /\ live = Ids(line)
  BY <1>2 DEF LineInv, Finals
<1>8. CASE EngineTakes(c)
  <2>1. /\ Gen!add_request(c, MaxTokens(c)) /\ live' = live \cup {c}
        /\ events' = events /\ done' = done
    BY <1>1, <1>8 DEF Admit
  <2>2. MaxTokens(c) \in Int
    <3>1. \A a \in Ask : a.max_tokens \in Nat \cup {NoMax}
      BY DEF Ask
    <3>2. ask[c].max_tokens \in Nat \cup {NoMax}
      BY <1>2, <1>3, <3>1 DEF ServTypes
    <3>. QED  BY <3>2, ServingAssumption DEF MaxTokens
  <2>3. LineOK(line') /\ Ids(line') = Ids(line) \cup {c}
    BY <1>2, <1>3, <1>4, <1>7, <2>1, <2>2, AddLine DEF LineInv
  <2>4. LineInv'
    <3>1. TodoOK(todo') /\ Finals(todo') = {} /\ todo' = <<>>
      BY <1>2, <1>6, <1>7 DEF LineInv
    <3>. QED  BY <1>2, <1>3, <1>7, <2>1, <2>3, <3>1 DEF LineInv
  <2>5. \A d \in Client : Life(d)'
    <3> TAKE d \in Client
    <3>1. CASE d = c
      <4>1. Pending(c)'
        BY <2>1 DEF Pending
      <4>. QED  BY <1>4, <1>6, <2>1, <3>1, <4>1 DEF Life, Early
    <3>2. CASE d # c
      <4>1. Pending(d)' <=> Pending(d)
        BY <1>3, <2>1, <3>2 DEF Pending
      <4>. QED  BY <1>2, <1>6, <2>1, <4>1, LifeElsewhere DEF LifeInv
    <3>. QED  BY <3>1, <3>2
  <2>6. LifeInv'
    BY <1>2, <1>3, <2>1, <2>5 DEF LifeInv
  <2>7. LateInv'
    BY <1>2, <1>3, <1>6, <2>1 DEF LateInv
  <2>8. ServTypes'
    BY <1>2, <1>5, <1>6, <2>1 DEF ServTypes
  <2>. QED  BY <2>4, <2>6, <2>7, <2>8 DEF ServInv
<1>9. CASE ~EngineTakes(c)
  <2>1. /\ events' = [events EXCEPT ![c] = Send(c, "failed")]
        /\ done' = [done EXCEPT ![c] = Append(@, "error")]
        /\ live' = live /\ line' = line
    BY <1>1, <1>9 DEF Admit
  <2>2. /\ done' \in [Client -> Seq({"rejected", "error", "cancelled", "finished"})]
        /\ \A d \in Client \ {c} : done'[d] = done[d]
        /\ Len(done'[c]) = 1
    BY <1>2, <1>3, <1>4, <2>1, Counted
  <2>3. /\ events' \in [Client -> Seq({"token", "stop", "length", "failed"})]
        /\ \A d \in Client \ {c} : events'[d] = events[d]
    BY <1>2, <1>3, <2>1, Told
  <2>4. LineInv'
    BY <1>2, <1>6, <2>1 DEF LineInv, Ids, Finals
  <2>5. \A d \in Client : Life(d)'
    <3> TAKE d \in Client
    <3>1. CASE d = c
      <4>1. ~Pending(c)'
        BY <1>3, <1>4, <2>1 DEF Pending
      <4>. QED  BY <1>3, <1>4, <1>6, <2>2, <3>1, <4>1, LifeLeaves
    <3>2. CASE d # c
      <4>1. Pending(d)' <=> Pending(d)
        BY <1>3, <2>1, <3>2 DEF Pending
      <4>. QED  BY <1>2, <1>6, <2>2, <2>3, <3>2, <4>1, LifeElsewhere DEF LifeInv
    <3>. QED  BY <3>1, <3>2
  <2>6. LifeInv'
    BY <1>2, <1>3, <2>1, <2>5 DEF LifeInv
  <2>7. LateInv'
    BY <1>2, <1>3, <1>6, <2>1 DEF LateInv
  <2>8. ServTypes'
    BY <1>2, <1>5, <1>6, <2>2, <2>3 DEF ServTypes
  <2>. QED  BY <2>4, <2>6, <2>7, <2>8 DEF ServInv
<1>. QED  BY <1>8, <1>9

\* A live request is looked at, and dropped if its client is gone.
LEMMA DropServ ==
  ASSUME ServInv, NEW c \in Client, DropNext(c)
  PROVE  ServInv'
<1>1. /\ ServTypes /\ LineInv /\ LifeInv /\ LateInv /\ c \in left /\ wpc = "drop" /\ wpc' = wpc
      /\ left' = left \ {c} /\ todo' = todo /\ late' = late /\ inbox' = inbox /\ events' = events
      /\ phase' = phase /\ ask' = ask /\ status' = status
  BY DEF ServInv, DropNext, apiVars
<1>2. c \in live /\ Life(c) /\ \A d : InChannel(d)' <=> InChannel(d)
  BY <1>1 DEF LineInv, LifeInv, InChannel
<1>3. todo = <<>> /\ Finals(todo) = {} /\ live = Ids(line)
  BY <1>1 DEF LineInv, Finals
<1>4. CASE Closed(c)
  <2>1. /\ live' = live \ {c} /\ Gen!cancel(c)
        /\ done' = [done EXCEPT ![c] = Append(@, "cancelled")]
    BY <1>4 DEF DropNext
  <2>2. ~InChannel(c) /\ Pending(c) /\ done[c] = <<>>
    BY <1>1, <1>2 DEF LifeInv, Life, Pending
  <2>3. /\ done' \in [Client -> Seq({"rejected", "error", "cancelled", "finished"})]
        /\ \A d \in Client \ {c} : done'[d] = done[d]
        /\ Len(done'[c]) = 1
    BY <1>1, <2>1, <2>2, Counted
  <2>4. LineOK(line') /\ Ids(line') = Ids(line) \ {c}
    BY <1>1, <2>1, CancelLine DEF LineInv
  <2>5. LineInv'
    <3>1. TodoOK(todo') /\ Finals(todo') = {} /\ todo' = <<>>
      BY <1>1, <1>3 DEF LineInv
    <3>. QED  BY <1>1, <1>3, <2>1, <2>4, <3>1 DEF LineInv
  <2>6. \A d \in Client : Life(d)'
    <3> TAKE d \in Client
    <3>1. CASE d = c
      <4>1. ~Pending(c)'
        BY <1>2, <2>1, <2>2 DEF Pending
      <4>. QED  BY <1>1, <1>2, <2>2, <2>3, <3>1, <4>1, LifeLeaves
    <3>2. CASE d # c
      <4>1. Pending(d)' <=> Pending(d)
        BY <1>2, <2>1, <3>2 DEF Pending
      <4>. QED  BY <1>1, <2>3, <3>2, <4>1, LifeElsewhere DEF LifeInv
    <3>. QED  BY <3>1, <3>2
  <2>7. LifeInv'
    BY <1>1, <1>2, <2>1, <2>6 DEF LifeInv
  <2>8. LateInv'
    BY <1>1, <1>2, <2>1 DEF LateInv
  <2>9. ServTypes'
    BY <1>1, <2>3 DEF ServTypes
  <2>. QED  BY <2>5, <2>7, <2>8, <2>9 DEF ServInv
<1>5. CASE ~Closed(c)
  <2>1. live' = live /\ line' = line /\ done' = done
    BY <1>5 DEF DropNext
  <2>2. phase[c] # "gone"
    BY <1>5 DEF Closed
  <2>3. MovesOn
    BY <1>1, <2>1, <2>2 DEF MovesOn, LineInv, LateInv
  <2>. QED  BY <2>3, ServMovesOn
<1>. QED  BY <1>4, <1>5

\* After a failed step, one more request is told and dropped.
LEMMA FailServ ==
  ASSUME ServInv, NEW c \in Client, FailNext(c)
  PROVE  ServInv'
<1>1. /\ ServTypes /\ LineInv /\ LifeInv /\ LateInv /\ c \in left /\ wpc = "fail" /\ wpc' = wpc
      /\ left' = left \ {c} /\ todo' = todo /\ late' = late /\ inbox' = inbox
      /\ events' = [events EXCEPT ![c] = Send(c, "failed")]
      /\ done' = [done EXCEPT ![c] = Append(@, "error")]
      /\ phase' = phase /\ ask' = ask /\ status' = status
      /\ live' = live \ {c} /\ Gen!cancel(c)
  BY DEF ServInv, FailNext, apiVars
<1>2. c \in live /\ Life(c) /\ \A d : InChannel(d)' <=> InChannel(d)
  BY <1>1 DEF LineInv, LifeInv, InChannel
<1>3. todo = <<>> /\ Finals(todo) = {} /\ live = Ids(line)
  BY <1>1 DEF LineInv, Finals
<1>4. ~InChannel(c) /\ Pending(c) /\ done[c] = <<>>
  BY <1>1, <1>2 DEF LifeInv, Life, Pending
<1>5. /\ done' \in [Client -> Seq({"rejected", "error", "cancelled", "finished"})]
      /\ \A d \in Client \ {c} : done'[d] = done[d]
      /\ Len(done'[c]) = 1
  BY <1>1, <1>4, Counted
<1>6. /\ events' \in [Client -> Seq({"token", "stop", "length", "failed"})]
      /\ \A d \in Client \ {c} : events'[d] = events[d]
  BY <1>1, Told
<1>7. LineOK(line') /\ Ids(line') = Ids(line) \ {c}
  BY <1>1, CancelLine DEF LineInv
<1>8. LineInv'
  <2>1. TodoOK(todo') /\ Finals(todo') = {} /\ todo' = <<>>
    BY <1>1, <1>3 DEF LineInv
  <2>. QED  BY <1>1, <1>3, <1>7, <2>1 DEF LineInv
<1>9. \A d \in Client : Life(d)'
  <2> TAKE d \in Client
  <2>1. CASE d = c
    <3>1. ~Pending(c)'
      BY <1>1, <1>2, <1>4 DEF Pending
    <3>. QED  BY <1>1, <1>2, <1>4, <1>5, <2>1, <3>1, LifeLeaves
  <2>2. CASE d # c
    <3>1. Pending(d)' <=> Pending(d)
      BY <1>1, <1>2, <2>2 DEF Pending
    <3>. QED  BY <1>1, <1>5, <1>6, <2>2, <3>1, LifeElsewhere DEF LifeInv
  <2>. QED  BY <2>1, <2>2
<1>10. LifeInv'
  BY <1>1, <1>2, <1>9 DEF LifeInv
<1>11. LateInv'
  BY <1>1, <1>2 DEF LateInv
<1>12. ServTypes'
  BY <1>1, <1>5, <1>6 DEF ServTypes
<1>. QED  BY <1>8, <1>10, <1>11, <1>12 DEF ServInv

\* A step of the engine.
LEMMA StepServ ==
  ASSUME ServInv, NEW n \in 1 .. Len(line), NEW stopped, StepOk(n, stopped)
  PROVE  ServInv'
<1>1. /\ ServTypes /\ LineInv /\ LifeInv /\ LateInv /\ wpc = "step" /\ wpc' = "send"
      /\ Gen!step(n, stopped) /\ todo' = Messages(n, stopped)
      /\ late' = [c \in Client |->
                    IF phase[c] = "gone" /\ \E i \in 1 .. n : line[i].id = c
                    THEN late[c] + 1 ELSE late[c]]
      /\ phase' = phase /\ ask' = ask /\ status' = status /\ inbox' = inbox
      /\ events' = events /\ done' = done /\ live' = live /\ left' = left
  BY DEF ServInv, StepOk, apiVars
<1>2. \A d : (InChannel(d)' <=> InChannel(d)) /\ (Pending(d)' <=> Pending(d))
  BY <1>1 DEF InChannel, Pending
<1>3. LineOK(line') /\ Ids(line') = Ids(line) \ Ending(n, stopped)
  BY <1>1, StepLine DEF LineInv
<1>4. TodoOK(todo') /\ Finals(todo') = Ending(n, stopped)
  BY <1>1, MessagesAre DEF LineInv
<1>5. Ending(n, stopped) \subseteq Ids(line) /\ live = Ids(line)
  BY <1>1 DEF Ending, Ids, LineInv, Finals
<1>6. LineInv'
  BY <1>1, <1>3, <1>4, <1>5 DEF LineInv
<1>7. \A d \in Client : Life(d)'
  BY <1>1, <1>2, LifeElsewhere DEF LifeInv
<1>8. LifeInv'
  BY <1>1, <1>2, <1>7 DEF LifeInv
<1>9. \A c \in Client : (\E i \in 1 .. n : line[i].id = c) => c \in live
  <2>1. \A i \in 1 .. n : i \in DOMAIN line
    BY <1>1 DEF LineInv, LineOK
  <2>. QED  BY <1>5, <2>1 DEF Ids
<1>10. ServTypes'
  <2>1. late' \in [Client -> Nat]
    <3>1. late \in [Client -> Nat]
      BY <1>1 DEF ServTypes
    <3>2. \A c \in Client : late[c] + 1 \in Nat /\ late[c] \in Nat
      BY ONLY <3>1
    <3>. QED  BY <1>1, <3>2
  <2>. QED  BY <1>1, <2>1 DEF ServTypes
<1>11. LateInv'
  <2> SUFFICES ASSUME NEW c \in Client
               PROVE  /\ late'[c] <= 1
                      /\ late'[c] = 1 => phase'[c] = "gone" /\ ~InChannel(c)'
    BY <1>1 DEF LateInv
  <2>1. /\ late[c] \in Nat /\ late[c] <= 1
        /\ late[c] = 1 => phase[c] = "gone" /\ ~InChannel(c) /\ c \notin live
    BY <1>1 DEF LateInv, ServTypes
  <2>2. CASE phase[c] = "gone" /\ \E i \in 1 .. n : line[i].id = c
    <3>1. late'[c] = late[c] + 1 /\ c \in live /\ ~InChannel(c)
      BY <1>1, <1>9, <2>2 DEF LifeInv
    <3>2. late[c] = 0
      BY <2>1, <3>1
    <3>. QED  BY <1>1, <1>2, <2>2, <3>1, <3>2
  <2>3. CASE ~(phase[c] = "gone" /\ \E i \in 1 .. n : line[i].id = c)
    BY <1>1, <1>2, <2>1, <2>3
  <2>. QED  BY <2>2, <2>3
<1>. QED  BY <1>6, <1>8, <1>10, <1>11 DEF ServInv

\* One message less to send.
LEMMA TodoTail ==
  ASSUME TodoOK(todo), todo # <<>>, todo' = Tail(todo)
  PROVE  /\ TodoOK(todo') /\ Head(todo) \in Msg
         /\ Final(Head(todo).event) =>
              Head(todo).to \in Finals(todo) /\ Finals(todo') = Finals(todo) \ {Head(todo).to}
         /\ ~Final(Head(todo).event) => Finals(todo') = Finals(todo)
<1>1. PICK n \in Nat : n = Len(todo) /\ DOMAIN todo = 1 .. n /\ todo \in Seq(Msg)
  BY DEF TodoOK
<1>2. n >= 1 /\ Head(todo) = todo[1] /\ todo[1] \in Msg
  BY <1>1
<1>3. /\ todo' \in Seq(Msg)
      /\ DOMAIN todo' = 1 .. n - 1 /\ \A i \in 1 .. n - 1 : todo'[i] = todo[i + 1]
  BY <1>1, <1>2
<1>4. /\ 1 \in 1 .. n
      /\ \A i \in 1 .. n - 1 : i + 1 \in 1 .. n /\ 1 < i + 1
      /\ \A i, j \in 1 .. n - 1 : i < j => i + 1 < j + 1
      /\ \A i \in 1 .. n : i = 1 \/ (i - 1 \in 1 .. n - 1 /\ i - 1 + 1 = i)
  BY ONLY <1>2, n \in Nat
<1>5. \A i, j \in 1 .. n :
        i < j /\ Final(todo[i].event) /\ Final(todo[j].event) => todo[i].to # todo[j].to
  BY <1>1 DEF TodoOK, FinalOnce
<1>6. FinalOnce(todo')
  <2>1. \A i, j \in 1 .. n - 1 :
          i < j /\ Final(todo'[i].event) /\ Final(todo'[j].event) => todo'[i].to # todo'[j].to
    <3> TAKE i, j \in 1 .. n - 1
    <3>1. todo'[i] = todo[i + 1] /\ todo'[j] = todo[j + 1]
      BY <1>3
    <3>2. i + 1 \in 1 .. n /\ j + 1 \in 1 .. n /\ (i < j => i + 1 < j + 1)
      BY ONLY <1>4, i \in 1 .. n - 1, j \in 1 .. n - 1
    <3>. QED  BY <1>5, <3>1, <3>2
  <2>. QED  BY <1>3, <2>1 DEF FinalOnce
<1>7. /\ Finals(todo) = {todo[i].to : i \in {j \in 1 .. n : Final(todo[j].event)}}
      /\ Finals(todo') = {todo[i + 1].to : i \in {j \in 1 .. n - 1 : Final(todo[j + 1].event)}}
  <2>1. Finals(todo') = {todo'[i].to : i \in {j \in 1 .. n - 1 : Final(todo'[j].event)}}
    BY <1>3 DEF Finals
  <2>2. \A i \in 1 .. n - 1 : todo'[i] = todo[i + 1]
    BY <1>3
  <2>3. {todo'[i].to : i \in {j \in 1 .. n - 1 : Final(todo'[j].event)}}
          = {todo[i + 1].to : i \in {j \in 1 .. n - 1 : Final(todo[j + 1].event)}}
    BY ONLY <2>2
  <2>. QED  BY <1>1, <2>1, <2>3 DEF Finals
<1>8. Finals(todo') = {todo[i].to : i \in {j \in 1 .. n : j # 1 /\ Final(todo[j].event)}}
  <2>1. ASSUME NEW i \in 1 .. n - 1, Final(todo[i + 1].event)
        PROVE  i + 1 \in {j \in 1 .. n : j # 1 /\ Final(todo[j].event)}
    BY <1>4, <2>1
  <2>2. ASSUME NEW i \in 1 .. n, i # 1, Final(todo[i].event)
        PROVE  /\ i - 1 \in {j \in 1 .. n - 1 : Final(todo[j + 1].event)}
               /\ todo[i].to = todo[i - 1 + 1].to
    BY <1>4, <2>2
  <2>. QED  BY ONLY <1>7, <2>1, <2>2
<1>9. CASE Final(Head(todo).event)
  <2>1. Final(todo[1].event) /\ Head(todo).to = todo[1].to
    BY <1>2, <1>9
  <2>2. \A i \in 1 .. n : i # 1 => 1 < i
    BY ONLY n \in Nat
  <2>3. \A i \in 1 .. n : i # 1 /\ Final(todo[i].event) => todo[i].to # todo[1].to
    BY ONLY <1>4, <1>5, <2>1, <2>2
  <2>4. Finals(todo') = Finals(todo) \ {todo[1].to} /\ todo[1].to \in Finals(todo)
    BY ONLY <1>4, <1>7, <1>8, <2>1, <2>3
  <2>. QED  BY <1>2, <1>3, <1>6, <1>9, <2>1, <2>4 DEF TodoOK
<1>10. CASE ~Final(Head(todo).event)
  <2>1. Finals(todo') = Finals(todo)
    BY <1>2, <1>7, <1>8, <1>10
  <2>. QED  BY <1>2, <1>3, <1>6, <1>10, <2>1 DEF TodoOK
<1>. QED  BY <1>9, <1>10

\* A message is sent.
LEMMA SendServ ==
  ASSUME ServInv, SendNext
  PROVE  ServInv'
<1> DEFINE c == Head(todo).to
           e == Head(todo).event
<1>1. /\ ServTypes /\ LineInv /\ LifeInv /\ LateInv /\ wpc = "send" /\ wpc' = wpc
      /\ todo # <<>> /\ todo' = Tail(todo) /\ line' = line /\ late' = late /\ inbox' = inbox
      /\ phase' = phase /\ ask' = ask /\ status' = status /\ left' = left
  BY DEF ServInv, SendNext, apiVars
<1>2. /\ TodoOK(todo') /\ c \in Client /\ e \in {"token", "stop", "length", "failed"}
      /\ Final(e) => c \in Finals(todo) /\ Finals(todo') = Finals(todo) \ {c}
      /\ ~Final(e) => Finals(todo') = Finals(todo)
  BY <1>1, TodoTail DEF LineInv, Msg
<1>3. \A d : InChannel(d)' <=> InChannel(d)
  BY <1>1 DEF InChannel
<1>4. CASE c \notin live
  <2>1. events' = events /\ live' = live /\ done' = done
    BY <1>4 DEF SendNext
  <2>2. ~Final(e)
    BY <1>1, <1>2, <1>4 DEF LineInv
  <2>3. LineInv'
    BY <1>1, <1>2, <2>1, <2>2 DEF LineInv, Ids
  <2>4. \A d \in Client : Life(d)'
    BY <1>1, <1>3, <2>1, LifeElsewhere DEF LifeInv, Pending
  <2>5. LifeInv'
    BY <1>1, <1>3, <2>1, <2>4 DEF LifeInv
  <2>6. LateInv'
    BY <1>1, <1>3, <2>1 DEF LateInv
  <2>7. ServTypes'
    BY <1>1, <2>1 DEF ServTypes
  <2>. QED  BY <2>3, <2>5, <2>6, <2>7 DEF ServInv
<1>5. CASE c \in live
  <2>1. /\ events' = [events EXCEPT ![c] = Send(c, e)]
        /\ IF Final(e)
           THEN /\ live' = live \ {c}
                /\ done' = [done EXCEPT ![c] = Append(@, "finished")]
           ELSE UNCHANGED <<live, done>>
    BY <1>5 DEF SendNext
  <2>2. Life(c) /\ ~InChannel(c) /\ Pending(c)
    BY <1>1, <1>2, <1>5 DEF LifeInv, Pending
  <2>. HIDE DEF c, e
  <2>3. /\ events' \in [Client -> Seq({"token", "stop", "length", "failed"})]
        /\ \A d \in Client \ {c} : events'[d] = events[d]
        /\ ~Final(e) /\ (\A i \in DOMAIN events[c] : ~Final(events[c][i])) =>
             \A i \in DOMAIN events'[c] : ~Final(events'[c][i])
    BY <1>1, <1>2, <2>1, Told
  <2>4. CASE Final(e)
    <3>1. live' = live \ {c} /\ done' = [done EXCEPT ![c] = Append(@, "finished")]
      BY <2>1, <2>4
    <3>2. done[c] = <<>>
      BY <2>2 DEF Life
    <3>3. /\ done' \in [Client -> Seq({"rejected", "error", "cancelled", "finished"})]
          /\ \A d \in Client \ {c} : done'[d] = done[d]
          /\ Len(done'[c]) = 1
      BY <1>1, <1>2, <3>1, <3>2, Counted
    <3>4. LineInv'
      <4>1. Ids(line') = Ids(line) /\ LineOK(line')
        BY <1>1 DEF LineInv
      <4>. QED  BY <1>1, <1>2, <2>4, <3>1, <4>1 DEF LineInv
    <3>5. \A d \in Client : Life(d)'
      <4> TAKE d \in Client
      <4>1. CASE d = c
        <5>1. Life(d) /\ Pending(d) /\ ~InChannel(d) /\ Len(done'[d]) = 1
          BY <2>2, <3>3, <4>1
        <5>2. ~Pending(d)'
          BY <1>3, <3>1, <4>1, <5>1 DEF Pending
        <5>. QED  BY <1>1, <5>1, <5>2, LifeLeaves
      <4>2. CASE d # c
        <5>1. Pending(d)' <=> Pending(d)
          BY <1>3, <3>1, <4>2 DEF Pending
        <5>. QED  BY <1>1, <2>3, <3>3, <4>2, <5>1, LifeElsewhere DEF LifeInv
      <4>. QED  BY <4>1, <4>2
    <3>6. LifeInv'
      BY <1>1, <1>3, <3>1, <3>5 DEF LifeInv
    <3>7. LateInv'
      BY <1>1, <1>3, <3>1 DEF LateInv
    <3>8. ServTypes'
      BY <1>1, <2>3, <3>3 DEF ServTypes
    <3>. QED  BY <3>4, <3>6, <3>7, <3>8 DEF ServInv
  <2>5. CASE ~Final(e)
    <3>1. live' = live /\ done' = done
      BY <2>1, <2>5
    <3>2. \A d : Pending(d)' <=> Pending(d)
      BY <1>3, <3>1 DEF Pending
    <3>3. LineInv'
      <4>1. Ids(line') = Ids(line) /\ LineOK(line')
        BY <1>1 DEF LineInv
      <4>. QED  BY <1>1, <1>2, <2>5, <3>1, <4>1 DEF LineInv
    <3>4. \A d \in Client : Life(d)'
      <4> TAKE d \in Client
      <4>1. CASE d = c
        BY <1>1, <2>2, <2>3, <2>5, <3>1, <3>2, <4>1 DEF Life
      <4>2. CASE d # c
        BY <1>1, <2>3, <3>1, <3>2, <4>2, LifeElsewhere DEF LifeInv
      <4>. QED  BY <4>1, <4>2
    <3>5. LifeInv'
      BY <1>1, <1>3, <3>1, <3>4 DEF LifeInv
    <3>6. LateInv'
      BY <1>1, <1>3, <3>1 DEF LateInv
    <3>7. ServTypes'
      BY <1>1, <2>3, <3>1 DEF ServTypes
    <3>. QED  BY <3>3, <3>5, <3>6, <3>7 DEF ServInv
  <2>. QED  BY <2>4, <2>5
<1>. QED  BY <1>4, <1>5

\* Every step keeps it.
LEMMA ServNext == ServInv /\ [Next]_vars => ServInv'
<1> SUFFICES ASSUME ServInv, [Next]_vars PROVE ServInv'
  OBVIOUS
<1>1. CASE UNCHANGED vars
  BY <1>1, ServStays DEF vars, apiVars
<1>2. CASE Shutdown
  BY <1>2, ServStays DEF Shutdown
<1>3. ASSUME NEW c \in Client, ClientMove(c) PROVE ServInv'
  BY <1>3, ClientServ
<1>4. CASE Worker
  <2>1. CASE Recv \/ TryRecv
    BY <2>1, AdmitServ DEF Recv, TryRecv, apiVars
  <2>2. CASE Stop \/ Loop \/ DrainEnd \/ DropEnd \/ SendEnd \/ StepFailed \/ FailEnd \/ Report
    BY <2>2, MovingOn, ServMovesOn
  <2>3. CASE \E c \in Client : DropNext(c)
    BY <2>3, DropServ
  <2>4. CASE \E c \in Client : FailNext(c)
    BY <2>4, FailServ
  <2>5. CASE \E n \in 1 .. Len(line) : \E stopped \in SUBSET {line[i].id : i \in 1 .. n} :
               StepOk(n, stopped)
    BY <2>5, StepServ
  <2>6. CASE SendNext
    BY <2>6, SendServ
  <2>. QED  BY <1>4, <2>1, <2>2, <2>3, <2>4, <2>5, <2>6 DEF Worker
<1>5. Next => Shutdown \/ Worker \/ \E c \in Client : ClientMove(c)
  BY DEF Next, ClientMove
<1>. QED  BY <1>1, <1>2, <1>3, <1>4, <1>5

\* So it always holds.
LEMMA ServAlways == Spec => []ServInv
  BY ServInit, ServNext, PTL DEF Spec

(***************************************************************************)
(* Whatever races with the worker, its map and the engine hold the same    *)
(* requests.                                                               *)
(***************************************************************************)
THEOREM EngineStaysLive == Spec => []EngineHoldsLive
<1>1. ServInv => EngineHoldsLive
  BY DEF ServInv, LineInv, EngineHoldsLive, Ids, Finals
<1>. QED  BY ServAlways, <1>1, PTL

(***************************************************************************)
(* One outcome per request, and an idle worker has reported no load.       *)
(***************************************************************************)
THEOREM MetricsStayExact == Spec => []MetricsExact
<1>1. ServInv => CountedOnce
  <2> SUFFICES ASSUME ServInv, NEW c \in Client
               PROVE  /\ Len(done[c]) <= 1
                      /\ \/ status[c] \in {"200", "429", "stream error"}
                         \/ /\ phase[c] = "gone" /\ c \notin live
                            /\ \A i \in DOMAIN inbox : inbox[i] # c
                         => Len(done[c]) = 1
    BY DEF CountedOnce
  <2>1. Life(c) /\ phase[c] \in Phases
    BY DEF ServInv, LifeInv, ServTypes
  <2>2. Len(<<>>) = 0
    OBVIOUS
  <2>3. Pending(c) \/ phase[c] \in Early => status[c] = "none" /\ done[c] = <<>>
    BY <2>1 DEF Life
  <2>4. phase[c] \in Early => phase[c] # "gone"
    BY DEF Early
  <2>5. phase[c] \in Early \/ phase[c] \in {"waiting", "ending", "gone"} \/ phase[c] = "answered"
    BY <2>1 DEF Early, Phases
  <2>6. CASE Pending(c) \/ phase[c] \in Early
    <3>1. status[c] = "none" /\ Len(done[c]) = 0
      BY <2>2, <2>3, <2>6
    <3>2. ~(phase[c] = "gone" /\ c \notin live /\ \A i \in DOMAIN inbox : inbox[i] # c)
      BY <2>4, <2>6 DEF Pending, InChannel
    <3>. QED  BY <3>1, <3>2
  <2>7. CASE ~Pending(c) /\ phase[c] \notin Early
    <3>1. phase[c] \in {"waiting", "ending", "gone"} => Len(done[c]) = 1
      BY <2>1, <2>7 DEF Life
    <3>2. phase[c] = "answered" => Len(done[c]) <= 1 /\ (status[c] # "400" => Len(done[c]) = 1)
      BY <2>1 DEF Life
    <3>3. CASE phase[c] \in {"waiting", "ending", "gone"}
      <4>1. Len(done[c]) = 1
        BY <3>1, <3>3
      <4>. QED  BY <4>1
    <3>4. CASE phase[c] = "answered"
      <4>1. Len(done[c]) <= 1 /\ (status[c] # "400" => Len(done[c]) = 1) /\ phase[c] # "gone"
        BY <3>2, <3>4
      <4>. QED  BY <4>1
    <3>. QED  BY <2>5, <2>7, <3>3, <3>4
  <2>. QED  BY <2>6, <2>7
<1>2. ServInv => IdleGauge
  <2> SUFFICES ASSUME ServInv, wpc = "loop", live = {}
               PROVE  gauge = 0 /\ line = <<>>
    BY DEF IdleGauge
  <2>1. line \in Seq(Entry) /\ Ids(line) = {} /\ gauge = Len(line)
    BY DEF ServInv, LineInv, LineOK
  <2>2. DOMAIN line = {}
    BY <2>1 DEF Ids
  <2>. QED  BY <2>1, <2>2
<1>. QED  BY ServAlways, <1>1, <1>2, PTL DEF MetricsExact

(***************************************************************************)
(* A client that leaves costs at most the step that was about to run.      *)
(***************************************************************************)
THEOREM GoneServedOnce == Spec => []GoneServedAtMostOnce
<1>1. ServInv => GoneServedAtMostOnce
  BY DEF ServInv, LateInv, GoneServedAtMostOnce
<1>. QED  BY ServAlways, <1>1, PTL

=============================================================================
