--------------------------- MODULE SchedulerProofs ---------------------------
(***************************************************************************)
(* What holds of the scheduler for every pool, batch size and set of       *)
(* requests: its type invariant, that no sequence is ever in two places,   *)
(* that it implements AllocSpec, so that everything proved of the pool     *)
(* alone (BlockAllocatorProofs) holds while the scheduler drives it, that  *)
(* at every step of every call a block's reference count is the number of  *)
(* tables that hold it, that no request overtakes one that arrived before  *)
(* it, that what a step hands out for writing is private to the sequence   *)
(* that writes it, and that tokens and what is left to generate add up     *)
(* over preemptions.                                                       *)
(*                                                                         *)
(* Private writes rest on three facts: a block with one reference is in    *)
(* one table (OwnInv), the prefix index serves only blocks that lie within *)
(* a prompt while tokens are written beyond it (PrivInv), and the victim   *)
(* of a preemption has not decoded, so that who has decoded stays in the   *)
(* batch until all are visited (DecodedInv).                               *)
(*                                                                         *)
(* What the prefix index keeps can be found from the root, a block a       *)
(* sequence shares through it was filled for the same tokens, and a step   *)
(* that admits preempts nobody.  The first rests on the order of release:  *)
(* a block is never unowned while a block that continues it is owned, and  *)
(* of two unowned ones the continuation was released first and is evicted  *)
(* first (ParentKept).  A table's registered blocks are therefore a path   *)
(* of the index (Chained), and along such a path the contents add up to    *)
(* the prompt (Written).  The last rests on a count: while a step admits,  *)
(* what its running sequences need for their next tokens and what the      *)
(* admission under way still takes is never more than what is free         *)
(* (RoomInv).                                                              *)
(*                                                                         *)
(* A driver, who looks at the queue and the batch between calls only, sees *)
(* Batching.  ViewInv says what they are within a step, in terms of what   *)
(* they were when it began and of how many have been admitted or have      *)
(* yielded so far; that a step never does both is RoomInv.                 *)
(***************************************************************************)
EXTENDS SchedulerBatching, BlockAllocatorProofs

-----------------------------------------------------------------------------
(* Sequences and numbers.                                                  *)

\* What p full blocks of tokens take is at least p blocks.
LEMMA CeilDivCovers ==
  ASSUME NEW p \in Nat, NEW n \in Nat, p * BlockSize <= n
  PROVE  /\ CeilDiv(n, BlockSize) \in Nat
         /\ p <= CeilDiv(n, BlockSize)
<1>1. BlockSize \in Nat \ {0}
  BY BlockTableAssumption
<1> DEFINE q == (n + BlockSize - 1) \div BlockSize
<1>2. q \in Nat
  BY <1>1
<1>3. n + BlockSize - 1 < (q + 1) * BlockSize
  BY <1>1
<1>4. q + 1 <= p => (q + 1) * BlockSize <= p * BlockSize
  BY <1>1, <1>2
<1>. QED
  BY <1>1, <1>2, <1>3, <1>4 DEF CeilDiv

LEMMA BlocksNeededType ==
  ASSUME NEW t \in Running
  PROVE  blocks_needed(t, 1) \in Nat
<1>1. BlockSize \in Nat \ {0} /\ t.num_tokens \in Nat
  BY BlockTableAssumption DEF Running, RunningWith
<1>2. t.num_tokens % BlockSize \in 0 .. BlockSize - 1
  BY <1>1
<1>3. \A n \in Nat : CeilDiv(n, BlockSize) \in Nat
  BY <1>1 DEF CeilDiv
<1>4. CeilDiv(1, BlockSize) \in Nat /\ CeilDiv(0, BlockSize) \in Nat
  BY <1>3
<1>. QED
  BY <1>1, <1>2, <1>3 DEF blocks_needed

-----------------------------------------------------------------------------
(* The inductive invariant.                                                *)

\* A sequence is on its way from the queue to the batch, or back.
Held == pc \in {"fork", "build", "register", "preempt"}

\* SchedTypeOK without the types of the pool, and with parent among the
\* entries that were handed out.
TypeInv ==
  /\ waiting \in Seq(Pending)
  /\ running \in Seq(Running)
  /\ Len(running) <= MaxBatchSize
  /\ pc \in Phase
  /\ cur \in RunningWith(SeqId \cup {0})
  /\ claim \in Seq(Blocks)
  /\ parent \in 0 .. next_entry - 1
  /\ reserved \in Nat /\ todo \in Seq(SeqId)
  /\ next_id \in 1 .. MaxSeqs + 1
  /\ target \in [1 .. next_id - 1 -> Nat]
  /\ forked \subseteq SeqId
  /\ holds \in [Blocks -> Seq(Chunk)]

\* What the current call relies on from one loop iteration to the next.
CallInv ==
  /\ pc \in {"fork", "build", "register"} => Len(running) < MaxBatchSize
  /\ pc = "register" => Len(claim) <= Len(cur.prompt)
  /\ pc = "reserve" => \A k \in DOMAIN todo : IsRunning(todo[k])
  /\ pc = "cow" => /\ todo # <<>> /\ cur.blocks # <<>>
                   /\ \E i \in DOMAIN running :
                        running[i].id = Head(todo) /\ running[i].blocks # <<>>

\* An id names one sequence, which is in one place.
Distinct ==
  /\ \A i, j \in DOMAIN running : running[i].id = running[j].id => i = j
  /\ \A i, j \in DOMAIN waiting : waiting[i].id = waiting[j].id => i = j
  /\ \A i \in DOMAIN running, j \in DOMAIN waiting : running[i].id # waiting[j].id
  /\ Held => /\ cur.id \in SeqId
             /\ \A i \in DOMAIN running : running[i].id # cur.id
             /\ \A j \in DOMAIN waiting : waiting[j].id # cur.id

\* Every id in use has been given out.
IdsGiven ==
  /\ \A i \in DOMAIN running : running[i].id < next_id
  /\ \A j \in DOMAIN waiting : waiting[j].id < next_id
  /\ Held => cur.id < next_id

\* A prompt's full blocks lie within the context.
Covered(p, n) == Len(p) * BlockSize <= n

PromptsCovered ==
  /\ \A j \in DOMAIN waiting : Covered(waiting[j].prompt, waiting[j].context_len)
  /\ \A i \in DOMAIN running : Covered(running[i].prompt, running[i].num_tokens)
  /\ Held => Covered(cur.prompt, cur.num_tokens)

WithinBudget(t) == t.generated <= t.max_new

(***************************************************************************)
(* Only a sequence that has decoded in the current step may have gone over *)
(* its budget, and decode visits the batch in order: whoever stands behind *)
(* a sequence that is still to be visited is still to be visited too.  The *)
(* victim of a preemption therefore has not decoded.                       *)
(***************************************************************************)
VisitInv ==
  /\ \A i \in DOMAIN running : In(running[i].id, todo) => WithinBudget(running[i])
  /\ \A i, j \in DOMAIN running :
       i < j /\ In(running[i].id, todo) => In(running[j].id, todo)
  /\ \A k, l \in DOMAIN todo : \A i, j \in DOMAIN running :
       k < l /\ running[i].id = todo[k] /\ running[j].id = todo[l] => i < j

BudgetInv ==
  /\ Held => WithinBudget(cur)
  /\ ~Stepping => \A i \in DOMAIN running : WithinBudget(running[i])
  /\ Stepping => VisitInv

SchedInv ==
  /\ AllocInv
  /\ TypeInv /\ CallInv /\ Distinct /\ IdsGiven /\ PromptsCovered /\ BudgetInv

-----------------------------------------------------------------------------
(* Every step of the scheduler is a step of the pool or none.              *)

\* A run of cached blocks, and the entry it ends with.
LEMMA MatchFacts ==
  ASSUME AllocInv, NEW p \in Pending, NEW hit \in Matches(Matchable(p))
  PROVE  hit \in Seq(Blocks) /\ LastEntry(hit) \in 0 .. next_entry - 1
<1>1. Len(Matchable(p)) \in Nat
  <2>1. /\ BlockSize \in Nat \ {0} /\ p.context_len \in Nat /\ p.prompt \in Seq(Chunk)
        /\ Len(p.prompt) \in Nat
    BY BlockTableAssumption DEF Pending
  <2>2. \A n \in Int : Len(SubSeq(p.prompt, 1, n)) \in Nat
    <3> SUFFICES ASSUME NEW n \in Int PROVE Len(SubSeq(p.prompt, 1, n)) \in Nat
      OBVIOUS
    <3> DEFINE T == {p.prompt[i] : i \in 1 .. n}
    <3>1. \A i \in 1 .. n : p.prompt[i] \in T
      OBVIOUS
    <3>. HIDE DEF T
    <3>2. SubSeq(p.prompt, 1, n) \in Seq(T)
      BY <3>1, SubSeqProperties
    <3>. QED  BY <3>2, LenProperties
  <2>3. (p.context_len - 1) \div BlockSize \in Int
    BY <2>1
  <2>. QED  BY <2>1, <2>2, <2>3 DEF Matchable
<1>2. PICK m \in 0 .. Len(Matchable(p)) : hit \in [1 .. m -> Blocks]
  BY DEF Matches, BoundedSeq, SeqOf
<1>3. hit \in Seq(Blocks)
  BY <1>1, <1>2
<1>4. /\ next_entry \in Nat \ {0}
      /\ \A b \in DOMAIN by_block : by_block[b].entry \in 0 .. next_entry - 1
  BY EntriesBelow
<1>5. CASE hit = <<>>
  BY <1>3, <1>4, <1>5 DEF LastEntry, Root
<1>6. CASE hit # <<>>
  <2>1. Len(hit) \in 1 .. Len(hit)
    BY <1>3, <1>6
  <2>2. IsMatch(hit, Matchable(p))
    BY DEF Matches
  <2>3. PICK k : k \in DOMAIN by_key /\ by_key[k].block = hit[Len(hit)]
    BY <2>1, <2>2 DEF IsMatch
  <2>4. hit[Len(hit)] \in DOMAIN by_block
    BY <2>3 DEF AllocInv, IndexConsistent
  <2>. QED  BY <1>3, <1>4, <1>6, <2>4 DEF LastEntry, Last
<1>. QED  BY <1>5, <1>6

\* The block cache_prompt registers next, and the entry it registers under.
LEMMA RegisterFacts ==
  ASSUME SchedInv, RegisterBlock
  PROVE  LET chunk == cur.prompt[Len(cur.prompt) - Len(claim) + 1] IN
         /\ Head(claim) \in Blocks
         /\ chunk \in Chunk
         /\ CacheBlock(Head(claim), [parent |-> parent, tokens |-> chunk])
         /\ parent' \in 0 .. next_entry' - 1
<1> DEFINE chunk == cur.prompt[Len(cur.prompt) - Len(claim) + 1]
           b == Head(claim)
           k == [parent |-> parent, tokens |-> chunk]
<1>1. pc = "register" /\ claim # <<>> /\ CacheBlock(b, k) /\ parent' = CachedEntry(b, k)
  BY DEF RegisterBlock
<1>2. claim \in Seq(Blocks) /\ cur.prompt \in Seq(Chunk) /\ Len(claim) <= Len(cur.prompt)
  BY <1>1 DEF SchedInv, TypeInv, CallInv, RunningWith
<1>3. b \in Blocks
  BY <1>1, <1>2
<1>4. chunk \in Chunk
  <2>1. Len(claim) \in Nat \ {0} /\ Len(cur.prompt) \in Nat
    BY <1>1, <1>2, EmptySeq
  <2>2. Len(cur.prompt) - Len(claim) + 1 \in 1 .. Len(cur.prompt)
    BY <1>2, <2>1
  <2>. QED  BY <1>2, <2>2, ElementOfSeq
<1>. HIDE DEF chunk, b
<1>5. /\ next_entry \in Nat \ {0}
      /\ \A j \in DOMAIN by_key : by_key[j].entry \in 0 .. next_entry - 1
      /\ \A c \in DOMAIN by_block : by_block[c].entry \in 0 .. next_entry - 1
  BY EntriesBelow DEF SchedInv
<1>6. CASE is_cached(b)
  <2>1. next_entry' = next_entry /\ parent' = by_block[b].entry
    BY <1>1, <1>6 DEF CacheBlock, CachedEntry
  <2>. QED  BY <1>1, <1>3, <1>4, <1>5, <1>6, <2>1 DEF chunk, b, is_cached
<1>7. CASE ~is_cached(b) /\ k \in DOMAIN by_key
  <2>1. next_entry' = next_entry /\ parent' = by_key[k].entry
    BY <1>1, <1>7 DEF CacheBlock, CachedEntry
  <2>. QED  BY <1>1, <1>3, <1>4, <1>5, <1>7, <2>1 DEF chunk, b
<1>8. CASE ~is_cached(b) /\ k \notin DOMAIN by_key
  <2>1. next_entry' = next_entry + 1 /\ parent' = next_entry
    BY <1>1, <1>8 DEF CacheBlock, CachedEntry, Register
  <2>. QED  BY <1>1, <1>3, <1>4, <1>5, <2>1 DEF chunk, b
<1>. QED  BY <1>6, <1>7, <1>8

\* The tail that copy-on-write releases.
LEMMA CowFacts ==
  ASSUME SchedInv, pc = "cow"
  PROVE  LET i == Pos(Head(todo)) IN
         /\ todo # <<>>
         /\ i \in DOMAIN running /\ running[i].id = Head(todo)
         /\ running[i].blocks # <<>>
         /\ TailOf(running[i]) \in Blocks
         /\ Head(cur.blocks) \in Blocks
<1>1. /\ todo # <<>> /\ cur.blocks # <<>> /\ cur.blocks \in Seq(Blocks)
      /\ running \in Seq(Running)
  BY DEF SchedInv, TypeInv, CallInv, RunningWith
<1>2. PICK i \in DOMAIN running : running[i].id = Head(todo) /\ running[i].blocks # <<>>
  BY DEF SchedInv, CallInv
<1>3. Pos(Head(todo)) \in DOMAIN running /\ running[Pos(Head(todo))].id = Head(todo)
  BY <1>2 DEF Pos
<1>4. Pos(Head(todo)) = i
  BY <1>2, <1>3 DEF SchedInv, Distinct
<1>5. running[i] \in Running
  BY <1>1, <1>2
<1>6. running[i].blocks \in Seq(Blocks)
  BY <1>5 DEF Running, RunningWith
<1>7. TailOf(running[i]) \in Blocks
  BY <1>2, <1>6, EmptySeq, ElementOfSeq DEF TailOf
<1>. QED  BY <1>1, <1>2, <1>3, <1>4, <1>7
LEMMA StepIsPoolStep ==
  ASSUME SchedInv, [Next]_vars
  PROVE  [AllocNext]_allocVars
<1>. USE DEF allocVars
<1>1. CASE UNCHANGED vars
  BY <1>1 DEF vars
<1>2. CASE Client
  BY <1>2 DEF Client, Enqueue, Fork, FinishRunning, FinishWaiting
<1>3. CASE ForkBlock
  <2>1. Head(claim) \in Blocks /\ Incref(Head(claim))
    BY <1>3 DEF ForkBlock, SchedInv, TypeInv
  <2>. QED  BY <2>1 DEF AllocNext
<1>4. CASE Acquire
  <2>1. Head(claim) \in Blocks /\ AcquireCached(Head(claim))
    BY <1>4 DEF Acquire, SchedInv, TypeInv
  <2>. QED  BY <2>1 DEF AllocNext
<1>5. ASSUME Fill \/ \E i \in DOMAIN running : AppendFresh(i) \/ CowAllocate(i)
      PROVE  [AllocNext]_allocVars
  <2>1. PICK b \in Blocks : Allocate(b)
    BY <1>5 DEF Fill, AppendFresh, CowAllocate
  <2>. QED  BY <2>1 DEF AllocNext
<1>6. CASE RegisterBlock
  <2>1. PICK b \in Blocks, t \in Chunk : CacheBlock(b, [parent |-> parent, tokens |-> t])
    BY <1>6, RegisterFacts
  <2>2. parent \in 0 .. next_entry - 1
    BY DEF SchedInv, TypeInv
  <2>. QED  BY <2>1, <2>2 DEF AllocNext
<1>7. CASE CowReplace
  <2>1. TailOf(running[Pos(Head(todo))]) \in Blocks
    BY <1>7, CowFacts DEF CowReplace
  <2>2. Decref(TailOf(running[Pos(Head(todo))]))
    BY <1>7 DEF CowReplace
  <2>. QED  BY <2>1, <2>2 DEF AllocNext
<1>8. CASE ReleaseBlock
  <2>1. cur.blocks \in Seq(Blocks) /\ cur.blocks # <<>>
    BY <1>8 DEF ReleaseBlock, SchedInv, TypeInv, RunningWith
  <2>2. TailOf(cur) \in Blocks
    BY <2>1, EmptySeq, ElementOfSeq DEF TailOf
  <2>3. Decref(TailOf(cur))
    BY <1>8 DEF ReleaseBlock
  <2>. QED  BY <2>2, <2>3 DEF AllocNext
<1>9. ASSUME \/ StepBegin \/ Reserve \/ ReserveEnd \/ AdmitNext \/ AdmitEnd
             \/ FillEnd \/ RegisterEnd \/ DecodeSkip
             \/ \E i \in DOMAIN running : AppendInPlace(i) \/ Preempt(i) \/ Retire(i)
             \/ PreemptEnd \/ ReleaseEnd \/ StepEnd \/ ForkEnd
      PROVE  [AllocNext]_allocVars
  BY <1>9 DEF StepBegin, Reserve, ReserveEnd, AdmitNext, AdmitEnd, FillEnd, RegisterEnd,
              DecodeSkip, AppendInPlace, Preempt, Retire, PreemptEnd, ReleaseEnd,
              StepEnd, ForkEnd
<1>. QED
  BY <1>1, <1>2, <1>3, <1>4, <1>5, <1>6, <1>7, <1>8, <1>9 DEF Next, Step

-----------------------------------------------------------------------------
(* The types.                                                              *)

LEMMA NewIdFacts ==
  ASSUME TypeInv, NEW n \in Nat, NewId(n)
  PROVE  /\ next_id \in SeqId
         /\ next_id' = next_id + 1 /\ next_id' \in 1 .. MaxSeqs + 1
         /\ target' \in [1 .. next_id' - 1 -> Nat]
<1>1. /\ next_id \in 1 .. MaxSeqs + 1 /\ next_id <= MaxSeqs /\ MaxSeqs \in Nat
      /\ next_id' = next_id + 1 /\ target' = Append(target, n)
      /\ target \in [1 .. next_id - 1 -> Nat]
  BY SchedulerAssumption DEF TypeInv, NewId
<1>2. target \in Seq(Nat) /\ Len(target) = next_id - 1
  BY <1>1
<1>3. target' \in Seq(Nat) /\ Len(target') = next_id
  BY <1>1, <1>2
<1>4. target' \in [1 .. next_id -> Nat] /\ next_id' - 1 = next_id
  <2>1. target' \in [1 .. Len(target') -> Nat]
    BY <1>3, LenProperties
  <2>. QED  BY <1>1, <1>3, <2>1
<1>5. next_id \in SeqId /\ next_id + 1 \in 1 .. MaxSeqs + 1
  BY <1>1 DEF SeqId
<1>. QED  BY <1>1, <1>4, <1>5

LEMMA RunningFacts ==
  ASSUME NEW ids, NEW t \in RunningWith(ids)
  PROVE  /\ t.id \in ids /\ t.blocks \in Seq(Blocks) /\ t.num_tokens \in Nat
         /\ t.max_new \in Nat /\ t.generated \in Nat /\ t.prompt \in Seq(Chunk)
         /\ t.cached \in Nat
         /\ \A bs \in Seq(Blocks) : [t EXCEPT !.blocks = bs] \in RunningWith(ids)
<1>. QED  BY DEF RunningWith

\* Client calls.
LEMMA ClientKeepsTypes == ASSUME SchedInv, Client PROVE TypeInv'
<1>. TypeInv
  BY DEF SchedInv
<1>. USE DEF TypeInv
<1>1. ASSUME NEW r \in Requests, Enqueue(r) PROVE TypeInv'
  <2>1. r \in Request /\ r.len + r.max_new \in Nat
    BY SchedulerAssumption DEF Request
  <2>2. /\ next_id \in SeqId /\ next_id' \in 1 .. MaxSeqs + 1
        /\ target' \in [1 .. next_id' - 1 -> Nat]
    BY <1>1, <2>1, NewIdFacts DEF Enqueue
  <2>3. [id |-> next_id, context_len |-> r.len, max_new |-> r.max_new,
         prompt |-> r.prompt] \in Pending
    BY <2>1, <2>2 DEF Pending, Request
  <2>4. waiting' \in Seq(Pending)
    BY <1>1, <2>3, AppendProperties DEF Enqueue
  <2>. QED  BY <1>1, <2>2, <2>4 DEF Enqueue, allocVars, callVars
<1>2. ASSUME NEW i \in DOMAIN running, NEW n \in ForkNew, Fork(i, n) PROVE TypeInv'
  <2>1. running[i] \in Running /\ n \in Nat
    BY SchedulerAssumption
  <2>2. running[i].num_tokens + n \in Nat
    BY <2>1, RunningFacts DEF Running
  <2>3. /\ next_id \in SeqId /\ next_id' \in 1 .. MaxSeqs + 1
        /\ target' \in [1 .. next_id' - 1 -> Nat]
    BY <1>2, <2>2, NewIdFacts DEF Fork
  <2>4. cur' \in RunningWith(SeqId \cup {0}) /\ claim' \in Seq(Blocks)
    BY <1>2, <2>1, <2>3, RunningFacts DEF Fork, Running, RunningWith
  <2>. QED  BY <1>2, <2>3, <2>4 DEF Fork, allocVars, Phase
<1>3. ASSUME NEW i \in DOMAIN running, FinishRunning(i) PROVE TypeInv'
  <2>1. running[i] \in Running
    OBVIOUS
  <2>2. cur' \in RunningWith(SeqId \cup {0})
    BY <1>3, <2>1 DEF FinishRunning, Running, RunningWith
  <2>3. running' \in Seq(Running) /\ Len(running') = Len(running) - 1
    BY <1>3, RemoveAtFacts DEF FinishRunning
  <2>4. Len(running') <= MaxBatchSize
    BY <2>3, SchedulerAssumption
  <2>. QED  BY <1>3, <2>2, <2>3, <2>4 DEF FinishRunning, allocVars, histVars, Phase
<1>4. ASSUME NEW i \in DOMAIN waiting, FinishWaiting(i) PROVE TypeInv'
  <2>1. waiting' \in Seq(Pending)
    BY <1>4, RemoveAtFacts DEF FinishWaiting
  <2>. QED  BY <1>4, <2>1 DEF FinishWaiting, allocVars, callVars, histVars
<1>. QED  BY <1>1, <1>2, <1>3, <1>4 DEF Client

\* fork_sequence after its first iteration, admission.
LEMMA AdmissionKeepsTypes ==
  ASSUME SchedInv,
         \/ ForkBlock \/ ForkEnd \/ StepBegin \/ Reserve \/ ReserveEnd \/ AdmitNext
         \/ AdmitEnd \/ Acquire \/ Fill \/ FillEnd \/ RegisterBlock \/ RegisterEnd
  PROVE  TypeInv'
<1>. TypeInv /\ CallInv /\ Distinct
  BY DEF SchedInv
<1>. USE DEF TypeInv
<1>1. claim # <<>> => Head(claim) \in Blocks /\ Tail(claim) \in Seq(Blocks)
  BY HeadTailProperties
<1>2. Ids(running) \in Seq(SeqId)
  <2>1. \A i \in DOMAIN running : running[i].id \in SeqId
    BY RunningFacts DEF Running
  <2>2. Len(running) \in Nat /\ DOMAIN running = 1 .. Len(running)
    OBVIOUS
  <2>3. Ids(running) \in [1 .. Len(running) -> SeqId]
    BY <2>1, <2>2 DEF Ids
  <2>. QED  BY <2>2, <2>3, FunIsSeq
<1>3. \A b \in Blocks : [cur EXCEPT !.blocks = Append(@, b)] \in RunningWith(SeqId \cup {0})
  BY RunningFacts, AppendProperties
<1>4. NoSeq \in RunningWith(SeqId \cup {0})
  BY DEF NoSeq, RunningWith
<1>5. pc \in {"fork", "register"} =>
        /\ Append(running, cur) \in Seq(Running)
        /\ Len(Append(running, cur)) <= MaxBatchSize
        /\ cur \in Running
  <2>1. pc \in {"fork", "register"} => cur \in Running /\ Len(running) < MaxBatchSize
    BY DEF CallInv, Distinct, Held, Running, RunningWith
  <2>. QED  BY <2>1, AppendProperties, LenProperties, SchedulerAssumption
<1>6. CASE ForkBlock
  BY <1>1, <1>3, <1>6 DEF ForkBlock, Incref, histVars
<1>7. CASE ForkEnd
  BY <1>4, <1>5, <1>7 DEF ForkEnd, allocVars, histVars, Phase
<1>8. CASE StepBegin
  BY <1>2, <1>8 DEF StepBegin, allocVars, histVars, Phase
<1>9. CASE Reserve
  <2>1. Tail(todo) \in Seq(SeqId) /\ 1 \in DOMAIN todo /\ Head(todo) = todo[1]
    BY <1>9, HeadTailProperties DEF Reserve
  <2>2. Pos(Head(todo)) \in DOMAIN running
    BY <1>9, <2>1 DEF Reserve, CallInv, IsRunning, Pos
  <2>3. blocks_needed(running[Pos(Head(todo))], 1) \in Nat
    BY <2>2, BlocksNeededType
  <2>4. reserved' \in Nat /\ todo' \in Seq(SeqId)
    <3>. HIDE DEF TypeInv
    <3>1. /\ reserved \in Nat
          /\ reserved' = reserved + blocks_needed(running[Pos(Head(todo))], 1)
          /\ todo' = Tail(todo)
      BY <1>9 DEF Reserve, TypeInv
    <3>. QED  BY <2>1, <2>3, <3>1
  <2>5. UNCHANGED <<allocVars, waiting, running, pc, cur, claim, parent, outcome, histVars>>
    BY <1>9 DEF Reserve
  <2>6. next_entry' = next_entry /\ next_id' = next_id /\ target' = target
    BY <2>5 DEF allocVars, histVars
  <2>. QED  BY <2>4, <2>5, <2>6 DEF histVars
<1>10. CASE ReserveEnd
  BY <1>10 DEF ReserveEnd, allocVars, histVars, Phase
<1>11. CASE AdmitNext
  <2> DEFINE p == Head(waiting)
  <2>1. p \in Pending /\ Tail(waiting) \in Seq(Pending)
    BY <1>11, HeadTailProperties DEF AdmitNext
  <2>2. PICK hit \in Matches(Matchable(p)) :
          /\ claim' = hit /\ parent' = LastEntry(hit)
          /\ cur' = [id |-> p.id, blocks |-> <<>>, num_tokens |-> p.context_len,
                     max_new |-> p.max_new, generated |-> 0, prompt |-> p.prompt,
                     cached |-> Len(hit)]
    BY <1>11 DEF AdmitNext
  <2>. HIDE DEF p
  <2>3. hit \in Seq(Blocks) /\ LastEntry(hit) \in 0 .. next_entry - 1
    BY <2>1, MatchFacts DEF SchedInv
  <2>4. cur' \in RunningWith(SeqId \cup {0})
    <3>1. p.id \in SeqId /\ p.context_len \in Nat /\ p.max_new \in Nat /\ p.prompt \in Seq(Chunk)
      BY <2>1 DEF Pending
    <3>2. Len(hit) \in Nat
      BY <2>3
    <3>3. <<>> \in Seq(Blocks) /\ 0 \in Nat /\ p.id \in SeqId \cup {0}
      BY <3>1
    <3>. QED  BY ONLY <2>2, <3>1, <3>2, <3>3 DEF RunningWith
  <2>5. /\ waiting' = Tail(waiting) /\ pc' = "build"
        /\ UNCHANGED <<allocVars, running, reserved, todo, outcome, histVars>>
    BY <1>11 DEF AdmitNext
  <2>. QED  BY <2>1, <2>2, <2>3, <2>4, <2>5 DEF allocVars, histVars, Phase, p
<1>12. CASE AdmitEnd
  BY <1>2, <1>12 DEF AdmitEnd, allocVars, histVars, Phase
<1>13. CASE Acquire
  BY <1>1, <1>3, <1>13 DEF Acquire, AcquireCached, Incref, Reclaim, histVars
<1>14. CASE Fill
  <2>1. PICK b \in Blocks :
          /\ Allocate(b)
          /\ cur' = [cur EXCEPT !.blocks = Append(@, b)]
          /\ holds' = [holds EXCEPT ![b] =
                         IF Len(cur.blocks) < Len(cur.prompt)
                         THEN SubSeq(cur.prompt, 1, Len(cur.blocks) + 1) ELSE <<>>]
    BY <1>14 DEF Fill
  <2>2. /\ cur.prompt \in Seq(Chunk) /\ Len(cur.blocks) \in Nat /\ Len(cur.prompt) \in Nat
    BY DEF RunningWith
  <2>3. Len(cur.blocks) < Len(cur.prompt) => SubSeq(cur.prompt, 1, Len(cur.blocks) + 1) \in Seq(Chunk)
    BY <2>2, ElementOfSeq, SubSeqProperties
  <2>4. holds' \in [Blocks -> Seq(Chunk)]
    BY <2>1, <2>3
  <2>. QED  BY <1>3, <1>14, <2>1, <2>4 DEF Fill, Allocate
<1>15. CASE FillEnd
  <2>1. /\ cur.blocks \in Seq(Blocks) /\ cur.num_tokens \in Nat /\ cur.cached \in Nat
        /\ Len(cur.prompt) \in Nat /\ Len(cur.blocks) \in Nat
    BY DEF RunningWith
  <2>2. Len(cur.prompt) * BlockSize <= cur.num_tokens
    BY <1>15 DEF FillEnd, SchedInv, PromptsCovered, Covered, Held
  <2>3. Len(cur.prompt) <= Len(cur.blocks)
    BY <1>15, <2>1, <2>2, CeilDivCovers DEF FillEnd, HoldsWhatItNeeds, blocks_for_tokens
  <2>4. SubSeq(cur.blocks, cur.cached + 1, Len(cur.prompt)) \in Seq(Blocks)
    <3>1. \A k \in cur.cached + 1 .. Len(cur.prompt) : cur.blocks[k] \in Blocks
      <4>1. \A k \in cur.cached + 1 .. Len(cur.prompt) : k \in 1 .. Len(cur.blocks)
        BY ONLY <2>1, <2>3
      <4>. QED  BY ONLY <2>1, <4>1, ElementOfSeq
    <3>2. cur.cached + 1 \in Int /\ Len(cur.prompt) \in Int
      BY <2>1
    <3>. QED  BY ONLY <3>1, <3>2, SubSeqProperties
  <2>. QED  BY <1>15, <2>4 DEF FillEnd, allocVars, histVars, Phase
<1>16. CASE RegisterBlock
  BY <1>1, <1>16, RegisterFacts DEF RegisterBlock, histVars
<1>17. CASE RegisterEnd
  <2>1. blocks_needed(cur, 1) \in Nat
    BY <1>5, <1>17, BlocksNeededType DEF RegisterEnd
  <2>. QED  BY <1>4, <1>5, <1>17, <2>1 DEF RegisterEnd, allocVars, histVars, Phase
<1>. QED
  BY <1>6, <1>7, <1>8, <1>9, <1>10, <1>11, <1>12, <1>13, <1>14, <1>15, <1>16, <1>17

\* What append does to the i-th running sequence, whose blocks become bs.
LEMMA AppendedFacts ==
  ASSUME TypeInv, NEW i \in DOMAIN running, NEW bs \in Seq(Blocks), NEW cow,
         Appended(i, bs, cow), todo # <<>>
  PROVE  /\ running' \in Seq(Running) /\ Len(running') = Len(running)
         /\ DOMAIN running' = DOMAIN running
         /\ \A j \in DOMAIN running \ {i} : running'[j] = running[j]
         /\ running'[i].id = running[i].id
         /\ running'[i].blocks = bs
         /\ running'[i].num_tokens = running[i].num_tokens + 1
         /\ running'[i].generated = running[i].generated + 1
         /\ running'[i].max_new = running[i].max_new
         /\ running'[i].prompt = running[i].prompt
         /\ todo' = Tail(todo) /\ todo' \in Seq(SeqId)
<1> DEFINE r == running[i]
           t == [r EXCEPT !.blocks = bs, !.num_tokens = @ + 1, !.generated = @ + 1]
<1>1. running' = [running EXCEPT ![i] = t] /\ todo' = Tail(todo)
  BY DEF Appended
<1>2. running \in Seq(Running) /\ todo \in Seq(SeqId) /\ r \in Running
  BY DEF TypeInv
<1>. HIDE DEF r
<1>3. /\ t.id = r.id /\ t.blocks = bs /\ t.num_tokens = r.num_tokens + 1
      /\ t.generated = r.generated + 1 /\ t.max_new = r.max_new /\ t.prompt = r.prompt
  BY <1>2 DEF Running, RunningWith
<1>4. t \in Running
  <2> DEFINE t1 == [r EXCEPT !.blocks = bs]
             t2 == [t1 EXCEPT !.num_tokens = r.num_tokens + 1]
             t3 == [t2 EXCEPT !.generated = r.generated + 1]
  <2>1. t1 \in Running /\ r.num_tokens + 1 \in Nat /\ r.generated + 1 \in Nat
    BY <1>2, RunningFacts DEF Running
  <2>2. t = t3
    BY <1>2 DEF Running, RunningWith
  <2>. HIDE DEF t1
  <2>3. t2 \in Running
    BY <2>1 DEF Running, RunningWith
  <2>. HIDE DEF t2
  <2>4. t3 \in Running
    BY <2>1, <2>3 DEF Running, RunningWith
  <2>. QED  BY <2>2, <2>4
<1>. HIDE DEF t
<1>5. i \in 1 .. Len(running)
  BY <1>2
<1>6. /\ running' \in Seq(Running) /\ Len(running') = Len(running)
      /\ \A j \in 1 .. Len(running) : running'[j] = IF j = i THEN t ELSE running[j]
  BY <1>1, <1>2, <1>4, <1>5, ExceptSeq
<1>7. DOMAIN running' = DOMAIN running /\ DOMAIN running = 1 .. Len(running)
  BY <1>2, <1>6, LenProperties
<1>8. todo' \in Seq(SeqId)
  BY <1>1, <1>2, HeadTailProperties
<1>. QED  BY <1>1, <1>3, <1>5, <1>6, <1>7, <1>8 DEF r

\* The blocks of a running sequence with its tail replaced, or one added.
LEMMA TableFacts ==
  ASSUME TypeInv, NEW i \in DOMAIN running, NEW b \in Blocks
  PROVE  /\ running[i] \in Running /\ running[i].blocks \in Seq(Blocks)
         /\ Append(running[i].blocks, b) \in Seq(Blocks)
         /\ running[i].blocks # <<>> =>
              [running[i].blocks EXCEPT ![Len(running[i].blocks)] = b] \in Seq(Blocks)
<1> DEFINE bs == running[i].blocks
<1>1. running[i] \in Running
  BY DEF TypeInv
<1>2. bs \in Seq(Blocks)
  BY <1>1, RunningFacts DEF Running
<1>. HIDE DEF bs
<1>3. Append(bs, b) \in Seq(Blocks)
  BY <1>2, AppendProperties
<1>4. bs # <<>> => [bs EXCEPT ![Len(bs)] = b] \in Seq(Blocks)
  <2>1. bs # <<>> => Len(bs) \in 1 .. Len(bs)
    BY <1>2, EmptySeq
  <2>. QED  BY <1>2, <2>1, ExceptSeq
<1>. QED  BY <1>1, <1>2, <1>3, <1>4 DEF bs

\* One token is appended to the sequence decode visits.
LEMMA AppendStep ==
  ASSUME SchedInv,
         CowReplace \/ \E i \in DOMAIN running : AppendInPlace(i) \/ AppendFresh(i)
  PROVE  \E i \in DOMAIN running, bs \in Seq(Blocks), cow \in Seq(Blocks) :
           Appended(i, bs, cow) /\ todo # <<>> /\ running[i].id = Head(todo)
<1>. TypeInv
  BY DEF SchedInv
<1>1. ASSUME NEW i \in DOMAIN running, AppendInPlace(i)
      PROVE  \E bs \in Seq(Blocks) :
               Appended(i, bs, <<>>) /\ todo # <<>> /\ running[i].id = Head(todo)
  <2>1. running[i].blocks \in Seq(Blocks)
    BY RunningFacts DEF TypeInv, Running
  <2>. QED  BY <1>1, <2>1 DEF AppendInPlace, Decoding
<1>2. ASSUME NEW i \in DOMAIN running, AppendFresh(i)
      PROVE  \E bs \in Seq(Blocks) :
               Appended(i, bs, <<>>) /\ todo # <<>> /\ running[i].id = Head(todo)
  BY <1>2, TableFacts DEF AppendFresh, Decoding
<1>3. CASE CowReplace
  <2> DEFINE i == Pos(Head(todo))
             bs == [running[i].blocks EXCEPT ![Len(running[i].blocks)] = Head(cur.blocks)]
             cow == CopyPair(TailOf(running[i]), Head(cur.blocks))
  <2>1. /\ todo # <<>> /\ i \in DOMAIN running /\ Head(cur.blocks) \in Blocks
        /\ running[i].blocks # <<>> /\ running[i].id = Head(todo)
    BY <1>3, CowFacts DEF CowReplace
  <2>2. bs \in Seq(Blocks)
    BY <2>1, TableFacts
  <2>3. Appended(i, bs, cow)
    BY <1>3 DEF CowReplace
  <2>4. cow \in Seq(Blocks)
    BY <2>1, CowFacts, <1>3 DEF CopyPair, CowReplace
  <2>. HIDE DEF i, bs, cow
  <2>. QED  BY <2>1, <2>2, <2>3, <2>4
<1>4. <<>> \in Seq(Blocks)
  OBVIOUS
<1>. QED  BY <1>1, <1>2, <1>3, <1>4

\* One block of the table under construction is added or released.
LEMMA CurStep ==
  ASSUME TypeInv, ForkBlock \/ Acquire \/ Fill \/ ReleaseBlock
  PROVE  /\ cur'.id = cur.id /\ cur'.prompt = cur.prompt
         /\ cur'.num_tokens = cur.num_tokens
         /\ cur'.generated = cur.generated /\ cur'.max_new = cur.max_new
         /\ UNCHANGED <<waiting, running, pc, todo, outcome, next_id>>
<1> DEFINE u(bs) == [cur EXCEPT !.blocks = bs]
<1>1. \A bs : /\ u(bs).id = cur.id /\ u(bs).prompt = cur.prompt
              /\ u(bs).num_tokens = cur.num_tokens
              /\ u(bs).generated = cur.generated /\ u(bs).max_new = cur.max_new
  BY DEF TypeInv, RunningWith
<1>2. \E bs : cur' = u(bs)
  <2>1. CASE ForkBlock  BY <2>1, Zenon DEF ForkBlock
  <2>2. CASE Acquire  BY <2>2, Zenon DEF Acquire
  <2>3. CASE Fill  BY <2>3, Zenon DEF Fill
  <2>4. CASE ReleaseBlock  BY <2>4, Zenon DEF ReleaseBlock
  <2>. QED  BY <2>1, <2>2, <2>3, <2>4
<1>. HIDE DEF u
<1>3. UNCHANGED <<waiting, running, pc, todo, outcome, next_id>>
  BY DEF ForkBlock, Acquire, Fill, ReleaseBlock, histVars
<1>. QED  BY <1>1, <1>2, <1>3

\* What Decoding and the choice of a victim give.
LEMMA VictimFacts ==
  ASSUME TypeInv, NEW i \in DOMAIN running
  PROVE  LET s == RemoveAt(running, VictimIndex) IN
         /\ VictimIndex \in DOMAIN running /\ i <= VictimIndex
         /\ s \in Seq(Running) /\ Len(s) = Len(running) - 1
         /\ \A j \in DOMAIN s : j \in DOMAIN running /\ j < VictimIndex /\ s[j] = running[j]
<1>1. /\ running \in Seq(Running) /\ DOMAIN running = 1 .. Len(running)
      /\ Len(running) \in Nat
  BY DEF TypeInv
<1>2. VictimIndex \in DOMAIN running /\ i <= VictimIndex /\ VictimIndex = Len(running)
  BY <1>1 DEF VictimIndex
<1> DEFINE s == RemoveAt(running, VictimIndex)
<1>3. /\ s \in Seq(Running) /\ Len(s) = Len(running) - 1
      /\ \A j \in DOMAIN s : j < VictimIndex => j \in DOMAIN running /\ s[j] = running[j]
  BY <1>1, <1>2, RemoveAtFacts
<1>. HIDE DEF s
<1>4. DOMAIN s = 1 .. Len(running) - 1
  BY <1>3
<1>. QED  BY <1>1, <1>2, <1>3, <1>4 DEF s

\* Decode, preemption, retirement.
LEMMA DecodeKeepsTypes ==
  ASSUME SchedInv,
         \/ DecodeSkip
         \/ \E i \in DOMAIN running :
              AppendInPlace(i) \/ AppendFresh(i) \/ CowAllocate(i) \/ Preempt(i) \/ Retire(i)
         \/ CowReplace \/ ReleaseBlock \/ PreemptEnd \/ ReleaseEnd \/ StepEnd
  PROVE  TypeInv'
<1>. TypeInv
  BY DEF SchedInv
<1>1. /\ waiting \in Seq(Pending) /\ running \in Seq(Running)
      /\ Len(running) <= MaxBatchSize /\ Len(running) \in Nat /\ MaxBatchSize \in Nat
      /\ todo # <<>> => Tail(todo) \in Seq(SeqId)
  BY SchedulerAssumption, HeadTailProperties DEF TypeInv
<1>2. NoSeq \in RunningWith(SeqId \cup {0})
  BY DEF NoSeq, RunningWith
<1>3. \A b \in Blocks : [holds EXCEPT ![b] = <<>>] \in [Blocks -> Seq(Chunk)]
  BY DEF TypeInv
<1>4. \A i \in DOMAIN running : running[i] \in RunningWith(SeqId \cup {0})
  <2>1. \A i \in DOMAIN running : running[i] \in Running
    BY <1>1
  <2>2. \A t \in Running : t \in RunningWith(SeqId \cup {0})
    BY DEF Running, RunningWith
  <2>. QED  BY <2>1, <2>2
<1>5. CASE DecodeSkip
  BY <1>1, <1>5 DEF DecodeSkip, TypeInv, allocVars, histVars
<1>6. CASE CowReplace \/ \E i \in DOMAIN running : AppendInPlace(i) \/ AppendFresh(i)
  <2>1. running' \in Seq(Running) /\ Len(running') = Len(running) /\ todo' \in Seq(SeqId)
    BY <1>6, AppendStep, AppendedFacts
  <2>2. ASSUME NEW i \in DOMAIN running, AppendInPlace(i) PROVE TypeInv'
    BY <2>1, <2>2 DEF AppendInPlace, TypeInv, allocVars, histVars
  <2>3. ASSUME NEW i \in DOMAIN running, AppendFresh(i) PROVE TypeInv'
    <3>1. PICK b \in Blocks : Allocate(b) /\ holds' = [holds EXCEPT ![b] = <<>>]
      BY <2>3 DEF AppendFresh
    <3>. QED  BY <1>3, <2>1, <2>3, <3>1 DEF AppendFresh, Allocate, TypeInv
  <2>4. CASE CowReplace
    BY <1>2, <2>1, <2>4 DEF CowReplace, Decref, TypeInv, histVars, Phase
  <2>. QED  BY <1>6, <2>2, <2>3, <2>4
<1>7. ASSUME NEW i \in DOMAIN running, CowAllocate(i) PROVE TypeInv'
  <2>1. PICK b \in Blocks : /\ Allocate(b)
                            /\ cur' = [NoSeq EXCEPT !.blocks = <<b>>]
                            /\ holds' = [holds EXCEPT ![b] = <<>>]
    BY <1>7 DEF CowAllocate
  <2>2. cur' \in RunningWith(SeqId \cup {0})
    <3>1. <<b>> \in Seq(Blocks)
      OBVIOUS
    <3>. QED  BY <1>2, <2>1, <3>1, RunningFacts
  <2>. QED  BY <1>3, <1>7, <2>1, <2>2 DEF CowAllocate, Allocate, TypeInv, Phase
<1>8. ASSUME NEW i \in DOMAIN running, Preempt(i) PROVE TypeInv'
  <2>1. /\ running' = RemoveAt(running, VictimIndex) /\ cur' = running[VictimIndex]
        /\ pc' = "preempt"
    BY <1>8 DEF Preempt
  <2>2. /\ running' \in Seq(Running) /\ Len(running') = Len(running) - 1
        /\ VictimIndex \in DOMAIN running
    BY <2>1, VictimFacts
  <2>3. Len(running') <= MaxBatchSize
    BY <1>1, <2>2
  <2>. QED
    BY <1>4, <1>8, <2>1, <2>2, <2>3 DEF Preempt, TypeInv, allocVars, histVars, Phase
<1>9. ASSUME NEW i \in DOMAIN running, Retire(i) PROVE TypeInv'
  <2>1. running' = RemoveAt(running, i) /\ cur' = running[i] /\ pc' = "retire"
    BY <1>9 DEF Retire
  <2>2. running' \in Seq(Running) /\ Len(running') = Len(running) - 1
    BY <1>1, <2>1, RemoveAtFacts
  <2>3. Len(running') <= MaxBatchSize
    BY <1>1, <2>2
  <2>. QED
    BY <1>4, <1>9, <2>1, <2>2, <2>3 DEF Retire, TypeInv, allocVars, histVars, Phase
<1>10. CASE ReleaseBlock
  <2>1. cur.blocks \in Seq(Blocks) /\ Len(cur.blocks) \in Nat
    BY RunningFacts DEF TypeInv
  <2>2. SubSeq(cur.blocks, 1, Len(cur.blocks) - 1) \in Seq(Blocks)
    BY <2>1
  <2>3. cur' \in RunningWith(SeqId \cup {0})
    BY <1>10, <2>2, RunningFacts DEF ReleaseBlock, TypeInv
  <2>. QED  BY <1>10, <2>3 DEF ReleaseBlock, Decref, TypeInv, histVars
<1>11. CASE PreemptEnd
  <2>1. /\ cur.id \in SeqId /\ cur.generated <= cur.max_new
        /\ cur.generated \in Nat /\ cur.max_new \in Nat /\ cur.num_tokens \in Nat
        /\ cur.prompt \in Seq(Chunk)
    BY <1>11, RunningFacts
    DEF PreemptEnd, SchedInv, TypeInv, Distinct, BudgetInv, WithinBudget, Held
  <2>2. Requeued(cur) \in Pending
    BY <2>1 DEF Requeued, Pending
  <2>3. <<Requeued(cur)>> \o waiting \in Seq(Pending)
    BY <1>1, <2>2, ConcatProperties
  <2>. QED  BY <1>2, <1>11, <2>3 DEF PreemptEnd, TypeInv, allocVars, histVars, Phase
<1>12. CASE ReleaseEnd
  BY <1>2, <1>12 DEF ReleaseEnd, TypeInv, allocVars, histVars, Phase
<1>13. CASE StepEnd
  BY <1>13 DEF StepEnd, TypeInv, allocVars, histVars, Phase
<1>. QED
  BY <1>5, <1>6, <1>7, <1>8, <1>9, <1>10, <1>11, <1>12, <1>13

LEMMA TypesKept == ASSUME SchedInv, [Next]_vars PROVE TypeInv'
<1>1. CASE UNCHANGED vars
  BY <1>1 DEF SchedInv, TypeInv, vars, allocVars, callVars, histVars
<1>2. CASE Next
  BY <1>2, ClientKeepsTypes, AdmissionKeepsTypes, DecodeKeepsTypes DEF Next, Step
<1>. QED  BY <1>1, <1>2

-----------------------------------------------------------------------------
(* Identifiers.                                                            *)

\* A step that moves no sequence and gives out no id.
LEMMA IdsFrame ==
  ASSUME Distinct, IdsGiven, waiting' = waiting, next_id' = next_id,
         DOMAIN running' = DOMAIN running,
         \A i \in DOMAIN running : running'[i].id = running[i].id,
         Held' => Held /\ cur'.id = cur.id
  PROVE  Distinct' /\ IdsGiven'
  BY DEF Distinct, IdsGiven

\* A step that only takes the n-th sequence out of the batch, perhaps into cur.
LEMMA IdsRemove ==
  ASSUME TypeInv, Distinct, IdsGiven, waiting' = waiting, next_id' = next_id,
         NEW n \in DOMAIN running, running' = RemoveAt(running, n),
         Held' => cur' = running[n]
  PROVE  Distinct' /\ IdsGiven'
<1>1. /\ running \in Seq(Running) /\ DOMAIN running = 1 .. Len(running)
      /\ Len(running) \in Nat
      /\ \A i \in DOMAIN running : running[i].id \in SeqId
  BY RunningFacts DEF TypeInv, Running
<1>2. /\ n \in Int /\ DOMAIN running' \subseteq Int
      /\ \A j \in DOMAIN running' :
           /\ j < n => j \in DOMAIN running /\ running'[j] = running[j]
           /\ j >= n => j + 1 \in DOMAIN running /\ running'[j] = running[j + 1]
  BY <1>1, RemoveAtFacts, LenProperties
<1> DEFINE g(j) == IF j < n THEN j ELSE j + 1
<1>3. \A j \in DOMAIN running' : g(j) \in DOMAIN running \ {n} /\ running'[j] = running[g(j)]
  BY <1>2
<1>4. \A i, j \in DOMAIN running' : g(i) = g(j) => i = j
  BY <1>2
<1>. HIDE DEF g
<1>. QED  BY <1>1, <1>3, <1>4 DEF Distinct, IdsGiven

LEMMA IdsKept == ASSUME SchedInv, [Next]_vars PROVE Distinct' /\ IdsGiven'
<1>. TypeInv /\ Distinct /\ IdsGiven
  BY DEF SchedInv
<1>1. /\ waiting \in Seq(Pending) /\ running \in Seq(Running) /\ next_id \in Nat
      /\ \A i \in DOMAIN running : running[i].id \in SeqId /\ running[i].id \in Nat
      /\ \A i \in DOMAIN waiting : waiting[i].id \in SeqId /\ waiting[i].id \in Nat
      /\ SeqId \subseteq Nat \ {0}
  <2>1. /\ waiting \in Seq(Pending) /\ running \in Seq(Running) /\ next_id \in Nat
        /\ SeqId \subseteq Nat \ {0}
    BY SchedulerAssumption DEF TypeInv, SeqId
  <2>2. \A i \in DOMAIN running : running[i].id \in SeqId
    BY <2>1, RunningFacts DEF Running
  <2>3. \A i \in DOMAIN waiting : waiting[i] \in Pending
    BY <2>1
  <2>4. \A p \in Pending : p.id \in SeqId
    BY DEF Pending
  <2>. QED  BY <2>1, <2>2, <2>3, <2>4
<1>2. CASE UNCHANGED vars
  BY <1>2, IdsFrame DEF vars, callVars, histVars, Held
<1>3. CASE \/ StepBegin \/ Reserve \/ ReserveEnd \/ AdmitEnd \/ FillEnd \/ RegisterBlock
           \/ DecodeSkip \/ ReleaseEnd \/ StepEnd
  BY <1>3, IdsFrame DEF StepBegin, Reserve, ReserveEnd, AdmitEnd, FillEnd, RegisterBlock,
                        DecodeSkip, ReleaseEnd, StepEnd, Held, histVars
<1>4. CASE ForkBlock \/ Acquire \/ Fill \/ ReleaseBlock
  BY <1>4, CurStep, IdsFrame DEF Held
<1>5. CASE CowReplace \/ \E i \in DOMAIN running : AppendInPlace(i) \/ AppendFresh(i)
  <2>1. PICK i \in DOMAIN running, bs \in Seq(Blocks), cow \in Seq(Blocks) :
          Appended(i, bs, cow) /\ todo # <<>>
    BY <1>5, AppendStep
  <2>2. /\ DOMAIN running' = DOMAIN running
        /\ \A j \in DOMAIN running : running'[j].id = running[j].id
    BY <2>1, AppendedFacts
  <2>3. waiting' = waiting /\ next_id' = next_id /\ pc' = "decode"
    BY <1>5 DEF CowReplace, AppendInPlace, AppendFresh, Decoding, histVars
  <2>. QED  BY <2>2, <2>3, IdsFrame DEF Held
<1>6. ASSUME NEW i \in DOMAIN running, CowAllocate(i)
      PROVE  Distinct' /\ IdsGiven'
  BY <1>6, IdsFrame DEF CowAllocate, Held
<1>7. ASSUME NEW i \in DOMAIN running, FinishRunning(i) \/ Retire(i)
      PROVE  Distinct' /\ IdsGiven'
  BY <1>7, IdsRemove DEF FinishRunning, Retire, Held, histVars
<1>8. ASSUME NEW i \in DOMAIN running, Preempt(i)
      PROVE  Distinct' /\ IdsGiven'
  BY <1>8, VictimFacts, IdsRemove DEF Preempt, histVars
<1>9. ASSUME NEW r \in Requests, Enqueue(r)
       PROVE  Distinct' /\ IdsGiven'
  <2> DEFINE p == [id |-> next_id, context_len |-> r.len, max_new |-> r.max_new,
                   prompt |-> r.prompt]
  <2>1. waiting' = Append(waiting, p) /\ next_id' = next_id + 1 /\ pc = "idle"
        /\ UNCHANGED <<running, cur, pc>> /\ p.id = next_id
    BY <1>9 DEF Enqueue, NewId, callVars
  <2>2. waiting' \in Seq(Pending)
    BY <1>9, ClientKeepsTypes DEF Client, TypeInv
  <2>3. p \in Pending
    BY <1>1, <2>1, <2>2, LenProperties, ElementOfSeq
  <2>. HIDE DEF p
  <2>4. /\ DOMAIN waiting' = DOMAIN waiting \cup {Len(waiting) + 1}
        /\ Len(waiting) + 1 \notin DOMAIN waiting
        /\ \A j \in DOMAIN waiting : waiting'[j] = waiting[j]
        /\ waiting'[Len(waiting) + 1].id = next_id
    BY <1>1, <2>1, <2>3, AppendOrigin
  <2>5. Distinct'
    BY <1>1, <2>1, <2>4 DEF Distinct, IdsGiven, Held
  <2>6. IdsGiven'
    BY <1>1, <2>1, <2>4 DEF IdsGiven, Held
  <2>. QED  BY <2>5, <2>6
<1>10. ASSUME NEW i \in DOMAIN running, NEW n \in ForkNew, Fork(i, n)
       PROVE  Distinct' /\ IdsGiven'
  <2>1. /\ cur'.id = next_id /\ next_id' = next_id + 1
        /\ UNCHANGED <<running, waiting>>
    BY <1>10 DEF Fork, NewId
  <2>2. next_id \in SeqId
    BY <1>1, <1>10 DEF Fork, NewId, TypeInv, SeqId
  <2>3. Distinct'
    BY <1>1, <2>1, <2>2 DEF Distinct, IdsGiven, Held
  <2>4. IdsGiven'
    BY <1>1, <2>1, <2>2 DEF IdsGiven, Held
  <2>. QED  BY <2>3, <2>4
<1>11. ASSUME NEW i \in DOMAIN waiting, FinishWaiting(i)
       PROVE  Distinct' /\ IdsGiven'
  <2>1. waiting' = RemoveAt(waiting, i) /\ UNCHANGED <<running, cur, pc, next_id>>
    BY <1>11 DEF FinishWaiting, callVars, histVars
  <2>2. /\ DOMAIN waiting' \subseteq Int /\ i \in Int
        /\ \A j \in DOMAIN waiting' :
             /\ j < i => j \in DOMAIN waiting /\ waiting'[j] = waiting[j]
             /\ j >= i => j + 1 \in DOMAIN waiting /\ waiting'[j] = waiting[j + 1]
    BY <1>1, <2>1, RemoveAtFacts, LenProperties
  <2> DEFINE g(j) == IF j < i THEN j ELSE j + 1
  <2>3. /\ \A j \in DOMAIN waiting' : g(j) \in DOMAIN waiting /\ waiting'[j] = waiting[g(j)]
        /\ \A j, k \in DOMAIN waiting' : g(j) = g(k) => j = k
    BY <2>2
  <2>. HIDE DEF g
  <2>. QED  BY <1>1, <2>1, <2>3 DEF Distinct, IdsGiven, Held
<1>12. CASE ForkEnd \/ RegisterEnd
  <2>1. /\ Held /\ running' = Append(running, cur) /\ UNCHANGED <<waiting, next_id>>
        /\ pc' \in {"idle", "admit"}
    BY <1>12 DEF ForkEnd, RegisterEnd, Held, histVars
  <2>2. cur \in Running
    BY <2>1 DEF TypeInv, Distinct, Running, RunningWith
  <2>3. /\ DOMAIN running' = DOMAIN running \cup {Len(running) + 1}
        /\ \A j \in DOMAIN running : running'[j] = running[j]
        /\ running'[Len(running) + 1] = cur
    BY <1>1, <2>1, <2>2, AppendOrigin
  <2>. QED  BY <1>1, <2>1, <2>3 DEF Distinct, IdsGiven, Held
<1>13. CASE AdmitNext
  <2>1. /\ waiting # <<>> /\ waiting' = Tail(waiting) /\ UNCHANGED <<running, next_id>>
        /\ cur'.id = Head(waiting).id
    BY <1>13 DEF AdmitNext, histVars
  <2>2. /\ 1 \in DOMAIN waiting /\ Head(waiting) = waiting[1]
        /\ \A j \in DOMAIN waiting' : j \in Nat \ {0} /\ j + 1 \in DOMAIN waiting
                                      /\ waiting'[j] = waiting[j + 1]
    BY <1>1, <2>1, TailOrigin
  <2>. QED  BY <1>1, <2>1, <2>2 DEF Distinct, IdsGiven, Held
<1>14. CASE PreemptEnd
  <2>1. /\ Held /\ pc' = "decode" /\ waiting' = <<Requeued(cur)>> \o waiting
        /\ UNCHANGED <<running, next_id>> /\ Requeued(cur).id = cur.id
    BY <1>14 DEF PreemptEnd, Held, histVars, Requeued
  <2>2. Requeued(cur) \in Pending
    <3>1. waiting' \in Seq(Pending)
      BY <1>14, DecodeKeepsTypes DEF TypeInv
    <3>. QED  BY <2>1, <3>1
  <2>3. \A i \in DOMAIN waiting' :
          \/ i = 1 /\ waiting'[i] = Requeued(cur)
          \/ i - 1 \in DOMAIN waiting /\ i \in Nat /\ waiting'[i] = waiting[i - 1]
    BY <1>1, <2>1, <2>2, ConsOrigin
  <2>. QED  BY <1>1, <2>1, <2>3 DEF Distinct, IdsGiven, Held
<1>. QED
  BY <1>2, <1>3, <1>4, <1>5, <1>6, <1>7, <1>8, <1>9, <1>10, <1>11, <1>12, <1>13, <1>14
  DEF Next, Client, Step

-----------------------------------------------------------------------------
(* The current call.                                                       *)

LEMMA CallKept == ASSUME SchedInv, [Next]_vars PROVE CallInv'
<1>. TypeInv /\ CallInv /\ Distinct
  BY DEF SchedInv
<1>1. /\ running \in Seq(Running) /\ Len(running) \in Nat /\ claim \in Seq(Blocks)
      /\ todo \in Seq(SeqId) /\ DOMAIN running = 1 .. Len(running)
  BY DEF TypeInv
<1>2. CASE UNCHANGED vars
  BY <1>2 DEF vars, callVars, CallInv, IsRunning
<1>3. ASSUME pc' \notin {"fork", "build", "register", "reserve", "cow"}
      PROVE  CallInv'
  BY <1>3 DEF CallInv
<1>4. ASSUME NEW i \in DOMAIN running, NEW n \in ForkNew, Fork(i, n)
      PROVE  CallInv'
  BY <1>4 DEF Fork, BatchHasRoom, CallInv
<1>5. CASE ForkBlock \/ Acquire \/ Fill
  BY <1>5 DEF ForkBlock, Acquire, Fill, CallInv
<1>6. CASE StepBegin
  <2>1. \A k \in DOMAIN Ids(running) : IsRunning(Ids(running)[k])
    BY DEF Ids, IsRunning
  <2>. QED  BY <1>6, <2>1 DEF StepBegin, CallInv, IsRunning
<1>7. CASE Reserve
  <2>1. \A k \in DOMAIN todo' : k + 1 \in DOMAIN todo /\ todo'[k] = todo[k + 1]
    BY <1>1, <1>7, TailOrigin DEF Reserve
  <2>. QED  BY <1>7, <2>1 DEF Reserve, CallInv, IsRunning
<1>8. CASE AdmitNext
  BY <1>8 DEF AdmitNext, BatchHasRoom, CallInv
<1>9. CASE FillEnd
  <2>1. /\ cur.blocks \in Seq(Blocks) /\ cur.num_tokens \in Nat /\ cur.cached \in Nat
        /\ Len(cur.prompt) \in Nat /\ Len(cur.blocks) \in Nat
    BY RunningFacts DEF TypeInv
  <2>2. claim' \in Seq(Blocks) /\ Len(claim') <= Len(cur.prompt)
    <3>1. Len(cur.prompt) * BlockSize <= cur.num_tokens
      BY <1>9 DEF FillEnd, SchedInv, PromptsCovered, Covered, Held
    <3>2. Len(cur.prompt) <= Len(cur.blocks)
      BY <1>9, <2>1, <3>1, CeilDivCovers DEF FillEnd, HoldsWhatItNeeds, blocks_for_tokens
    <3>3. /\ SubSeq(cur.blocks, cur.cached + 1, Len(cur.prompt)) \in Seq(Blocks)
          /\ Len(SubSeq(cur.blocks, cur.cached + 1, Len(cur.prompt)))
               = IF cur.cached + 1 <= Len(cur.prompt)
                 THEN Len(cur.prompt) - (cur.cached + 1) + 1 ELSE 0
      BY <2>1, <3>2, ElementOfSeq, SubSeqProperties
    <3>. QED  BY <1>9, <2>1, <3>3 DEF FillEnd
  <2>. QED  BY <1>9, <2>2 DEF FillEnd, CallInv
<1>10. CASE RegisterBlock
  <2>1. claim' = Tail(claim) /\ Len(claim') <= Len(claim) /\ Len(claim) \in Nat /\ Len(claim') \in Nat
    BY <1>1, <1>10, HeadTailProperties, EmptySeq DEF RegisterBlock
  <2>2. Len(cur.prompt) \in Nat
    BY RunningFacts DEF TypeInv
  <2>. QED  BY <1>10, <2>1, <2>2 DEF RegisterBlock, CallInv
<1>11. ASSUME NEW i \in DOMAIN running, CowAllocate(i)
       PROVE  CallInv'
  <2>1. PICK b \in Blocks : cur' = [NoSeq EXCEPT !.blocks = <<b>>]
    BY <1>11 DEF CowAllocate
  <2>2. cur'.blocks # <<>>
    BY <2>1 DEF NoSeq
  <2>3. todo # <<>> /\ running[i].id = Head(todo) /\ running[i].blocks # <<>>
    BY <1>11 DEF CowAllocate, Decoding, needs_cow, last_block_has_room
  <2>. QED  BY <1>11, <2>2, <2>3 DEF CowAllocate, CallInv
<1>12. CASE Client \/ \E i \in DOMAIN running :
              AppendInPlace(i) \/ AppendFresh(i) \/ Preempt(i) \/ Retire(i)
  <2>1. CASE \E i \in DOMAIN running : \E n \in ForkNew : Fork(i, n)
    BY <1>4, <2>1
  <2>2. CASE ~\E i \in DOMAIN running : \E n \in ForkNew : Fork(i, n)
    <3>1. pc' \in {"idle", "finish", "decode", "preempt", "retire"}
      BY <1>12, <2>2
      DEF Client, Enqueue, FinishRunning, FinishWaiting, AppendInPlace, AppendFresh,
          Preempt, Retire, Decoding, callVars
    <3>. QED  BY <1>3, <3>1
  <2>. QED  BY <2>1, <2>2
<1>13. CASE \/ ForkEnd \/ ReserveEnd \/ AdmitEnd \/ RegisterEnd \/ DecodeSkip \/ CowReplace
            \/ ReleaseBlock \/ PreemptEnd \/ ReleaseEnd \/ StepEnd
  <2>1. pc' \in {"idle", "admit", "decode", "preempt", "retire", "finish"}
    BY <1>13 DEF ForkEnd, ReserveEnd, AdmitEnd, RegisterEnd, DecodeSkip, CowReplace,
                 ReleaseBlock, PreemptEnd, ReleaseEnd, StepEnd
  <2>. QED  BY <1>3, <2>1
<1>. QED
  BY <1>2, <1>5, <1>6, <1>7, <1>8, <1>9, <1>10, <1>11, <1>12, <1>13 DEF Next, Step

-----------------------------------------------------------------------------
(* Prompts.                                                                *)

LEMMA CoveredMore ==
  ASSUME NEW p \in Seq(Chunk), NEW n \in Nat, Covered(p, n)
  PROVE  Covered(p, n + 1)
<1> DEFINE m == Len(p) * BlockSize
<1>1. m \in Nat
  BY BlockTableAssumption
<1>. HIDE DEF m
<1>2. m <= n => m <= n + 1
  BY <1>1
<1>. QED  BY <1>2 DEF Covered, m

LEMMA PromptsFrame ==
  ASSUME PromptsCovered, waiting' = waiting, running' = running,
         Held' => Held /\ cur'.prompt = cur.prompt /\ cur'.num_tokens = cur.num_tokens
  PROVE  PromptsCovered'
  BY DEF PromptsCovered

LEMMA PromptsAppended ==
  ASSUME TypeInv, PromptsCovered, waiting' = waiting, ~Held', todo # <<>>,
         NEW i \in DOMAIN running, NEW bs \in Seq(Blocks), NEW cow, Appended(i, bs, cow)
  PROVE  PromptsCovered'
<1>1. /\ DOMAIN running' = DOMAIN running
      /\ \A j \in DOMAIN running \ {i} : running'[j] = running[j]
      /\ running'[i].num_tokens = running[i].num_tokens + 1
      /\ running'[i].prompt = running[i].prompt
  BY AppendedFacts
<1>2. running[i].num_tokens \in Nat /\ running[i].prompt \in Seq(Chunk)
  BY RunningFacts DEF TypeInv, Running
<1>3. Covered(running'[i].prompt, running'[i].num_tokens)
  BY <1>1, <1>2, CoveredMore DEF PromptsCovered
<1>. QED  BY <1>1, <1>3 DEF PromptsCovered

LEMMA PromptsKept == ASSUME SchedInv, [Next]_vars PROVE PromptsCovered'
<1>. TypeInv /\ PromptsCovered
  BY DEF SchedInv
<1>1. /\ waiting \in Seq(Pending) /\ running \in Seq(Running)
  BY DEF TypeInv
<1>2. CASE UNCHANGED vars
  BY <1>2, PromptsFrame DEF vars, callVars, Held
<1>3. CASE \/ StepBegin \/ Reserve \/ ReserveEnd \/ AdmitEnd \/ FillEnd \/ RegisterBlock
           \/ DecodeSkip \/ ReleaseEnd \/ StepEnd
           \/ \E i \in DOMAIN running : CowAllocate(i)
  BY <1>3, PromptsFrame
  DEF StepBegin, Reserve, ReserveEnd, AdmitEnd, FillEnd, RegisterBlock, DecodeSkip,
      ReleaseEnd, StepEnd, CowAllocate, Held
<1>4. CASE ForkBlock \/ Acquire \/ Fill \/ ReleaseBlock
  BY <1>4, CurStep, PromptsFrame DEF Held
<1>5. CASE CowReplace \/ \E i \in DOMAIN running : AppendInPlace(i) \/ AppendFresh(i)
  <2>1. waiting' = waiting /\ ~Held'
    BY <1>5 DEF CowReplace, AppendInPlace, AppendFresh, Decoding, Held
  <2>. QED  BY <1>5, <2>1, AppendStep, PromptsAppended
<1>6. ASSUME NEW i \in DOMAIN running, FinishRunning(i) \/ Retire(i) \/ Preempt(i)
      PROVE  PromptsCovered'
  <2>1. PICK n \in DOMAIN running :
          running' = RemoveAt(running, n) /\ cur' = running[n] /\ waiting' = waiting
    BY <1>6, VictimFacts DEF FinishRunning, Retire, Preempt
  <2>2. \A j \in DOMAIN running' : \E k \in DOMAIN running : running'[j] = running[k]
    BY <1>1, <2>1, RemoveAtElements
  <2>. QED  BY <2>1, <2>2 DEF PromptsCovered
<1>7. ASSUME NEW r \in Requests, Enqueue(r)
      PROVE  PromptsCovered'
  <2> DEFINE p == [id |-> next_id, context_len |-> r.len, max_new |-> r.max_new,
                   prompt |-> r.prompt]
  <2>1. waiting' = Append(waiting, p) /\ UNCHANGED <<running, cur, pc>>
        /\ p.context_len = r.len /\ p.prompt = r.prompt
    BY <1>7 DEF Enqueue, callVars
  <2>2. p \in Pending
    <3>1. waiting' \in Seq(Pending)
      BY <1>7, ClientKeepsTypes DEF Client, TypeInv
    <3>. QED  BY <1>1, <2>1, <3>1, LenProperties, ElementOfSeq
  <2>3. Covered(p.prompt, p.context_len)
    BY <2>1, SchedulerAssumption DEF Covered
  <2>. HIDE DEF p
  <2>4. \A j \in DOMAIN waiting' :
          waiting'[j] = p \/ (j \in DOMAIN waiting /\ waiting'[j] = waiting[j])
    BY <1>1, <2>1, <2>2, AppendOrigin
  <2>. QED  BY <2>1, <2>3, <2>4 DEF PromptsCovered, Held
<1>8. ASSUME NEW i \in DOMAIN running, NEW n \in ForkNew, Fork(i, n)
      PROVE  PromptsCovered'
  BY <1>8 DEF Fork, PromptsCovered
<1>9. ASSUME NEW i \in DOMAIN waiting, FinishWaiting(i)
       PROVE  PromptsCovered'
  <2>1. waiting' = RemoveAt(waiting, i) /\ UNCHANGED <<running, cur, pc>>
    BY <1>9 DEF FinishWaiting, callVars
  <2>2. \A j \in DOMAIN waiting' : \E k \in DOMAIN waiting : waiting'[j] = waiting[k]
    BY <1>1, <2>1, RemoveAtElements
  <2>. QED  BY <2>1, <2>2 DEF PromptsCovered, Held
<1>10. CASE ForkEnd \/ RegisterEnd
  <2>1. /\ Held /\ running' = Append(running, cur) /\ waiting' = waiting /\ ~Held'
    BY <1>10 DEF ForkEnd, RegisterEnd, Held
  <2>2. cur \in Running
    BY <2>1 DEF SchedInv, TypeInv, Distinct, Running, RunningWith
  <2>3. \A j \in DOMAIN running' :
          running'[j] = cur \/ (j \in DOMAIN running /\ running'[j] = running[j])
    BY <1>1, <2>1, <2>2, AppendOrigin
  <2>. QED  BY <2>1, <2>3 DEF PromptsCovered
<1>11. CASE AdmitNext
  <2>1. /\ waiting # <<>> /\ waiting' = Tail(waiting) /\ running' = running
        /\ cur'.prompt = Head(waiting).prompt /\ cur'.num_tokens = Head(waiting).context_len
    BY <1>11 DEF AdmitNext
  <2>2. /\ 1 \in DOMAIN waiting /\ Head(waiting) = waiting[1]
        /\ \A j \in DOMAIN waiting' : j + 1 \in DOMAIN waiting /\ waiting'[j] = waiting[j + 1]
    BY <1>1, <2>1, TailOrigin
  <2>. QED  BY <2>1, <2>2 DEF PromptsCovered
<1>12. CASE PreemptEnd
  <2>1. /\ Held /\ ~Held' /\ waiting' = <<Requeued(cur)>> \o waiting /\ running' = running
        /\ Requeued(cur).prompt = cur.prompt /\ Requeued(cur).context_len = cur.num_tokens
    BY <1>12 DEF PreemptEnd, Held, Requeued
  <2>2. Requeued(cur) \in Pending
    <3>1. waiting' \in Seq(Pending)
      BY <1>12, DecodeKeepsTypes DEF TypeInv
    <3>. QED  BY <2>1, <3>1
  <2>3. \A i \in DOMAIN waiting' :
          \/ waiting'[i] = Requeued(cur)
          \/ i - 1 \in DOMAIN waiting /\ waiting'[i] = waiting[i - 1]
    BY <1>1, <2>1, <2>2, ConsOrigin
  <2>. QED  BY <2>1, <2>3 DEF PromptsCovered
<1>. QED
  BY <1>2, <1>3, <1>4, <1>5, <1>6, <1>7, <1>8, <1>9, <1>10, <1>11, <1>12
  DEF Next, Client, Step

-----------------------------------------------------------------------------
(* Budgets.                                                                *)

\* Decode goes on to the next id; the sequence it leaves behind, if any, may
\* have generated a token, the others are as they were.
LEMMA VisitNext ==
  ASSUME TypeInv, Distinct, VisitInv, todo # <<>>, todo' = Tail(todo),
         DOMAIN running' = DOMAIN running,
         \A i \in DOMAIN running :
           /\ running'[i].id = running[i].id
           /\ running[i].id # Head(todo) => running'[i] = running[i]
  PROVE  VisitInv'
<1>1. /\ \A y : In(y, todo) <=> y = Head(todo) \/ In(y, todo')
      /\ 1 \in DOMAIN todo /\ Head(todo) = todo[1]
      /\ \A k \in DOMAIN todo' : k \in Nat \ {0} /\ k + 1 \in DOMAIN todo /\ todo'[k] = todo[k + 1]
  BY TailIn, TailOrigin DEF TypeInv
<1>2. ASSUME NEW i \in DOMAIN running, In(running[i].id, todo')
      PROVE  running[i].id # Head(todo)
  <2>1. PICK k \in DOMAIN todo' : todo'[k] = running[i].id
    BY <1>2 DEF In
  <2>2. 1 < k + 1 /\ k + 1 \in DOMAIN todo /\ todo[k + 1] = running[i].id
    BY <1>1, <2>1
  <2>3. i \in Int
    BY LenProperties DEF TypeInv
  <2>. QED  BY <1>1, <2>2, <2>3 DEF VisitInv
<1>3. \A i \in DOMAIN running' : In(running'[i].id, todo') => WithinBudget(running'[i])
  BY <1>1, <1>2 DEF VisitInv
<1>4. ASSUME NEW i \in DOMAIN running, NEW j \in DOMAIN running, i < j,
             In(running[i].id, todo')
      PROVE  In(running[j].id, todo')
  <2>1. In(running[j].id, todo)
    BY <1>1, <1>4 DEF VisitInv
  <2>2. CASE running[j].id = Head(todo)
    <3>1. PICK k \in DOMAIN todo' : todo'[k] = running[i].id
      BY <1>4 DEF In
    <3>2. 1 < k + 1 /\ k + 1 \in DOMAIN todo /\ todo[k + 1] = running[i].id
      BY <1>1, <3>1
    <3>3. j < i
      BY <1>1, <2>2, <3>2 DEF VisitInv
    <3>4. i \in Int /\ j \in Int
      BY LenProperties DEF TypeInv
    <3>. QED  BY <1>4, <3>3, <3>4
  <2>. QED  BY <1>1, <2>1, <2>2
<1>5. ASSUME NEW k \in DOMAIN todo', NEW l \in DOMAIN todo', NEW i \in DOMAIN running,
             NEW j \in DOMAIN running,
             k < l, running[i].id = todo'[k], running[j].id = todo'[l]
      PROVE  i < j
  <2>1. k + 1 < l + 1
    BY <1>1, <1>5
  <2>. QED  BY <1>1, <1>5, <2>1 DEF VisitInv
<1>. QED  BY <1>3, <1>4, <1>5 DEF VisitInv

LEMMA BudgetFrame ==
  ASSUME BudgetInv, running' = running, ~Stepping, ~Stepping',
         Held' => Held /\ cur'.generated = cur.generated /\ cur'.max_new = cur.max_new
  PROVE  BudgetInv'
  BY DEF BudgetInv, WithinBudget

LEMMA BudgetFrameStepping ==
  ASSUME BudgetInv, running' = running, todo' = todo, Stepping, Stepping',
         Held' => Held /\ cur'.generated = cur.generated /\ cur'.max_new = cur.max_new
  PROVE  BudgetInv'
  BY DEF BudgetInv, VisitInv, WithinBudget

LEMMA BudgetKept == ASSUME SchedInv, [Next]_vars PROVE BudgetInv'
<1>. TypeInv /\ Distinct /\ BudgetInv
  BY DEF SchedInv
<1>1. /\ running \in Seq(Running) /\ DOMAIN running = 1 .. Len(running)
      /\ Len(running) \in Nat /\ waiting \in Seq(Pending)
      /\ \A i \in DOMAIN running : running[i].generated \in Nat /\ running[i].max_new \in Nat
  BY RunningFacts DEF TypeInv, Running
<1>2. CASE UNCHANGED vars
  BY <1>2, BudgetFrame, BudgetFrameStepping DEF vars, callVars, Held, Stepping
<1>3. CASE StepBegin \/ Reserve \/ ReserveEnd \/ FillEnd \/ RegisterBlock
  BY <1>3, BudgetFrame
  DEF StepBegin, Reserve, ReserveEnd, FillEnd, RegisterBlock, Held, Stepping
<1>4. CASE ForkBlock \/ Acquire \/ Fill \/ ReleaseBlock
  <2>1. /\ UNCHANGED <<running, pc, todo>>
        /\ cur'.generated = cur.generated /\ cur'.max_new = cur.max_new
    BY <1>4, CurStep
  <2>. QED  BY <2>1, BudgetFrame, BudgetFrameStepping DEF Held, Stepping
<1>5. ASSUME \/ \E r \in Requests : Enqueue(r)
             \/ \E i \in DOMAIN waiting : FinishWaiting(i)
      PROVE  BudgetInv'
  BY <1>5, BudgetFrame DEF Enqueue, FinishWaiting, callVars, Held, Stepping
<1>6. ASSUME NEW i \in DOMAIN running, NEW n \in ForkNew, Fork(i, n)
      PROVE  BudgetInv'
  <2>1. WithinBudget(cur')
    BY <1>6, SchedulerAssumption DEF Fork, WithinBudget
  <2>. QED  BY <1>6, <2>1 DEF Fork, BudgetInv, Stepping
<1>7. ASSUME NEW i \in DOMAIN running, FinishRunning(i)
      PROVE  BudgetInv'
  <2>1. /\ running' = RemoveAt(running, i) /\ ~Stepping /\ ~Stepping' /\ ~Held'
    BY <1>7 DEF FinishRunning, Stepping, Held
  <2>2. \A j \in DOMAIN running' : \E k \in DOMAIN running : running'[j] = running[k]
    <3>1. \A j \in DOMAIN RemoveAt(running, i) :
            \E k \in DOMAIN running : RemoveAt(running, i)[j] = running[k]
      <4>1. running \in Seq(Running)
        BY DEF SchedInv, TypeInv
      <4>. QED  BY <4>1, RemoveAtElements
    <3>. QED  BY <2>1, <3>1
  <2>. QED  BY <2>1, <2>2 DEF BudgetInv
<1>8. CASE ForkEnd \/ RegisterEnd
  <2>1. /\ Held /\ running' = Append(running, cur) /\ ~Held' /\ ~Stepping /\ ~Stepping'
    BY <1>8 DEF ForkEnd, RegisterEnd, Held, Stepping
  <2>2. cur \in Running
    BY <2>1 DEF TypeInv, Distinct, Running, RunningWith
  <2>3. \A j \in DOMAIN running' :
          running'[j] = cur \/ (j \in DOMAIN running /\ running'[j] = running[j])
    BY <1>1, <2>1, <2>2, AppendOrigin
  <2>. QED  BY <2>1, <2>3 DEF BudgetInv
<1>9. CASE AdmitNext
  <2>1. /\ waiting # <<>> /\ running' = running /\ ~Stepping /\ ~Stepping'
        /\ cur'.generated = 0 /\ cur'.max_new = Head(waiting).max_new
    BY <1>9 DEF AdmitNext, Stepping
  <2>2. Head(waiting) \in Pending
    BY <1>1, <2>1, HeadTailProperties
  <2>3. WithinBudget(cur')
    BY <2>1, <2>2 DEF WithinBudget, Pending
  <2>. QED  BY <2>1, <2>3 DEF BudgetInv
<1>10. CASE AdmitEnd
  <2>1. /\ running' = running /\ todo' = Ids(running) /\ ~Stepping /\ Stepping' /\ ~Held'
    BY <1>10 DEF AdmitEnd, Stepping, Held
  <2>2. DOMAIN todo' = DOMAIN running /\ \A k \in DOMAIN running : todo'[k] = running[k].id
    BY <2>1 DEF Ids
  <2>3. VisitInv'
    BY <2>1, <2>2 DEF VisitInv, BudgetInv, Distinct, In
  <2>. QED  BY <2>1, <2>3 DEF BudgetInv
<1>11. CASE DecodeSkip
  <2>1. /\ running' = running /\ todo # <<>> /\ todo' = Tail(todo) /\ Stepping /\ Stepping'
        /\ ~Held'
    BY <1>11 DEF DecodeSkip, Stepping, Held
  <2>2. VisitInv'
    BY <2>1, VisitNext DEF BudgetInv
  <2>. QED  BY <2>1, <2>2 DEF BudgetInv
<1>12. CASE CowReplace \/ \E i \in DOMAIN running : AppendInPlace(i) \/ AppendFresh(i)
  <2>1. PICK i \in DOMAIN running, bs \in Seq(Blocks), cow \in Seq(Blocks) :
          Appended(i, bs, cow) /\ todo # <<>> /\ running[i].id = Head(todo)
    BY <1>12, AppendStep
  <2>2. /\ DOMAIN running' = DOMAIN running /\ todo' = Tail(todo)
        /\ \A j \in DOMAIN running \ {i} : running'[j] = running[j]
        /\ running'[i].id = running[i].id
    BY <2>1, AppendedFacts
  <2>3. Stepping /\ Stepping' /\ ~Held'
    BY <1>12 DEF CowReplace, AppendInPlace, AppendFresh, Decoding, Stepping, Held
  <2>4. VisitInv'
    BY <2>1, <2>2, <2>3, VisitNext DEF BudgetInv
  <2>. QED  BY <2>3, <2>4 DEF BudgetInv
<1>13. ASSUME NEW i \in DOMAIN running, CowAllocate(i)
       PROVE  BudgetInv'
  BY <1>13, BudgetFrameStepping DEF CowAllocate, Decoding, Stepping, Held
<1>14. ASSUME NEW i \in DOMAIN running, Preempt(i)
       PROVE  BudgetInv'
  <2>1. /\ running' = RemoveAt(running, VictimIndex) /\ cur' = running[VictimIndex]
        /\ todo' = todo /\ Stepping /\ Stepping' /\ todo # <<>> /\ running[i].id = Head(todo)
    BY <1>14 DEF Preempt, Decoding, Stepping
  <2>2. /\ VictimIndex \in DOMAIN running /\ i <= VictimIndex
        /\ \A j \in DOMAIN running' : j \in DOMAIN running /\ running'[j] = running[j]
    BY <2>1, VictimFacts
  <2>3. VisitInv
    BY <2>1 DEF BudgetInv
  <2>4. In(running[VictimIndex].id, todo)
    <3>1. In(Head(todo), todo)
      BY <2>1, TailIn DEF TypeInv
    <3>2. i = VictimIndex \/ i < VictimIndex
      BY <1>1, <2>2
    <3>. QED  BY <2>1, <2>2, <2>3, <3>1, <3>2 DEF VisitInv
  <2>5. WithinBudget(cur')
    BY <2>1, <2>2, <2>3, <2>4 DEF VisitInv
  <2>6. VisitInv'
    BY <2>1, <2>2, <2>3 DEF VisitInv
  <2>. QED  BY <2>1, <2>5, <2>6 DEF BudgetInv
<1>15. ASSUME NEW i \in DOMAIN running, Retire(i)
       PROVE  BudgetInv'
  <2>1. todo' = <<>> /\ Stepping' /\ ~Held'
    BY <1>15 DEF Retire, Stepping, Held
  <2>2. \A y : ~In(y, todo')
    BY <2>1 DEF In
  <2>3. VisitInv'
    BY <2>1, <2>2 DEF VisitInv
  <2>. QED  BY <2>1, <2>3 DEF BudgetInv
<1>16. CASE PreemptEnd
  BY <1>16, BudgetFrameStepping DEF PreemptEnd, Stepping, Held
<1>17. CASE ReleaseEnd
  BY <1>17, BudgetFrame, BudgetFrameStepping DEF ReleaseEnd, Stepping, Held
<1>18. CASE StepEnd
  <2>1. \A i \in DOMAIN running : WithinBudget(running[i])
    BY <1>1, <1>18 DEF StepEnd, Finished, WithinBudget
  <2>. QED  BY <1>18, <2>1 DEF StepEnd, BudgetInv, Stepping, Held
<1>. QED
  BY <1>2, <1>3, <1>4, <1>5, <1>6, <1>7, <1>8, <1>9, <1>10, <1>11, <1>12, <1>13, <1>14,
     <1>15, <1>16, <1>17, <1>18
  DEF Next, Client, Step

-----------------------------------------------------------------------------
(* The results.                                                            *)

LEMMA SchedInitInv == Init => SchedInv
<1> SUFFICES ASSUME Init PROVE SchedInv
  OBVIOUS
<1>1. AllocInv /\ next_entry = 1
  BY InitInv DEF Init, AllocInit
<1>2. TypeInv
  <2>1. NoSeq \in RunningWith(SeqId \cup {0})
    BY DEF NoSeq, RunningWith
  <2>2. target \in [1 .. next_id - 1 -> Nat]
    BY DEF Init
  <2>. QED
    BY <1>1, <2>1, <2>2, SchedulerAssumption DEF Init, TypeInv, Phase, Root
<1>3. CallInv /\ Distinct /\ IdsGiven /\ PromptsCovered /\ BudgetInv
  BY DEF Init, CallInv, Distinct, IdsGiven, PromptsCovered, BudgetInv, Held, Stepping
<1>. QED  BY <1>1, <1>2, <1>3 DEF SchedInv

LEMMA SchedNextInv == SchedInv /\ [Next]_vars => SchedInv'
<1> SUFFICES ASSUME SchedInv, [Next]_vars PROVE SchedInv'
  OBVIOUS
<1>1. AllocInv'
  BY StepIsPoolStep, NextKeepsInv DEF SchedInv
<1>. QED
  BY <1>1, TypesKept, CallKept, IdsKept, PromptsKept, BudgetKept DEF SchedInv

\* SchedInv holds in every reachable state.
THEOREM SchedulerInvariant == Spec => []SchedInv
<1>. QED  BY SchedInitInv, SchedNextInv, PTL DEF Spec

(***************************************************************************)
(* The types of scheduler.rs: in particular the batch never exceeds        *)
(* max_batch_size, and max_new - generated, which preempt stores in an     *)
(* unsigned integer, is never negative.                                    *)
(***************************************************************************)
THEOREM SchedulerTypes == Spec => []SchedTypeOK
<1>1. SchedInv => SchedTypeOK
  <2>1. ASSUME SchedInv PROVE parent \in Entry
    <3>1. parent \in 0 .. next_entry - 1 /\ next_entry \in 1 .. MaxEntry + 1
      BY <2>1 DEF SchedInv, TypeInv, AllocInv, AllocTypeOK
    <3>. QED  BY <3>1, AllocatorAssumption DEF Entry
  <2>. QED  BY <2>1 DEF SchedInv, TypeInv, AllocInv, SchedTypeOK
<1>. QED  BY SchedulerInvariant, <1>1, PTL

(***************************************************************************)
(* The scheduler implements the pool's specification: each of its steps,   *)
(* through every loop of every call, makes at most one call on the pool,   *)
(* and names in cache_block only parents that were handed out.             *)
(***************************************************************************)
THEOREM SchedulerImplementsPool == Spec => AllocSpec
<1>1. Init => AllocInit
  BY DEF Init
<1>2. SchedInv /\ [Next]_vars => [AllocNext]_allocVars
  BY StepIsPoolStep
<1>. QED  BY <1>1, <1>2, SchedulerInvariant, PTL DEF Spec, AllocSpec

(***************************************************************************)
(* allocator.rs:324-325, of the pool a scheduler drives.                   *)
(***************************************************************************)
THEOREM SchedulerKeepsPool == Spec => [](PoolPartition /\ IndexConsistent /\ EntriesOrdered)
<1>1. AllocInv => PoolPartition /\ IndexConsistent /\ EntriesOrdered
  BY DEF AllocInv
<1>. QED  BY SchedulerImplementsPool, AllocatorSafety, <1>1, PTL

(***************************************************************************)
(* scheduler.rs:97-103: a sequence is in the queue, in the batch or on its *)
(* way between them, never in two of these places and never twice in one.  *)
(***************************************************************************)
THEOREM SequencesInOnePlace == Spec => []Distinct
<1>1. SchedInv => Distinct
  BY DEF SchedInv
<1>. QED  BY SchedulerInvariant, <1>1, PTL

-----------------------------------------------------------------------------
(* Reference counts.  The argument counts owners instead of positions in   *)
(* the batch: a sequence of the batch owns blocks under its id, and the    *)
(* table under construction or in release under 0, which is no id.  A step *)
(* then adds one owner to one block, removes one, or renames one.          *)

-----------------------------------------------------------------------------
(* Owners.                                                                 *)

Owns(s, b) ==
  IF s = 0 THEN In(b, cur.blocks)
  ELSE \E i \in DOMAIN running : running[i].id = s /\ In(b, running[i].blocks)

Owners(b) == {s \in 0 .. MaxSeqs : Owns(s, b)}

LEMMA OwnersFinite ==
  ASSUME NEW b
  PROVE  IsFiniteSet(Owners(b)) /\ Cardinality(Owners(b)) \in Nat
<1>1. IsFiniteSet(0 .. MaxSeqs)
  BY FS_Interval, SchedulerAssumption
<1>2. Owners(b) \subseteq 0 .. MaxSeqs
  BY DEF Owners
<1>. QED  BY <1>1, <1>2, FS_Subset, FS_CardinalityType

\* The tables that refer to a block are as many as its owners.
LEMMA ReferencesAreOwners ==
  ASSUME TypeInv, Distinct, NEW b
  PROVE  References(b) = Cardinality(Owners(b))
<1> DEFINE I == {i \in DOMAIN running : In(b, running[i].blocks)}
           J == {running[i].id : i \in I}
           f == [i \in I |-> running[i].id]
<1>1. /\ running \in Seq(Running) /\ DOMAIN running = 1 .. Len(running)
      /\ Len(running) \in Nat
      /\ \A i \in DOMAIN running : running[i].id \in SeqId
  BY RunningFacts DEF TypeInv, Running
<1>2. IsFiniteSet(I)
  <2>1. IsFiniteSet(1 .. Len(running))
    BY <1>1, FS_Interval
  <2>. QED  BY <1>1, <2>1, FS_Subset
<1>3. f \in Bijection(I, J)
  <2>1. f \in [I -> J] /\ \A j \in J : \E i \in I : f[i] = j
    OBVIOUS
  <2>2. \A i, j \in I : f[i] = f[j] => i = j
    BY DEF Distinct
  <2>. QED  BY <2>1, <2>2 DEF Bijection, Injection, Surjection, IsInjective
<1>4. IsFiniteSet(J) /\ Cardinality(J) = Cardinality(I)
  BY <1>2, <1>3, FS_Bijection DEF ExistsBijection
<1>5. 0 \notin J /\ J \subseteq 0 .. MaxSeqs
  BY <1>1, SchedulerAssumption DEF SeqId
<1>6. Owners(b) = IF In(b, cur.blocks) THEN J \cup {0} ELSE J
  <2>1. \A s : s \in J <=> \E i \in DOMAIN running : running[i].id = s /\ In(b, running[i].blocks)
    OBVIOUS
  <2>2. 0 \in 0 .. MaxSeqs
    BY SchedulerAssumption
  <2>. HIDE DEF J
  <2>3. \A s : s \in Owners(b) <=> s \in 0 .. MaxSeqs /\ IF s = 0 THEN In(b, cur.blocks) ELSE s \in J
    BY <2>1 DEF Owners, Owns
  <2>. QED  BY <1>5, <2>2, <2>3
<1>7. References(b) = Cardinality(I) + (IF In(b, cur.blocks) THEN 1 ELSE 0)
  BY DEF References
<1>. HIDE DEF I, J, f
<1>8. CASE In(b, cur.blocks)
  <2>1. Cardinality(J \cup {0}) = Cardinality(J) + 1
    BY <1>4, <1>5, CountChange
  <2>. QED  BY <1>4, <1>6, <1>7, <1>8, <2>1
<1>9. CASE ~In(b, cur.blocks)
  <2>1. Cardinality(J) \in Nat
    BY <1>4, FS_CardinalityType
  <2>. QED  BY <1>4, <1>6, <1>7, <1>9, <2>1
<1>. QED  BY <1>8, <1>9

-----------------------------------------------------------------------------
(* The inductive invariant.                                                *)

CountsExact == \A b \in Blocks : ref_counts[b] = Cardinality(Owners(b))

TablesExact ==
  /\ \A i \in DOMAIN running : NoRepeat(running[i].blocks) /\ HoldsWhatItNeeds(running[i])
  /\ NoRepeat(cur.blocks)

\* What the loops of a call rely on.  The blocks a sequence has still to claim
\* are new to it; the copy's block is in no table yet.
LoopInv ==
  /\ pc \in {"idle", "reserve", "admit", "decode"} => cur.blocks = <<>>
  /\ pc \in {"fork", "build"} =>
       NoRepeat(claim) /\ \A k \in DOMAIN claim : ~In(claim[k], cur.blocks)
  /\ pc = "fork" => Len(cur.blocks) + Len(claim) = blocks_for_tokens(cur.num_tokens)
  /\ pc = "register" => HoldsWhatItNeeds(cur)
  /\ pc = "cow" =>
       /\ Len(cur.blocks) = 1
       /\ \A i \in DOMAIN running :
            /\ ~In(cur.blocks[1], running[i].blocks)
            /\ running[i].id = Head(todo) => last_block_has_room(running[i])

OwnInv == CountsExact /\ TablesExact /\ LoopInv

-----------------------------------------------------------------------------
(* The counts.                                                             *)

\* What one step may do to the owners and the count of a block.
Changed(b) ==
  \/ Owners(b)' = Owners(b) /\ ref_counts'[b] = ref_counts[b]
  \/ \E s : /\ s \notin Owners(b) /\ Owners(b)' = Owners(b) \cup {s}
            /\ ref_counts'[b] = ref_counts[b] + 1
  \/ \E s : /\ s \in Owners(b) /\ Owners(b)' = Owners(b) \ {s}
            /\ ref_counts'[b] = ref_counts[b] - 1
  \/ \E s, t : /\ s \in Owners(b) /\ t \notin Owners(b)
               /\ Owners(b)' = (Owners(b) \ {s}) \cup {t}
               /\ ref_counts'[b] = ref_counts[b]

LEMMA ChangesKeepCounts ==
  ASSUME CountsExact, \A b \in Blocks : Changed(b)
  PROVE  CountsExact'
<1> SUFFICES ASSUME NEW b \in Blocks PROVE ref_counts'[b] = Cardinality(Owners(b)')
  BY DEF CountsExact
<1>1. ref_counts[b] = Cardinality(Owners(b)) /\ Changed(b)
  BY DEF CountsExact
<1>2. PICK S, T : S = Owners(b) /\ T = Owners(b)'
  OBVIOUS
<1>3. IsFiniteSet(S)
  BY <1>2, OwnersFinite
<1>4. \/ T = S /\ ref_counts'[b] = ref_counts[b]
      \/ \E s : s \notin S /\ T = S \cup {s} /\ ref_counts'[b] = ref_counts[b] + 1
      \/ \E s : s \in S /\ T = S \ {s} /\ ref_counts'[b] = ref_counts[b] - 1
      \/ \E s, t : /\ s \in S /\ t \notin S /\ T = (S \ {s}) \cup {t}
                   /\ ref_counts'[b] = ref_counts[b]
  BY <1>1, <1>2 DEF Changed
<1>5. ref_counts'[b] = Cardinality(T)
  <2>1. CASE \E s : s \notin S /\ T = S \cup {s} /\ ref_counts'[b] = ref_counts[b] + 1
    BY <1>1, <1>2, <1>3, <2>1, CountChange
  <2>2. CASE \E s : s \in S /\ T = S \ {s} /\ ref_counts'[b] = ref_counts[b] - 1
    BY <1>1, <1>2, <1>3, <2>2, CountChange
  <2>3. CASE \E s, t : /\ s \in S /\ t \notin S /\ T = (S \ {s}) \cup {t}
                      /\ ref_counts'[b] = ref_counts[b]
    <3>1. PICK s, t : /\ s \in S /\ t \notin S /\ T = (S \ {s}) \cup {t}
                      /\ ref_counts'[b] = ref_counts[b]
      BY <2>3
    <3>2. \A y : s \in S /\ y \notin S => Cardinality((S \ {s}) \cup {y}) = Cardinality(S)
      BY ONLY <1>3, CountChange
    <3>3. Cardinality((S \ {s}) \cup {t}) = Cardinality(S)
      BY <3>1, <3>2
    <3>. QED  BY <1>1, <1>2, <3>1, <3>3
  <2>. QED  BY <1>1, <1>2, <1>4, <2>1, <2>2, <2>3
<1>. QED  BY <1>2, <1>5

\* No table changes.
LEMMA FrameChanges ==
  ASSUME UNCHANGED <<ref_counts, running>>, cur'.blocks = cur.blocks, NEW b
  PROVE  Changed(b)
<1>1. \A s : Owns(s, b)' <=> Owns(s, b)
  BY DEF Owns
<1>. QED  BY <1>1 DEF Owners, Changed

\* The table under construction gains block x.
LEMMA CurGains ==
  ASSUME TypeInv, running' = running, NEW x \in Blocks, ~In(x, cur.blocks),
         \A y : In(y, cur'.blocks) <=> In(y, cur.blocks) \/ y = x,
         \A y \in Blocks : ref_counts'[y] = IF y = x THEN ref_counts[x] + 1 ELSE ref_counts[y],
         NEW b \in Blocks
  PROVE  Changed(b)
<1>1. \A s : Owns(s, b)' <=> Owns(s, b) \/ (s = 0 /\ b = x)
  BY DEF Owns
<1>2. 0 \in 0 .. MaxSeqs
  BY SchedulerAssumption
<1>3. CASE b = x
  <2>1. 0 \notin Owners(b)
    BY <1>3 DEF Owners, Owns
  <2>2. Owners(b)' = Owners(b) \cup {0}
    BY <1>1, <1>2, <1>3 DEF Owners
  <2>. QED  BY <1>3, <2>1, <2>2 DEF Changed
<1>4. CASE b # x
  <2>1. Owners(b)' = Owners(b)
    BY <1>1, <1>4 DEF Owners
  <2>. QED  BY <1>4, <2>1 DEF Changed
<1>. QED  BY <1>3, <1>4

\* The table in release loses block x.
LEMMA CurLoses ==
  ASSUME TypeInv, running' = running, NEW x \in Blocks, In(x, cur.blocks),
         \A y : In(y, cur'.blocks) <=> In(y, cur.blocks) /\ y # x,
         \A y \in Blocks : ref_counts'[y] = IF y = x THEN ref_counts[x] - 1 ELSE ref_counts[y],
         NEW b \in Blocks
  PROVE  Changed(b)
<1>1. \A s : Owns(s, b)' <=> Owns(s, b) /\ ~(s = 0 /\ b = x)
  BY DEF Owns
<1>2. 0 \in 0 .. MaxSeqs
  BY SchedulerAssumption
<1>3. CASE b = x
  <2>1. 0 \in Owners(b)
    BY <1>2, <1>3 DEF Owners, Owns
  <2>2. Owners(b)' = Owners(b) \ {0}
    BY <1>1, <1>3 DEF Owners
  <2>. QED  BY <1>3, <2>1, <2>2 DEF Changed
<1>4. CASE b # x
  <2>1. Owners(b)' = Owners(b)
    BY <1>1, <1>4 DEF Owners
  <2>. QED  BY <1>4, <2>1 DEF Changed
<1>. QED  BY <1>3, <1>4

\* An owner is renamed wherever it owned.
LEMMA Renamed ==
  ASSUME UNCHANGED ref_counts, NEW s \in 0 .. MaxSeqs, NEW t \in 0 .. MaxSeqs, s # t,
         NEW b \in Blocks, ~Owns(t, b),
         \A r \in 0 .. MaxSeqs :
           Owns(r, b)' <=> IF r = t THEN Owns(s, b) ELSE r # s /\ Owns(r, b)
  PROVE  Changed(b)
<1>1. CASE Owns(s, b)
  <2>1. s \in Owners(b) /\ t \notin Owners(b)
    BY <1>1 DEF Owners
  <2>2. Owners(b)' = (Owners(b) \ {s}) \cup {t}
    BY <1>1 DEF Owners
  <2>. QED  BY <2>1, <2>2 DEF Changed
<1>2. CASE ~Owns(s, b)
  <2>1. Owners(b)' = Owners(b)
    BY <1>2 DEF Owners
  <2>. QED  BY <2>1 DEF Changed
<1>. QED  BY <1>1, <1>2

\* The finished table joins the batch.
LEMMA CurJoins ==
  ASSUME TypeInv, UNCHANGED ref_counts, running' = Append(running, cur), cur' = NoSeq,
         cur.id \in SeqId, \A i \in DOMAIN running : running[i].id # cur.id,
         NEW b \in Blocks
  PROVE  Changed(b)
<1> DEFINE n == Len(running) + 1
<1>1. /\ DOMAIN running' = DOMAIN running \cup {n} /\ n \notin DOMAIN running
      /\ \A i \in DOMAIN running : running'[i] = running[i]
      /\ running'[n] = cur
  <2>1. cur \in Running /\ running \in Seq(Running)
    BY DEF TypeInv, Running, RunningWith
  <2>. QED  BY <2>1, AppendOrigin
<1>2. cur'.blocks = <<>> /\ ~In(b, <<>>)
  BY DEF NoSeq, In
<1>3. cur.id # 0 /\ cur.id \in 0 .. MaxSeqs /\ 0 \in 0 .. MaxSeqs
  BY SchedulerAssumption DEF SeqId
<1>. HIDE DEF n
<1>4. ~Owns(0, b)' /\ ~Owns(cur.id, b)
  BY <1>2, <1>3 DEF Owns
<1>5. ASSUME NEW r \in 0 .. MaxSeqs, r # 0
      PROVE  Owns(r, b)' <=> IF r = cur.id THEN Owns(0, b) ELSE Owns(r, b)
  BY <1>1, <1>5 DEF Owns
<1>. QED  BY <1>3, <1>4, <1>5, Renamed

\* The n-th sequence leaves the batch.
LEMMA CurLeaves ==
  ASSUME TypeInv, Distinct, UNCHANGED ref_counts, NEW n \in DOMAIN running,
         running' = RemoveAt(running, n), cur' = running[n], cur.blocks = <<>>,
         NEW b \in Blocks
  PROVE  Changed(b)
<1>1. /\ running \in Seq(Running) /\ DOMAIN running = 1 .. Len(running)
      /\ Len(running) \in Nat
      /\ \A i \in DOMAIN running : running[i].id \in SeqId
  BY RunningFacts DEF TypeInv, Running
<1>2. /\ DOMAIN running' = 1 .. Len(running) - 1
      /\ \A j \in DOMAIN running' :
           /\ j < n => j \in DOMAIN running /\ running'[j] = running[j]
           /\ j >= n => j + 1 \in DOMAIN running /\ running'[j] = running[j + 1]
  BY <1>1, RemoveAtFacts, LenProperties
<1>3. \A j \in DOMAIN running' : \E k \in DOMAIN running \ {n} : running'[j] = running[k]
  BY <1>1, <1>2
<1>4. \A k \in DOMAIN running \ {n} : \E j \in DOMAIN running' : running'[j] = running[k]
  <2> SUFFICES ASSUME NEW k \in DOMAIN running \ {n}
               PROVE  \E j \in DOMAIN running' : running'[j] = running[k]
    OBVIOUS
  <2>1. CASE k < n
    BY <1>1, <1>2, <2>1
  <2>2. CASE k > n
    <3>1. k - 1 \in DOMAIN running' /\ k - 1 >= n /\ (k - 1) + 1 = k
      BY <1>1, <1>2, <2>2
    <3>. QED  BY <1>2, <3>1
  <2>. QED  BY <1>1, <2>1, <2>2
<1> DEFINE id == running[n].id
<1>5. id # 0 /\ id \in 0 .. MaxSeqs /\ 0 \in 0 .. MaxSeqs
  BY <1>1, SchedulerAssumption DEF SeqId
<1>6. \A k \in DOMAIN running : running[k].id = id <=> k = n
  BY DEF Distinct
<1>7. ~Owns(0, b) /\ (Owns(id, b) <=> In(b, running[n].blocks))
  BY <1>5, <1>6 DEF Owns, In
<1>8. Owns(0, b)' <=> In(b, running[n].blocks)
  BY DEF Owns
<1>9. ASSUME NEW r \in 0 .. MaxSeqs, r # 0
      PROVE  Owns(r, b)' <=> r # id /\ Owns(r, b)
  <2>1. Owns(r, b)' <=> \E j \in DOMAIN running' : running'[j].id = r /\ In(b, running'[j].blocks)
    BY <1>9 DEF Owns
  <2>2. Owns(r, b) <=> \E k \in DOMAIN running : running[k].id = r /\ In(b, running[k].blocks)
    BY <1>9 DEF Owns
  <2>. QED  BY <1>3, <1>4, <1>6, <2>1, <2>2
<1>. HIDE DEF id
<1>. QED  BY <1>5, <1>7, <1>8, <1>9, Renamed

-----------------------------------------------------------------------------
(* What a step does to the tables.                                         *)

\* What OwnInv knows of running tables.
LEMMA TableTypes ==
  ASSUME TypeInv
  PROVE  /\ running \in Seq(Running) /\ DOMAIN running = 1 .. Len(running)
         /\ Len(running) \in Nat
         /\ \A i \in DOMAIN running :
              /\ running[i].id \in SeqId /\ running[i].blocks \in Seq(Blocks)
              /\ running[i].num_tokens \in Nat
         /\ cur.blocks \in Seq(Blocks) /\ cur.num_tokens \in Nat /\ claim \in Seq(Blocks)
<1>1. cur.blocks \in Seq(Blocks) /\ cur.num_tokens \in Nat /\ claim \in Seq(Blocks)
  BY RunningFacts DEF TypeInv
<1>. QED  BY <1>1, RunningFacts DEF TypeInv, Running

LEMMA EmptyTable ==
  NoSeq.blocks = <<>> /\ NoRepeat(<<>>) /\ Len(<<>>) = 0 /\ \A y : ~In(y, <<>>)
BY DEF NoSeq, NoRepeat, In

\* allocate hands out a block nobody has.
LEMMA AllocatedIsNew ==
  ASSUME AllocInv, TypeInv, CountsExact, NEW x \in Blocks, Allocate(x)
  PROVE  /\ \A y \in Blocks : ref_counts'[y] = IF y = x THEN ref_counts[x] + 1 ELSE ref_counts[y]
         /\ ~In(x, cur.blocks)
         /\ \A i \in DOMAIN running : ~In(x, running[i].blocks)
<1>1. ref_counts[x] = 0
  <2>1. In(x, free_list) \/ In(x, evictable)
    <3>1. free_list \in Seq(Blocks) /\ evictable \in Seq(Blocks)
      BY DEF AllocInv, AllocTypeOK
    <3>2. CASE free_list # <<>> /\ x = free_list[Len(free_list)]
      BY <3>1, <3>2, FrontElements
    <3>3. CASE evictable # <<>> /\ x = Head(evictable)
      BY <3>1, <3>3, TailElements
    <3>. QED  BY <3>2, <3>3 DEF Allocate, Evict
  <2>. QED  BY <2>1 DEF AllocInv, PoolPartition
<1>2. ref_counts' = [ref_counts EXCEPT ![x] = 1] /\ ref_counts \in [Blocks -> 0 .. MaxRefCount]
  BY DEF Allocate, AllocInv, AllocTypeOK
<1>3. \A y \in Blocks : ref_counts'[y] = IF y = x THEN ref_counts[x] + 1 ELSE ref_counts[y]
  BY <1>1, <1>2
<1>4. Owners(x) = {}
  <2>1. IsFiniteSet(Owners(x)) /\ Cardinality(Owners(x)) = 0
    BY <1>1, OwnersFinite DEF CountsExact
  <2>. QED  BY <2>1, FS_EmptySet
<1>5. \A s \in 0 .. MaxSeqs : ~Owns(s, x)
  BY <1>4 DEF Owners
<1>6. ~In(x, cur.blocks)
  <2>1. 0 \in 0 .. MaxSeqs
    BY SchedulerAssumption
  <2>. QED  BY <1>5, <2>1 DEF Owns
<1>7. \A i \in DOMAIN running : ~In(x, running[i].blocks)
  <2>1. \A i \in DOMAIN running : running[i].id \in 0 .. MaxSeqs /\ running[i].id # 0
    BY TableTypes, SchedulerAssumption DEF SeqId
  <2>. QED  BY <1>5, <2>1 DEF Owns
<1>. QED  BY <1>3, <1>6, <1>7

\* One more token takes a block exactly when the last one is full.
LEMMA OneMoreToken ==
  ASSUME NEW n \in Nat
  PROVE  /\ blocks_for_tokens(n) \in Nat
         /\ n % BlockSize = 0 => blocks_for_tokens(n + 1) = blocks_for_tokens(n) + 1
         /\ n % BlockSize # 0 => blocks_for_tokens(n + 1) = blocks_for_tokens(n)
         /\ n = 0 => n % BlockSize = 0
         /\ blocks_for_tokens(n) = 0 => n = 0
<1> DEFINE B == BlockSize
           q == n \div B
           r == n % B
<1>1. B \in Nat \ {0}
  BY BlockTableAssumption
<1>2. q \in Nat /\ r \in 0 .. B - 1 /\ n = q * B + r
  BY <1>1
<1>. HIDE DEF q, r, B
<1>3. \A d \in 0 .. B - 1 : (q * B + d) \div B = q /\ ((q + 1) * B + d) \div B = q + 1
  <2>1. \A a \in Nat, d \in 0 .. B - 1 : (a * B + d) \div B = a
    BY <1>1
  <2>. QED  BY <1>1, <1>2, <2>1
<1>4. blocks_for_tokens(n) = IF r = 0 THEN q ELSE q + 1
  <2>1. CASE r = 0
    <3>1. n + B - 1 = q * B + (B - 1) /\ B - 1 \in 0 .. B - 1
      BY <1>1, <1>2, <2>1
    <3>. QED  BY <1>3, <2>1, <3>1 DEF blocks_for_tokens, CeilDiv, B
  <2>2. CASE r # 0
    <3>1. n + B - 1 = (q + 1) * B + (r - 1) /\ r - 1 \in 0 .. B - 1
      BY <1>1, <1>2, <2>2
    <3>. QED  BY <1>3, <2>2, <3>1 DEF blocks_for_tokens, CeilDiv, B
  <2>. QED  BY <2>1, <2>2
<1>5. blocks_for_tokens(n + 1) = q + 1
  <2>1. n + 1 + B - 1 = (q + 1) * B + r
    BY <1>1, <1>2
  <2>. QED  BY <1>2, <1>3, <2>1 DEF blocks_for_tokens, CeilDiv, B
<1>6. n = 0 => r = 0
  BY <1>1 DEF r
<1>7. blocks_for_tokens(n) = 0 => n = 0
  BY <1>1, <1>2, <1>4
<1>. QED  BY <1>1, <1>2, <1>4, <1>5, <1>6, <1>7 DEF r, B

\* A hit names no block twice: the entries along it grow.
LEMMA HitHasNoRepeat ==
  ASSUME AllocInv, NEW p \in Pending, NEW hit \in Matches(Matchable(p))
  PROVE  NoRepeat(hit)
<1> DEFINE n == Len(hit)
           upto(i) == SubSeq(hit, 1, i - 1)
           k(i) == NextKey(upto(i), Matchable(p))
           e(i) == by_block[hit[i]].entry
<1>1. hit \in Seq(Blocks) /\ n \in Nat /\ DOMAIN hit = 1 .. n
  BY MatchFacts
<1>2. \A i \in 1 .. n : k(i) \in DOMAIN by_key /\ by_key[k(i)].block = hit[i]
  BY DEF Matches, IsMatch
<1>3. \A i \in 1 .. n : /\ hit[i] \in DOMAIN by_block /\ by_block[hit[i]].key = k(i)
                        /\ by_key[k(i)].entry = e(i) /\ e(i) \in Nat
                        /\ k(i).parent < e(i)
  <2> SUFFICES ASSUME NEW i \in 1 .. n
               PROVE  /\ hit[i] \in DOMAIN by_block /\ by_block[hit[i]].key = k(i)
                      /\ by_key[k(i)].entry = e(i) /\ e(i) \in Nat
                      /\ k(i).parent < e(i)
    OBVIOUS
  <2> DEFINE key == k(i)
  <2>1. key \in DOMAIN by_key /\ by_key[key].block = hit[i]
    BY <1>2
  <2>. HIDE DEF key
  <2>2. hit[i] \in DOMAIN by_block /\ by_block[hit[i]].key = key
    BY <2>1 DEF AllocInv, IndexConsistent
  <2>3. by_key[key] = [entry |-> e(i), block |-> hit[i]]
    BY <2>2 DEF AllocInv, IndexConsistent
  <2>4. key.parent < by_key[key].entry /\ by_key[key].entry \in Nat
    BY <2>1, EntriesBelow DEF AllocInv, EntriesOrdered
  <2>. QED  BY <2>2, <2>3, <2>4 DEF key
<1>4. \A i \in 2 .. n : k(i).parent = e(i - 1)
  <2> SUFFICES ASSUME NEW i \in 2 .. n PROVE k(i).parent = e(i - 1)
    OBVIOUS
  <2>1. /\ upto(i) \in Seq(Blocks) /\ Len(upto(i)) = i - 1
        /\ upto(i) # <<>> /\ upto(i)[i - 1] = hit[i - 1]
    <3>1. \A j \in 1 .. i - 1 : hit[j] \in Blocks
      BY <1>1
    <3>2. /\ upto(i) \in Seq(Blocks) /\ Len(upto(i)) = i - 1
          /\ \A j \in 1 .. i - 1 : upto(i)[j] = hit[j]
      BY <1>1, <3>1, SubSeqProperties
    <3>3. upto(i) # <<>>
      BY <3>2
    <3>. QED  BY <1>1, <3>2, <3>3
  <2>. HIDE DEF upto
  <2>2. LastEntry(upto(i)) = by_block[hit[i - 1]].entry
    BY <2>1 DEF LastEntry, Last
  <2>. QED  BY <2>2 DEF NextKey
<1>5. \A i \in 2 .. n : e(i - 1) < e(i)
  BY <1>1, <1>3, <1>4
<1>6. \A i \in 1 .. n : e(i) \in Nat
  BY <1>3
<1>. HIDE DEF e, k, upto
<1> DEFINE T == {j \in 1 .. n : \E i \in 1 .. n : i < j /\ e(i) >= e(j)}
<1>7. T = {}
  <2>1. SUFFICES ASSUME T # {} PROVE FALSE
    OBVIOUS
  <2>2. PICK j \in T : \A m \in T : j <= m
    <3>1. T \in SUBSET Nat
      BY <1>1
    <3>. HIDE DEF T
    <3>. QED  BY <2>1, <3>1, LeastNatural
  <2>3. PICK i \in 1 .. n : i < j /\ e(i) >= e(j)
    OBVIOUS
  <2>4. j \in 2 .. n /\ j - 1 \in 1 .. n /\ e(j - 1) < e(j) /\ j - 1 \notin T
    BY <1>1, <1>5, <2>2, <2>3
  <2>5. i = j - 1 \/ i < j - 1
    BY <2>3, <2>4
  <2>6. i < j - 1 => ~(e(i) >= e(j - 1))
    BY <2>4
  <2>. QED  BY <1>6, <2>3, <2>4, <2>5, <2>6
<1>8. \A i, j \in 1 .. n : i < j => e(i) < e(j)
  BY <1>6, <1>7
<1>9. ASSUME NEW i \in 1 .. n, NEW j \in 1 .. n, hit[i] = hit[j] PROVE i = j
  <2>1. e(i) = e(j)
    BY <1>9 DEF e
  <2>. QED  BY <1>1, <1>6, <1>8, <2>1
<1>. QED  BY <1>1, <1>9 DEF NoRepeat

-----------------------------------------------------------------------------
(* Every step keeps the invariant.                                         *)

\* No table changes.
LEMMA OwnFrame ==
  ASSUME CountsExact, TablesExact, UNCHANGED <<ref_counts, running>>, cur'.blocks = cur.blocks
  PROVE  CountsExact' /\ TablesExact'
<1>1. CountsExact'
  BY FrameChanges, ChangesKeepCounts
<1>2. TablesExact'
  BY DEF TablesExact
<1>. QED  BY <1>1, <1>2

\* Steps that only read or queue.
LEMMA QuietSteps ==
  ASSUME SchedInv, OwnInv,
         \/ UNCHANGED vars
         \/ \E r \in Requests : Enqueue(r)
         \/ \E i \in DOMAIN waiting : FinishWaiting(i)
         \/ StepBegin \/ Reserve \/ ReserveEnd \/ AdmitEnd \/ FillEnd \/ RegisterBlock
         \/ DecodeSkip \/ PreemptEnd \/ ReleaseEnd \/ StepEnd
  PROVE  OwnInv'
<1>1. CountsExact /\ TablesExact /\ LoopInv
  BY DEF OwnInv
<1>2. UNCHANGED <<ref_counts, running>> /\ cur'.blocks = cur.blocks
  BY EmptyTable
  DEF vars, allocVars, callVars, Enqueue, FinishWaiting, StepBegin, Reserve, ReserveEnd,
      AdmitEnd, FillEnd, RegisterBlock, CacheBlock, DecodeSkip, PreemptEnd, ReleaseEnd, StepEnd
<1>3. LoopInv'
  <2>1. CASE UNCHANGED vars
    BY <1>1, <2>1 DEF LoopInv, vars, callVars, HoldsWhatItNeeds, last_block_has_room
  <2>2. CASE FillEnd
    BY <1>1, <2>2 DEF LoopInv, FillEnd, HoldsWhatItNeeds
  <2>3. CASE RegisterBlock
    BY <1>1, <2>3 DEF LoopInv, RegisterBlock, HoldsWhatItNeeds
  <2>4. CASE \/ \E r \in Requests : Enqueue(r)
             \/ \E i \in DOMAIN waiting : FinishWaiting(i)
    BY <1>1, <2>4 DEF LoopInv, Enqueue, FinishWaiting, callVars
  <2>5. CASE StepBegin \/ Reserve \/ ReserveEnd \/ AdmitEnd \/ DecodeSkip \/ StepEnd
    BY <1>1, <2>5 DEF LoopInv, StepBegin, Reserve, ReserveEnd, AdmitEnd, DecodeSkip, StepEnd
  <2>6. CASE PreemptEnd \/ ReleaseEnd
    BY EmptyTable, <2>6 DEF LoopInv, PreemptEnd, ReleaseEnd
  <2>. QED  BY <2>1, <2>2, <2>3, <2>4, <2>5, <2>6
<1>. QED  BY <1>1, <1>2, <1>3, OwnFrame DEF OwnInv

\* A table is about to be built: a fork's, or that of the queue's front.
LEMMA ClaimSteps ==
  ASSUME SchedInv, OwnInv,
         AdmitNext \/ \E i \in DOMAIN running, n \in ForkNew : Fork(i, n)
  PROVE  OwnInv'
<1>1. /\ AllocInv /\ TypeInv /\ CountsExact /\ TablesExact /\ LoopInv
      /\ waiting \in Seq(Pending)
  BY DEF SchedInv, TypeInv, OwnInv
<1>2. CASE AdmitNext
  <2>1. PICK hit \in Matches(Matchable(Head(waiting))) :
          /\ claim' = hit
          /\ cur' = [id |-> Head(waiting).id, blocks |-> <<>>,
                     num_tokens |-> Head(waiting).context_len,
                     max_new |-> Head(waiting).max_new, generated |-> 0,
                     prompt |-> Head(waiting).prompt, cached |-> Len(hit)]
    BY <1>2 DEF AdmitNext
  <2>2. Head(waiting) \in Pending
    BY <1>1, <1>2, HeadTailProperties DEF AdmitNext
  <2>3. NoRepeat(hit)
    BY <1>1, <2>2, HitHasNoRepeat
  <2>4. cur'.blocks = <<>> /\ cur.blocks = <<>> /\ pc' = "build"
        /\ UNCHANGED <<ref_counts, running>>
    BY <1>1, <1>2, <2>1 DEF AdmitNext, LoopInv, allocVars
  <2>5. LoopInv'
    BY <2>1, <2>3, <2>4, EmptyTable DEF LoopInv
  <2>. QED  BY <1>1, <2>4, <2>5, OwnFrame DEF OwnInv
<1>3. ASSUME NEW i \in DOMAIN running, NEW n \in ForkNew, Fork(i, n)
      PROVE  OwnInv'
  <2>1. /\ cur'.blocks = <<>> /\ cur'.num_tokens = running[i].num_tokens
        /\ claim' = running[i].blocks /\ pc' = "fork" /\ UNCHANGED <<ref_counts, running>>
    BY <1>3 DEF Fork, allocVars
  <2>2. cur.blocks = <<>>
    BY <1>1, <1>3 DEF Fork, LoopInv
  <2>3. NoRepeat(claim') /\ Len(claim') = blocks_for_tokens(running[i].num_tokens)
    BY <1>1, <2>1 DEF TablesExact, HoldsWhatItNeeds
  <2>4. Len(claim') \in Nat
    BY <1>1, <2>1, TableTypes
  <2>5. Len(cur'.blocks) + Len(claim') = blocks_for_tokens(cur'.num_tokens)
    BY <2>1, <2>3, <2>4, EmptyTable
  <2>6. LoopInv'
    BY <2>1, <2>3, <2>5, EmptyTable DEF LoopInv, blocks_for_tokens
  <2>. QED  BY <1>1, <2>1, <2>2, <2>6, OwnFrame DEF OwnInv
<1>. QED  BY <1>2, <1>3

\* The table under construction gets one more block.
LEMMA GrowCur ==
  ASSUME SchedInv, OwnInv, NEW x \in Blocks, ~In(x, cur.blocks), running' = running,
         cur'.blocks = Append(cur.blocks, x),
         \A y \in Blocks : ref_counts'[y] = IF y = x THEN ref_counts[x] + 1 ELSE ref_counts[y]
  PROVE  CountsExact' /\ TablesExact'
<1>1. TypeInv /\ CountsExact /\ TablesExact /\ cur.blocks \in Seq(Blocks)
  BY TableTypes DEF SchedInv, OwnInv
<1>2. /\ \A y : In(y, cur'.blocks) <=> In(y, cur.blocks) \/ y = x
      /\ NoRepeat(cur'.blocks)
  BY <1>1, AppendElements DEF TablesExact
<1>3. CountsExact'
  BY <1>1, <1>2, CurGains, ChangesKeepCounts
<1>4. TablesExact'
  BY <1>1, <1>2 DEF TablesExact
<1>. QED  BY <1>3, <1>4

\* What follows from claiming the first of the claimed blocks.
LEMMA ClaimFirst ==
  ASSUME TypeInv, LoopInv, pc \in {"fork", "build"}, claim # <<>>,
         claim' = Tail(claim), cur'.blocks = Append(cur.blocks, Head(claim))
  PROVE  /\ Head(claim) \in Blocks /\ ~In(Head(claim), cur.blocks)
         /\ NoRepeat(claim') /\ \A k \in DOMAIN claim' : ~In(claim'[k], cur'.blocks)
         /\ Len(cur'.blocks) + Len(claim') = Len(cur.blocks) + Len(claim)
<1>1. /\ claim \in Seq(Blocks) /\ cur.blocks \in Seq(Blocks)
      /\ NoRepeat(claim) /\ \A k \in DOMAIN claim : ~In(claim[k], cur.blocks)
  BY TableTypes DEF LoopInv
<1>2. /\ Head(claim) \in Blocks /\ In(Head(claim), claim)
      /\ NoRepeat(Tail(claim))
      /\ \A y : In(y, Tail(claim)) <=> In(y, claim) /\ y # Head(claim)
  BY <1>1, TailElements
<1>3. \A y : In(y, claim) => ~In(y, cur.blocks)
  BY <1>1 DEF In
<1>4. \A y : In(y, cur'.blocks) <=> In(y, cur.blocks) \/ y = Head(claim)
  BY <1>1, <1>2, AppendElements
<1>5. \A k \in DOMAIN claim' : In(claim'[k], Tail(claim))
  BY DEF In
<1>6. Len(cur'.blocks) = Len(cur.blocks) + 1 /\ Len(Tail(claim)) = Len(claim) - 1
      /\ Len(claim) \in Nat /\ Len(cur.blocks) \in Nat
  <2>1. Len(Append(cur.blocks, Head(claim))) = Len(cur.blocks) + 1
    BY <1>1, <1>2, AppendProperties
  <2>2. Len(Tail(claim)) = Len(claim) - 1
    BY <1>1, HeadTailProperties
  <2>. QED  BY <1>1, <2>1, <2>2, LenProperties
<1>. QED  BY <1>2, <1>3, <1>4, <1>5, <1>6

LEMMA GrowSteps ==
  ASSUME SchedInv, OwnInv,
         ForkBlock \/ Acquire \/ Fill \/ \E i \in DOMAIN running : CowAllocate(i)
  PROVE  OwnInv'
<1>1. /\ AllocInv /\ TypeInv /\ Distinct /\ CountsExact /\ TablesExact /\ LoopInv
      /\ cur \in RunningWith(SeqId \cup {0})
      /\ ref_counts \in [Blocks -> 0 .. MaxRefCount]
  BY DEF SchedInv, TypeInv, OwnInv, AllocInv, AllocTypeOK
<1>2. \A bs : [cur EXCEPT !.blocks = bs].blocks = bs
  BY <1>1 DEF RunningWith
<1>3. CASE ForkBlock
  <2> DEFINE x == Head(claim)
  <2>1. /\ pc = "fork" /\ pc' = "fork" /\ claim # <<>> /\ claim' = Tail(claim) /\ running' = running
        /\ ref_counts' = [ref_counts EXCEPT ![x] = @ + 1]
        /\ cur' = [cur EXCEPT !.blocks = Append(@, x)]
    BY <1>3 DEF ForkBlock, Incref
  <2>2. cur'.blocks = Append(cur.blocks, x)
    BY <1>2, <2>1
  <2>3. cur'.num_tokens = cur.num_tokens
    BY <1>1, <1>3, CurStep
  <2>. HIDE DEF x
  <2>4. /\ x \in Blocks /\ ~In(x, cur.blocks)
        /\ NoRepeat(claim') /\ \A k \in DOMAIN claim' : ~In(claim'[k], cur'.blocks)
        /\ Len(cur'.blocks) + Len(claim') = Len(cur.blocks) + Len(claim)
    BY <1>1, <2>1, <2>2, ClaimFirst DEF x
  <2>5. \A y \in Blocks : ref_counts'[y] = IF y = x THEN ref_counts[x] + 1 ELSE ref_counts[y]
    BY <1>1, <2>1, <2>4
  <2>6. CountsExact' /\ TablesExact'
    BY <2>1, <2>2, <2>4, <2>5, GrowCur
  <2>7. LoopInv'
    BY <1>1, <2>1, <2>3, <2>4 DEF LoopInv
  <2>. QED  BY <2>6, <2>7 DEF OwnInv
<1>4. CASE Acquire
  <2> DEFINE x == Head(claim)
  <2>1. /\ pc = "build" /\ pc' = "build" /\ claim # <<>> /\ claim' = Tail(claim) /\ running' = running
        /\ AcquireCached(x)
        /\ cur' = [cur EXCEPT !.blocks = Append(@, x)]
    BY <1>4 DEF Acquire
  <2>2. cur'.blocks = Append(cur.blocks, x)
    BY <1>2, <2>1
  <2>. HIDE DEF x
  <2>4. /\ x \in Blocks /\ ~In(x, cur.blocks)
        /\ NoRepeat(claim') /\ \A k \in DOMAIN claim' : ~In(claim'[k], cur'.blocks)
    BY <1>1, <2>1, <2>2, ClaimFirst DEF x
  <2>5. \A y \in Blocks : ref_counts'[y] = IF y = x THEN ref_counts[x] + 1 ELSE ref_counts[y]
    BY <1>1, <2>1, <2>4 DEF AcquireCached, Incref, Reclaim
  <2>6. CountsExact' /\ TablesExact'
    BY <2>1, <2>2, <2>4, <2>5, GrowCur
  <2>7. LoopInv'
    BY <1>1, <2>1, <2>4 DEF LoopInv
  <2>. QED  BY <2>6, <2>7 DEF OwnInv
<1>5. CASE Fill
  <2>1. PICK x \in Blocks : Allocate(x) /\ cur' = [cur EXCEPT !.blocks = Append(@, x)]
    BY <1>5 DEF Fill
  <2>2. cur'.blocks = Append(cur.blocks, x)
    BY <1>2, <2>1
  <2>3. pc = "build" /\ pc' = "build" /\ claim = <<>> /\ claim' = <<>> /\ running' = running
    BY <1>5 DEF Fill
  <2>4. /\ \A y \in Blocks : ref_counts'[y] = IF y = x THEN ref_counts[x] + 1 ELSE ref_counts[y]
        /\ ~In(x, cur.blocks)
    BY <1>1, <2>1, AllocatedIsNew
  <2>5. CountsExact' /\ TablesExact'
    BY <2>2, <2>3, <2>4, GrowCur
  <2>6. LoopInv'
    BY <2>3, EmptyTable DEF LoopInv
  <2>. QED  BY <2>5, <2>6 DEF OwnInv
<1>6. ASSUME NEW i \in DOMAIN running, CowAllocate(i) PROVE OwnInv'
  <2>1. PICK x \in Blocks : Allocate(x) /\ cur' = [NoSeq EXCEPT !.blocks = <<x>>]
    BY <1>6 DEF CowAllocate
  <2>2. /\ pc = "decode" /\ pc' = "cow" /\ running' = running /\ todo' = todo
        /\ running[i].id = Head(todo) /\ last_block_has_room(running[i])
    BY <1>6 DEF CowAllocate, Decoding, needs_cow
  <2>3. cur.blocks = <<>> /\ cur'.blocks = <<x>> /\ Append(<<>>, x) = <<x>>
        /\ Len(<<x>>) = 1 /\ <<x>>[1] = x
    BY <1>1, <2>1, <2>2 DEF LoopInv, NoSeq
  <2>4. /\ \A y \in Blocks : ref_counts'[y] = IF y = x THEN ref_counts[x] + 1 ELSE ref_counts[y]
        /\ ~In(x, cur.blocks)
        /\ \A j \in DOMAIN running : ~In(x, running[j].blocks)
    BY <1>1, <2>1, AllocatedIsNew
  <2>5. CountsExact' /\ TablesExact'
    BY <2>2, <2>3, <2>4, GrowCur
  <2>6. \A j \in DOMAIN running : running[j].id = Head(todo) => j = i
    BY <1>1, <2>2 DEF Distinct
  <2>7. LoopInv'
    BY <2>2, <2>3, <2>4, <2>6 DEF LoopInv
  <2>. QED  BY <2>5, <2>7 DEF OwnInv
<1>. QED  BY <1>3, <1>4, <1>5, <1>6

LEMMA ReleaseStep == ASSUME SchedInv, OwnInv, ReleaseBlock PROVE OwnInv'
<1>1. /\ AllocInv /\ TypeInv /\ CountsExact /\ TablesExact /\ LoopInv
      /\ cur \in RunningWith(SeqId \cup {0}) /\ cur.blocks \in Seq(Blocks)
      /\ ref_counts \in [Blocks -> 0 .. MaxRefCount]
  BY TableTypes DEF SchedInv, TypeInv, OwnInv, AllocInv, AllocTypeOK
<1> DEFINE bs == cur.blocks
           x == bs[Len(bs)]
           t == SubSeq(bs, 1, Len(bs) - 1)
<1>2. /\ bs # <<>> /\ Decref(x) /\ cur' = [cur EXCEPT !.blocks = t] /\ running' = running
      /\ pc' = pc /\ pc \in {"preempt", "retire", "finish"}
  BY DEF ReleaseBlock, TailOf
<1>3. cur'.blocks = t
  BY <1>1, <1>2 DEF RunningWith
<1>4. /\ x \in Blocks /\ In(x, bs) /\ NoRepeat(t)
      /\ \A y : In(y, t) <=> In(y, bs) /\ y # x
  BY <1>1, <1>2, FrontElements DEF TablesExact
<1>. HIDE DEF t, x
<1>5. \A y \in Blocks : ref_counts'[y] = IF y = x THEN ref_counts[x] - 1 ELSE ref_counts[y]
  BY <1>1, <1>2, <1>4 DEF Decref
<1>6. \A b \in Blocks : Changed(b)
  BY <1>1, <1>2, <1>3, <1>4, <1>5, CurLoses
<1>7. CountsExact'
  BY <1>1, <1>6, ChangesKeepCounts
<1>8. TablesExact'
  BY <1>1, <1>2, <1>3, <1>4 DEF TablesExact
<1>9. LoopInv'
  BY <1>2 DEF LoopInv
<1>. QED  BY <1>7, <1>8, <1>9 DEF OwnInv

LEMMA JoinSteps == ASSUME SchedInv, OwnInv, ForkEnd \/ RegisterEnd PROVE OwnInv'
<1>1. /\ TypeInv /\ Distinct /\ CountsExact /\ TablesExact /\ LoopInv
  BY DEF SchedInv, OwnInv
<1>2. /\ UNCHANGED ref_counts /\ running' = Append(running, cur) /\ cur' = NoSeq
      /\ pc \in {"fork", "register"} /\ pc' \in {"idle", "admit"} /\ (pc = "fork" => claim = <<>>)
  BY DEF ForkEnd, RegisterEnd, allocVars
<1>3. cur.id \in SeqId /\ \A i \in DOMAIN running : running[i].id # cur.id
  BY <1>1, <1>2 DEF Distinct, Held
<1>4. CountsExact'
  BY <1>1, <1>2, <1>3, CurJoins, ChangesKeepCounts
<1>5. HoldsWhatItNeeds(cur)
  <2>1. Len(cur.blocks) \in Nat
    BY <1>1, TableTypes
  <2>. QED  BY <1>1, <1>2, <2>1, EmptyTable DEF LoopInv, HoldsWhatItNeeds
<1>6. cur \in Running /\ running \in Seq(Running)
  BY <1>1, <1>3 DEF TypeInv, Running, RunningWith
<1>7. \A i \in DOMAIN running' : running'[i] = cur \/ (i \in DOMAIN running /\ running'[i] = running[i])
  BY <1>2, <1>6, AppendOrigin
<1>8. cur'.blocks = <<>>
  BY <1>2, EmptyTable
<1>9. TablesExact'
  BY <1>1, <1>5, <1>7, <1>8, EmptyTable DEF TablesExact, HoldsWhatItNeeds
<1>10. LoopInv'
  BY <1>2, <1>8 DEF LoopInv
<1>. QED  BY <1>4, <1>9, <1>10 DEF OwnInv

\* A sequence leaves the batch to give its blocks back.
LEMMA LeaveSteps ==
  ASSUME SchedInv, OwnInv,
         \E i \in DOMAIN running : FinishRunning(i) \/ Preempt(i) \/ Retire(i)
  PROVE  OwnInv'
<1>1. TypeInv /\ Distinct /\ CountsExact /\ TablesExact /\ LoopInv /\ running \in Seq(Running)
  BY DEF SchedInv, TypeInv, OwnInv
<1>2. PICK n \in DOMAIN running :
        /\ UNCHANGED ref_counts /\ running' = RemoveAt(running, n) /\ cur' = running[n]
        /\ pc \in {"idle", "decode"} /\ pc' \in {"finish", "preempt", "retire"}
  <2>1. ASSUME NEW i \in DOMAIN running, FinishRunning(i) \/ Retire(i)
        PROVE  /\ UNCHANGED ref_counts /\ running' = RemoveAt(running, i) /\ cur' = running[i]
               /\ pc \in {"idle", "decode"} /\ pc' \in {"finish", "preempt", "retire"}
    BY <2>1 DEF FinishRunning, Retire, allocVars
  <2>2. ASSUME NEW i \in DOMAIN running, Preempt(i)
        PROVE  /\ VictimIndex \in DOMAIN running
               /\ UNCHANGED ref_counts /\ running' = RemoveAt(running, VictimIndex)
               /\ cur' = running[VictimIndex]
               /\ pc \in {"idle", "decode"} /\ pc' \in {"finish", "preempt", "retire"}
    <3>1. VictimIndex \in DOMAIN running
      BY <1>1, VictimFacts
    <3>. QED  BY <2>2, <3>1 DEF Preempt, Decoding, allocVars
  <2>. QED  BY <2>1, <2>2
<1>3. cur.blocks = <<>>
  BY <1>1, <1>2 DEF LoopInv
<1>4. CountsExact'
  BY <1>1, <1>2, <1>3, CurLeaves, ChangesKeepCounts
<1>5. \A j \in DOMAIN running' : \E k \in DOMAIN running : running'[j] = running[k]
  BY <1>1, <1>2, RemoveAtElements
<1>6. TablesExact'
  BY <1>1, <1>2, <1>5 DEF TablesExact, HoldsWhatItNeeds
<1>7. LoopInv'
  BY <1>2 DEF LoopInv
<1>. QED  BY <1>4, <1>6, <1>7 DEF OwnInv

\* The tables of the batch after one of them got a token.
LEMMA AppendedOwns ==
  ASSUME TypeInv, Distinct, NEW i \in DOMAIN running,
         DOMAIN running' = DOMAIN running,
         \A j \in DOMAIN running \ {i} : running'[j] = running[j],
         running'[i].id = running[i].id,
         NEW b, NEW s, s # 0
  PROVE  Owns(s, b)' <=> IF s = running[i].id THEN In(b, running'[i].blocks) ELSE Owns(s, b)
<1>1. \A j \in DOMAIN running : running[j].id = running[i].id <=> j = i
  BY DEF Distinct
<1>2. \A j \in DOMAIN running : running'[j].id = running[j].id
  OBVIOUS
<1>3. Owns(s, b)' <=> \E j \in DOMAIN running : running[j].id = s /\ In(b, running'[j].blocks)
  BY <1>2 DEF Owns
<1>4. Owns(s, b) <=> \E j \in DOMAIN running : running[j].id = s /\ In(b, running[j].blocks)
  BY DEF Owns
<1>. QED  BY <1>1, <1>3, <1>4

\* A sequence with room in its last block has one.
LEMMA TokenSteps ==
  ASSUME SchedInv, OwnInv, NEW i \in DOMAIN running, AppendInPlace(i) \/ AppendFresh(i)
  PROVE  OwnInv'
<1>1. /\ AllocInv /\ TypeInv /\ Distinct /\ CountsExact /\ TablesExact /\ LoopInv
  BY DEF SchedInv, OwnInv
<1>2. /\ running[i].id \in SeqId /\ running[i].blocks \in Seq(Blocks)
      /\ running[i].num_tokens \in Nat /\ Len(running[i].blocks) \in Nat
      /\ NoRepeat(running[i].blocks)
      /\ Len(running[i].blocks) = blocks_for_tokens(running[i].num_tokens)
  BY <1>1, TableTypes, LenProperties DEF TablesExact, HoldsWhatItNeeds
<1>3. running[i].id # 0 /\ running[i].id \in 0 .. MaxSeqs
  BY <1>2, SchedulerAssumption DEF SeqId
<1>4. pc = "decode" /\ pc' = "decode" /\ cur' = cur /\ cur.blocks = <<>> /\ todo # <<>>
  BY <1>1 DEF AppendInPlace, AppendFresh, Decoding, LoopInv
<1>5. LoopInv'
  BY <1>4 DEF LoopInv
<1>6. ASSUME NEW bs \in Seq(Blocks), NEW cow, Appended(i, bs, cow)
      PROVE  /\ DOMAIN running' = DOMAIN running
             /\ \A j \in DOMAIN running \ {i} : running'[j] = running[j]
             /\ running'[i].id = running[i].id /\ running'[i].blocks = bs
             /\ running'[i].num_tokens = running[i].num_tokens + 1
  BY <1>1, <1>4, <1>6, AppendedFacts
<1>7. CASE AppendInPlace(i)
  <2>1. /\ Appended(i, running[i].blocks, <<>>) /\ UNCHANGED ref_counts
        /\ running[i].num_tokens % BlockSize # 0
    BY <1>7 DEF AppendInPlace, last_block_has_room, allocVars
  <2>2. /\ DOMAIN running' = DOMAIN running
        /\ \A j \in DOMAIN running \ {i} : running'[j] = running[j]
        /\ running'[i].id = running[i].id /\ running'[i].blocks = running[i].blocks
        /\ running'[i].num_tokens = running[i].num_tokens + 1
    BY <1>2, <1>6, <2>1
  <2>3. ASSUME NEW b \in Blocks PROVE Changed(b)
    <3>1. \A s : Owns(s, b)' <=> Owns(s, b)
      <4>1. \A j \in DOMAIN running : /\ running'[j].id = running[j].id
                                      /\ running'[j].blocks = running[j].blocks
        BY <2>2
      <4>. QED  BY <1>4, <2>2, <4>1 DEF Owns
    <3>. QED  BY <2>1, <3>1 DEF Owners, Changed
  <2>4. CountsExact'
    BY <1>1, <2>3, ChangesKeepCounts
  <2>5. HoldsWhatItNeeds(running'[i])
    BY <1>2, <2>1, <2>2, OneMoreToken DEF HoldsWhatItNeeds
  <2>6. TablesExact'
    BY <1>1, <1>2, <1>4, <2>2, <2>5 DEF TablesExact, HoldsWhatItNeeds
  <2>. QED  BY <1>5, <2>4, <2>6 DEF OwnInv
<1>8. CASE AppendFresh(i)
  <2>1. PICK x \in Blocks : Allocate(x) /\ Appended(i, Append(running[i].blocks, x), <<>>)
    BY <1>8 DEF AppendFresh
  <2> DEFINE bs == Append(running[i].blocks, x)
  <2>2. /\ bs \in Seq(Blocks) /\ Len(bs) = Len(running[i].blocks) + 1
        /\ \A y : In(y, bs) <=> In(y, running[i].blocks) \/ y = x
        /\ ~In(x, running[i].blocks) => NoRepeat(bs)
    BY <1>2, AppendElements, AppendProperties
  <2>3. Appended(i, bs, <<>>)
    BY <2>1
  <2>. HIDE DEF bs
  <2>4. /\ DOMAIN running' = DOMAIN running
        /\ \A j \in DOMAIN running \ {i} : running'[j] = running[j]
        /\ running'[i].id = running[i].id /\ running'[i].blocks = bs
        /\ running'[i].num_tokens = running[i].num_tokens + 1
    BY <1>6, <2>2, <2>3
  <2>5. /\ \A y \in Blocks : ref_counts'[y] = IF y = x THEN ref_counts[x] + 1 ELSE ref_counts[y]
        /\ \A j \in DOMAIN running : ~In(x, running[j].blocks)
    BY <1>1, <2>1, AllocatedIsNew
  <2>6. ASSUME NEW b \in Blocks PROVE Changed(b)
    <3> DEFINE id == running[i].id
    <3>1. Owns(0, b)' <=> Owns(0, b)
      BY <1>4 DEF Owns
    <3>2. Owns(id, b) <=> In(b, running[i].blocks)
      BY <1>1, <1>3 DEF Owns, Distinct
    <3>3. \A s : s # 0 => (Owns(s, b)' <=> IF s = id THEN In(b, bs) ELSE Owns(s, b))
      BY <1>1, <2>4, AppendedOwns
    <3>4. \A s : Owns(s, b)' <=> Owns(s, b) \/ (s = id /\ b = x)
      BY <1>3, <2>2, <3>1, <3>2, <3>3
    <3>5. CASE b = x
      <4>1. id \notin Owners(b)
        BY <2>5, <3>2, <3>5 DEF Owners
      <4>2. Owners(b)' = Owners(b) \cup {id}
        BY <1>3, <3>4, <3>5 DEF Owners
      <4>. QED  BY <2>5, <3>5, <4>1, <4>2 DEF Changed
    <3>6. CASE b # x
      <4>1. Owners(b)' = Owners(b)
        BY <3>4, <3>6 DEF Owners
      <4>. QED  BY <2>5, <3>6, <4>1 DEF Changed
    <3>. QED  BY <3>5, <3>6
  <2>7. CountsExact'
    BY <1>1, <2>6, ChangesKeepCounts
  <2>8. running[i].num_tokens % BlockSize = 0
    <3>1. running[i].blocks = <<>> => Len(running[i].blocks) = 0
      BY EmptyTable
    <3>. QED  BY <1>2, <1>8, <3>1, OneMoreToken DEF AppendFresh, last_block_has_room
  <2>9. HoldsWhatItNeeds(running'[i])
    BY <1>2, <2>2, <2>4, <2>8, OneMoreToken DEF HoldsWhatItNeeds
  <2>10. TablesExact'
    BY <1>1, <1>4, <2>2, <2>4, <2>5, <2>9 DEF TablesExact, HoldsWhatItNeeds
  <2>. QED  BY <1>5, <2>7, <2>10 DEF OwnInv
<1>. QED  BY <1>7, <1>8

\* The copy replaces the shared tail.
LEMMA CowStep == ASSUME SchedInv, OwnInv, CowReplace PROVE OwnInv'
<1>1. /\ AllocInv /\ TypeInv /\ Distinct /\ CountsExact /\ TablesExact /\ LoopInv
      /\ ref_counts \in [Blocks -> 0 .. MaxRefCount] /\ cur.blocks \in Seq(Blocks)
  BY TableTypes DEF SchedInv, OwnInv, AllocInv, AllocTypeOK
<1> DEFINE i == Pos(Head(todo))
           old == running[i].blocks
           src == old[Len(old)]
           dst == Head(cur.blocks)
           new == [old EXCEPT ![Len(old)] = dst]
<1>2. /\ pc = "cow" /\ pc' = "decode" /\ cur' = NoSeq
      /\ Decref(src) /\ Appended(i, new, CopyPair(src, dst))
  BY DEF CowReplace, TailOf
<1>3. /\ i \in DOMAIN running /\ running[i].id = Head(todo) /\ old # <<>>
      /\ dst \in Blocks /\ todo # <<>>
  BY <1>2, CowFacts
<1>4. /\ dst = cur.blocks[1] /\ Len(cur.blocks) = 1
      /\ last_block_has_room(running[i])
      /\ \A j \in DOMAIN running : ~In(dst, running[j].blocks)
  <2>1. Len(cur.blocks) = 1 /\ \A j \in DOMAIN running :
            /\ ~In(cur.blocks[1], running[j].blocks)
            /\ running[j].id = Head(todo) => last_block_has_room(running[j])
    BY <1>1, <1>2 DEF LoopInv
  <2>2. dst = cur.blocks[1]
    OBVIOUS
  <2>. HIDE DEF i, dst
  <2>. QED  BY <1>3, <2>1, <2>2
<1>. HIDE DEF i, dst
<1>5. /\ running[i].id \in SeqId /\ old \in Seq(Blocks) /\ NoRepeat(old)
      /\ running[i].num_tokens \in Nat
      /\ Len(old) = blocks_for_tokens(running[i].num_tokens)
  BY <1>1, <1>3, TableTypes DEF TablesExact, HoldsWhatItNeeds
<1>6. /\ src \in Blocks /\ In(src, old) /\ src # dst
      /\ new \in Seq(Blocks) /\ Len(new) = Len(old) /\ NoRepeat(new)
      /\ \A y : In(y, new) <=> (In(y, old) /\ y # src) \/ y = dst
  <2>1. ~In(dst, old)
    BY <1>3, <1>4
  <2>. HIDE DEF old
  <2>. QED  BY <1>3, <1>5, <2>1, TailReplaced
<1>. HIDE DEF new, src
<1>7. /\ DOMAIN running' = DOMAIN running
      /\ \A j \in DOMAIN running \ {i} : running'[j] = running[j]
      /\ running'[i].id = running[i].id /\ running'[i].blocks = new
      /\ running'[i].num_tokens = running[i].num_tokens + 1
  BY <1>1, <1>2, <1>3, <1>6, AppendedFacts
<1>8. \A y \in Blocks : ref_counts'[y] = IF y = src THEN ref_counts[src] - 1 ELSE ref_counts[y]
  BY <1>1, <1>2, <1>6 DEF Decref
<1>9. \A y : In(y, cur.blocks) <=> y = dst
  <2>1. DOMAIN cur.blocks = {1}
    BY <1>1, <1>4, LenProperties
  <2>. QED  BY <1>4, <2>1 DEF In
<1>10. ASSUME NEW b \in Blocks PROVE Changed(b)
  <2> DEFINE id == running[i].id
  <2>1. id # 0 /\ id \in 0 .. MaxSeqs /\ 0 \in 0 .. MaxSeqs
    BY <1>5, SchedulerAssumption DEF SeqId
  <2>2. ~Owns(0, b)' /\ (Owns(0, b) <=> b = dst)
    BY <1>2, <1>9, EmptyTable DEF Owns
  <2>3. Owns(id, b) <=> In(b, old)
    BY <1>1, <1>3, <2>1 DEF Owns, Distinct
  <2>4. \A s : s # 0 => (Owns(s, b)' <=> IF s = id THEN In(b, new) ELSE Owns(s, b))
    BY <1>1, <1>3, <1>7, AppendedOwns
  <2>5. ~In(dst, old)
    BY <1>3, <1>4
  <2>. HIDE DEF id, old
  <2>6. CASE b = src
    <3>1. Owns(id, b) /\ \A s : Owns(s, b)' <=> Owns(s, b) /\ s # id
      BY <1>6, <2>1, <2>2, <2>3, <2>4, <2>6
    <3>2. id \in Owners(b) /\ Owners(b)' = Owners(b) \ {id}
      BY <2>1, <3>1 DEF Owners
    <3>. QED  BY <1>8, <2>6, <3>2 DEF Changed
  <2>7. CASE b = dst
    <3>1. /\ Owns(0, b) /\ ~Owns(id, b)
          /\ \A s : Owns(s, b)' <=> (Owns(s, b) /\ s # 0) \/ s = id
      BY <1>6, <2>1, <2>2, <2>3, <2>4, <2>5, <2>7
    <3>2. /\ 0 \in Owners(b) /\ id \notin Owners(b)
          /\ Owners(b)' = (Owners(b) \ {0}) \cup {id}
      BY <2>1, <3>1 DEF Owners
    <3>. QED  BY <1>6, <1>8, <2>7, <3>2 DEF Changed
  <2>8. CASE b # src /\ b # dst
    <3>1. \A s : Owns(s, b)' <=> Owns(s, b)
      BY <1>6, <2>1, <2>2, <2>3, <2>4, <2>8
    <3>2. Owners(b)' = Owners(b)
      BY <3>1 DEF Owners
    <3>. QED  BY <1>8, <2>8, <3>2 DEF Changed
  <2>. QED  BY <2>6, <2>7, <2>8
<1>11. CountsExact'
  BY <1>1, <1>10, ChangesKeepCounts
<1>12. HoldsWhatItNeeds(running'[i])
  <2>1. running[i].num_tokens % BlockSize # 0
    BY <1>4 DEF last_block_has_room
  <2>. QED  BY <1>5, <1>6, <1>7, <2>1, OneMoreToken DEF HoldsWhatItNeeds
<1>13. TablesExact'
  BY <1>1, <1>2, <1>6, <1>7, <1>12, EmptyTable DEF TablesExact, HoldsWhatItNeeds
<1>14. LoopInv'
  BY <1>2, EmptyTable DEF LoopInv
<1>. QED  BY <1>11, <1>13, <1>14 DEF OwnInv

-----------------------------------------------------------------------------
(* The result.                                                             *)

LEMMA OwnInit == Init => OwnInv
<1> SUFFICES ASSUME Init PROVE OwnInv
  OBVIOUS
<1>1. /\ running = <<>> /\ DOMAIN running = {} /\ cur.blocks = <<>> /\ pc = "idle"
      /\ ref_counts = [b \in Blocks |-> 0]
  BY EmptyTable DEF Init, AllocInit
<1>2. \A b \in Blocks : Owners(b) = {}
  BY <1>1, EmptyTable DEF Owners, Owns
<1>3. CountsExact
  BY <1>1, <1>2, FS_EmptySet DEF CountsExact
<1>4. TablesExact /\ LoopInv
  BY <1>1, EmptyTable DEF TablesExact, LoopInv
<1>. QED  BY <1>3, <1>4 DEF OwnInv

LEMMA OwnNext == SchedInv /\ OwnInv /\ [Next]_vars => OwnInv'
<1> SUFFICES ASSUME SchedInv, OwnInv, [Next]_vars PROVE OwnInv'
  OBVIOUS
<1>1. CASE UNCHANGED vars
  BY <1>1, QuietSteps
<1>2. CASE Client
  BY <1>2, QuietSteps, ClaimSteps, LeaveSteps DEF Client
<1>3. CASE Step
  BY <1>3, QuietSteps, ClaimSteps, GrowSteps, JoinSteps, LeaveSteps, TokenSteps, CowStep,
     ReleaseStep
  DEF Step
<1>. QED  BY <1>1, <1>2, <1>3 DEF Next

(***************************************************************************)
(* block_table.rs:204-242 (check_ownership), at every step of every call:  *)
(* a block's count is the number of tables that refer to it, no table has  *)
(* a block twice, and each has exactly the blocks its tokens need.         *)
(***************************************************************************)
THEOREM ReferencesStayExact == Spec => []OwnershipExact
<1>1. SchedInv /\ OwnInv => OwnershipExact
  <2> SUFFICES ASSUME SchedInv, OwnInv PROVE OwnershipExact
    OBVIOUS
  <2>1. \A b \in Blocks : ref_counts[b] = References(b)
    BY ReferencesAreOwners DEF SchedInv, OwnInv, CountsExact
  <2>. QED  BY <2>1 DEF OwnInv, TablesExact, OwnershipExact
<1>2. Init => SchedInv /\ OwnInv
  BY SchedInitInv, OwnInit
<1>3. SchedInv /\ OwnInv /\ [Next]_vars => (SchedInv /\ OwnInv)'
  BY SchedNextInv, OwnNext
<1>. QED  BY <1>1, <1>2, <1>3, PTL DEF Spec

-----------------------------------------------------------------------------
(* Order of arrival.                                                       *)

\* A sequence is on its way between queue and batch, and has a place in Line.
Moving == pc \in {"build", "register", "preempt"}

\* x may stand before y.
Older(x, y) == (x \notin forked /\ y \notin forked) => x < y

OrderInv ==
  /\ \A i, j \in DOMAIN running : i < j => Older(running[i].id, running[j].id)
  /\ \A i, j \in DOMAIN waiting : i < j => Older(waiting[i].id, waiting[j].id)
  /\ \A i \in DOMAIN running, j \in DOMAIN waiting : Older(running[i].id, waiting[j].id)
  /\ Moving => /\ \A i \in DOMAIN running : Older(running[i].id, cur.id)
               /\ \A j \in DOMAIN waiting : Older(cur.id, waiting[j].id)
  /\ pc = "fork" => cur.id \in forked

\* A step that moves no sequence.
LEMMA OrderFrame ==
  ASSUME OrderInv, waiting' = waiting, forked' = forked, DOMAIN running' = DOMAIN running,
         \A i \in DOMAIN running : running'[i].id = running[i].id,
         Moving' => Moving /\ cur'.id = cur.id,
         pc' = "fork" => pc = "fork" /\ cur'.id = cur.id
  PROVE  OrderInv'
  BY DEF OrderInv, Older

LEMMA OrderKept == ASSUME SchedInv, OrderInv, [Next]_vars PROVE OrderInv'
<1>. TypeInv /\ Distinct /\ IdsGiven
  BY DEF SchedInv
<1>1. /\ waiting \in Seq(Pending) /\ running \in Seq(Running) /\ next_id \in Nat
      /\ DOMAIN running \subseteq Nat /\ DOMAIN waiting \subseteq Nat
      /\ \A i \in DOMAIN running : running[i].id \in Nat
      /\ \A i \in DOMAIN waiting : waiting[i].id \in Nat
      /\ SeqId \subseteq Nat /\ Len(running) \in Nat /\ DOMAIN running = 1 .. Len(running)
      /\ Len(waiting) \in Nat /\ DOMAIN waiting = 1 .. Len(waiting)
  <2>1. /\ waiting \in Seq(Pending) /\ running \in Seq(Running) /\ next_id \in Nat
        /\ SeqId \subseteq Nat
    BY SchedulerAssumption DEF TypeInv, SeqId
  <2>2. \A i \in DOMAIN running : running[i].id \in SeqId
    BY <2>1, RunningFacts DEF Running
  <2>3. \A i \in DOMAIN waiting : waiting[i] \in Pending
    BY <2>1
  <2>4. \A p \in Pending : p.id \in SeqId
    BY DEF Pending
  <2>5. \A i \in DOMAIN waiting : waiting[i].id \in Nat
    BY <2>1, <2>3, <2>4
  <2>6. \A i \in DOMAIN running : running[i].id \in Nat
    BY <2>1, <2>2
  <2>7. /\ Len(running) \in Nat /\ DOMAIN running = 1 .. Len(running)
        /\ Len(waiting) \in Nat /\ DOMAIN waiting = 1 .. Len(waiting)
    BY <2>1
  <2>. QED  BY <2>1, <2>5, <2>6, <2>7
<1>2. CASE UNCHANGED vars
  BY <1>2, OrderFrame DEF vars, callVars, histVars, Moving
<1>3. CASE \/ StepBegin \/ Reserve \/ ReserveEnd \/ AdmitEnd \/ FillEnd \/ RegisterBlock
           \/ DecodeSkip \/ ReleaseEnd \/ StepEnd
  BY <1>3, OrderFrame DEF StepBegin, Reserve, ReserveEnd, AdmitEnd, FillEnd, RegisterBlock,
                          DecodeSkip, ReleaseEnd, StepEnd, Moving, histVars
<1>4. CASE ForkBlock \/ Acquire \/ Fill \/ ReleaseBlock
  <2>1. forked' = forked
    BY <1>4 DEF ForkBlock, Acquire, Fill, ReleaseBlock, histVars
  <2>2. cur'.id = cur.id /\ UNCHANGED <<waiting, running, pc>>
    BY <1>4, CurStep
  <2>. QED  BY <2>1, <2>2, OrderFrame DEF Moving
<1>5. CASE CowReplace \/ \E i \in DOMAIN running : AppendInPlace(i) \/ AppendFresh(i)
  <2>1. PICK i \in DOMAIN running, bs \in Seq(Blocks), cow \in Seq(Blocks) :
          Appended(i, bs, cow) /\ todo # <<>>
    BY <1>5, AppendStep
  <2>2. /\ DOMAIN running' = DOMAIN running
        /\ \A j \in DOMAIN running : running'[j].id = running[j].id
    BY <2>1, AppendedFacts
  <2>3. waiting' = waiting /\ forked' = forked /\ pc' = "decode"
    BY <1>5 DEF CowReplace, AppendInPlace, AppendFresh, Decoding, histVars
  <2>. QED  BY <2>2, <2>3, OrderFrame DEF Moving
<1>6. ASSUME NEW i \in DOMAIN running, CowAllocate(i)
      PROVE  OrderInv'
  BY <1>6, OrderFrame DEF CowAllocate, Moving
<1>7. ASSUME NEW i \in DOMAIN running, FinishRunning(i) \/ Retire(i)
      PROVE  OrderInv'
  <2>1. /\ running' = RemoveAt(running, i) /\ waiting' = waiting /\ forked' = forked
        /\ ~Moving' /\ pc' # "fork"
    BY <1>7 DEF FinishRunning, Retire, Moving, histVars
  <2>2. PICK g \in [DOMAIN running' -> DOMAIN running] :
          /\ \A j \in DOMAIN running' : running'[j] = running[g[j]]
          /\ \A j, k \in DOMAIN running' : j < k => g[j] < g[k]
    <3>1. \E g \in [DOMAIN RemoveAt(running, i) -> DOMAIN running] :
            /\ \A j \in DOMAIN RemoveAt(running, i) : RemoveAt(running, i)[j] = running[g[j]]
            /\ \A j, k \in DOMAIN RemoveAt(running, i) : j < k => g[j] < g[k]
      BY <1>1, RemoveKeepsOrder
    <3>. QED  BY <2>1, <3>1
  <2>. QED  BY <2>1, <2>2 DEF OrderInv, Older
<1>8. ASSUME NEW i \in DOMAIN running, Preempt(i)
      PROVE  OrderInv'
  <2>1. /\ running' = RemoveAt(running, VictimIndex) /\ cur' = running[VictimIndex]
        /\ waiting' = waiting /\ forked' = forked /\ pc' = "preempt"
    BY <1>8 DEF Preempt, histVars
  <2>2. /\ VictimIndex \in DOMAIN running
        /\ \A j \in DOMAIN running' :
             j \in DOMAIN running /\ j < VictimIndex /\ running'[j] = running[j]
    BY <2>1, VictimFacts
  <2>. QED  BY <2>1, <2>2 DEF OrderInv, Older, Moving
<1>9. ASSUME NEW r \in Requests, Enqueue(r)
      PROVE  OrderInv'
  <2> DEFINE p == [id |-> next_id, context_len |-> r.len, max_new |-> r.max_new,
                   prompt |-> r.prompt]
  <2>1. waiting' = Append(waiting, p) /\ pc = "idle"
        /\ UNCHANGED <<running, cur, pc, forked>> /\ p.id = next_id
    BY <1>9 DEF Enqueue, callVars
  <2>2. waiting' \in Seq(Pending)
    BY <1>9, ClientKeepsTypes DEF Client, TypeInv
  <2>3. p \in Pending
    BY <1>1, <2>1, <2>2, LenProperties, ElementOfSeq
  <2>. HIDE DEF p
  <2>4. /\ DOMAIN waiting' = DOMAIN waiting \cup {Len(waiting) + 1}
        /\ Len(waiting) + 1 \notin DOMAIN waiting
        /\ \A j \in DOMAIN waiting : waiting'[j] = waiting[j]
        /\ waiting'[Len(waiting) + 1].id = next_id
    BY <1>1, <2>1, <2>3, AppendOrigin
  <2>5. \A j \in DOMAIN waiting : j <= Len(waiting)
    BY <1>1
  <2>. QED  BY <1>1, <2>1, <2>4, <2>5 DEF OrderInv, Older, IdsGiven, Moving
<1>10. ASSUME NEW i \in DOMAIN running, NEW n \in ForkNew, Fork(i, n)
       PROVE  OrderInv'
  <2>1. /\ cur'.id = next_id /\ forked' = forked \cup {next_id} /\ pc' = "fork"
        /\ UNCHANGED <<running, waiting>>
    BY <1>10 DEF Fork
  <2>. QED  BY <2>1 DEF OrderInv, Older, Moving
<1>11. ASSUME NEW i \in DOMAIN waiting, FinishWaiting(i)
       PROVE  OrderInv'
  <2>1. waiting' = RemoveAt(waiting, i) /\ UNCHANGED <<running, cur, pc, forked>> /\ pc = "idle"
    BY <1>11 DEF FinishWaiting, callVars, histVars
  <2>2. PICK g \in [DOMAIN waiting' -> DOMAIN waiting] :
          /\ \A j \in DOMAIN waiting' : waiting'[j] = waiting[g[j]]
          /\ \A j, k \in DOMAIN waiting' : j < k => g[j] < g[k]
    <3>1. \E g \in [DOMAIN RemoveAt(waiting, i) -> DOMAIN waiting] :
            /\ \A j \in DOMAIN RemoveAt(waiting, i) : RemoveAt(waiting, i)[j] = waiting[g[j]]
            /\ \A j, k \in DOMAIN RemoveAt(waiting, i) : j < k => g[j] < g[k]
      BY <1>1, RemoveKeepsOrder
    <3>. QED  BY <2>1, <3>1
  <2>. QED  BY <2>1, <2>2 DEF OrderInv, Older, Moving
<1>12. CASE ForkEnd \/ RegisterEnd
  <2>1. /\ Held /\ running' = Append(running, cur) /\ UNCHANGED <<waiting, forked>>
        /\ pc' \in {"idle", "admit"} /\ pc \in {"fork", "register"}
    BY <1>12 DEF ForkEnd, RegisterEnd, Held, histVars
  <2>2. cur \in Running
    BY <2>1 DEF TypeInv, Distinct, Running, RunningWith
  <2>3. /\ DOMAIN running' = DOMAIN running \cup {Len(running) + 1}
        /\ Len(running) + 1 \notin DOMAIN running
        /\ \A j \in DOMAIN running : running'[j] = running[j] /\ j <= Len(running)
        /\ running'[Len(running) + 1] = cur
    BY <1>1, <2>1, <2>2, AppendOrigin
  <2>4. /\ \A j \in DOMAIN running : Older(running[j].id, cur.id)
        /\ \A j \in DOMAIN waiting : Older(cur.id, waiting[j].id)
    BY <2>1 DEF OrderInv, Older, Moving
  <2>. QED  BY <1>1, <2>1, <2>3, <2>4 DEF OrderInv, Older, Moving
<1>13. CASE AdmitNext
  <2>1. /\ waiting # <<>> /\ waiting' = Tail(waiting) /\ UNCHANGED <<running, forked>>
        /\ cur'.id = Head(waiting).id /\ pc' = "build"
    BY <1>13 DEF AdmitNext, histVars
  <2>2. /\ 1 \in DOMAIN waiting /\ Head(waiting) = waiting[1]
        /\ \A j \in DOMAIN waiting' : j \in Nat \ {0} /\ j + 1 \in DOMAIN waiting
                                      /\ waiting'[j] = waiting[j + 1]
    BY <1>1, <2>1, TailOrigin
  <2>3. \A i, j \in DOMAIN waiting' : i < j => Older(waiting'[i].id, waiting'[j].id)
    <3>1. \A i, j \in DOMAIN waiting' : i < j => i + 1 < j + 1
      BY <2>2
    <3>. QED  BY <2>2, <3>1 DEF OrderInv
  <2>4. \A j \in DOMAIN waiting' : Older(waiting[1].id, waiting'[j].id)
    <3>1. \A j \in DOMAIN waiting' : 1 < j + 1
      BY <2>2
    <3>. QED  BY <2>2, <3>1 DEF OrderInv
  <2>5. \A i \in DOMAIN running : /\ Older(running[i].id, waiting[1].id)
                                  /\ \A j \in DOMAIN waiting' : Older(running[i].id, waiting'[j].id)
    BY <2>2 DEF OrderInv
  <2>. QED  BY <2>1, <2>2, <2>3, <2>4, <2>5 DEF OrderInv, Older, Moving
<1>14. CASE PreemptEnd
  <2>1. /\ pc = "preempt" /\ pc' = "decode" /\ waiting' = <<Requeued(cur)>> \o waiting
        /\ UNCHANGED <<running, forked>> /\ Requeued(cur).id = cur.id
    BY <1>14 DEF PreemptEnd, histVars, Requeued
  <2>2. Requeued(cur) \in Pending
    <3>1. waiting' \in Seq(Pending)
      BY <1>14, DecodeKeepsTypes DEF TypeInv
    <3>. QED  BY <2>1, <3>1
  <2>3. \A i \in DOMAIN waiting' :
          \/ i = 1 /\ waiting'[i] = Requeued(cur)
          \/ i - 1 \in DOMAIN waiting /\ i \in Nat /\ waiting'[i] = waiting[i - 1]
    BY <1>1, <2>1, <2>2, ConsOrigin
  <2>4. /\ \A i \in DOMAIN running : Older(running[i].id, cur.id)
        /\ \A j \in DOMAIN waiting : Older(cur.id, waiting[j].id)
    BY <2>1 DEF OrderInv, Moving
  <2>5. ASSUME NEW i \in DOMAIN waiting', NEW j \in DOMAIN waiting', i < j
        PROVE  Older(waiting'[i].id, waiting'[j].id)
    <3>1. j \in Nat /\ j # 1 /\ j - 1 \in DOMAIN waiting /\ waiting'[j] = waiting[j - 1]
      <4>1. j # 1 \/ i = j
        BY <1>1, <2>3, <2>5
      <4>. QED  BY <1>1, <2>3, <2>5, <4>1
    <3>2. CASE i = 1 /\ waiting'[i] = Requeued(cur)
      BY <2>1, <2>4, <3>1, <3>2
    <3>3. CASE i - 1 \in DOMAIN waiting /\ i \in Nat /\ waiting'[i] = waiting[i - 1]
      <4>1. i - 1 < j - 1
        BY <1>1, <2>5, <3>1, <3>3
      <4>. QED  BY <3>1, <3>3, <4>1 DEF OrderInv
    <3>. QED  BY <2>3, <3>2, <3>3
  <2>6. \A i \in DOMAIN running, j \in DOMAIN waiting' : Older(running[i].id, waiting'[j].id)
    BY <2>1, <2>3, <2>4 DEF OrderInv
  <2>. QED  BY <2>1, <2>5, <2>6 DEF OrderInv, Older, Moving
<1>. QED
  BY <1>2, <1>3, <1>4, <1>5, <1>6, <1>7, <1>8, <1>9, <1>10, <1>11, <1>12, <1>13, <1>14
  DEF Next, Client, Step

\* Two ordered lines, one behind the other.
LEMMA ConcatOrdered ==
  ASSUME NEW s \in Seq(Nat), NEW t \in Seq(Nat),
         \A i, j \in DOMAIN s : i < j => Older(s[i], s[j]),
         \A i, j \in DOMAIN t : i < j => Older(t[i], t[j]),
         \A i \in DOMAIN s, j \in DOMAIN t : Older(s[i], t[j])
  PROVE  /\ s \o t \in Seq(Nat)
         /\ \A i, j \in DOMAIN (s \o t) : i < j => Older((s \o t)[i], (s \o t)[j])
         /\ \A i \in DOMAIN (s \o t) : \/ \E k \in DOMAIN s : (s \o t)[i] = s[k]
                                       \/ \E k \in DOMAIN t : (s \o t)[i] = t[k]
<1> DEFINE u == s \o t
<1>1. /\ u \in Seq(Nat) /\ Len(s) \in Nat /\ Len(t) \in Nat
      /\ DOMAIN s = 1 .. Len(s) /\ DOMAIN t = 1 .. Len(t) /\ DOMAIN u = 1 .. Len(s) + Len(t)
      /\ \A i \in 1 .. Len(s) + Len(t) : u[i] = IF i <= Len(s) THEN s[i] ELSE t[i - Len(s)]
  BY ConcatProperties, LenProperties
<1>. HIDE DEF u
<1>2. \A i \in DOMAIN u : \/ i \in DOMAIN s /\ u[i] = s[i]
                          \/ i - Len(s) \in DOMAIN t /\ u[i] = t[i - Len(s)]
  BY <1>1
<1>3. ASSUME NEW i \in DOMAIN u, NEW j \in DOMAIN u, i < j PROVE Older(u[i], u[j])
  <2>1. CASE j <= Len(s)
    BY <1>1, <1>3, <2>1
  <2>2. CASE i <= Len(s) /\ ~(j <= Len(s))
    <3>1. i \in DOMAIN s /\ u[i] = s[i] /\ j - Len(s) \in DOMAIN t /\ u[j] = t[j - Len(s)]
      BY <1>1, <1>3, <2>2
    <3>. QED  BY <3>1
  <2>3. CASE ~(i <= Len(s))
    <3>1. /\ i - Len(s) \in DOMAIN t /\ u[i] = t[i - Len(s)]
          /\ j - Len(s) \in DOMAIN t /\ u[j] = t[j - Len(s)]
          /\ i - Len(s) < j - Len(s)
      <4>1. i \in Nat /\ j \in Nat /\ Len(s) \in Nat /\ ~(j <= Len(s))
        BY <1>1, <1>3, <2>3
      <4>2. i \notin DOMAIN s /\ j \notin DOMAIN s
        BY <1>1, <2>3, <4>1
      <4>. QED  BY <1>2, <1>3, <4>1, <4>2
    <3>. QED  BY <3>1
  <2>. QED  BY <1>1, <1>3, <2>1, <2>2, <2>3
<1>. QED  BY <1>1, <1>2, <1>3 DEF u

LEMMA OrderInvariant == Spec => [](SchedInv /\ OrderInv)
<1>1. Init => SchedInv /\ OrderInv
  <2>1. Init => OrderInv
    BY DEF Init, OrderInv, Moving
  <2>. QED  BY <2>1, SchedInitInv
<1>2. SchedInv /\ OrderInv /\ [Next]_vars => (SchedInv /\ OrderInv)'
  BY SchedNextInv, OrderKept
<1>. QED  BY <1>1, <1>2, PTL DEF Spec

(***************************************************************************)
(* scheduler.rs:93-96, "Admission is strict FIFO ... the newest sequence   *)
(* is preempted": a request never overtakes one that arrived before it, in *)
(* the queue or in the batch, through any number of preemptions.           *)
(***************************************************************************)
THEOREM NobodyOvertakes == Spec => []ArrivalOrder
<1>1. SchedInv /\ OrderInv => ArrivalOrder
  <2> SUFFICES ASSUME SchedInv, OrderInv PROVE ArrivalOrder
    OBVIOUS
  <2> DEFINE R == Ids(running)
             M == IF Moving THEN <<cur.id>> ELSE <<>>
             W == Ids(waiting)
  <2>1. /\ R \in Seq(Nat) /\ W \in Seq(Nat) /\ M \in Seq(Nat)
        /\ DOMAIN R = DOMAIN running /\ DOMAIN W = DOMAIN waiting
        /\ \A i \in DOMAIN R : R[i] = running[i].id
        /\ \A i \in DOMAIN W : W[i] = waiting[i].id
        /\ \A i \in DOMAIN M : i = 1 /\ Moving /\ M[i] = cur.id
    <3>1. /\ waiting \in Seq(Pending) /\ running \in Seq(Running) /\ SeqId \subseteq Nat
      <4>1. waiting \in Seq(Pending) /\ running \in Seq(Running)
        BY DEF SchedInv, TypeInv
      <4>2. SeqId \subseteq Nat
        BY DEF SeqId
      <4>. QED  BY <4>1, <4>2
    <3>2. \A i \in DOMAIN running : running[i].id \in Nat
      BY <3>1, RunningFacts DEF Running
    <3>3. \A i \in DOMAIN waiting : waiting[i].id \in Nat
      <4>1. \A p \in Pending : p.id \in SeqId
        BY DEF Pending
      <4>2. \A i \in DOMAIN waiting : waiting[i] \in Pending
        BY <3>1
      <4>. QED  BY <3>1, <4>1, <4>2
    <3>4. Moving => cur.id \in Nat
      BY <3>1 DEF SchedInv, Distinct, Held, Moving
    <3>5. R \in Seq(Nat)
      <4>1. Len(running) \in Nat /\ DOMAIN running = 1 .. Len(running)
        BY <3>1
      <4>2. R \in [1 .. Len(running) -> Nat]
        BY <3>2, <4>1 DEF Ids
      <4>. QED  BY <4>1, <4>2, FunIsSeq
    <3>6. W \in Seq(Nat)
      <4>1. Len(waiting) \in Nat /\ DOMAIN waiting = 1 .. Len(waiting)
        BY <3>1
      <4>2. W \in [1 .. Len(waiting) -> Nat]
        BY <3>3, <4>1 DEF Ids
      <4>. QED  BY <4>1, <4>2, FunIsSeq
    <3>7. M \in Seq(Nat) /\ \A i \in DOMAIN M : i = 1 /\ Moving /\ M[i] = cur.id
      BY <3>4
    <3>. QED  BY <3>5, <3>6, <3>7 DEF Ids
  <2>2. Line = (R \o M) \o W
    BY DEF Line, Moving
  <2>. HIDE DEF R, M, W
  <2>3. /\ R \o M \in Seq(Nat)
        /\ \A i, j \in DOMAIN (R \o M) : i < j => Older((R \o M)[i], (R \o M)[j])
        /\ \A i \in DOMAIN (R \o M) : \/ \E k \in DOMAIN R : (R \o M)[i] = R[k]
                                      \/ \E k \in DOMAIN M : (R \o M)[i] = M[k]
    <3>1. \A i, j \in DOMAIN M : i < j => Older(M[i], M[j])
      BY <2>1
    <3>2. \A i, j \in DOMAIN R : i < j => Older(R[i], R[j])
      <4>1. \A i, j \in DOMAIN running : i < j => Older(running[i].id, running[j].id)
        BY DEF OrderInv
      <4>. QED  BY ONLY <2>1, <4>1
    <3>3. \A i \in DOMAIN R, j \in DOMAIN M : Older(R[i], M[j])
      <4>1. Moving => \A i \in DOMAIN R : Older(R[i], cur.id)
        BY <2>1 DEF OrderInv
      <4>. QED  BY ONLY <2>1, <4>1
    <3>. QED  BY <2>1, <3>1, <3>2, <3>3, ConcatOrdered
  <2>4. \A i, j \in DOMAIN ((R \o M) \o W) :
          i < j => Older(((R \o M) \o W)[i], ((R \o M) \o W)[j])
    <3>1. \A i, j \in DOMAIN W : i < j => Older(W[i], W[j])
      <4>1. \A i, j \in DOMAIN waiting : i < j => Older(waiting[i].id, waiting[j].id)
        BY DEF OrderInv
      <4>. QED  BY ONLY <2>1, <4>1
    <3>2. \A i \in DOMAIN (R \o M), j \in DOMAIN W : Older((R \o M)[i], W[j])
      <4>1. \A k \in DOMAIN R, j \in DOMAIN W : Older(R[k], W[j])
        <5>1. \A k \in DOMAIN running, j \in DOMAIN waiting : Older(running[k].id, waiting[j].id)
          BY DEF OrderInv
        <5>. QED  BY ONLY <2>1, <5>1
      <4>2. \A k \in DOMAIN M, j \in DOMAIN W : Older(M[k], W[j])
        BY <2>1 DEF OrderInv
      <4>. QED  BY <2>3, <4>1, <4>2
    <3>. QED  BY <2>1, <2>3, <3>1, <3>2, ConcatOrdered
  <2>. QED  BY <2>2, <2>4 DEF ArrivalOrder, Older
<1>. QED  BY <1>1, OrderInvariant, PTL

-----------------------------------------------------------------------------
(* Written blocks are private.                                             *)

\* The index serves full blocks of prompts only.
CachedWithinPrompt(t) == \A k \in DOMAIN t.blocks : is_cached(t.blocks[k]) => k <= Len(t.prompt)

\* Only blocks of a prompt are registered, at their place in it: while a table
\* is built, what lies beyond the matched blocks is new and its own.
PrivInv ==
  /\ \A i \in DOMAIN running : CachedWithinPrompt(running[i])
  /\ pc \in {"fork", "build", "register"} => CachedWithinPrompt(cur)
  /\ pc = "fork" =>
       \A k \in DOMAIN claim : is_cached(claim[k]) => Len(cur.blocks) + k <= Len(cur.prompt)
  /\ pc \in {"build", "register"} =>
       /\ cur.cached <= Len(cur.prompt)
       /\ \A k \in DOMAIN cur.blocks : k > cur.cached => ref_counts[cur.blocks[k]] = 1
  /\ pc = "build" /\ claim # <<>> => Len(cur.blocks) + Len(claim) = cur.cached
  /\ pc = "register" =>
       \A k \in DOMAIN claim :
         LET n == Len(cur.prompt) - Len(claim) + k
         IN  n > cur.cached /\ n \in DOMAIN cur.blocks /\ claim[k] = cur.blocks[n]
  /\ pc = "cow" => ~is_cached(cur.blocks[1]) /\ ref_counts[cur.blocks[1]] = 1

\* Only cache_prompt registers blocks.
LEMMA NoNewCached ==
  ASSUME SchedInv, [Next]_vars, ~RegisterBlock
  PROVE  DOMAIN by_block' \subseteq DOMAIN by_block
<1>1. AllocInv
  BY DEF SchedInv
<1>2. CASE UNCHANGED vars
  BY <1>2 DEF vars, allocVars
<1>3. CASE Client
  BY <1>3 DEF Client, Enqueue, Fork, FinishRunning, FinishWaiting, allocVars
<1>4. ASSUME Fill \/ \E i \in DOMAIN running : AppendFresh(i) \/ CowAllocate(i)
      PROVE  DOMAIN by_block' \subseteq DOMAIN by_block
  <2>1. PICK b \in Blocks : Allocate(b)
    BY <1>4 DEF Fill, AppendFresh, CowAllocate
  <2>. QED  BY <1>1, <2>1, AllocatedFacts
<1>5. CASE ForkBlock \/ Acquire \/ CowReplace \/ ReleaseBlock
  BY <1>5 DEF ForkBlock, Acquire, CowReplace, ReleaseBlock, Incref, AcquireCached, Reclaim, Decref
<1>6. ASSUME \/ StepBegin \/ Reserve \/ ReserveEnd \/ AdmitNext \/ AdmitEnd
             \/ FillEnd \/ RegisterEnd \/ DecodeSkip
             \/ \E i \in DOMAIN running : AppendInPlace(i) \/ Preempt(i) \/ Retire(i)
             \/ PreemptEnd \/ ReleaseEnd \/ StepEnd \/ ForkEnd
      PROVE  DOMAIN by_block' \subseteq DOMAIN by_block
  BY <1>6 DEF StepBegin, Reserve, ReserveEnd, AdmitNext, AdmitEnd, FillEnd, RegisterEnd,
              DecodeSkip, AppendInPlace, Preempt, Retire, PreemptEnd, ReleaseEnd,
              StepEnd, ForkEnd, allocVars
<1>. QED  BY <1>2, <1>3, <1>4, <1>5, <1>6 DEF Next, Step

\* A match is no longer than the prompt.
LEMMA MatchWithinPrompt ==
  ASSUME NEW p \in Pending, NEW hit \in Matches(Matchable(p))
  PROVE  Len(hit) <= Len(p.prompt)
<1>1. /\ BlockSize \in Nat \ {0} /\ p.context_len \in Nat /\ p.prompt \in Seq(Chunk)
      /\ Len(p.prompt) \in Nat
  BY BlockTableAssumption DEF Pending
<1> DEFINE L == Len(p.prompt)
           n == IF p.context_len <= L * BlockSize THEN (p.context_len - 1) \div BlockSize ELSE L
<1>2. n \in Int /\ n <= L
  <2>1. (p.context_len - 1) \div BlockSize \in Int
    BY <1>1
  <2>2. ASSUME p.context_len <= L * BlockSize PROVE (p.context_len - 1) \div BlockSize <= L
    <3> DEFINE q == (p.context_len - 1) \div BlockSize
    <3>1. q * BlockSize <= p.context_len - 1 /\ q \in Int
      BY <1>1
    <3>2. q > L => q * BlockSize > L * BlockSize
      BY <1>1, <3>1
    <3>3. L * BlockSize \in Nat /\ q * BlockSize \in Int
      BY <1>1, <3>1
    <3>. HIDE DEF q
    <3>4. q <= L
      BY <1>1, <2>2, <3>1, <3>2, <3>3
    <3>. QED  BY <3>4 DEF q
  <2>. QED  BY <1>1, <2>1, <2>2
<1>. HIDE DEF n
<1>3. Len(SubSeq(p.prompt, 1, n)) \in Nat /\ Len(SubSeq(p.prompt, 1, n)) <= L
  <2> DEFINE T == {p.prompt[i] : i \in 1 .. n}
  <2>1. \A i \in 1 .. n : p.prompt[i] \in T
    OBVIOUS
  <2>. HIDE DEF T
  <2>2. Len(SubSeq(p.prompt, 1, n)) = IF 1 <= n THEN n - 1 + 1 ELSE 0
    BY <1>2, <2>1, SubSeqProperties
  <2>. QED  BY <1>1, <1>2, <2>2
<1>4. Matchable(p) = SubSeq(p.prompt, 1, n)
  BY DEF Matchable, n
<1> DEFINE M == Len(Matchable(p))
<1>5. M \in Nat /\ M <= L
  BY <1>3, <1>4
<1>6. PICK m \in 0 .. M : hit \in [1 .. m -> Blocks]
  BY DEF Matches, BoundedSeq, SeqOf
<1>. HIDE DEF M
<1>7. m \in Nat /\ m <= M
  BY <1>5, <1>6
<1>8. Len(hit) = m
  BY <1>6, <1>7
<1>9. L \in Nat
  BY <1>1
<1>. HIDE DEF L
<1>10. m <= L
  BY <1>5, <1>7, <1>9
<1>. QED  BY <1>8, <1>10 DEF L

\* A step that leaves the batch as it is, or takes sequences out of it, and
\* builds no table.
LEMMA PrivFrame ==
  ASSUME PrivInv, pc' \notin {"fork", "build", "register", "cow"},
         DOMAIN by_block' \subseteq DOMAIN by_block,
         \A j \in DOMAIN running' : \E k \in DOMAIN running : running'[j] = running[k]
  PROVE  PrivInv'
BY DEF PrivInv, CachedWithinPrompt, is_cached

\* The same while a table is built to which nothing happens.
LEMMA PrivStutter ==
  ASSUME PrivInv, UNCHANGED <<pc, running, cur, claim, ref_counts, by_block>>
  PROVE  PrivInv'
BY DEF PrivInv, CachedWithinPrompt, is_cached

\* A table that gets one more block.
LEMMA GrownWithinPrompt ==
  ASSUME NEW t, NEW u, t.blocks \in Seq(Blocks), NEW x \in Blocks,
         u.blocks = Append(t.blocks, x), u.prompt = t.prompt, CachedWithinPrompt(t),
         DOMAIN by_block' \subseteq DOMAIN by_block,
         x \in DOMAIN by_block' => Len(t.blocks) + 1 <= Len(t.prompt)
  PROVE  /\ DOMAIN u.blocks = DOMAIN t.blocks \cup {Len(t.blocks) + 1}
         /\ Len(u.blocks) = Len(t.blocks) + 1
         /\ \A k \in DOMAIN t.blocks : u.blocks[k] = t.blocks[k]
         /\ u.blocks[Len(t.blocks) + 1] = x
         /\ \A k \in DOMAIN u.blocks : u.blocks[k] \in DOMAIN by_block' => k <= Len(u.prompt)
<1>1. /\ DOMAIN u.blocks = DOMAIN t.blocks \cup {Len(t.blocks) + 1}
      /\ \A k \in DOMAIN t.blocks : u.blocks[k] = t.blocks[k]
      /\ u.blocks[Len(t.blocks) + 1] = x
  BY AppendOrigin
<1>2. Len(u.blocks) = Len(t.blocks) + 1
  BY AppendProperties
<1>3. \A k \in DOMAIN u.blocks : u.blocks[k] \in DOMAIN by_block' => k <= Len(u.prompt)
  BY <1>1 DEF CachedWithinPrompt, is_cached
<1>. QED  BY <1>1, <1>2, <1>3

\* Queueing, reservation, release: no table is built.
LEMMA PrivQuiet ==
  ASSUME SchedInv, PrivInv, [Next]_vars, ~RegisterBlock,
         \/ \E r \in Requests : Enqueue(r)
         \/ \E i \in DOMAIN waiting : FinishWaiting(i)
         \/ \E i \in DOMAIN running : FinishRunning(i) \/ Preempt(i) \/ Retire(i)
         \/ StepBegin \/ Reserve \/ ReserveEnd \/ AdmitEnd \/ DecodeSkip
         \/ ReleaseBlock \/ PreemptEnd \/ ReleaseEnd \/ StepEnd
  PROVE  PrivInv'
<1>1. DOMAIN by_block' \subseteq DOMAIN by_block
  BY NoNewCached
<1>2. pc' \notin {"fork", "build", "register", "cow"}
  BY DEF Enqueue, FinishWaiting, FinishRunning, Preempt, Retire, StepBegin, Reserve, ReserveEnd,
         AdmitEnd, DecodeSkip, Decoding, ReleaseBlock, PreemptEnd, ReleaseEnd, StepEnd, callVars
<1>3. \A j \in DOMAIN running' : \E k \in DOMAIN running : running'[j] = running[k]
  <2>1. running \in Seq(Running)
    BY DEF SchedInv, TypeInv
  <2>2. ASSUME NEW n \in DOMAIN running, running' = RemoveAt(running, n)
        PROVE  \A j \in DOMAIN running' : \E k \in DOMAIN running : running'[j] = running[k]
    <3>1. \A j \in DOMAIN RemoveAt(running, n) :
            \E k \in DOMAIN running : RemoveAt(running, n)[j] = running[k]
      BY <2>1, RemoveAtElements
    <3>. QED  BY <2>2, <3>1
  <2>3. ASSUME NEW i \in DOMAIN running, FinishRunning(i) \/ Preempt(i) \/ Retire(i)
        PROVE  \E n \in DOMAIN running : running' = RemoveAt(running, n)
    <3>1. VictimIndex \in DOMAIN running
      BY VictimFacts DEF SchedInv
    <3>. QED  BY <2>3, <3>1 DEF FinishRunning, Preempt, Retire
  <2>4. CASE running' = running
    BY <2>4
  <2>5. CASE running' # running
    <3>1. \E i \in DOMAIN running : FinishRunning(i) \/ Preempt(i) \/ Retire(i)
      BY <2>5 DEF Enqueue, FinishWaiting, StepBegin, Reserve, ReserveEnd,
         AdmitEnd, DecodeSkip, ReleaseBlock, PreemptEnd, ReleaseEnd, StepEnd
    <3>. QED  BY <2>2, <2>3, <3>1
  <2>. QED  BY <2>4, <2>5
<1>. QED  BY <1>1, <1>2, <1>3, PrivFrame

\* A table is claimed: a fork's, or that of the queue's front.
LEMMA PrivClaim ==
  ASSUME SchedInv, OwnInv, PrivInv, [Next]_vars, ~RegisterBlock,
         AdmitNext \/ \E i \in DOMAIN running, n \in ForkNew : Fork(i, n)
  PROVE  PrivInv'
<1>1. DOMAIN by_block' \subseteq DOMAIN by_block
  BY NoNewCached
<1>2. CASE AdmitNext
  <2>1. PICK hit \in Matches(Matchable(Head(waiting))) :
          /\ claim' = hit
          /\ cur' = [id |-> Head(waiting).id, blocks |-> <<>>,
                     num_tokens |-> Head(waiting).context_len,
                     max_new |-> Head(waiting).max_new, generated |-> 0,
                     prompt |-> Head(waiting).prompt, cached |-> Len(hit)]
    BY <1>2 DEF AdmitNext
  <2>2. Head(waiting) \in Pending
    BY <1>2, HeadTailProperties DEF AdmitNext, SchedInv, TypeInv
  <2>3. /\ cur'.blocks = <<>> /\ cur'.prompt = Head(waiting).prompt /\ cur'.cached = Len(hit)
        /\ Len(hit) <= Len(Head(waiting).prompt) /\ Len(hit) \in Nat
    BY <2>1, <2>2, MatchWithinPrompt, MatchFacts DEF SchedInv
  <2>4. pc' = "build" /\ running' = running
    BY <1>2 DEF AdmitNext
  <2>5. Len(cur'.blocks) + Len(claim') = cur'.cached
    BY <2>1, <2>3, EmptyTable
  <2>. QED  BY <1>1, <2>1, <2>3, <2>4, <2>5 DEF PrivInv, CachedWithinPrompt, is_cached
<1>3. ASSUME NEW i \in DOMAIN running, NEW n \in ForkNew, Fork(i, n)
      PROVE  PrivInv'
  <2>1. /\ cur'.blocks = <<>> /\ cur'.prompt = running[i].prompt
        /\ claim' = running[i].blocks /\ pc' = "fork" /\ running' = running
    BY <1>3 DEF Fork
  <2>2. DOMAIN running[i].blocks \subseteq Nat
    BY TableTypes DEF SchedInv
  <2>3. \A k \in DOMAIN claim' :
          claim'[k] \in DOMAIN by_block' => Len(cur'.blocks) + k <= Len(cur'.prompt)
    BY <1>1, <2>1, <2>2, EmptyTable DEF PrivInv, CachedWithinPrompt, is_cached
  <2>. QED  BY <1>1, <2>1, <2>3 DEF PrivInv, CachedWithinPrompt, is_cached
<1>. QED  BY <1>2, <1>3

\* The table joins the batch.
LEMMA PrivJoin ==
  ASSUME SchedInv, PrivInv, [Next]_vars, ~RegisterBlock, ForkEnd \/ RegisterEnd
  PROVE  PrivInv'
<1>1. DOMAIN by_block' \subseteq DOMAIN by_block
  BY NoNewCached
<1>2. /\ running' = Append(running, cur) /\ pc \in {"fork", "register"} /\ pc' \in {"idle", "admit"}
  BY DEF ForkEnd, RegisterEnd
<1>3. cur \in Running /\ running \in Seq(Running)
  <2>1. cur \in RunningWith(SeqId \cup {0}) /\ running \in Seq(Running)
    BY DEF SchedInv, TypeInv
  <2>2. cur.id \in SeqId
    BY <1>2 DEF SchedInv, Distinct, Held
  <2>. QED  BY <2>1, <2>2 DEF Running, RunningWith
<1>4. \A i \in DOMAIN running' :
        running'[i] = cur \/ (i \in DOMAIN running /\ running'[i] = running[i])
  BY <1>2, <1>3, AppendOrigin
<1>. QED  BY <1>1, <1>2, <1>4 DEF PrivInv, CachedWithinPrompt, is_cached

\* The table under construction gains a block.
LEMMA TableGrows ==
  ASSUME TypeInv, NEW x, cur' = [cur EXCEPT !.blocks = Append(@, x)]
  PROVE  /\ cur.blocks \in Seq(Blocks) /\ claim \in Seq(Blocks) /\ Len(cur.blocks) \in Nat
         /\ DOMAIN cur.blocks = 1 .. Len(cur.blocks)
         /\ cur.cached \in Nat /\ Len(cur.prompt) \in Nat
         /\ cur'.blocks = Append(cur.blocks, x) /\ cur'.prompt = cur.prompt
         /\ cur'.cached = cur.cached
<1>1. cur \in RunningWith(SeqId \cup {0}) /\ claim \in Seq(Blocks)
  BY DEF TypeInv
<1>2. cur'.blocks = Append(cur.blocks, x) /\ cur'.prompt = cur.prompt /\ cur'.cached = cur.cached
  BY <1>1 DEF RunningWith
<1>3. cur.blocks \in Seq(Blocks) /\ cur.prompt \in Seq(Chunk) /\ cur.cached \in Nat
  BY <1>1, RunningFacts
<1>. QED  BY <1>1, <1>2, <1>3, LenProperties

\* One block of a fork's table.
LEMMA PrivForkBlock ==
  ASSUME SchedInv, OwnInv, PrivInv, [Next]_vars, ~RegisterBlock, ForkBlock
  PROVE  PrivInv'
<1>1. DOMAIN by_block' \subseteq DOMAIN by_block
  BY NoNewCached
<1>2. /\ pc = "fork" /\ pc' = "fork" /\ claim # <<>> /\ claim' = Tail(claim) /\ running' = running
      /\ cur' = [cur EXCEPT !.blocks = Append(@, Head(claim))]
  BY DEF ForkBlock
<1>3. /\ cur.blocks \in Seq(Blocks) /\ claim \in Seq(Blocks) /\ Len(cur.blocks) \in Nat
      /\ cur'.blocks = Append(cur.blocks, Head(claim)) /\ cur'.prompt = cur.prompt
  BY <1>2, TableGrows DEF SchedInv
<1>4. /\ 1 \in DOMAIN claim /\ Head(claim) = claim[1] /\ Head(claim) \in Blocks
      /\ \A k \in DOMAIN claim' : k \in Nat /\ k + 1 \in DOMAIN claim /\ claim'[k] = claim[k + 1]
  BY <1>2, <1>3, TailOrigin, TailElements
<1>5. Head(claim) \in DOMAIN by_block' => Len(cur.blocks) + 1 <= Len(cur.prompt)
  BY <1>1, <1>2, <1>4 DEF PrivInv, is_cached
<1>6. /\ \A k \in DOMAIN cur'.blocks : cur'.blocks[k] \in DOMAIN by_block' => k <= Len(cur'.prompt)
      /\ Len(cur'.blocks) = Len(cur.blocks) + 1
  BY <1>1, <1>2, <1>3, <1>4, <1>5, GrownWithinPrompt DEF PrivInv
<1>7. ASSUME NEW k \in DOMAIN claim', claim'[k] \in DOMAIN by_block'
      PROVE  Len(cur'.blocks) + k <= Len(cur'.prompt)
  <2>1. Len(cur.blocks) + (k + 1) <= Len(cur.prompt)
    BY <1>1, <1>2, <1>4, <1>7 DEF PrivInv, is_cached
  <2>2. Len(cur.blocks) + (k + 1) = Len(cur'.blocks) + k
    <3>1. k \in Nat
      BY <1>4
    <3>2. \A n \in Nat : n + (k + 1) = (n + 1) + k
      BY <3>1
    <3>. QED  BY <1>3, <1>6, <3>2
  <2>. QED  BY <1>3, <2>1, <2>2
<1>. QED  BY <1>1, <1>2, <1>6, <1>7 DEF PrivInv, CachedWithinPrompt, is_cached

\* One matched block.
LEMMA PrivAcquire ==
  ASSUME SchedInv, OwnInv, PrivInv, [Next]_vars, ~RegisterBlock, Acquire
  PROVE  PrivInv'
<1>1. DOMAIN by_block' \subseteq DOMAIN by_block
  BY NoNewCached
<1>2. /\ pc = "build" /\ pc' = "build" /\ claim # <<>> /\ claim' = Tail(claim) /\ running' = running
      /\ cur' = [cur EXCEPT !.blocks = Append(@, Head(claim))] /\ AcquireCached(Head(claim))
  BY DEF Acquire
<1>3. /\ cur.blocks \in Seq(Blocks) /\ claim \in Seq(Blocks) /\ Len(cur.blocks) \in Nat
      /\ cur'.blocks = Append(cur.blocks, Head(claim)) /\ cur'.prompt = cur.prompt
      /\ cur'.cached = cur.cached /\ cur.cached \in Nat /\ Len(cur.prompt) \in Nat
      /\ DOMAIN cur.blocks = 1 .. Len(cur.blocks)
  BY <1>2, TableGrows DEF SchedInv
<1>4. Head(claim) \in Blocks /\ Len(claim') = Len(claim) - 1 /\ Len(claim) \in Nat \ {0}
  BY <1>2, <1>3, HeadTailProperties, TailElements, EmptySeq
<1>5. cur.cached <= Len(cur.prompt) /\ Len(cur.blocks) + Len(claim) = cur.cached
  BY <1>2 DEF PrivInv
<1>6. /\ \A k \in DOMAIN cur'.blocks : cur'.blocks[k] \in DOMAIN by_block' => k <= Len(cur'.prompt)
      /\ Len(cur'.blocks) = Len(cur.blocks) + 1
      /\ DOMAIN cur'.blocks = DOMAIN cur.blocks \cup {Len(cur.blocks) + 1}
  <2>1. Len(cur.blocks) + 1 <= Len(cur.prompt)
    BY <1>3, <1>4, <1>5
  <2>. QED  BY <1>1, <1>2, <1>3, <1>4, <2>1, GrownWithinPrompt DEF PrivInv
<1>7. \A k \in DOMAIN cur'.blocks : ~(k > cur'.cached)
  BY <1>3, <1>4, <1>5, <1>6
<1>8. Len(cur'.blocks) + Len(claim') = cur'.cached
  BY <1>3, <1>4, <1>5, <1>6
<1>. QED  BY <1>1, <1>2, <1>3, <1>5, <1>6, <1>7, <1>8 DEF PrivInv, CachedWithinPrompt, is_cached

\* One computed block.
LEMMA PrivFill ==
  ASSUME SchedInv, OwnInv, PrivInv, [Next]_vars, ~RegisterBlock, Fill
  PROVE  PrivInv'
<1>1. DOMAIN by_block' \subseteq DOMAIN by_block /\ AllocInv /\ TypeInv /\ CountsExact
  BY NoNewCached DEF SchedInv, OwnInv
<1>2. PICK x \in Blocks : Allocate(x) /\ cur' = [cur EXCEPT !.blocks = Append(@, x)]
  BY DEF Fill
<1>3. pc = "build" /\ pc' = "build" /\ claim = <<>> /\ claim' = <<>> /\ running' = running
  BY DEF Fill
<1>4. /\ cur.blocks \in Seq(Blocks)
      /\ cur'.blocks = Append(cur.blocks, x) /\ cur'.prompt = cur.prompt
      /\ cur'.cached = cur.cached
  BY <1>1, <1>2, TableGrows
<1>5. /\ x \notin DOMAIN by_block' /\ ref_counts'[x] = 1 /\ ~In(x, cur.blocks)
      /\ \A y \in Blocks : ref_counts'[y] = IF y = x THEN ref_counts[x] + 1 ELSE ref_counts[y]
  BY <1>1, <1>2, AllocatedFacts, AllocatedIsNew
<1>6. /\ DOMAIN cur'.blocks = DOMAIN cur.blocks \cup {Len(cur.blocks) + 1}
      /\ \A k \in DOMAIN cur.blocks : cur'.blocks[k] = cur.blocks[k]
      /\ cur'.blocks[Len(cur.blocks) + 1] = x
      /\ \A k \in DOMAIN cur'.blocks : cur'.blocks[k] \in DOMAIN by_block' => k <= Len(cur'.prompt)
  <2>1. CachedWithinPrompt(cur)
    BY <1>3 DEF PrivInv
  <2>2. x \in DOMAIN by_block' => Len(cur.blocks) + 1 <= Len(cur.prompt)
    BY <1>5
  <2>. QED  BY <1>1, <1>4, <2>1, <2>2, GrownWithinPrompt, Zenon
<1>7. \A k \in DOMAIN cur.blocks : cur.blocks[k] \in Blocks /\ cur.blocks[k] # x
  BY <1>4, <1>5 DEF In
<1>8. \A k \in DOMAIN cur'.blocks : k > cur'.cached => ref_counts'[cur'.blocks[k]] = 1
  BY <1>3, <1>4, <1>5, <1>6, <1>7 DEF PrivInv
<1>. QED  BY <1>1, <1>3, <1>4, <1>6, <1>8 DEF PrivInv, CachedWithinPrompt, is_cached

\* The table is complete, and its new prompt blocks are to be registered.
LEMMA PrivFillEnd ==
  ASSUME SchedInv, OwnInv, PrivInv, [Next]_vars, ~RegisterBlock, FillEnd
  PROVE  PrivInv'
<1>1. /\ pc = "build" /\ pc' = "register" /\ UNCHANGED <<running, cur, ref_counts, by_block>>
      /\ claim' = IF PrefixCaching THEN SubSeq(cur.blocks, cur.cached + 1, Len(cur.prompt))
                                   ELSE <<>>
  BY DEF FillEnd, allocVars
<1>2. /\ cur.blocks \in Seq(Blocks) /\ cur.num_tokens \in Nat /\ cur.cached \in Nat
      /\ Len(cur.prompt) \in Nat /\ Len(cur.blocks) \in Nat /\ cur.cached <= Len(cur.prompt)
      /\ DOMAIN cur.blocks = 1 .. Len(cur.blocks)
      /\ \A i \in DOMAIN cur.blocks : cur.blocks[i] \in Blocks
  <2>1. cur \in RunningWith(SeqId \cup {0})
    BY DEF SchedInv, TypeInv
  <2>2. /\ cur.blocks \in Seq(Blocks) /\ cur.num_tokens \in Nat /\ cur.cached \in Nat
        /\ cur.prompt \in Seq(Chunk)
    BY <2>1, RunningFacts
  <2>3. cur.cached <= Len(cur.prompt)
    BY <1>1 DEF PrivInv
  <2>. QED  BY <2>2, <2>3, LenProperties
<1>3. Len(cur.prompt) <= Len(cur.blocks)
  <2>1. Len(cur.prompt) * BlockSize <= cur.num_tokens
    BY <1>1 DEF SchedInv, PromptsCovered, Covered, Held
  <2>. QED  BY <1>2, <2>1, CeilDivCovers DEF FillEnd, HoldsWhatItNeeds, blocks_for_tokens
<1>4. ASSUME NEW k \in DOMAIN claim'
      PROVE  LET n == Len(cur.prompt) - Len(claim') + k
             IN  n > cur.cached /\ n \in DOMAIN cur.blocks /\ claim'[k] = cur.blocks[n]
  <2> DEFINE m == cur.cached + 1
             L == Len(cur.prompt)
             s == SubSeq(cur.blocks, m, L)
  <2>1. claim' = s
    <3>1. claim' # <<>>
      BY <1>4
    <3>. QED  BY <1>1, <3>1
  <2>2. /\ Len(s) = IF m <= L THEN L - m + 1 ELSE 0
        /\ s \in Seq(Blocks)
        /\ \A i \in 1 .. L - m + 1 : s[i] = cur.blocks[m + i - 1]
    <3>1. \A i \in m .. L : cur.blocks[i] \in Blocks
      BY <1>2, <1>3
    <3>2. m \in Int /\ L \in Int
      BY <1>2
    <3>. QED  BY <3>1, <3>2, SubSeqProperties
  <2>. HIDE DEF s
  <2>3. k \in 1 .. Len(s) /\ Len(s) = L - cur.cached
    BY <1>2, <1>4, <2>1, <2>2
  <2>4. /\ L - Len(s) + k = m + k - 1 /\ k \in 1 .. L - m + 1
        /\ m + k - 1 \in DOMAIN cur.blocks /\ m + k - 1 > cur.cached
    <3>1. L \in Nat /\ cur.cached \in Nat /\ Len(cur.blocks) \in Nat /\ L <= Len(cur.blocks)
      BY <1>2, <1>3
    <3>2. Len(s) = L - cur.cached /\ k \in 1 .. L - cur.cached
      BY <2>3
    <3>3. DOMAIN cur.blocks = 1 .. Len(cur.blocks)
      BY <1>2
    <3>4. k \in Int /\ 1 <= k /\ k <= L - cur.cached
      BY ONLY <3>1, <3>2
    <3>5. L - Len(s) + k = m + k - 1
      BY ONLY <3>1, <3>2, <3>4 DEF m
    <3>6. k \in 1 .. L - m + 1
      BY ONLY <3>1, <3>4 DEF m
    <3>7. m + k - 1 \in 1 .. Len(cur.blocks) /\ m + k - 1 > cur.cached
      BY ONLY <3>1, <3>4 DEF m
    <3>. QED  BY <3>3, <3>5, <3>6, <3>7
  <2>. QED  BY <2>1, <2>2, <2>4
<1>5. \A i \in DOMAIN running : CachedWithinPrompt(running[i])'
  BY <1>1 DEF PrivInv, CachedWithinPrompt, is_cached
<1>6. CachedWithinPrompt(cur)'
  BY <1>1 DEF PrivInv, CachedWithinPrompt, is_cached
<1>7. \A k \in DOMAIN cur.blocks : k > cur.cached => ref_counts[cur.blocks[k]] = 1
  BY <1>1 DEF PrivInv
<1>. QED  BY <1>1, <1>2, <1>4, <1>5, <1>6, <1>7 DEF PrivInv

\* A block with one reference has one owner.
LEMMA SoleOwner ==
  ASSUME CountsExact, NEW b \in Blocks, ref_counts[b] = 1,
         NEW s \in 0 .. MaxSeqs, NEW t \in 0 .. MaxSeqs, Owns(s, b), Owns(t, b)
  PROVE  s = t
<1>1. SUFFICES ASSUME s # t PROVE FALSE
  OBVIOUS
<1> DEFINE S == Owners(b)
           R == S \ {s}
<1>2. s \in S /\ t \in S /\ IsFiniteSet(S) /\ Cardinality(S) = 1
  BY OwnersFinite DEF Owners, CountsExact
<1>. HIDE DEF S
<1>3. IsFiniteSet(R) /\ Cardinality(R) = Cardinality(S) - 1
  BY <1>2, FS_RemoveElement
<1>4. Cardinality(R) = 0
  BY <1>2, <1>3
<1>5. R = {}
  BY <1>3, <1>4, FS_EmptySet
<1>. QED  BY <1>1, <1>2, <1>5

LEMMA BatchOwns ==
  ASSUME TypeInv, NEW i \in DOMAIN running, NEW b, In(b, running[i].blocks)
  PROVE  running[i].id \in 0 .. MaxSeqs /\ running[i].id # 0 /\ Owns(running[i].id, b)
<1>1. running[i].id \in 0 .. MaxSeqs /\ running[i].id # 0
  BY TableTypes, SchedulerAssumption DEF SeqId
<1>. QED  BY <1>1 DEF Owns

\* It is in one table.
LEMMA SoleTable ==
  ASSUME TypeInv, CountsExact, Distinct, NEW b \in Blocks, ref_counts[b] = 1
  PROVE  /\ \A i, j \in DOMAIN running :
              In(b, running[i].blocks) /\ In(b, running[j].blocks) => i = j
         /\ \A i \in DOMAIN running : ~(In(b, running[i].blocks) /\ In(b, cur.blocks))
<1>1. ASSUME NEW i \in DOMAIN running, NEW j \in DOMAIN running,
             In(b, running[i].blocks), In(b, running[j].blocks)
      PROVE  i = j
  BY <1>1, BatchOwns, SoleOwner DEF Distinct
<1>2. ASSUME NEW i \in DOMAIN running, In(b, running[i].blocks), In(b, cur.blocks)
      PROVE  FALSE
  <2>1. Owns(0, b) /\ 0 \in 0 .. MaxSeqs
    BY <1>2, SchedulerAssumption DEF Owns
  <2>. QED  BY <1>2, <2>1, BatchOwns, SoleOwner
<1>. QED  BY <1>1, <1>2

\* A block of a table is referenced.
LEMMA OwnedIsReferenced ==
  ASSUME TypeInv, CountsExact, NEW i \in DOMAIN running, NEW b \in Blocks,
         In(b, running[i].blocks)
  PROVE  ref_counts[b] # 0
<1>1. running[i].id \in Owners(b)
  BY BatchOwns DEF Owners
<1>2. IsFiniteSet(Owners(b))
  BY OwnersFinite
<1>3. Cardinality(Owners(b)) # 0
  BY <1>1, <1>2, FS_EmptySet
<1>. QED  BY <1>3 DEF CountsExact

\* A block of the prompt enters the index.
LEMMA PrivRegister ==
  ASSUME SchedInv, OwnInv, PrivInv, RegisterBlock
  PROVE  PrivInv'
<1>1. /\ pc = "register" /\ pc' = "register" /\ claim # <<>> /\ claim' = Tail(claim)
      /\ UNCHANGED <<running, cur, ref_counts>>
  BY DEF RegisterBlock, CacheBlock
<1>2. /\ TypeInv /\ CountsExact /\ Distinct /\ NoRepeat(cur.blocks)
      /\ Len(claim) <= Len(cur.prompt)
  BY <1>1 DEF SchedInv, OwnInv, TablesExact, CallInv
<1>3. /\ cur.blocks \in Seq(Blocks) /\ claim \in Seq(Blocks) /\ cur.cached \in Nat
      /\ Len(cur.prompt) \in Nat /\ Len(claim) \in Nat \ {0} /\ Len(claim') = Len(claim) - 1
  BY <1>1, <1>2, TableTypes, RunningFacts, LenProperties, EmptySeq, HeadTailProperties DEF TypeInv
<1> DEFINE b == Head(claim)
           n == Len(cur.prompt) - Len(claim) + 1
<1>4. /\ 1 \in DOMAIN claim /\ b = claim[1] /\ b \in Blocks
      /\ \A k \in DOMAIN claim' : k \in Nat /\ k + 1 \in DOMAIN claim /\ claim'[k] = claim[k + 1]
  BY <1>1, <1>3, TailOrigin, TailElements
<1>5. DOMAIN by_block' \subseteq DOMAIN by_block \cup {b}
  BY <1>1 DEF RegisterBlock, CacheBlock, Register, RegisterAs
<1>6. n > cur.cached /\ n \in DOMAIN cur.blocks /\ b = cur.blocks[n]
  BY <1>1, <1>4 DEF PrivInv
<1>7. ref_counts[b] = 1 /\ n <= Len(cur.prompt) /\ In(b, cur.blocks)
  BY <1>1, <1>3, <1>6 DEF PrivInv, In
<1>8. \A i \in DOMAIN running : ~In(b, running[i].blocks)
  BY <1>2, <1>4, <1>7, SoleTable
<1>. HIDE DEF b
<1>9. ASSUME NEW i \in DOMAIN running PROVE CachedWithinPrompt(running[i])'
  <2>1. CachedWithinPrompt(running[i]) /\ \A k \in DOMAIN running[i].blocks : running[i].blocks[k] # b
    BY <1>8 DEF PrivInv, In
  <2>. QED  BY <1>1, <1>5, <2>1 DEF CachedWithinPrompt, is_cached
<1>10. \A k \in DOMAIN cur.blocks : cur.blocks[k] = b => k = n
  BY <1>2, <1>6 DEF NoRepeat
<1>11. \A k \in DOMAIN cur.blocks : cur.blocks[k] \in DOMAIN by_block' => k <= Len(cur.prompt)
  BY <1>1, <1>5, <1>7, <1>10 DEF PrivInv, CachedWithinPrompt, is_cached
<1>12. ASSUME NEW k \in DOMAIN claim'
       PROVE  LET m == Len(cur.prompt) - Len(claim') + k
              IN  m > cur.cached /\ m \in DOMAIN cur.blocks /\ claim'[k] = cur.blocks[m]
  <2>1. LET m == Len(cur.prompt) - Len(claim) + (k + 1)
        IN  m > cur.cached /\ m \in DOMAIN cur.blocks /\ claim[k + 1] = cur.blocks[m]
    BY <1>1, <1>4 DEF PrivInv
  <2>2. Len(cur.prompt) - Len(claim') + k = Len(cur.prompt) - Len(claim) + (k + 1)
    <3>1. \A p, l, j \in Nat : p - (l - 1) + j = p - l + (j + 1)
      OBVIOUS
    <3>2. k \in Nat
      BY <1>4
    <3>3. Len(cur.prompt) - (Len(claim) - 1) + k = Len(cur.prompt) - Len(claim) + (k + 1)
      BY <1>3, <3>1, <3>2
    <3>. QED  BY <1>3, <3>3
  <2>. QED  BY <1>4, <2>1, <2>2
<1>. QED  BY <1>1, <1>9, <1>11, <1>12 DEF PrivInv, CachedWithinPrompt, is_cached

\* A token is written: into the tail, a new block or the copy of the tail.
LEMMA PrivAppend ==
  ASSUME SchedInv, OwnInv, PrivInv, [Next]_vars, ~RegisterBlock,
         CowReplace \/ \E i \in DOMAIN running : AppendInPlace(i) \/ AppendFresh(i)
  PROVE  PrivInv'
<1>1. DOMAIN by_block' \subseteq DOMAIN by_block /\ AllocInv /\ TypeInv
  BY NoNewCached DEF SchedInv
<1>2. pc' = "decode"
  BY DEF CowReplace, AppendInPlace, AppendFresh, Decoding
<1>3. ASSUME NEW i \in DOMAIN running, NEW bs \in Seq(Blocks), NEW cow,
             Appended(i, bs, cow), todo # <<>>,
             \A k \in DOMAIN bs : \/ k \in DOMAIN running[i].blocks /\ bs[k] = running[i].blocks[k]
                                  \/ bs[k] \notin DOMAIN by_block'
      PROVE  PrivInv'
  <2>1. /\ DOMAIN running' = DOMAIN running
        /\ \A j \in DOMAIN running \ {i} : running'[j] = running[j]
        /\ running'[i].blocks = bs /\ running'[i].prompt = running[i].prompt
    BY <1>1, <1>3, AppendedFacts
  <2>2. \A j \in DOMAIN running : CachedWithinPrompt(running[j])
    BY DEF PrivInv
  <2>3. \A k \in DOMAIN bs : bs[k] \in DOMAIN by_block' => k <= Len(running'[i].prompt)
    BY <1>1, <1>3, <2>1, <2>2 DEF CachedWithinPrompt, is_cached
  <2>4. \A j \in DOMAIN running' : \A k \in DOMAIN running'[j].blocks :
          running'[j].blocks[k] \in DOMAIN by_block' => k <= Len(running'[j].prompt)
    BY <1>1, <2>1, <2>2, <2>3 DEF CachedWithinPrompt, is_cached
  <2>. QED  BY <1>2, <2>4 DEF PrivInv, CachedWithinPrompt, is_cached
<1>4. ASSUME NEW i \in DOMAIN running, AppendInPlace(i) PROVE PrivInv'
  <2>1. Appended(i, running[i].blocks, <<>>) /\ todo # <<>>
    BY <1>4 DEF AppendInPlace, Decoding
  <2>. QED  BY <1>1, <1>3, <2>1, TableTypes
<1>5. ASSUME NEW i \in DOMAIN running, AppendFresh(i) PROVE PrivInv'
  <2>1. PICK x \in Blocks : Allocate(x) /\ Appended(i, Append(running[i].blocks, x), <<>>)
    BY <1>5 DEF AppendFresh
  <2> DEFINE bs == Append(running[i].blocks, x)
  <2>2. Appended(i, bs, <<>>) /\ todo # <<>>
    BY <1>5, <2>1 DEF AppendFresh, Decoding
  <2>3. x \notin DOMAIN by_block'
    BY <1>1, <2>1, AllocatedFacts
  <2>4. /\ bs \in Seq(Blocks)
        /\ DOMAIN bs = DOMAIN running[i].blocks \cup {Len(running[i].blocks) + 1}
        /\ \A k \in DOMAIN running[i].blocks : bs[k] = running[i].blocks[k]
        /\ bs[Len(running[i].blocks) + 1] = x
    BY <1>1, TableTypes, TableFacts, AppendOrigin
  <2>. HIDE DEF bs
  <2>. QED  BY <1>3, <2>2, <2>3, <2>4
<1>6. CASE CowReplace
  <2> DEFINE i == Pos(Head(todo))
             dst == Head(cur.blocks)
             bs == [running[i].blocks EXCEPT ![Len(running[i].blocks)] = dst]
  <2>1. /\ i \in DOMAIN running /\ todo # <<>> /\ dst \in Blocks /\ running[i].blocks # <<>>
        /\ Appended(i, bs, CopyPair(TailOf(running[i]), dst)) /\ pc = "cow"
    BY <1>6, CowFacts DEF CowReplace
  <2>2. dst \notin DOMAIN by_block'
    BY <1>1, <2>1 DEF PrivInv, is_cached
  <2>. HIDE DEF i, dst
  <2>3. bs \in Seq(Blocks)
    BY <1>1, <2>1, TableFacts
  <2>4. \A k \in DOMAIN bs : \/ k \in DOMAIN running[i].blocks /\ bs[k] = running[i].blocks[k]
                            \/ bs[k] = dst
    OBVIOUS
  <2>. HIDE DEF bs
  <2>. QED  BY <1>3, <2>1, <2>2, <2>3, <2>4
<1>. QED  BY <1>4, <1>5, <1>6

\* The block of a copy.
LEMMA PrivCow ==
  ASSUME SchedInv, PrivInv, [Next]_vars, ~RegisterBlock,
         \E i \in DOMAIN running : CowAllocate(i)
  PROVE  PrivInv'
<1>1. DOMAIN by_block' \subseteq DOMAIN by_block /\ AllocInv
  BY NoNewCached DEF SchedInv
<1>2. PICK x \in Blocks : Allocate(x) /\ cur' = [NoSeq EXCEPT !.blocks = <<x>>]
  BY DEF CowAllocate
<1>3. pc' = "cow" /\ running' = running
  BY DEF CowAllocate
<1>4. x \notin DOMAIN by_block' /\ ref_counts'[x] = 1 /\ cur'.blocks[1] = x
  BY <1>1, <1>2, AllocatedFacts DEF NoSeq
<1>. QED  BY <1>1, <1>3, <1>4 DEF PrivInv, CachedWithinPrompt, is_cached

LEMMA PrivKept == ASSUME SchedInv, OwnInv, PrivInv, [Next]_vars PROVE PrivInv'
<1>1. CASE UNCHANGED vars
  BY <1>1, PrivStutter DEF vars, allocVars, callVars
<1>2. CASE RegisterBlock
  BY <1>2, PrivRegister
<1>3. CASE Client /\ ~RegisterBlock
  BY <1>3, PrivQuiet, PrivClaim DEF Client
<1>4. CASE Step /\ ~RegisterBlock
  BY <1>4, PrivQuiet, PrivClaim, PrivJoin, PrivForkBlock, PrivAcquire, PrivFill, PrivFillEnd,
     PrivAppend, PrivCow
  DEF Step
<1>. QED  BY <1>1, <1>2, <1>3, <1>4 DEF Next

LEMMA PrivInit == Init => PrivInv
BY EmptyTable DEF Init, PrivInv

-----------------------------------------------------------------------------
(* The slots a step hands out.                                             *)

Decoded == [id : SeqId, cow : Seq(Blocks), slot : [block : Blocks, offset : Nat]]

\* d's slot is the last position of t, in a block that only t has.
PrivateSlot(d, t) ==
  /\ d.slot = slot_for_position(t, t.num_tokens - 1)
  /\ In(d.slot.block, t.blocks)
  /\ ref_counts[d.slot.block] = 1
  /\ ~is_cached(d.slot.block)

\* Who has decoded is not visited again and stays in the batch until all are
\* visited; its slot is private as long as it is in the batch.
SlotsInv ==
  \A k \in DOMAIN outcome.decoded :
    LET d == outcome.decoded[k]
    IN  /\ ~In(d.id, todo)
        /\ todo # <<>> => IsRunning(d.id)
        /\ d.cow # <<>> => d.cow[2] = d.slot.block
        /\ \A i \in DOMAIN running : running[i].id = d.id => PrivateSlot(d, running[i])

DecodedInv ==
  /\ "decoded" \in DOMAIN outcome /\ outcome.decoded \in Seq(Decoded)
  /\ pc \in {"reserve", "admit", "build", "register"} => outcome.decoded = <<>>
  /\ Stepping => SlotsInv
  /\ CopiesSafeInOrder

\* The position of a new token lies in the table's last block.
LEMMA SlotIsTail ==
  ASSUME NEW t, NEW n \in Nat, t.num_tokens = n + 1, HoldsWhatItNeeds(t)
  PROVE  slot_for_position(t, n) = [block |-> TailOf(t), offset |-> n % BlockSize]
<1> DEFINE B == BlockSize
           q == n \div B
           r == n % B
<1>1. B \in Nat \ {0}
  BY BlockTableAssumption
<1>2. q \in Nat /\ r \in 0 .. B - 1 /\ n = q * B + r
  BY <1>1
<1>. HIDE DEF q, r, B
<1>3. (n + 1) + B - 1 = (q + 1) * B + r
  BY <1>1, <1>2
<1>4. \A a \in Nat, d \in 0 .. B - 1 : (a * B + d) \div B = a
  BY <1>1
<1>5. ((n + 1) + B - 1) \div B = q + 1
  BY <1>2, <1>3, <1>4
<1>6. Len(t.blocks) = q + 1
  BY <1>5 DEF HoldsWhatItNeeds, blocks_for_tokens, CeilDiv, B
<1>. QED  BY <1>6 DEF slot_for_position, TailOf, q, B

\* A block beyond the prompt: the tail of a table with room in it.
LEMMA RoomBeyondPrompt ==
  ASSUME NEW t \in Running, HoldsWhatItNeeds(t), Covered(t.prompt, t.num_tokens),
         last_block_has_room(t)
  PROVE  Len(t.blocks) > Len(t.prompt)
<1> DEFINE B == BlockSize
           n == t.num_tokens
           p == Len(t.prompt)
           q == n \div B
           r == n % B
<1>1. B \in Nat \ {0} /\ n \in Nat /\ p \in Nat
  BY BlockTableAssumption, RunningFacts, LenProperties DEF Running
<1>2. q \in Nat /\ r \in 1 .. B - 1 /\ n = q * B + r
  <2>1. r # 0
    BY DEF last_block_has_room
  <2>. HIDE DEF n, B
  <2>2. q \in Nat /\ r \in 0 .. B - 1 /\ n = q * B + r
    BY <1>1
  <2>. QED  BY <1>1, <2>1, <2>2
<1>3. p * B <= n /\ Len(t.blocks) = blocks_for_tokens(n)
  BY DEF Covered, HoldsWhatItNeeds
<1>. HIDE DEF q, r, n, p, B
<1>4. \A a \in Nat, d \in 0 .. B - 1 : (a * B + d) \div B = a
  BY <1>1
<1>5. n + B - 1 = (q + 1) * B + (r - 1) /\ r - 1 \in 0 .. B - 1 /\ q + 1 \in Nat
  BY <1>1, <1>2
<1>6. (n + B - 1) \div B = q + 1
  BY <1>4, <1>5
<1>7. Len(t.blocks) = q + 1
  BY <1>3, <1>6 DEF blocks_for_tokens, CeilDiv, B
<1>8. p <= q
  <2>1. p > q => p * B >= (q + 1) * B
    BY <1>1, <1>2
  <2>2. (q + 1) * B = q * B + B /\ q * B \in Nat /\ p * B \in Nat
    BY <1>1, <1>2
  <2>. QED  BY <1>1, <1>2, <1>3, <2>1, <2>2
<1>9. q + 1 > p
  BY <1>1, <1>2, <1>8
<1>. QED  BY <1>7, <1>9 DEF p

\* Outside the loops that decode, preempt and retire.
LEMMA DecodedOutside ==
  ASSUME DecodedInv, outcome' = outcome, ~Stepping',
         pc' \notin {"reserve", "admit", "build", "register"}
  PROVE  DecodedInv'
BY DEF DecodedInv, CopiesSafeInOrder

\* Before anything is decoded.
LEMMA DecodedNone ==
  ASSUME "decoded" \in DOMAIN outcome', outcome'.decoded = <<>>
  PROVE  DecodedInv'
<1>1. DOMAIN outcome'.decoded = {} /\ outcome'.decoded \in Seq(Decoded)
  BY EmptyTable
<1>. QED  BY <1>1 DEF DecodedInv, SlotsInv, CopiesSafeInOrder

\* PrivateSlot after the step.
SlotStays(d, t) ==
  /\ d.slot = slot_for_position(t, t.num_tokens - 1)
  /\ In(d.slot.block, t.blocks)
  /\ ref_counts'[d.slot.block] = 1
  /\ d.slot.block \notin DOMAIN by_block'

\* A step that decodes nothing: it keeps the tables of the sequences that stay
\* in the batch, and their blocks.
LEMMA DecodedQuiet ==
  ASSUME DecodedInv, Stepping, "decoded" \in DOMAIN outcome',
         pc' \notin {"reserve", "admit", "build", "register"},
         outcome'.decoded = outcome.decoded,
         DOMAIN by_block' \subseteq DOMAIN by_block,
         \A y : In(y, todo') => In(y, todo),
         \A j \in DOMAIN running' : \E i \in DOMAIN running : running'[j] = running[i],
         todo' # <<>> =>
           /\ todo # <<>>
           /\ \A k \in DOMAIN outcome.decoded :
                \E j \in DOMAIN running' : running'[j].id = outcome.decoded[k].id,
         \A i \in DOMAIN running, b \in Blocks :
           ref_counts[b] = 1 /\ In(b, running[i].blocks) => ref_counts'[b] = 1
  PROVE  DecodedInv'
<1>1. ASSUME NEW k \in DOMAIN outcome.decoded,
             NEW j \in DOMAIN running', running'[j].id = outcome.decoded[k].id
      PROVE  SlotStays(outcome.decoded[k], running'[j])
  <2>1. PICK d \in Decoded : d = outcome.decoded[k]
    BY DEF DecodedInv
  <2>2. PICK i \in DOMAIN running : running'[j] = running[i]
    OBVIOUS
  <2>3. PrivateSlot(d, running[i])
    BY <1>1, <2>1, <2>2 DEF DecodedInv, SlotsInv
  <2>4. d.slot.block \in Blocks
    BY <2>1 DEF Decoded
  <2>5. SlotStays(d, running[i])
    BY <2>3, <2>4 DEF PrivateSlot, SlotStays, is_cached
  <2>. QED  BY <2>1, <2>2, <2>5
<1>2. SlotsInv'
  BY <1>1 DEF DecodedInv, SlotsInv, PrivateSlot, SlotStays, slot_for_position, is_cached, IsRunning
<1>3. CopiesSafeInOrder'
  BY DEF DecodedInv, CopiesSafeInOrder
<1>. QED  BY <1>2, <1>3 DEF DecodedInv

\* An id visited in the batch is visited once.
LEMMA VisitedOnce ==
  ASSUME TypeInv, VisitInv, todo # <<>>, NEW i \in DOMAIN running, running[i].id = Head(todo)
  PROVE  /\ ~In(Head(todo), Tail(todo))
         /\ \A y : In(y, Tail(todo)) => In(y, todo)
         /\ In(Head(todo), todo)
<1>1. /\ \A y : In(y, todo) <=> y = Head(todo) \/ In(y, Tail(todo))
      /\ 1 \in DOMAIN todo /\ Head(todo) = todo[1]
      /\ \A k \in DOMAIN Tail(todo) :
           k \in Nat \ {0} /\ k + 1 \in DOMAIN todo /\ Tail(todo)[k] = todo[k + 1]
  BY TailIn, TailOrigin DEF TypeInv
<1>2. ASSUME In(Head(todo), Tail(todo)) PROVE FALSE
  <2>1. PICK k \in DOMAIN Tail(todo) : Tail(todo)[k] = Head(todo)
    BY <1>2 DEF In
  <2>2. 1 < k + 1 /\ k + 1 \in DOMAIN todo /\ todo[k + 1] = running[i].id
    BY <1>1, <2>1
  <2>3. i \in Int
    BY LenProperties DEF TypeInv
  <2>. QED  BY <1>1, <2>2, <2>3 DEF VisitInv
<1>. QED  BY <1>1, <1>2

\* A token is written into the table of the i-th sequence, whose last block is
\* then b.
LEMMA DecodedAppend ==
  ASSUME SchedInv, OwnInv, DecodedInv, TablesExact', Stepping, pc' = "decode",
         DOMAIN by_block' \subseteq DOMAIN by_block,
         NEW i \in DOMAIN running, NEW bs \in Seq(Blocks), NEW cow \in Seq(Blocks),
         Appended(i, bs, cow), todo # <<>>, running[i].id = Head(todo), bs # <<>>,
         NEW b \in Blocks, b = bs[Len(bs)], ref_counts'[b] = 1, b \notin DOMAIN by_block',
         cow # <<>> => cow[2] = b,
         \A j \in DOMAIN running \ {i}, y \in Blocks :
           ref_counts[y] = 1 /\ In(y, running[j].blocks) =>
             ref_counts'[y] = 1 /\ (cow # <<>> => y # cow[1] /\ y # cow[2])
  PROVE  DecodedInv'
<1>1. /\ TypeInv /\ Distinct /\ VisitInv
  BY DEF SchedInv, BudgetInv
<1> DEFINE u == running'[i]
           new == [id |-> u.id, cow |-> cow,
                   slot |-> slot_for_position(u, u.num_tokens - 1)]
<1>2. /\ DOMAIN running' = DOMAIN running
      /\ \A j \in DOMAIN running \ {i} : running'[j] = running[j]
      /\ u.id = running[i].id /\ u.blocks = bs
      /\ u.num_tokens = running[i].num_tokens + 1
      /\ todo' = Tail(todo)
  BY <1>1, AppendedFacts
<1>3. /\ running[i].id \in SeqId /\ running[i].num_tokens \in Nat
      /\ running[i].num_tokens % BlockSize \in Nat
  <2>1. running[i].id \in SeqId /\ running[i].num_tokens \in Nat
    BY <1>1, TableTypes
  <2>. QED  BY <2>1, BlockTableAssumption
<1>4. outcome'.decoded = Append(outcome.decoded, new) /\ "decoded" \in DOMAIN outcome'
  <2> DEFINE t == [running[i] EXCEPT !.blocks = bs, !.num_tokens = @ + 1, !.generated = @ + 1]
  <2>1. /\ running' = [running EXCEPT ![i] = t]
        /\ outcome' = [outcome EXCEPT !.decoded =
                         Append(@, [id |-> t.id, cow |-> cow,
                                    slot |-> slot_for_position(t, t.num_tokens - 1)])]
    BY DEF Appended
  <2>. HIDE DEF t
  <2>2. u = t
    BY <2>1
  <2>. QED  BY <2>1, <2>2 DEF DecodedInv
<1>5. new.slot = [block |-> b, offset |-> running[i].num_tokens % BlockSize]
      /\ new.slot = slot_for_position(u, u.num_tokens - 1)
  <2>1. HoldsWhatItNeeds(u)
    BY <1>2 DEF TablesExact, HoldsWhatItNeeds
  <2>2. slot_for_position(u, running[i].num_tokens)
          = [block |-> TailOf(u), offset |-> running[i].num_tokens % BlockSize]
    BY <1>2, <1>3, <2>1, SlotIsTail
  <2>3. u.num_tokens - 1 = running[i].num_tokens
    BY <1>2, <1>3
  <2>. QED  BY <1>2, <2>2, <2>3 DEF TailOf
<1>6. new.id = Head(todo) /\ new.cow = cow /\ new.slot.block = b
  BY <1>2, <1>5
<1>7. new \in Decoded
  BY <1>2, <1>3, <1>5 DEF Decoded
<1>8. In(b, bs)
  BY FrontElements
<1>9. SlotStays(new, u)
  BY <1>2, <1>5, <1>6, <1>8 DEF SlotStays
<1>. HIDE DEF new, u
<1>10. outcome.decoded \in Seq(Decoded)
  BY DEF DecodedInv
<1> DEFINE n == Len(outcome.decoded) + 1
<1>11. /\ DOMAIN outcome'.decoded = DOMAIN outcome.decoded \cup {n}
       /\ n \notin DOMAIN outcome.decoded
       /\ \A k \in DOMAIN outcome.decoded : outcome'.decoded[k] = outcome.decoded[k]
       /\ outcome'.decoded[n] = new
       /\ outcome'.decoded \in Seq(Decoded)
       /\ \A k \in DOMAIN outcome.decoded : k < n
       /\ n \in Nat /\ DOMAIN outcome.decoded \subseteq Nat
  <2>1. outcome'.decoded \in Seq(Decoded)
    BY <1>4, <1>7, <1>10, AppendProperties
  <2>2. DOMAIN outcome.decoded = 1 .. Len(outcome.decoded) /\ Len(outcome.decoded) \in Nat
    BY <1>10, LenProperties
  <2>3. (\A k \in DOMAIN outcome.decoded : k < n) /\ n \in Nat /\ DOMAIN outcome.decoded \subseteq Nat
    BY <2>2
  <2>4. outcome'.decoded = Append(outcome.decoded, new)
    BY <1>4
  <2>5. /\ DOMAIN Append(outcome.decoded, new) = DOMAIN outcome.decoded \cup {n}
        /\ n \notin DOMAIN outcome.decoded
        /\ \A k \in DOMAIN outcome.decoded : Append(outcome.decoded, new)[k] = outcome.decoded[k]
        /\ Append(outcome.decoded, new)[n] = new
    BY ONLY <1>7, <1>10, AppendOrigin DEF n
  <2>. QED  BY <2>1, <2>3, <2>4, <2>5
<1>. HIDE DEF n
\* The slots of those that have decoded before.
<1>12. ASSUME NEW k \in DOMAIN outcome.decoded
       PROVE  LET d == outcome.decoded[k]
              IN  /\ ~In(d.id, todo) /\ d.id # Head(todo)
                  /\ d.cow # <<>> => d.cow[2] = d.slot.block
                  /\ \E j \in DOMAIN running \ {i} :
                       running[j].id = d.id /\ PrivateSlot(d, running[j])
                  /\ \A j \in DOMAIN running' : running'[j].id = d.id => SlotStays(d, running'[j])
  <2>1. PICK d \in Decoded : d = outcome.decoded[k]
    BY <1>10
  <2>2. /\ ~In(d.id, todo) /\ IsRunning(d.id) /\ (d.cow # <<>> => d.cow[2] = d.slot.block)
        /\ \A j \in DOMAIN running : running[j].id = d.id => PrivateSlot(d, running[j])
    BY <2>1 DEF DecodedInv, SlotsInv
  <2>3. d.id # Head(todo)
    BY <1>1, <2>2, VisitedOnce
  <2>4. PICK j \in DOMAIN running \ {i} : running[j].id = d.id /\ PrivateSlot(d, running[j])
    BY <2>2, <2>3 DEF IsRunning
  <2>5. ASSUME NEW l \in DOMAIN running', running'[l].id = d.id
        PROVE  SlotStays(d, running'[l])
    <3>1. l \in DOMAIN running \ {i} /\ running'[l] = running[l]
      BY <1>2, <2>3, <2>5 DEF u
    <3>2. PrivateSlot(d, running[l]) /\ d.slot.block \in Blocks
      BY <2>1, <2>2, <2>5, <3>1 DEF Decoded
    <3>3. SlotStays(d, running[l])
      BY <3>1, <3>2 DEF PrivateSlot, SlotStays, is_cached
    <3>. QED  BY <3>1, <3>3
  <2>. QED  BY <2>1, <2>2, <2>3, <2>4, <2>5
<1>13. ASSUME NEW k \in DOMAIN outcome'.decoded
       PROVE  LET d == outcome'.decoded[k]
              IN  /\ ~In(d.id, todo')
                  /\ \E j \in DOMAIN running' : running'[j].id = d.id
                  /\ d.cow # <<>> => d.cow[2] = d.slot.block
                  /\ \A j \in DOMAIN running' : running'[j].id = d.id => SlotStays(d, running'[j])
  <2>1. CASE k = n
    <3>1. \A j \in DOMAIN running' : running'[j].id = new.id => j = i
      BY <1>1, <1>2, <1>6 DEF Distinct, u
    <3>2. ~In(new.id, todo')
      BY <1>1, <1>2, <1>6, VisitedOnce
    <3>. QED  BY <1>2, <1>6, <1>9, <1>11, <2>1, <3>1, <3>2 DEF u
  <2>2. CASE k \in DOMAIN outcome.decoded
    <3>1. \A j \in DOMAIN running \ {i} : running'[j] = running[j] /\ j \in DOMAIN running'
      BY <1>2
    <3>2. \A y : In(y, todo') => In(y, todo)
      BY <1>1, <1>2, VisitedOnce
    <3>. QED  BY <1>11, <1>12, <2>2, <3>1, <3>2
  <2>. QED  BY <1>11, <2>1, <2>2
<1>14. SlotsInv'
  BY <1>13 DEF SlotsInv, PrivateSlot, SlotStays, slot_for_position, is_cached, IsRunning
\* The new copy after the earlier ones.
<1>15. ASSUME NEW k \in DOMAIN outcome.decoded, cow # <<>>, outcome.decoded[k].cow # <<>>
       PROVE  outcome.decoded[k].cow[2] # cow[1] /\ outcome.decoded[k].cow[2] # cow[2]
  <2>1. PICK d \in Decoded : d = outcome.decoded[k]
    BY <1>10
  <2>2. PICK j \in DOMAIN running \ {i} : PrivateSlot(d, running[j])
    BY <1>12, <2>1
  <2>3. d.cow[2] = d.slot.block /\ d.slot.block \in Blocks
    BY <1>12, <1>15, <2>1 DEF Decoded
  <2>4. ref_counts[d.slot.block] = 1 /\ In(d.slot.block, running[j].blocks)
    BY <2>2 DEF PrivateSlot
  <2>. QED  BY <1>15, <2>1, <2>3, <2>4
<1>16. CopiesSafeInOrder'
  <2> SUFFICES ASSUME NEW k \in DOMAIN outcome'.decoded, NEW l \in DOMAIN outcome'.decoded,
                      k < l, outcome'.decoded[k].cow # <<>>, outcome'.decoded[l].cow # <<>>
               PROVE  /\ outcome'.decoded[k].cow[2] # outcome'.decoded[l].cow[1]
                      /\ outcome'.decoded[k].cow[2] # outcome'.decoded[l].cow[2]
    BY DEF CopiesSafeInOrder
  <2>1. CASE l = n
    <3>1. k \in DOMAIN outcome.decoded
      BY <1>11, <2>1
    <3>. QED  BY <1>6, <1>11, <1>15, <2>1, <3>1
  <2>2. CASE l \in DOMAIN outcome.decoded
    <3>1. k \in DOMAIN outcome.decoded
      BY <1>11, <2>2
    <3>. QED  BY <1>11, <2>2, <3>1 DEF DecodedInv, CopiesSafeInOrder
  <2>. QED  BY <1>11, <2>1, <2>2
<1>. QED  BY <1>4, <1>11, <1>14, <1>16 DEF DecodedInv

\* Calls other than step, and the parts of step before decode.
LEMMA DecodedElsewhere ==
  ASSUME DecodedInv, [Next]_vars,
         \/ UNCHANGED vars \/ Client \/ ForkBlock \/ ForkEnd \/ StepEnd
         \/ StepBegin \/ Reserve \/ ReserveEnd \/ AdmitNext \/ AdmitEnd
         \/ Acquire \/ Fill \/ FillEnd \/ RegisterBlock \/ RegisterEnd
         \/ pc = "finish" /\ (ReleaseBlock \/ ReleaseEnd)
  PROVE  DecodedInv'
<1>1. CASE UNCHANGED vars
  BY <1>1 DEF vars, allocVars, callVars, DecodedInv, SlotsInv, CopiesSafeInOrder, Stepping,
              PrivateSlot, slot_for_position, is_cached, IsRunning
<1>2. CASE \/ Client \/ ForkBlock \/ ForkEnd \/ StepEnd
           \/ pc = "finish" /\ (ReleaseBlock \/ ReleaseEnd)
  <2>1. outcome' = outcome /\ pc' \in {"idle", "fork", "finish"}
    BY <1>2 DEF Client, Enqueue, FinishRunning, FinishWaiting, Fork, ForkBlock, ForkEnd,
                StepEnd, ReleaseBlock, ReleaseEnd, callVars
  <2>. QED  BY <2>1, DecodedOutside DEF Stepping
<1>3. CASE StepBegin
  BY <1>3, DecodedNone DEF StepBegin, NoOutcome
<1>4. CASE \/ Reserve \/ ReserveEnd \/ AdmitNext \/ AdmitEnd
           \/ Acquire \/ Fill \/ FillEnd \/ RegisterBlock
  <2>1. outcome' = outcome /\ pc \in {"reserve", "admit", "build", "register"}
    BY <1>4 DEF Reserve, ReserveEnd, AdmitNext, AdmitEnd, Acquire, Fill, FillEnd, RegisterBlock
  <2>. QED  BY <2>1, DecodedNone DEF DecodedInv
<1>5. CASE RegisterEnd
  <2>1. /\ pc = "register"
        /\ outcome' = [outcome EXCEPT !.admitted = Append(@, [id |-> cur.id, cached |-> cur.cached])]
    BY <1>5 DEF RegisterEnd
  <2>2. outcome'.decoded = outcome.decoded /\ DOMAIN outcome' = DOMAIN outcome
    BY <2>1 DEF DecodedInv
  <2>. QED  BY <2>1, <2>2, DecodedNone DEF DecodedInv
<1>. QED  BY <1>1, <1>2, <1>3, <1>4, <1>5

\* The victim of a preemption is still to be visited.
LEMMA VictimToVisit ==
  ASSUME SchedInv, NEW i \in DOMAIN running, Preempt(i)
  PROVE  In(running[VictimIndex].id, todo)
<1>1. TypeInv /\ VisitInv /\ todo # <<>> /\ running[i].id = Head(todo)
  BY DEF Preempt, Decoding, Stepping, SchedInv, BudgetInv
<1>2. VictimIndex \in DOMAIN running /\ i <= VictimIndex
  BY <1>1, VictimFacts
<1>3. In(Head(todo), todo)
  BY <1>1, VisitedOnce
<1>4. i = VictimIndex \/ i < VictimIndex
  BY <1>1, <1>2, LenProperties DEF TypeInv
<1>. QED  BY <1>1, <1>2, <1>3, <1>4 DEF VisitInv

\* Steps of the decode loop and of retirement that write no token.
LEMMA DecodedSame ==
  ASSUME SchedInv, OwnInv, DecodedInv, [Next]_vars, ~RegisterBlock, Stepping,
         \/ DecodeSkip \/ PreemptEnd \/ ReleaseBlock \/ ReleaseEnd
         \/ \E i \in DOMAIN running : CowAllocate(i) \/ Preempt(i) \/ Retire(i)
  PROVE  DecodedInv'
<1>1. /\ DOMAIN by_block' \subseteq DOMAIN by_block
      /\ AllocInv /\ TypeInv /\ Distinct /\ CountsExact /\ VisitInv
      /\ running \in Seq(Running)
  BY NoNewCached DEF SchedInv, OwnInv, BudgetInv, TypeInv
<1>2. /\ "decoded" \in DOMAIN outcome
      /\ \A k \in DOMAIN outcome.decoded :
           todo # <<>> => \E j \in DOMAIN running : running[j].id = outcome.decoded[k].id
  BY DEF DecodedInv, SlotsInv, IsRunning
<1>3. CASE PreemptEnd \/ ReleaseEnd
  <2>1. /\ UNCHANGED <<outcome, todo, running, ref_counts, by_block>>
        /\ pc' \notin {"reserve", "admit", "build", "register"}
    BY <1>3 DEF PreemptEnd, ReleaseEnd, allocVars
  <2>. QED  BY <1>1, <1>2, <2>1, DecodedQuiet
<1>4. CASE DecodeSkip
  <2>1. /\ UNCHANGED <<outcome, running, ref_counts, by_block>> /\ pc' = "decode"
        /\ todo # <<>> /\ todo' = Tail(todo)
    BY <1>4 DEF DecodeSkip, allocVars
  <2>2. \A y : In(y, todo') => In(y, todo)
    BY <1>1, <2>1, TailIn DEF TypeInv
  <2>. QED  BY <1>1, <1>2, <2>1, <2>2, DecodedQuiet
<1>5. CASE ReleaseBlock
  <2>1. /\ UNCHANGED <<outcome, todo, running, pc>> /\ cur.blocks # <<>>
        /\ Decref(TailOf(cur))
    BY <1>5 DEF ReleaseBlock
  <2>2. cur.blocks \in Seq(Blocks) /\ ref_counts \in [Blocks -> 0 .. MaxRefCount]
    BY <1>1, TableTypes DEF AllocInv, AllocTypeOK
  <2>3. In(TailOf(cur), cur.blocks)
    BY <2>1, <2>2, FrontElements DEF TailOf
  <2>4. ASSUME NEW i \in DOMAIN running, NEW b \in Blocks,
               ref_counts[b] = 1, In(b, running[i].blocks)
        PROVE  ref_counts'[b] = 1
    <3>1. b # TailOf(cur)
      BY <1>1, <2>3, <2>4, SoleTable
    <3>. QED  BY <2>1, <2>2, <2>4, <3>1 DEF Decref
  <2>. QED  BY <1>1, <1>2, <2>1, <2>4, DecodedQuiet DEF Stepping
<1>6. ASSUME NEW i \in DOMAIN running, CowAllocate(i) PROVE DecodedInv'
  <2>1. /\ UNCHANGED <<outcome, todo, running>> /\ pc' = "cow"
    BY <1>6 DEF CowAllocate
  <2>2. PICK x \in Blocks : Allocate(x)
    BY <1>6 DEF CowAllocate
  <2>3. ref_counts[x] = 0 /\ \A y \in Blocks : y # x => ref_counts'[y] = ref_counts[y]
    BY <1>1, <2>2, AllocatedFacts, AllocatedIsNew
  <2>4. \A b \in Blocks : ref_counts[b] = 1 => ref_counts'[b] = 1
    BY <2>3
  <2>. QED  BY <1>1, <1>2, <2>1, <2>4, DecodedQuiet
<1>7. ASSUME NEW i \in DOMAIN running, Preempt(i) PROVE DecodedInv'
  <2> DEFINE victim == running[VictimIndex]
  <2>1. /\ running' = RemoveAt(running, VictimIndex)
        /\ UNCHANGED <<todo, ref_counts, by_block>> /\ pc' = "preempt"
        /\ todo # <<>> /\ running[i].id = Head(todo)
        /\ outcome' = [outcome EXCEPT !.decoded = Retained(@, victim.id),
                                      !.preempted = Append(@, victim.id)]
    BY <1>7 DEF Preempt, Decoding, allocVars
  <2>2. /\ VictimIndex \in DOMAIN running /\ i <= VictimIndex
        /\ VictimIndex = Len(running) /\ Len(running') = Len(running) - 1
        /\ DOMAIN running = 1 .. Len(running) /\ DOMAIN running' = 1 .. Len(running')
        /\ Len(running) \in Nat
        /\ \A j \in DOMAIN running' : j \in DOMAIN running /\ running'[j] = running[j]
    <3>1. VictimIndex = Len(running)
      BY DEF VictimIndex
    <3>2. /\ VictimIndex \in DOMAIN running /\ i <= VictimIndex
          /\ running' \in Seq(Running) /\ Len(running') = Len(running) - 1
          /\ \A j \in DOMAIN running' : j \in DOMAIN running /\ running'[j] = running[j]
      BY <1>1, <2>1, VictimFacts
    <3>. QED  BY <1>1, <3>1, <3>2, LenProperties
  <2>3. In(victim.id, todo)
    BY <1>7, VictimToVisit
  <2>4. \A k \in DOMAIN outcome.decoded : outcome.decoded[k].id # victim.id
    BY <2>3 DEF DecodedInv, SlotsInv
  <2>5. Retained(outcome.decoded, victim.id) = outcome.decoded
    BY <2>4 DEF Retained
  <2>6. outcome'.decoded = outcome.decoded /\ "decoded" \in DOMAIN outcome'
    BY <1>2, <2>1, <2>5
  <2>. HIDE DEF victim
  <2>7. ASSUME NEW k \in DOMAIN outcome.decoded
        PROVE  \E j \in DOMAIN running' : running'[j].id = outcome.decoded[k].id
    <3>1. PICK j \in DOMAIN running : running[j].id = outcome.decoded[k].id
      BY <1>2, <2>1
    <3>2. j # VictimIndex
      BY <2>4, <3>1 DEF victim
    <3>3. j \in DOMAIN running'
      BY <2>2, <3>2
    <3>. QED  BY <2>2, <3>1, <3>3
  <2>. QED  BY <1>1, <2>1, <2>2, <2>6, <2>7, DecodedQuiet
<1>8. ASSUME NEW i \in DOMAIN running, Retire(i) PROVE DecodedInv'
  <2>1. /\ running' = RemoveAt(running, i) /\ pc' = "retire"
        /\ UNCHANGED <<todo, ref_counts, by_block>> /\ todo = <<>>
        /\ outcome' = [outcome EXCEPT !.finished = Append(@, running[i].id)]
    BY <1>8 DEF Retire, allocVars
  <2>2. \A j \in DOMAIN running' : \E k \in DOMAIN running : running'[j] = running[k]
    BY <1>1, <2>1, RemoveAtElements
  <2>3. outcome'.decoded = outcome.decoded /\ "decoded" \in DOMAIN outcome'
    BY <1>2, <2>1
  <2>. QED  BY <1>1, <2>1, <2>2, <2>3, DecodedQuiet
<1>. QED  BY <1>3, <1>4, <1>5, <1>6, <1>7, <1>8

\* A token is written.
LEMMA DecodedWrites ==
  ASSUME SchedInv, OwnInv, PrivInv, DecodedInv, [Next]_vars, ~RegisterBlock,
         CowReplace \/ \E i \in DOMAIN running : AppendInPlace(i) \/ AppendFresh(i)
  PROVE  DecodedInv'
<1>1. /\ DOMAIN by_block' \subseteq DOMAIN by_block
      /\ AllocInv /\ TypeInv /\ Distinct /\ CountsExact /\ TablesExact
      /\ ref_counts \in [Blocks -> 0 .. MaxRefCount]
  BY NoNewCached DEF SchedInv, OwnInv, AllocInv, AllocTypeOK
<1>2. TablesExact'
  BY OwnNext DEF OwnInv
<1>3. Stepping /\ pc' = "decode"
  BY DEF CowReplace, AppendInPlace, AppendFresh, Decoding, Stepping
<1>4. ASSUME NEW i \in DOMAIN running, AppendInPlace(i) PROVE DecodedInv'
  <2> DEFINE bs == running[i].blocks
             b == bs[Len(bs)]
  <2>1. /\ Appended(i, bs, <<>>) /\ todo # <<>> /\ running[i].id = Head(todo)
        /\ UNCHANGED <<ref_counts, by_block>>
        /\ last_block_has_room(running[i]) /\ ~needs_cow(running[i])
    BY <1>4 DEF AppendInPlace, Decoding, allocVars
  <2>2. bs \in Seq(Blocks) /\ bs # <<>> /\ running[i] \in Running
    BY <1>1, <2>1, TableFacts, TableTypes DEF last_block_has_room, TypeInv
  <2>3. b \in Blocks /\ In(b, bs)
    BY <2>2, FrontElements
  <2>4. ref_counts[b] = 1
    <3>1. ref_counts[b] # 0
      BY <1>1, <2>3, OwnedIsReferenced
    <3>2. ~(ref_counts[b] > 1)
      BY <2>1 DEF needs_cow, is_shared, TailOf
    <3>. QED  BY <1>1, <2>3, <3>1, <3>2
  <2>5. b \notin DOMAIN by_block
    <3>1. Len(bs) > Len(running[i].prompt)
      BY <1>1, <2>1, <2>2, RoomBeyondPrompt DEF SchedInv, PromptsCovered, TablesExact
    <3>2. Len(bs) \in DOMAIN bs /\ Len(bs) \in Nat /\ Len(running[i].prompt) \in Nat
      BY <2>2, EmptySeq, LenProperties, RunningFacts DEF Running
    <3>3. CachedWithinPrompt(running[i])
      BY DEF PrivInv
    <3>4. b \in DOMAIN by_block => Len(bs) <= Len(running[i].prompt)
      BY <3>2, <3>3 DEF CachedWithinPrompt, is_cached
    <3>. HIDE DEF b, bs
    <3>. QED  BY <3>1, <3>2, <3>4
  <2>. HIDE DEF b, bs
  <2>6. <<>> \in Seq(Blocks) /\ b = bs[Len(bs)]
    BY DEF b
  <2>. QED  BY <1>1, <1>2, <1>3, <2>1, <2>2, <2>3, <2>4, <2>5, <2>6, DecodedAppend
<1>5. ASSUME NEW i \in DOMAIN running, AppendFresh(i) PROVE DecodedInv'
  <2>1. PICK x \in Blocks : Allocate(x) /\ Appended(i, Append(running[i].blocks, x), <<>>)
    BY <1>5 DEF AppendFresh
  <2> DEFINE bs == Append(running[i].blocks, x)
  <2>2. Appended(i, bs, <<>>) /\ todo # <<>> /\ running[i].id = Head(todo)
    BY <1>5, <2>1 DEF AppendFresh, Decoding
  <2>3. bs \in Seq(Blocks) /\ bs # <<>> /\ bs[Len(bs)] = x
    <3>1. /\ bs \in Seq(Blocks) /\ Len(bs) = Len(running[i].blocks) + 1
          /\ bs[Len(running[i].blocks) + 1] = x /\ Len(running[i].blocks) \in Nat
      BY <1>1, TableTypes, LenProperties, AppendProperties
    <3>2. Len(bs) # 0
      BY <3>1
    <3>. QED  BY <3>1, <3>2, EmptyTable
  <2>. HIDE DEF bs
  <2>4. /\ x \notin DOMAIN by_block' /\ ref_counts'[x] = 1 /\ ref_counts[x] = 0
        /\ \A y \in Blocks : y # x => ref_counts'[y] = ref_counts[y]
    BY <1>1, <2>1, AllocatedFacts, AllocatedIsNew
  <2>5. \A y \in Blocks : ref_counts[y] = 1 => ref_counts'[y] = 1
    BY <2>4
  <2>6. <<>> \in Seq(Blocks)
    OBVIOUS
  <2>. QED  BY <1>1, <1>2, <1>3, <2>2, <2>3, <2>4, <2>5, <2>6, DecodedAppend
<1>6. CASE CowReplace
  <2> DEFINE i == Pos(Head(todo))
             old == running[i].blocks
             src == TailOf(running[i])
             dst == Head(cur.blocks)
             bs == [old EXCEPT ![Len(old)] = dst]
             cow == CopyPair(src, dst)
  <2>1. /\ pc = "cow" /\ Decref(src) /\ Appended(i, bs, cow) /\ UNCHANGED by_block
    BY <1>6 DEF CowReplace, Decref
  <2>2. /\ i \in DOMAIN running /\ running[i].id = Head(todo) /\ todo # <<>>
        /\ old # <<>> /\ src \in Blocks /\ dst \in Blocks
    BY <2>1, CowFacts
  <2>3. /\ Len(cur.blocks) = 1 /\ cur.blocks \in Seq(Blocks) /\ dst = cur.blocks[1]
        /\ \A j \in DOMAIN running : ~In(cur.blocks[1], running[j].blocks)
    <3>1. /\ Len(cur.blocks) = 1
          /\ \A j \in DOMAIN running : ~In(cur.blocks[1], running[j].blocks)
      BY <2>1 DEF OwnInv, LoopInv
    <3>. QED  BY <1>1, <3>1, TableTypes
  <2>4. ~is_cached(dst) /\ ref_counts[dst] = 1
    BY <2>1, <2>3 DEF PrivInv
  <2>5. cow \in Seq(Blocks) /\ cow # <<>> /\ cow[1] = src /\ cow[2] = dst
    BY <2>2 DEF CopyPair
  <2>. HIDE DEF i, cow, dst
  <2>6. old \in Seq(Blocks) /\ In(src, old)
    BY <1>1, <2>2, TableTypes, FrontElements DEF TailOf
  <2>7. src # dst
    BY <2>2, <2>3, <2>6
  <2>8. bs \in Seq(Blocks) /\ bs # <<>> /\ bs[Len(bs)] = dst
    <3>1. bs \in Seq(Blocks) /\ Len(bs) = Len(old) /\ Len(old) \in DOMAIN old
      BY <2>2, <2>6, EmptySeq, ElementOfSeq, LenProperties, ExceptSeq
    <3>. QED  BY <2>2, <2>6, <3>1, EmptySeq
  <2>. HIDE DEF src, bs
  <2>9. \A y \in Blocks : y # src => ref_counts'[y] = ref_counts[y]
    BY <1>1, <2>1, <2>2 DEF Decref
  <2>10. ASSUME NEW j \in DOMAIN running \ {i}, NEW y \in Blocks,
                ref_counts[y] = 1, In(y, running[j].blocks)
         PROVE  ref_counts'[y] = 1 /\ y # src /\ y # dst
    <3>1. y # dst
      BY <2>3, <2>10
    <3>2. y # src
      BY <1>1, <2>2, <2>6, <2>10, SoleTable
    <3>. QED  BY <2>9, <2>10, <3>1, <3>2
  <2>. HIDE DEF old
  <2>. QED  BY <1>1, <1>2, <1>3, <2>1, <2>2, <2>4, <2>5, <2>7, <2>8, <2>9, <2>10, DecodedAppend
            DEF is_cached
<1>. QED  BY <1>4, <1>5, <1>6

LEMMA DecodedKept ==
  ASSUME SchedInv, OwnInv, PrivInv, DecodedInv, [Next]_vars
  PROVE  DecodedInv'
<1>1. CASE UNCHANGED vars \/ Client
  BY <1>1, DecodedElsewhere
<1>2. CASE RegisterBlock
  BY <1>2, DecodedElsewhere
<1>3. CASE Step /\ ~RegisterBlock
  <2>1. ReleaseBlock \/ ReleaseEnd \/ DecodeSkip \/ PreemptEnd => Stepping \/ pc = "finish"
    BY DEF ReleaseBlock, ReleaseEnd, DecodeSkip, PreemptEnd, Stepping
  <2>2. (\E i \in DOMAIN running : CowAllocate(i) \/ Preempt(i) \/ Retire(i)) => Stepping
    BY DEF CowAllocate, Preempt, Retire, Decoding, Stepping
  <2>3. DecodeSkip \/ PreemptEnd => Stepping
    BY DEF DecodeSkip, PreemptEnd, Stepping
  <2>. QED  BY <1>3, <2>1, <2>2, <2>3, DecodedElsewhere, DecodedSame, DecodedWrites DEF Step
<1>. QED  BY <1>1, <1>2, <1>3 DEF Next

LEMMA DecodedInit == Init => DecodedInv
BY EmptyTable DEF Init, DecodedInv, NoOutcome, Stepping, CopiesSafeInOrder

LEMMA PrivateInvariant == Spec => [](SchedInv /\ OwnInv /\ PrivInv /\ DecodedInv)
<1> DEFINE I == SchedInv /\ OwnInv /\ PrivInv /\ DecodedInv
<1>1. Init => I
  BY SchedInitInv, OwnInit, PrivInit, DecodedInit
<1>2. I /\ [Next]_vars => I'
  BY SchedNextInv, OwnNext, PrivKept, DecodedKept
<1>. QED  BY <1>1, <1>2, PTL DEF Spec

(***************************************************************************)
(* block_table.rs:3-4, "a block is copied only when written while shared": *)
(* from the token that is appended to the return of step, the slot handed  *)
(* out for writing is in a block no other table reads and the prefix index *)
(* does not serve.                                                         *)
(***************************************************************************)
THEOREM WritesStayPrivate == Spec => []WritesArePrivate
<1>1. DecodedInv => WritesArePrivate
  BY DEF DecodedInv, SlotsInv, PrivateSlot, WritesArePrivate
<1>. QED  BY <1>1, PrivateInvariant, PTL

(***************************************************************************)
(* The copies of one step, done in the order in which they are listed,     *)
(* overwrite nothing that a later one reads.                               *)
(***************************************************************************)
THEOREM CopiesStaySafe == Spec => []CopiesSafeInOrder
<1>1. DecodedInv => CopiesSafeInOrder
  BY DEF DecodedInv
<1>. QED  BY <1>1, PrivateInvariant, PTL

-----------------------------------------------------------------------------
(* No token is lost or generated twice.                                    *)

\* Every request and fork asks for a token at least.
AsksForTokens == (\A r \in Requests : r.max_new > 0) /\ \A n \in ForkNew : n > 0

\* What is promised to s is what it has and what it may still generate.
Promised(s) == s.num_tokens + s.max_new = target[s.id] + s.generated /\ s.generated <= s.max_new

HasBudget(s) == s.generated < s.max_new

TokensInv ==
  /\ \A j \in DOMAIN waiting :
       /\ waiting[j].context_len + waiting[j].max_new = target[waiting[j].id]
       /\ waiting[j].max_new > 0
  /\ \A i \in DOMAIN running : Promised(running[i])
  /\ Held => Promised(cur) /\ HasBudget(cur)
  /\ pc = "retire" => cur.num_tokens = target[cur.id]
  /\ \A i \in DOMAIN running : Stepping /\ In(running[i].id, todo) => HasBudget(running[i])
  /\ \A i \in DOMAIN running : ~Stepping => HasBudget(running[i])

\* What concerns the queue and the batch when both only lose sequences, and no
\* id is given out.
LEMMA TokensFrame ==
  ASSUME TokensInv, target' = target, Stepping' => Stepping /\ \A y : In(y, todo') => In(y, todo),
         ~Stepping' => ~Stepping,
         \A j \in DOMAIN waiting' : \E k \in DOMAIN waiting : waiting'[j] = waiting[k],
         \A j \in DOMAIN running' : \E k \in DOMAIN running : running'[j] = running[k],
         Held' => Promised(cur)' /\ HasBudget(cur)',
         pc' = "retire" => cur'.num_tokens = target'[cur'.id]
  PROVE  TokensInv'
<1>1. \A i \in DOMAIN running' : Promised(running[i])'
  BY DEF TokensInv, Promised
<1>2. \A i \in DOMAIN running' : Stepping' /\ In(running'[i].id, todo') => HasBudget(running[i])'
  BY DEF TokensInv, HasBudget
<1>3. \A i \in DOMAIN running' : ~Stepping' => HasBudget(running[i])'
  BY DEF TokensInv, HasBudget
<1>4. \A j \in DOMAIN waiting' :
        /\ waiting'[j].context_len + waiting'[j].max_new = target'[waiting'[j].id]
        /\ waiting'[j].max_new > 0
  BY DEF TokensInv
<1>. QED  BY <1>1, <1>2, <1>3, <1>4 DEF TokensInv

\* The target of a new id.
LEMMA NewTarget ==
  ASSUME TypeInv, NEW n \in Nat, NewId(n)
  PROVE  target'[next_id] = n /\ \A id \in 1 .. next_id - 1 : target'[id] = target[id]
<1>1. target \in Seq(Nat) /\ Len(target) = next_id - 1 /\ next_id \in Nat \ {0}
      /\ target' = Append(target, n)
  <2>1. /\ next_id \in 1 .. MaxSeqs + 1 /\ MaxSeqs \in Nat
        /\ target \in [1 .. next_id - 1 -> Nat] /\ target' = Append(target, n)
    BY SchedulerAssumption DEF TypeInv, NewId
  <2>. QED  BY <2>1
<1>2. DOMAIN target = 1 .. next_id - 1 /\ Len(target) + 1 = next_id
  BY <1>1, LenProperties
<1>. QED  BY <1>1, <1>2, AppendOrigin

\* What is left of a promise.
LEMMA PromiseLeft ==
  ASSUME NEW s, Promised(s), s.num_tokens \in Nat, s.generated \in Nat, s.max_new \in Nat
  PROVE  /\ target[s.id] \in Nat =>
              s.num_tokens + (s.max_new - s.generated) = target[s.id]
         /\ HasBudget(s) => s.max_new - s.generated > 0 /\ s.max_new - s.generated \in Nat
         /\ target[s.id] \in Nat /\ ~HasBudget(s) => s.num_tokens = target[s.id]
         /\ target[s.id] \in Nat /\ HasBudget(s) =>
              /\ (s.num_tokens + 1) + s.max_new = target[s.id] + (s.generated + 1)
              /\ s.generated + 1 <= s.max_new
<1>1. \A n, m, g, t \in Nat : n + m = t + g =>
        /\ n + (m - g) = t
        /\ (n + 1) + m = t + (g + 1)
        /\ g = m => n = t
        /\ g < m => g + 1 <= m /\ m - g > 0 /\ m - g \in Nat
  OBVIOUS
<1>2. ~HasBudget(s) => s.generated = s.max_new
  BY DEF Promised, HasBudget
<1>3. PICK n, m, g \in Nat : n = s.num_tokens /\ m = s.max_new /\ g = s.generated
  OBVIOUS
<1>4. HasBudget(s) => g < m /\ m - g > 0 /\ m - g \in Nat
  BY <1>3 DEF HasBudget
<1>. QED  BY <1>1, <1>2, <1>3, <1>4 DEF Promised

LEMMA TokensKept ==
  ASSUME AsksForTokens, SchedInv, TokensInv, [Next]_vars
  PROVE  TokensInv'
<1>. TypeInv /\ Distinct /\ IdsGiven /\ BudgetInv
  BY DEF SchedInv
<1>1. /\ waiting \in Seq(Pending) /\ running \in Seq(Running) /\ next_id \in Nat
      /\ \A i \in DOMAIN running :
           /\ running[i].id \in 1 .. next_id - 1 /\ running[i].num_tokens \in Nat
           /\ running[i].generated \in Nat /\ running[i].max_new \in Nat
      /\ \A j \in DOMAIN waiting :
           /\ waiting[j] \in Pending /\ waiting[j].id \in 1 .. next_id - 1
           /\ waiting[j].context_len \in Nat /\ waiting[j].max_new \in Nat
      /\ cur.num_tokens \in Nat /\ cur.generated \in Nat /\ cur.max_new \in Nat
      /\ target \in [1 .. next_id - 1 -> Nat]
  <2>1. /\ waiting \in Seq(Pending) /\ running \in Seq(Running) /\ next_id \in Nat
        /\ SeqId \subseteq Nat \ {0} /\ target \in [1 .. next_id - 1 -> Nat]
        /\ cur \in RunningWith(SeqId \cup {0})
    BY SchedulerAssumption DEF TypeInv, SeqId
  <2>2. \A i \in DOMAIN running :
          /\ running[i].id \in SeqId /\ running[i].num_tokens \in Nat
          /\ running[i].generated \in Nat /\ running[i].max_new \in Nat
          /\ running[i].id < next_id
    BY <2>1, RunningFacts DEF Running, IdsGiven
  <2>3. \A j \in DOMAIN waiting :
          /\ waiting[j] \in Pending /\ waiting[j].id \in SeqId /\ waiting[j].context_len \in Nat
          /\ waiting[j].max_new \in Nat /\ waiting[j].id < next_id
    <3>1. \A p \in Pending : p.id \in SeqId /\ p.context_len \in Nat /\ p.max_new \in Nat
      BY DEF Pending
    <3>. QED  BY <2>1, <3>1 DEF IdsGiven
  <2>4. \A m \in SeqId : m < next_id => m \in 1 .. next_id - 1
    BY <2>1
  <2>5. cur.num_tokens \in Nat /\ cur.generated \in Nat /\ cur.max_new \in Nat
    BY <2>1, RunningFacts
  <2>. QED  BY <2>1, <2>2, <2>3, <2>4, <2>5
<1>2. CASE UNCHANGED vars
  BY <1>2 DEF vars, callVars, histVars, TokensInv, Promised, HasBudget, Held, Stepping
<1>3. CASE StepBegin \/ Reserve \/ ReserveEnd \/ FillEnd \/ RegisterBlock
  <2>1. /\ UNCHANGED <<waiting, running, cur, target>> /\ ~Stepping /\ ~Stepping'
        /\ Held' => Held
    BY <1>3 DEF StepBegin, Reserve, ReserveEnd, FillEnd, RegisterBlock, Held, Stepping, histVars
  <2>2. pc' # "retire"
    BY <2>1 DEF Stepping
  <2>. QED  BY <2>1, <2>2, TokensFrame DEF TokensInv, Promised, HasBudget
<1>4. CASE ForkBlock \/ Acquire \/ Fill \/ ReleaseBlock
  <2>1. /\ UNCHANGED <<waiting, running, pc, todo>>
        /\ cur'.id = cur.id /\ cur'.num_tokens = cur.num_tokens
        /\ cur'.generated = cur.generated /\ cur'.max_new = cur.max_new
    BY <1>4, CurStep
  <2>2. target' = target
    BY <1>4 DEF ForkBlock, Acquire, Fill, ReleaseBlock, histVars
  <2>. QED  BY <2>1, <2>2, TokensFrame DEF TokensInv, Promised, HasBudget, Held, Stepping
<1>5. ASSUME NEW r \in Requests, Enqueue(r)
      PROVE  TokensInv'
  <2> DEFINE p == [id |-> next_id, context_len |-> r.len, max_new |-> r.max_new,
                   prompt |-> r.prompt]
  <2>1. waiting' = Append(waiting, p) /\ pc = "idle" /\ NewId(r.len + r.max_new)
        /\ UNCHANGED <<running, cur, pc, todo>>
    BY <1>5 DEF Enqueue, callVars
  <2>2. r.len \in Nat /\ r.max_new \in Nat /\ r.max_new > 0
    BY SchedulerAssumption DEF Request, AsksForTokens
  <2>3. /\ target'[next_id] = r.len + r.max_new
        /\ \A id \in 1 .. next_id - 1 : target'[id] = target[id]
    BY <2>1, <2>2, NewTarget
  <2>4. waiting' \in Seq(Pending)
    BY <1>5, ClientKeepsTypes DEF Client, TypeInv
  <2>5. p \in Pending
    BY <1>1, <2>1, <2>4, LenProperties, ElementOfSeq
  <2>6. p.id = next_id /\ p.context_len = r.len /\ p.max_new = r.max_new
    OBVIOUS
  <2>. HIDE DEF p
  <2>7. \A j \in DOMAIN waiting' :
          waiting'[j] = p \/ (j \in DOMAIN waiting /\ waiting'[j] = waiting[j])
    BY <1>1, <2>1, <2>5, AppendOrigin
  <2>8. \A j \in DOMAIN waiting' :
          /\ waiting'[j].context_len + waiting'[j].max_new = target'[waiting'[j].id]
          /\ waiting'[j].max_new > 0
    <3>1. p.context_len + p.max_new = target'[p.id] /\ p.max_new > 0
      BY <2>2, <2>3, <2>6
    <3>2. ASSUME NEW j \in DOMAIN waiting
          PROVE  /\ waiting[j].context_len + waiting[j].max_new = target'[waiting[j].id]
                 /\ waiting[j].max_new > 0
      <4>1. target'[waiting[j].id] = target[waiting[j].id]
        BY <1>1, <2>3
      <4>. QED  BY <4>1 DEF TokensInv
    <3>. QED  BY <2>7, <3>1, <3>2
  <2>9. \A i \in DOMAIN running : target'[running[i].id] = target[running[i].id]
    BY <1>1, <2>3
  <2>. QED  BY <2>1, <2>8, <2>9 DEF TokensInv, Promised, HasBudget, Held, Stepping
<1>6. ASSUME NEW i \in DOMAIN running, NEW n \in ForkNew, Fork(i, n)
      PROVE  TokensInv'
  <2>1. /\ NewId(running[i].num_tokens + n) /\ UNCHANGED <<waiting, running, todo>>
        /\ pc = "idle" /\ pc' = "fork"
        /\ cur'.id = next_id /\ cur'.num_tokens = running[i].num_tokens
        /\ cur'.generated = 0 /\ cur'.max_new = n
    BY <1>6 DEF Fork
  <2>2. n \in Nat /\ n > 0 /\ running[i].num_tokens + n \in Nat
    BY <1>1, SchedulerAssumption DEF AsksForTokens
  <2>3. /\ target'[next_id] = running[i].num_tokens + n
        /\ \A id \in 1 .. next_id - 1 : target'[id] = target[id]
    BY <2>1, <2>2, NewTarget
  <2>4. Promised(cur)' /\ HasBudget(cur)'
    BY <1>1, <2>1, <2>2, <2>3 DEF Promised, HasBudget
  <2>5. /\ \A j \in DOMAIN running : target'[running[j].id] = target[running[j].id]
        /\ \A j \in DOMAIN waiting : target'[waiting[j].id] = target[waiting[j].id]
    BY <1>1, <2>3
  <2>. QED  BY <2>1, <2>4, <2>5 DEF TokensInv, Promised, HasBudget, Held, Stepping
<1>7. ASSUME NEW i \in DOMAIN running, FinishRunning(i) \/ Retire(i)
      PROVE  TokensInv'
  <2>1. /\ running' = RemoveAt(running, i) /\ UNCHANGED <<waiting, target, todo>>
        /\ ~Held' /\ cur' = running[i] /\ Stepping' = Stepping
        /\ pc' = "retire" => Finished(i)
    BY <1>7 DEF FinishRunning, Retire, Stepping, Held, histVars
  <2>2. \A j \in DOMAIN running' : \E k \in DOMAIN running : running'[j] = running[k]
    BY <1>1, <2>1, RemoveAtElements
  <2>3. Finished(i) => running[i].num_tokens = target[running[i].id]
    <3>1. Promised(running[i]) /\ (Finished(i) => ~HasBudget(running[i]))
      BY <1>1 DEF TokensInv, HasBudget, Finished
    <3>2. target[running[i].id] \in Nat
      BY <1>1
    <3>. QED  BY <1>1, <3>1, <3>2, PromiseLeft
  <2>. QED  BY <2>1, <2>2, <2>3, TokensFrame
<1>8. ASSUME NEW i \in DOMAIN waiting, FinishWaiting(i)
      PROVE  TokensInv'
  <2>1. /\ waiting' = RemoveAt(waiting, i) /\ UNCHANGED <<running, target, todo, pc, cur>>
        /\ pc = "idle"
    BY <1>8 DEF FinishWaiting, callVars, histVars
  <2>2. \A j \in DOMAIN waiting' : \E k \in DOMAIN waiting : waiting'[j] = waiting[k]
    BY <1>1, <2>1, RemoveAtElements
  <2>. QED  BY <2>1, <2>2, TokensFrame DEF Held, Stepping
<1>9. CASE ForkEnd \/ RegisterEnd
  <2>1. /\ Held /\ running' = Append(running, cur) /\ UNCHANGED <<waiting, target>>
        /\ ~Held' /\ ~Stepping /\ ~Stepping'
    BY <1>9 DEF ForkEnd, RegisterEnd, Held, Stepping, histVars
  <2>2. cur \in Running /\ pc' # "retire"
    BY <2>1 DEF TypeInv, Distinct, Running, RunningWith, Stepping
  <2>3. \A j \in DOMAIN running' :
          running'[j] = cur \/ (j \in DOMAIN running /\ running'[j] = running[j])
    BY <1>1, <2>1, <2>2, AppendOrigin
  <2>. QED  BY <2>1, <2>2, <2>3 DEF TokensInv, Promised, HasBudget
<1>10. CASE AdmitNext
  <2>1. /\ waiting # <<>> /\ waiting' = Tail(waiting) /\ UNCHANGED <<running, target, todo>>
        /\ ~Stepping /\ ~Stepping'
        /\ cur'.id = Head(waiting).id /\ cur'.num_tokens = Head(waiting).context_len
        /\ cur'.generated = 0 /\ cur'.max_new = Head(waiting).max_new
    BY <1>10 DEF AdmitNext, Stepping, histVars
  <2>2. /\ 1 \in DOMAIN waiting /\ Head(waiting) = waiting[1]
        /\ \A j \in DOMAIN waiting' : \E k \in DOMAIN waiting : waiting'[j] = waiting[k]
    BY <1>1, <2>1, TailOrigin
  <2>3. Promised(cur)' /\ HasBudget(cur)'
    BY <1>1, <2>1, <2>2 DEF TokensInv, Promised, HasBudget
  <2>. QED  BY <2>1, <2>2, <2>3, TokensFrame DEF Stepping
<1>11. CASE AdmitEnd
  <2>1. /\ UNCHANGED <<waiting, running, target>> /\ ~Stepping /\ Stepping' /\ ~Held'
        /\ pc' # "retire"
    BY <1>11 DEF AdmitEnd, Stepping, Held, histVars
  <2>. QED  BY <2>1 DEF TokensInv, Promised, HasBudget
<1>12. CASE DecodeSkip \/ (\E i \in DOMAIN running : CowAllocate(i)) \/ ReleaseEnd
  <2>1. /\ UNCHANGED <<waiting, running, target>> /\ Stepping' = Stepping /\ ~Held'
        /\ pc' # "retire" /\ (todo' = todo \/ (todo # <<>> /\ todo' = Tail(todo)))
    <3>1. CASE DecodeSkip
      BY <3>1 DEF DecodeSkip, Stepping, Held, histVars
    <3>2. CASE \E i \in DOMAIN running : CowAllocate(i)
      BY <3>2 DEF CowAllocate, Decoding, Stepping, Held
    <3>3. CASE ReleaseEnd
      BY <3>3 DEF ReleaseEnd, Stepping, Held, histVars
    <3>. QED  BY <1>12, <3>1, <3>2, <3>3
  <2>2. \A y : In(y, todo') => In(y, todo)
    BY <2>1, TailIn DEF TypeInv
  <2>. QED  BY <2>1, <2>2, TokensFrame
<1>13. CASE CowReplace \/ \E i \in DOMAIN running : AppendInPlace(i) \/ AppendFresh(i)
  <2>1. PICK i \in DOMAIN running, bs \in Seq(Blocks), cow \in Seq(Blocks) :
          Appended(i, bs, cow) /\ todo # <<>> /\ running[i].id = Head(todo)
    BY <1>13, AppendStep
  <2>2. /\ DOMAIN running' = DOMAIN running /\ todo' = Tail(todo)
        /\ \A j \in DOMAIN running \ {i} : running'[j] = running[j]
        /\ running'[i].id = running[i].id
        /\ running'[i].num_tokens = running[i].num_tokens + 1
        /\ running'[i].generated = running[i].generated + 1
        /\ running'[i].max_new = running[i].max_new
    BY <2>1, AppendedFacts
  <2>3. Stepping /\ Stepping' /\ ~Held' /\ pc' # "retire" /\ waiting' = waiting /\ target' = target
    BY <1>13 DEF CowReplace, AppendInPlace, AppendFresh, Decoding, Stepping, Held, histVars
  <2>4. /\ ~In(running[i].id, todo') /\ In(running[i].id, todo)
        /\ \A y : In(y, todo') => In(y, todo)
    BY <2>1, <2>2, <2>3, VisitedOnce DEF BudgetInv
  <2>5. running[i].generated < running[i].max_new /\ Promised(running[i])
    BY <2>3, <2>4 DEF TokensInv, HasBudget
  <2>6. target[running[i].id] \in Nat
    BY <1>1
  <2>7. Promised(running[i])'
    <3>1. HasBudget(running[i])
      BY <2>5 DEF HasBudget
    <3>2. /\ (running[i].num_tokens + 1) + running[i].max_new
               = target[running[i].id] + (running[i].generated + 1)
          /\ running[i].generated + 1 <= running[i].max_new
      BY <1>1, <2>5, <2>6, <3>1, PromiseLeft
    <3>. QED  BY <2>2, <2>3, <3>2 DEF Promised
  <2>. QED  BY <2>2, <2>3, <2>4, <2>7 DEF TokensInv, Promised, HasBudget
<1>14. ASSUME NEW i \in DOMAIN running, Preempt(i)
       PROVE  TokensInv'
  <2>1. /\ running' = RemoveAt(running, VictimIndex) /\ cur' = running[VictimIndex]
        /\ UNCHANGED <<waiting, todo, target>> /\ Stepping /\ Stepping' /\ pc' # "retire"
    BY <1>14 DEF Preempt, Decoding, Stepping, histVars
  <2>2. /\ VictimIndex \in DOMAIN running
        /\ \A j \in DOMAIN running' : \E k \in DOMAIN running : running'[j] = running[k]
    BY <2>1, VictimFacts
  <2>3. In(running[VictimIndex].id, todo)
    BY <1>14, VictimToVisit
  <2>4. Promised(cur)' /\ HasBudget(cur)'
    BY <2>1, <2>2, <2>3 DEF TokensInv, Promised, HasBudget
  <2>. QED  BY <2>1, <2>2, <2>4, TokensFrame
<1>15. CASE PreemptEnd
  <2>1. /\ waiting' = <<Requeued(cur)>> \o waiting /\ UNCHANGED <<running, todo, target>>
        /\ Held /\ Stepping /\ Stepping' /\ ~Held' /\ pc' # "retire"
    BY <1>15 DEF PreemptEnd, Held, Stepping, histVars
  <2>2. /\ Requeued(cur).id = cur.id /\ Requeued(cur).context_len = cur.num_tokens
        /\ Requeued(cur).max_new = cur.max_new - cur.generated
    BY DEF Requeued
  <2>3. Promised(cur) /\ HasBudget(cur) /\ target[cur.id] \in Nat
    <3>1. cur.id \in 1 .. next_id - 1
      <4>1. cur.id \in SeqId /\ cur.id < next_id /\ SeqId \subseteq Nat \ {0}
        BY <2>1, SchedulerAssumption DEF Distinct, IdsGiven, SeqId
      <4>2. \A m, n \in Nat : m # 0 /\ m < n => m \in 1 .. n - 1
        OBVIOUS
      <4>. QED  BY <1>1, <4>1, <4>2
    <3>. QED  BY <1>1, <2>1, <3>1 DEF TokensInv
  <2>4. cur.num_tokens + (cur.max_new - cur.generated) = target[cur.id]
        /\ cur.max_new - cur.generated > 0 /\ cur.max_new - cur.generated \in Nat
    BY <1>1, <2>3, PromiseLeft
  <2>5. Requeued(cur) \in Pending
    <3>1. cur.id \in SeqId /\ cur.prompt \in Seq(Chunk)
      BY <2>1, RunningFacts DEF Distinct, TypeInv
    <3>. QED  BY <1>1, <2>4, <3>1 DEF Requeued, Pending
  <2>6. \A j \in DOMAIN waiting' :
          \/ waiting'[j] = Requeued(cur)
          \/ \E k \in DOMAIN waiting : waiting'[j] = waiting[k]
    BY <1>1, <2>1, <2>5, ConsOrigin
  <2>7. \A j \in DOMAIN waiting' :
          /\ waiting'[j].context_len + waiting'[j].max_new = target'[waiting'[j].id]
          /\ waiting'[j].max_new > 0
    BY <2>1, <2>2, <2>4, <2>6 DEF TokensInv
  <2>. QED  BY <2>1, <2>7 DEF TokensInv, Promised, HasBudget
<1>16. CASE StepEnd
  <2>1. \A i \in DOMAIN running : HasBudget(running[i])
    BY <1>1, <1>16 DEF StepEnd, Finished, HasBudget
  <2>2. /\ UNCHANGED <<waiting, running, target>> /\ ~Held' /\ ~Stepping' /\ pc' # "retire"
    BY <1>16 DEF StepEnd, Held, Stepping, histVars
  <2>. QED  BY <2>1, <2>2 DEF TokensInv, Promised, HasBudget
<1>. QED
  BY <1>2, <1>3, <1>4, <1>5, <1>6, <1>7, <1>8, <1>9, <1>10, <1>11, <1>12, <1>13, <1>14,
     <1>15, <1>16
  DEF Next, Client, Step

LEMMA TokensInit == Init => TokensInv
BY EmptyTable DEF Init, TokensInv, Held, Stepping

LEMMA TokensInvariant == ASSUME AsksForTokens PROVE Spec => [](SchedInv /\ TokensInv)
<1> DEFINE I == SchedInv /\ TokensInv
<1>1. Init => I
  BY SchedInitInv, TokensInit
<1>2. I /\ [Next]_vars => I'
  BY SchedNextInv, TokensKept
<1>. QED  BY <1>1, <1>2, PTL DEF Spec

(***************************************************************************)
(* TokenBudget, for clients that ask for a token at least: a request for   *)
(* none is given one all the same (scheduler.rs:422).                      *)
(***************************************************************************)
THEOREM TokensAddUp == ASSUME AsksForTokens PROVE Spec => []TokenBudget
<1>1. SchedInv /\ TokensInv => TokenBudget
  <2> SUFFICES ASSUME SchedInv, TokensInv PROVE TokenBudget
    OBVIOUS
  <2>. QED  BY DEF TokensInv, Promised, TokenBudget
<1>2. Spec => [](SchedInv /\ TokensInv)
  BY TokensInvariant
<1>. QED  BY <1>1, <1>2, PTL

-----------------------------------------------------------------------------
(* A table's registered blocks are a path of the index.                    *)

\* The table of cur, with the blocks it is still to be given.
Full == IF pc \in {"fork", "build"} THEN cur.blocks \o claim ELSE cur.blocks

\* The table is built for a prompt, of which Settled blocks are registered.
Building == pc = "build" \/ (pc = "register" /\ claim # <<>>)
Settled == IF pc = "build" THEN cur.cached ELSE Len(cur.prompt) - Len(claim)

\* What cache_prompt is to register continues the settled blocks, and is not
\* registered by another sequence, the last block of the prompt excepted.
BuildInv == Building =>
  /\ Settled \in 0 .. Len(Full)
  /\ IF Settled = 0 THEN parent = Root
     ELSE is_cached(Full[Settled]) /\ parent = EntryOf(Full[Settled])
  /\ \A k \in DOMAIN Full : k > Settled => ~is_cached(Full[k])
  /\ Settled + 1 < Len(cur.prompt) =>
       [parent |-> parent, tokens |-> cur.prompt[Settled + 1]] \notin DOMAIN by_key

ChainInv ==
  /\ ParentsKept
  /\ \A i \in DOMAIN running : Chained(running[i].blocks)
  /\ Chained(Full)
  /\ BuildInv

LEMMA CurOwns ==
  ASSUME TypeInv, CountsExact, NEW b \in Blocks
  PROVE  /\ In(b, cur.blocks) => ref_counts[b] # 0
         /\ ref_counts[b] # 0 => \/ In(b, cur.blocks)
                                 \/ \E i \in DOMAIN running : In(b, running[i].blocks)
<1>1. IsFiniteSet(Owners(b)) /\ ref_counts[b] = Cardinality(Owners(b))
  BY OwnersFinite DEF CountsExact
<1>2. ref_counts[b] = 0 <=> Owners(b) = {}
  BY <1>1, FS_EmptySet
<1>3. ASSUME In(b, cur.blocks) PROVE ref_counts[b] # 0
  <2>1. 0 \in Owners(b)
    BY <1>3, SchedulerAssumption DEF Owners, Owns
  <2>. QED  BY <1>2, <2>1
<1>4. ASSUME ref_counts[b] # 0
      PROVE  In(b, cur.blocks) \/ \E i \in DOMAIN running : In(b, running[i].blocks)
  <2>1. PICK s \in Owners(b) : TRUE
    BY <1>2, <1>4
  <2>. QED  BY <2>1 DEF Owners, Owns
<1>. QED  BY <1>3, <1>4

\* Only a step that allocates changes it.
LEMMA IndexOnlyShrinks ==
  ASSUME SchedInv, [Next]_vars, ~RegisterBlock
  PROVE  /\ IndexShrinks
         /\ \/ UNCHANGED <<by_block, by_key>>
            \/ Fill \/ \E i \in DOMAIN running : AppendFresh(i) \/ CowAllocate(i)
<1>1. AllocInv
  BY DEF SchedInv
<1>2. UNCHANGED <<by_block, by_key>> => IndexShrinks
  BY DEF IndexShrinks
<1>3. CASE UNCHANGED vars
  BY <1>2, <1>3 DEF vars, allocVars
<1>4. CASE Client
  BY <1>2, <1>4 DEF Client, Enqueue, Fork, FinishRunning, FinishWaiting, allocVars
<1>5. ASSUME Fill \/ \E i \in DOMAIN running : AppendFresh(i) \/ CowAllocate(i)
      PROVE  IndexShrinks
  <2>1. PICK b \in Blocks : Allocate(b)
    BY <1>5 DEF Fill, AppendFresh, CowAllocate
  <2>. QED  BY <1>1, <2>1, AllocateForgets DEF IndexShrinks
<1>6. CASE ForkBlock \/ Acquire \/ CowReplace \/ ReleaseBlock
  BY <1>2, <1>6 DEF ForkBlock, Acquire, CowReplace, ReleaseBlock, Incref, AcquireCached, Reclaim,
                    Decref
<1>7. CASE \/ StepBegin \/ Reserve \/ ReserveEnd \/ AdmitNext \/ AdmitEnd
           \/ FillEnd \/ RegisterEnd \/ DecodeSkip
           \/ \E i \in DOMAIN running : AppendInPlace(i) \/ Preempt(i) \/ Retire(i)
           \/ PreemptEnd \/ ReleaseEnd \/ StepEnd \/ ForkEnd
  BY <1>2, <1>7 DEF StepBegin, Reserve, ReserveEnd, AdmitNext, AdmitEnd, FillEnd, RegisterEnd,
              DecodeSkip, AppendInPlace, Preempt, Retire, PreemptEnd, ReleaseEnd,
              StepEnd, ForkEnd, allocVars
<1>. QED  BY <1>3, <1>4, <1>5, <1>6, <1>7 DEF Next, Step

\* Where a table of the batch comes from.
LEMMA BatchOrigin ==
  ASSUME SchedInv, OwnInv, [Next]_vars, NEW j \in DOMAIN running'
  PROVE  \/ \E k \in DOMAIN running : running'[j] = running[k]
         \/ (ForkEnd \/ RegisterEnd) /\ running'[j] = cur
         \/ /\ j \in DOMAIN running /\ running'[j].prompt = running[j].prompt
            /\ pc \in {"decode", "cow"}
            /\ \/ running'[j].blocks = running[j].blocks
               \/ \E x \in Blocks :
                    Allocate(x) /\ running'[j].blocks = Append(running[j].blocks, x)
               \/ /\ pc = "cow" /\ running[j].blocks # <<>> /\ Head(cur.blocks) = cur.blocks[1]
                  /\ Head(cur.blocks) \in Blocks /\ last_block_has_room(running[j])
                  /\ running'[j].blocks =
                       [running[j].blocks EXCEPT ![Len(running[j].blocks)] = Head(cur.blocks)]
<1>. TypeInv /\ running \in Seq(Running)
  BY DEF SchedInv, TypeInv
<1>1. CASE UNCHANGED running
  BY <1>1
<1>2. ASSUME NEW n \in DOMAIN running, running' = RemoveAt(running, n)
      PROVE  \E k \in DOMAIN running : running'[j] = running[k]
  <2>1. \A i \in DOMAIN RemoveAt(running, n) :
          \E k \in DOMAIN running : RemoveAt(running, n)[i] = running[k]
    BY RemoveAtElements
  <2>. QED  BY <1>2, <2>1
<1>3. ASSUME NEW i \in DOMAIN running, FinishRunning(i) \/ Preempt(i) \/ Retire(i)
      PROVE  \E k \in DOMAIN running : running'[j] = running[k]
  <2>1. VictimIndex \in DOMAIN running
    BY VictimFacts
  <2>. QED  BY <1>2, <1>3, <2>1 DEF FinishRunning, Preempt, Retire
<1>4. CASE ForkEnd \/ RegisterEnd
  <2>1. /\ running' = Append(running, cur) /\ Held
    BY <1>4 DEF ForkEnd, RegisterEnd, Held
  <2>2. cur \in Running
    BY <2>1 DEF SchedInv, TypeInv, Distinct, Running, RunningWith
  <2>. QED  BY <1>4, <2>1, <2>2, AppendOrigin
<1>5. ASSUME NEW i \in DOMAIN running, AppendInPlace(i) \/ AppendFresh(i)
      PROVE  \/ \E k \in DOMAIN running : running'[j] = running[k]
             \/ /\ j \in DOMAIN running /\ running'[j].prompt = running[j].prompt
                /\ pc = "decode"
                /\ \/ running'[j].blocks = running[j].blocks
                   \/ \E x \in Blocks :
                        Allocate(x) /\ running'[j].blocks = Append(running[j].blocks, x)
  <2>1. todo # <<>> /\ pc = "decode"
    BY <1>5 DEF AppendInPlace, AppendFresh, Decoding
  <2>2. CASE AppendInPlace(i)
    <3>1. Appended(i, running[i].blocks, <<>>) /\ running[i].blocks \in Seq(Blocks)
      BY <2>2, TableTypes DEF AppendInPlace
    <3>. QED  BY <2>1, <3>1, AppendedFacts
  <2>3. CASE AppendFresh(i)
    <3>1. PICK x \in Blocks : Allocate(x) /\ Appended(i, Append(running[i].blocks, x), <<>>)
      BY <2>3 DEF AppendFresh
    <3> DEFINE bs == Append(running[i].blocks, x)
    <3>2. bs \in Seq(Blocks)
      BY TableFacts
    <3>3. /\ DOMAIN running' = DOMAIN running
          /\ \A k \in DOMAIN running \ {i} : running'[k] = running[k]
          /\ running'[i].blocks = bs /\ running'[i].prompt = running[i].prompt
      <4>. HIDE DEF bs
      <4>. QED  BY <2>1, <3>1, <3>2, AppendedFacts DEF bs
    <3>. QED  BY <2>1, <3>1, <3>3
  <2>. QED  BY <1>5, <2>2, <2>3
<1>6. ASSUME CowReplace
      PROVE  \/ \E k \in DOMAIN running : running'[j] = running[k]
             \/ /\ j \in DOMAIN running /\ running'[j].prompt = running[j].prompt
                /\ pc = "cow" /\ running[j].blocks # <<>> /\ Head(cur.blocks) = cur.blocks[1]
                /\ Head(cur.blocks) \in Blocks /\ last_block_has_room(running[j])
                /\ running'[j].blocks =
                     [running[j].blocks EXCEPT ![Len(running[j].blocks)] = Head(cur.blocks)]
  <2> DEFINE i == Pos(Head(todo))
             bs == [running[i].blocks EXCEPT ![Len(running[i].blocks)] = Head(cur.blocks)]
  <2>1. pc = "cow" /\ Appended(i, bs, CopyPair(TailOf(running[i]), Head(cur.blocks)))
    BY <1>6 DEF CowReplace
  <2>2. /\ i \in DOMAIN running /\ todo # <<>> /\ running[i].blocks # <<>>
        /\ Head(cur.blocks) \in Blocks /\ running[i].id = Head(todo)
    BY <2>1, CowFacts
  <2>3. bs \in Seq(Blocks)
    BY <2>2, TableFacts
  <2>4. Head(cur.blocks) = cur.blocks[1] /\ last_block_has_room(running[i])
    BY <2>1, <2>2, TableTypes, TailOrigin DEF OwnInv, LoopInv
  <2>. HIDE DEF i
  <2>5. /\ DOMAIN running' = DOMAIN running
        /\ \A k \in DOMAIN running \ {i} : running'[k] = running[k]
        /\ running'[i].blocks = bs /\ running'[i].prompt = running[i].prompt
    BY <2>1, <2>2, <2>3, AppendedFacts
  <2>. QED  BY <2>1, <2>2, <2>4, <2>5
<1>7. CASE \/ UNCHANGED vars \/ \E r \in Requests : Enqueue(r)
           \/ \E i \in DOMAIN running, n \in ForkNew : Fork(i, n)
           \/ \E i \in DOMAIN waiting : FinishWaiting(i)
           \/ StepBegin \/ Reserve \/ ReserveEnd \/ AdmitNext \/ AdmitEnd \/ Acquire \/ Fill
           \/ FillEnd \/ RegisterBlock \/ DecodeSkip
           \/ \E i \in DOMAIN running : CowAllocate(i)
           \/ ReleaseBlock \/ PreemptEnd \/ ReleaseEnd \/ StepEnd \/ ForkBlock
  <2>1. UNCHANGED running
    BY <1>7 DEF vars, Enqueue, Fork, FinishWaiting, StepBegin, Reserve, ReserveEnd, AdmitNext,
         AdmitEnd, Acquire, Fill, FillEnd, RegisterBlock, DecodeSkip, CowAllocate, ReleaseBlock,
         PreemptEnd, ReleaseEnd, StepEnd, ForkBlock
  <2>. QED  BY <1>1, <2>1
<1>. QED  BY <1>3, <1>4, <1>5, <1>6, <1>7 DEF Next, Client, Step

LEMMA FullType ==
  ASSUME TypeInv
  PROVE  /\ Full \in Seq(Blocks) /\ cur.blocks \in Seq(Blocks) /\ claim \in Seq(Blocks)
         /\ claim = <<>> => Full = cur.blocks
<1>1. cur.blocks \in Seq(Blocks) /\ claim \in Seq(Blocks)
  BY TableTypes
<1>2. cur.blocks \o claim \in Seq(Blocks)
  BY <1>1, ConcatProperties
<1>3. claim = <<>> => cur.blocks \o claim = cur.blocks
  BY <1>1, ConcatEmptySeq
<1>. QED  BY <1>1, <1>2, <1>3 DEF Full

\* The tables of the batch after any step but cache_prompt's.
LEMMA BatchChained ==
  ASSUME SchedInv, OwnInv, PrivInv, ChainInv, [Next]_vars, ~RegisterBlock,
         NEW j \in DOMAIN running'
  PROVE  ChainedNext(running'[j].blocks)
<1>1. TypeInv /\ AllocInv /\ CountsExact /\ IndexShrinks
  BY IndexOnlyShrinks DEF SchedInv, OwnInv
<1>2. ASSUME NEW k \in DOMAIN running
      PROVE  running[k].blocks \in Seq(Blocks) /\ ChainedNext(running[k].blocks)
  <2>1. running[k].blocks \in Seq(Blocks) /\ Chained(running[k].blocks)
    BY <1>1, TableTypes DEF ChainInv
  <2>2. \A b \in Blocks : In(b, running[k].blocks) => ref_counts[b] # 0
    BY <1>1, OwnedIsReferenced
  <2>. QED  BY <1>1, <2>1, <2>2, OwnedStays
<1>3. CASE \E k \in DOMAIN running : running'[j] = running[k]
  BY <1>2, <1>3
<1>4. CASE (ForkEnd \/ RegisterEnd) /\ running'[j] = cur
  <2>1. Full = cur.blocks /\ cur.blocks \in Seq(Blocks)
    BY <1>1, <1>4, FullType DEF ForkEnd, RegisterEnd
  <2>2. Chained(cur.blocks)
    BY <2>1 DEF ChainInv
  <2>3. \A b \in Blocks : In(b, cur.blocks) => ref_counts[b] # 0
    BY <1>1, CurOwns
  <2>. QED  BY <1>1, <1>4, <2>1, <2>2, <2>3, OwnedStays
<1>5. CASE j \in DOMAIN running /\ running'[j].blocks = running[j].blocks
  BY <1>2, <1>5
<1>6. ASSUME j \in DOMAIN running, NEW x \in Blocks, Allocate(x),
             running'[j].blocks = Append(running[j].blocks, x)
      PROVE  ChainedNext(running'[j].blocks)
  <2>1. x \notin DOMAIN by_block'
    BY <1>1, <1>6, AllocatedFacts
  <2>. QED  BY <1>2, <1>6, <2>1, ChainedGrown
<1>7. ASSUME j \in DOMAIN running, pc = "cow", running[j].blocks # <<>>,
             Head(cur.blocks) = cur.blocks[1], Head(cur.blocks) \in Blocks,
             running'[j].blocks =
               [running[j].blocks EXCEPT ![Len(running[j].blocks)] = Head(cur.blocks)]
      PROVE  ChainedNext(running'[j].blocks)
  <2>1. Head(cur.blocks) \notin DOMAIN by_block'
    BY <1>1, <1>7 DEF PrivInv, is_cached, IndexShrinks
  <2>. QED  BY <1>2, <1>7, <2>1, ChainedReplaced
<1>. QED  BY <1>3, <1>4, <1>5, <1>6, <1>7, BatchOrigin

\* What may be matched is a prefix of the prompt that lacks one block at most.
LEMMA MatchableFacts ==
  ASSUME NEW p \in Pending, Covered(p.prompt, p.context_len)
  PROVE  /\ Matchable(p) \in Seq(Chunk) /\ Len(Matchable(p)) \in Nat
         /\ Len(Matchable(p)) <= Len(p.prompt) /\ Len(p.prompt) <= Len(Matchable(p)) + 1
         /\ \A i \in 1 .. Len(Matchable(p)) : Matchable(p)[i] = p.prompt[i]
<1>1. /\ BlockSize \in Nat \ {0} /\ p.context_len \in Nat /\ p.prompt \in Seq(Chunk)
      /\ Len(p.prompt) \in Nat
  BY BlockTableAssumption DEF Pending
<1> DEFINE L == Len(p.prompt)
           q == (p.context_len - 1) \div BlockSize
           n == IF p.context_len <= L * BlockSize THEN q ELSE L
           M == SubSeq(p.prompt, 1, n)
<1>2. q \in Int /\ q * BlockSize <= p.context_len - 1 /\ p.context_len - 1 < (q + 1) * BlockSize
  <2>1. p.context_len - 1 \in Int
    BY <1>1
  <2>2. q \in Int /\ q * BlockSize <= p.context_len - 1
    BY <1>1, <2>1, DivFacts
  <2>3. p.context_len - 1 < q * BlockSize + BlockSize
    BY <1>1, <2>1, DivFacts
  <2>4. q * BlockSize + BlockSize = (q + 1) * BlockSize
    <3>. HIDE DEF q
    <3>. QED  BY <1>1, <2>2
  <2>. QED  BY <2>2, <2>3, <2>4
<1>3. L \in Nat /\ L * BlockSize \in Nat /\ L * BlockSize <= p.context_len
  BY <1>1 DEF Covered
<1>. HIDE DEF q
<1>4. p.context_len <= L * BlockSize => q <= L /\ L <= q + 1
  <2>1. SUFFICES ASSUME p.context_len <= L * BlockSize PROVE q <= L /\ L <= q + 1
    OBVIOUS
  <2>2. q * BlockSize <= L * BlockSize - 1 /\ L * BlockSize - 1 < (q + 1) * BlockSize
    BY <1>1, <1>2, <1>3, <2>1
  <2>3. \A u, v \in Int : u >= v => u * BlockSize >= v * BlockSize
    BY <1>1
  <2>4. L >= q + 1 + 1 => L * BlockSize >= (q + 1 + 1) * BlockSize
    BY <1>2, <1>3, <2>3
  <2>5. q >= L => q * BlockSize >= L * BlockSize
    BY <1>2, <1>3, <2>3
  <2>6. (q + 1 + 1) * BlockSize = (q + 1) * BlockSize + BlockSize
    BY <1>1, <1>2
  <2>7. q * BlockSize \in Int /\ (q + 1) * BlockSize \in Int
    BY <1>1, <1>2
  <2>8. ~(q >= L)
    BY <1>3, <2>2, <2>5, <2>7
  <2>9. ~(L >= q + 1 + 1)
    BY <1>1, <1>3, <2>2, <2>4, <2>6, <2>7
  <2>. QED  BY <1>2, <1>3, <2>8, <2>9
<1>5. n \in Int /\ n <= L /\ L <= n + 1
  BY <1>2, <1>3, <1>4
<1>. HIDE DEF n
<1>6. \A i \in 1 .. n : p.prompt[i] \in Chunk
  BY <1>1, <1>3, <1>5
<1>7. /\ M \in Seq(Chunk) /\ Len(M) = IF 1 <= n THEN n - 1 + 1 ELSE 0
      /\ \A i \in 1 .. n - 1 + 1 : M[i] = p.prompt[1 + i - 1]
  BY <1>5, <1>6, SubSeqProperties
<1>8. Matchable(p) = M
  BY DEF Matchable, M, n, q
<1>. HIDE DEF M
<1>9. Len(M) = IF 1 <= n THEN n ELSE 0
  BY <1>5, <1>7
<1>10. Len(M) \in Nat /\ Len(M) <= L /\ L <= Len(M) + 1
  BY <1>3, <1>5, <1>9
<1>11. \A i \in 1 .. Len(M) : M[i] = p.prompt[i]
  <2>1. \A i \in 1 .. Len(M) : i \in 1 .. n - 1 + 1 /\ 1 + i - 1 = i
    BY <1>5, <1>9
  <2>. QED  BY <1>7, <2>1
<1>. QED  BY <1>7, <1>8, <1>10, <1>11

\* A match is a path of the index from the root that spells the prompt, and
\* the longest one.
LEMMA HitFacts ==
  ASSUME AllocInv, NEW p \in Pending, Covered(p.prompt, p.context_len),
         NEW hit \in Matches(Matchable(p))
  PROVE  /\ hit \in Seq(Blocks) /\ DOMAIN hit = 1 .. Len(hit) /\ Len(hit) \in Nat
         /\ Len(hit) <= Len(p.prompt)
         /\ \A i \in DOMAIN hit :
              /\ is_cached(hit[i])
              /\ by_block[hit[i]].key.tokens = p.prompt[i]
              /\ ParentOf(hit[i]) = IF i = 1 THEN Root ELSE EntryOf(hit[i - 1])
         /\ LastEntry(hit) = IF Len(hit) = 0 THEN Root ELSE EntryOf(hit[Len(hit)])
         /\ Len(hit) + 1 < Len(p.prompt) =>
              [parent |-> LastEntry(hit), tokens |-> p.prompt[Len(hit) + 1]] \notin DOMAIN by_key
<1> DEFINE M == Matchable(p)
           L == Len(p.prompt)
<1>1. /\ M \in Seq(Chunk) /\ Len(M) \in Nat /\ Len(M) <= L /\ L <= Len(M) + 1
      /\ \A i \in 1 .. Len(M) : M[i] = p.prompt[i]
  BY MatchableFacts
<1>2. hit \in Seq(Blocks) /\ DOMAIN hit = 1 .. Len(hit) /\ Len(hit) \in Nat
  BY MatchFacts, LenProperties
<1>3. Len(hit) <= Len(M)
  <2>. HIDE DEF M
  <2>1. PICK m \in 0 .. Len(M) : hit \in [1 .. m -> Blocks]
    BY DEF Matches, BoundedSeq, SeqOf, M
  <2>2. Len(hit) = m
    BY <1>1, <2>1
  <2>. QED  BY <1>1, <2>1, <2>2
<1>4. L \in Nat /\ Len(hit) <= L
  <2>1. p.prompt \in Seq(Chunk)
    BY DEF Pending
  <2>. QED  BY <1>1, <1>2, <1>3, <2>1, LenProperties
<1>5. IsMatch(hit, M)
  BY DEF Matches
<1>. HIDE DEF M
<1>6. LastEntry(hit) = IF Len(hit) = 0 THEN Root ELSE EntryOf(hit[Len(hit)])
  <2>1. hit = <<>> <=> Len(hit) = 0
    BY <1>2, EmptySeq
  <2>. QED  BY <2>1 DEF LastEntry, Last, EntryOf
<1>7. ASSUME NEW i \in DOMAIN hit
      PROVE  /\ is_cached(hit[i])
             /\ by_block[hit[i]].key.tokens = p.prompt[i]
             /\ ParentOf(hit[i]) = IF i = 1 THEN Root ELSE EntryOf(hit[i - 1])
  <2> DEFINE s == SubSeq(hit, 1, i - 1)
             k == NextKey(s, M)
  <2>1. i \in 1 .. Len(hit) /\ i \in 1 .. Len(M) /\ i \in Nat
    BY <1>1, <1>2, <1>3
  <2>2. s \in Seq(Blocks) /\ Len(s) = i - 1 /\ (i # 1 => s # <<>> /\ s[i - 1] = hit[i - 1])
    <3>1. \A j \in 1 .. i - 1 : hit[j] \in Blocks
      BY <1>2, <2>1
    <3>2. /\ s \in Seq(Blocks) /\ Len(s) = IF 1 <= i - 1 THEN i - 1 - 1 + 1 ELSE 0
          /\ \A j \in 1 .. i - 1 - 1 + 1 : s[j] = hit[1 + j - 1]
      BY <2>1, <3>1, SubSeqProperties
    <3>. HIDE DEF s
    <3>3. Len(s) = i - 1
      <4>1. \A n \in Nat \ {0} : (IF 1 <= n - 1 THEN n - 1 - 1 + 1 ELSE 0) = n - 1
        OBVIOUS
      <4>. QED  BY <2>1, <3>2, <4>1
    <3>4. ASSUME i # 1 PROVE s # <<>> /\ s[i - 1] = hit[i - 1]
      <4>1. Len(s) # 0
        BY <2>1, <3>3, <3>4
      <4>2. i - 1 \in 1 .. i - 1 - 1 + 1 /\ 1 + (i - 1) - 1 = i - 1
        BY <2>1, <3>4
      <4>. QED  BY <3>2, <4>1, <4>2, EmptySeq
    <3>. QED  BY <3>2, <3>3, <3>4
  <2>3. k \in DOMAIN by_key /\ by_key[k].block = hit[i]
    BY <1>5, <2>1 DEF IsMatch
  <2>4. k.tokens = p.prompt[i]
    <3>1. Len(s) + 1 = i
      BY <2>1, <2>2
    <3>. HIDE DEF s
    <3>. QED  BY <1>1, <2>1, <3>1 DEF NextKey
  <2>5. k.parent = IF i = 1 THEN Root ELSE EntryOf(hit[i - 1])
    <3>. HIDE DEF s
    <3>1. i = 1 => s = <<>>
      BY <2>2, EmptySeq
    <3>2. i # 1 => Last(s) = hit[i - 1]
      BY <2>2 DEF Last
    <3>. QED  BY <2>2, <3>1, <3>2 DEF NextKey, LastEntry, EntryOf
  <2>. HIDE DEF k
  <2>6. hit[i] \in DOMAIN by_block /\ by_block[hit[i]].key = k
    BY <2>3 DEF AllocInv, IndexConsistent
  <2>. QED  BY <2>4, <2>5, <2>6 DEF is_cached, ParentOf
<1>8. ASSUME Len(hit) + 1 < L
      PROVE  [parent |-> LastEntry(hit), tokens |-> p.prompt[Len(hit) + 1]] \notin DOMAIN by_key
  <2>1. Len(hit) # Len(M) /\ Len(hit) + 1 \in 1 .. Len(M)
    BY <1>1, <1>2, <1>3, <1>4, <1>8
  <2>2. NextKey(hit, M) \notin DOMAIN by_key
    BY <1>5, <2>1 DEF IsMatch
  <2>. QED  BY <1>1, <2>1, <2>2 DEF NextKey
<1>. QED  BY <1>2, <1>4, <1>6, <1>7, <1>8

\* The key cache_prompt registers next.
LEMMA RegisterKey ==
  ASSUME SchedInv, OwnInv, PrivInv, ChainInv, RegisterBlock
  PROVE  LET n == Settled
             x == Head(claim)
             k == [parent |-> parent, tokens |-> cur.prompt[n + 1]]
         IN  /\ Len(claim) \in Nat \ {0} /\ Len(cur.prompt) \in Nat
             /\ n = Len(cur.prompt) - Len(claim) /\ n \in Nat
             /\ x \in Blocks /\ x = cur.blocks[n + 1] /\ n + 1 \in DOMAIN cur.blocks
             /\ k \in Key /\ CacheBlock(x, k) /\ parent' = CachedEntry(x, k)
             /\ ~is_cached(x) /\ ref_counts[x] = 1
             /\ n # 0 => /\ n \in DOMAIN cur.blocks /\ is_cached(cur.blocks[n])
                         /\ ref_counts[cur.blocks[n]] # 0
                         /\ EntryOf(cur.blocks[n]) = parent
             /\ n = 0 => parent = Root
             /\ Len(claim) # 1 => k \notin DOMAIN by_key
<1> DEFINE n == Settled
           x == Head(claim)
           L == Len(cur.prompt)
           C == Len(claim)
<1>1. pc = "register" /\ claim # <<>> /\ TypeInv /\ CountsExact
  BY DEF RegisterBlock, SchedInv, OwnInv
<1>2. /\ claim \in Seq(Blocks) /\ cur.blocks \in Seq(Blocks) /\ C \in Nat \ {0} /\ L \in Nat
      /\ C <= L /\ DOMAIN cur.blocks = 1 .. Len(cur.blocks) /\ Len(cur.blocks) \in Nat
      /\ cur.prompt \in Seq(Chunk)
  <2>1. cur.prompt \in Seq(Chunk)
    BY <1>1, RunningFacts DEF TypeInv
  <2>2. C <= L
    BY <1>1 DEF SchedInv, CallInv
  <2>. QED  BY <1>1, <2>1, <2>2, TableTypes, EmptySeq, LenProperties
<1>3. n = L - C /\ n \in Nat /\ Full = cur.blocks
  BY <1>1, <1>2 DEF Settled, Full
<1>. HIDE DEF n
<1>4. 1 \in DOMAIN claim /\ x = claim[1] /\ x \in Blocks
  BY <1>1, <1>2, TailOrigin, TailElements
<1>5. n + 1 \in DOMAIN cur.blocks /\ x = cur.blocks[n + 1]
  <2>1. L - C + 1 \in DOMAIN cur.blocks /\ claim[1] = cur.blocks[L - C + 1] /\ L - C + 1 > cur.cached
    BY <1>1, <1>4 DEF PrivInv
  <2>. QED  BY <1>3, <1>4, <2>1
<1>6. ~is_cached(x) /\ ref_counts[x] = 1
  <2>1. n + 1 > n /\ BuildInv /\ Building
    BY <1>1, <1>3 DEF ChainInv, Building
  <2>2. ~is_cached(x)
    BY <1>3, <1>5, <2>1 DEF BuildInv, n
  <2>3. n + 1 > cur.cached
    BY <1>1, <1>3, <1>4 DEF PrivInv
  <2>. QED  BY <1>1, <1>5, <2>2, <2>3 DEF PrivInv
<1>7. /\ n # 0 => /\ n \in DOMAIN cur.blocks /\ is_cached(cur.blocks[n])
                  /\ ref_counts[cur.blocks[n]] # 0
                  /\ EntryOf(cur.blocks[n]) = parent
      /\ n = 0 => parent = Root
  <2>1. /\ IF n = 0 THEN parent = Root
           ELSE is_cached(cur.blocks[n]) /\ parent = EntryOf(cur.blocks[n])
    BY <1>1, <1>3 DEF ChainInv, Building, BuildInv, n
  <2>2. n # 0 => n \in DOMAIN cur.blocks
    BY <1>2, <1>3, <1>5
  <2>3. n # 0 => cur.blocks[n] \in Blocks /\ In(cur.blocks[n], cur.blocks)
    BY <1>2, <2>2 DEF In
  <2>. QED  BY <1>1, <2>1, <2>2, <2>3, CurOwns
<1>8. /\ CacheBlock(x, [parent |-> parent, tokens |-> cur.prompt[n + 1]])
      /\ parent' = CachedEntry(x, [parent |-> parent, tokens |-> cur.prompt[n + 1]])
  BY <1>3 DEF RegisterBlock
<1>9. [parent |-> parent, tokens |-> cur.prompt[n + 1]] \in Key
  <2>1. n + 1 \in 1 .. L
    <3>1. ASSUME NEW l \in Nat, NEW c \in Nat, c # 0, l - c \in Nat
          PROVE  l - c + 1 \in 1 .. l
      BY <3>1
    <3>2. L \in Nat /\ C \in Nat /\ C # 0 /\ L - C \in Nat
      BY <1>2, <1>3
    <3>3. L - C + 1 \in 1 .. L
      BY ONLY <3>1, <3>2
    <3>. QED  BY <1>3, <3>3
  <2>2. cur.prompt[n + 1] \in Chunk
    BY <1>2, <2>1
  <2>3. parent \in Entry
    <3>1. parent \in 0 .. next_entry - 1 /\ next_entry \in 1 .. MaxEntry + 1
      BY <1>1 DEF TypeInv, SchedInv, AllocInv, AllocTypeOK
    <3>. QED  BY <3>1, AllocatorAssumption DEF Entry
  <2>. QED  BY <2>2, <2>3 DEF Key
<1>10. C # 1 => [parent |-> parent, tokens |-> cur.prompt[n + 1]] \notin DOMAIN by_key
  <2>1. C # 1 => n + 1 < L
    <3>1. ASSUME NEW l \in Nat, NEW c \in Nat \ {0}, c # 1 PROVE l - c + 1 < l
      BY <3>1
    <3>. QED  BY <1>2, <1>3, <3>1
  <2>. QED  BY <1>1, <2>1 DEF ChainInv, Building, BuildInv, n
<1>. QED  BY <1>2, <1>3, <1>4, <1>5, <1>6, <1>7, <1>8, <1>9, <1>10 DEF n

-----------------------------------------------------------------------------
(* The order of release holds at every step.                               *)

\* What the table of cur is made of while it is built.
LEMMA FullParts ==
  ASSUME TypeInv, pc \in {"fork", "build"}
  PROVE  /\ Full \in Seq(Blocks) /\ Len(Full) = Len(cur.blocks) + Len(claim)
         /\ Len(cur.blocks) \in Nat /\ Len(claim) \in Nat
         /\ DOMAIN cur.blocks = 1 .. Len(cur.blocks) /\ DOMAIN claim = 1 .. Len(claim)
         /\ DOMAIN Full = 1 .. Len(cur.blocks) + Len(claim)
         /\ \A k \in DOMAIN Full :
              Full[k] = IF k <= Len(cur.blocks) THEN cur.blocks[k] ELSE claim[k - Len(cur.blocks)]
<1>1. cur.blocks \in Seq(Blocks) /\ claim \in Seq(Blocks) /\ Full = cur.blocks \o claim
  BY TableTypes DEF Full
<1>2. /\ cur.blocks \o claim \in Seq(Blocks)
      /\ Len(cur.blocks \o claim) = Len(cur.blocks) + Len(claim)
      /\ \A k \in 1 .. Len(cur.blocks) + Len(claim) :
           (cur.blocks \o claim)[k] =
             IF k <= Len(cur.blocks) THEN cur.blocks[k] ELSE claim[k - Len(cur.blocks)]
  BY <1>1, ConcatProperties
<1>3. /\ Len(cur.blocks) \in Nat /\ Len(claim) \in Nat
      /\ DOMAIN cur.blocks = 1 .. Len(cur.blocks) /\ DOMAIN claim = 1 .. Len(claim)
      /\ DOMAIN (cur.blocks \o claim) = 1 .. Len(cur.blocks) + Len(claim)
  BY <1>1, <1>2, LenProperties
<1>. QED  BY <1>1, <1>2, <1>3

\* A block joins the table before its time is up: the one it continues is in it.
LEMMA NextOfClaim ==
  ASSUME SchedInv, OwnInv, ChainInv, pc \in {"fork", "build"}, claim # <<>>
  PROVE  LET x == Head(claim) IN
         /\ x \in Blocks /\ Len(cur.blocks) + 1 \in DOMAIN Full /\ x = Full[Len(cur.blocks) + 1]
         /\ x \in DOMAIN by_block /\ ParentOf(x) # Root =>
              \E c \in DOMAIN by_block : EntryOf(c) = ParentOf(x) /\ ref_counts[c] # 0
<1>1. TypeInv /\ CountsExact /\ Chained(Full)
  BY DEF SchedInv, OwnInv, ChainInv
<1> DEFINE n == Len(cur.blocks)
           x == Head(claim)
<1>2. claim \in Seq(Blocks) /\ cur.blocks \in Seq(Blocks) /\ 1 \in DOMAIN claim /\ x = claim[1]
  BY <1>1, TableTypes, TailOrigin
<1>3. /\ n \in Nat /\ DOMAIN cur.blocks = 1 .. n /\ n + 1 \in DOMAIN Full /\ Full[n + 1] = x
      /\ \A k \in 1 .. n : Full[k] = cur.blocks[k]
  <2>1. /\ n \in Nat /\ Len(claim) \in Nat /\ DOMAIN cur.blocks = 1 .. n
        /\ DOMAIN claim = 1 .. Len(claim) /\ DOMAIN Full = 1 .. n + Len(claim)
        /\ \A k \in DOMAIN Full : Full[k] = IF k <= n THEN cur.blocks[k] ELSE claim[k - n]
    BY <1>1, FullParts
  <2>2. n + 1 \in 1 .. n + Len(claim) /\ ~(n + 1 <= n) /\ n + 1 - n = 1
    BY <1>2, <2>1
  <2>3. \A k \in 1 .. n : k \in 1 .. n + Len(claim) /\ k <= n
    BY <2>1
  <2>. QED  BY <1>2, <2>1, <2>2, <2>3
<1>. HIDE DEF n, x
<1>4. ASSUME x \in DOMAIN by_block, ParentOf(x) # Root
      PROVE  \E c \in DOMAIN by_block : EntryOf(c) = ParentOf(x) /\ ref_counts[c] # 0
  <2>1. n + 1 # 1 /\ is_cached(Full[n + 1 - 1]) /\ ParentOf(x) = EntryOf(Full[n + 1 - 1])
    BY <1>1, <1>3, <1>4 DEF Chained, is_cached
  <2>2. n + 1 - 1 = n /\ n \in 1 .. n
    BY <1>3, <2>1
  <2>3. is_cached(cur.blocks[n]) /\ ParentOf(x) = EntryOf(cur.blocks[n])
    BY <1>3, <2>1, <2>2
  <2>4. cur.blocks[n] \in Blocks /\ In(cur.blocks[n], cur.blocks)
    BY <1>2, <1>3, <2>2 DEF In
  <2>. QED  BY <1>1, <2>3, <2>4, CurOwns DEF is_cached
<1>5. x \in Blocks
  BY <1>2
<1>. QED  BY <1>3, <1>4, <1>5 DEF n, x

\* The tail a table gives up is continued by no block that is owned.
LEMMA LastReleased ==
  ASSUME SchedInv, OwnInv, ChainInv, ReleaseBlock
  PROVE  LET x == TailOf(cur) IN
         /\ x \in Blocks /\ Decref(x)
         /\ ref_counts[x] = 1 /\ x \in DOMAIN by_block =>
              \A b \in DOMAIN by_block : ref_counts[b] # 0 => ParentOf(b) # EntryOf(x)
<1>1. /\ AllocInv /\ TypeInv /\ Distinct /\ CountsExact /\ NoRepeat(cur.blocks)
      /\ Chained(Full) /\ Full = cur.blocks
      /\ \A i \in DOMAIN running : Chained(running[i].blocks)
  BY DEF SchedInv, OwnInv, TablesExact, ChainInv, ReleaseBlock, Full
<1> DEFINE x == TailOf(cur)
           n == Len(cur.blocks)
<1>2. /\ cur.blocks \in Seq(Blocks) /\ n \in DOMAIN cur.blocks /\ n \in Nat
      /\ DOMAIN cur.blocks = 1 .. n /\ x = cur.blocks[n] /\ x \in Blocks
  <2>1. cur.blocks \in Seq(Blocks) /\ cur.blocks # <<>>
    BY <1>1, TableTypes DEF ReleaseBlock
  <2>. QED  BY <2>1, EmptySeq, LenProperties DEF TailOf
<1>3. In(x, cur.blocks)
  BY <1>2 DEF In
<1>. HIDE DEF x
<1>4. ASSUME NEW bs \in Seq(Blocks), Chained(bs), NEW b \in DOMAIN by_block, In(b, bs),
             x \in DOMAIN by_block, ParentOf(b) = EntryOf(x)
      PROVE  \E k \in DOMAIN bs : k + 1 \in DOMAIN bs /\ bs[k] = x
  <2>1. PICK k \in DOMAIN bs : bs[k] = b
    BY <1>4 DEF In
  <2>2. ParentOf(b) # Root
    BY <1>1, <1>4, EntryFacts DEF Root
  <2>3. k # 1 /\ is_cached(bs[k - 1]) /\ ParentOf(b) = EntryOf(bs[k - 1])
    BY <1>4, <2>1, <2>2 DEF Chained, is_cached
  <2>4. bs[k - 1] = x
    BY <1>1, <1>4, <2>3, EntryFacts DEF is_cached
  <2>5. k - 1 \in DOMAIN bs /\ k - 1 + 1 \in DOMAIN bs
    BY <2>1, <2>3, LenProperties
  <2>. QED  BY <2>4, <2>5
<1>5. ASSUME ref_counts[x] = 1, x \in DOMAIN by_block, NEW b \in DOMAIN by_block,
             ref_counts[b] # 0, ParentOf(b) = EntryOf(x)
      PROVE  FALSE
  <2>1. CASE In(b, cur.blocks)
    <3>1. PICK k \in DOMAIN cur.blocks : k + 1 \in DOMAIN cur.blocks /\ cur.blocks[k] = x
      BY <1>1, <1>2, <1>4, <1>5, <2>1
    <3>2. k = n
      BY <1>1, <1>2, <3>1 DEF NoRepeat
    <3>. QED  BY <1>2, <3>1, <3>2
  <2>2. ASSUME NEW i \in DOMAIN running, In(b, running[i].blocks)
        PROVE  FALSE
    <3>1. running[i].blocks \in Seq(Blocks)
      BY <1>1, TableTypes
    <3>2. PICK k \in DOMAIN running[i].blocks : running[i].blocks[k] = x
      BY <1>1, <1>4, <1>5, <2>2, <3>1
    <3>3. In(x, running[i].blocks)
      BY <3>2 DEF In
    <3>. QED  BY <1>1, <1>2, <1>3, <1>5, <3>3, SoleTable
  <2>3. b \in Blocks
    BY <1>1, EntryFacts
  <2>. QED  BY <1>1, <1>5, <2>1, <2>2, <2>3, CurOwns
<1>6. Decref(x)
  BY DEF ReleaseBlock, x
<1>. QED  BY <1>2, <1>5, <1>6 DEF x

\* The tail copy-on-write gives up is beyond the prompt, and not registered.
LEMMA CowReleased ==
  ASSUME SchedInv, OwnInv, PrivInv, CowReplace
  PROVE  LET x == TailOf(running[Pos(Head(todo))]) IN
         x \in Blocks /\ Decref(x) /\ x \notin DOMAIN by_block
<1> DEFINE i == Pos(Head(todo))
           t == running[i]
<1>1. pc = "cow" /\ Decref(TailOf(t)) /\ TypeInv
  BY DEF CowReplace, SchedInv
<1>2. /\ i \in DOMAIN running /\ t.id = Head(todo) /\ t.blocks # <<>> /\ TailOf(t) \in Blocks
  BY <1>1, CowFacts
<1>. HIDE DEF i
<1>3. /\ last_block_has_room(t) /\ HoldsWhatItNeeds(t) /\ Covered(t.prompt, t.num_tokens)
      /\ CachedWithinPrompt(t)
  BY <1>1, <1>2 DEF OwnInv, LoopInv, TablesExact, SchedInv, PromptsCovered, PrivInv
<1>4. t \in Running /\ t.blocks \in Seq(Blocks) /\ Len(t.prompt) \in Nat
  <2>1. t \in Running /\ t.blocks \in Seq(Blocks) /\ t.prompt \in Seq(Chunk)
    BY <1>1, <1>2, TableTypes, RunningFacts DEF Running
  <2>. QED  BY <2>1, LenProperties
<1>5. Len(t.blocks) > Len(t.prompt)
  BY <1>3, <1>4, RoomBeyondPrompt
<1>6. Len(t.blocks) \in DOMAIN t.blocks /\ Len(t.blocks) \in Nat
  BY <1>2, <1>4, EmptySeq, LenProperties
<1>7. ~is_cached(t.blocks[Len(t.blocks)])
  BY <1>3, <1>4, <1>5, <1>6 DEF CachedWithinPrompt
<1>. QED  BY <1>1, <1>2, <1>7 DEF TailOf, is_cached, i

LEMMA ParentsStay == ASSUME SchedInv, OwnInv, PrivInv, ChainInv, [Next]_vars PROVE ParentsKept'
<1>1. AllocInv /\ ParentsKept
  BY DEF SchedInv, ChainInv
<1>2. UNCHANGED <<by_block, evictable, ref_counts>> => ParentsKept'
  BY <1>1, ParentsSame
<1>3. CASE UNCHANGED vars \/ Client
  BY <1>2, <1>3 DEF vars, allocVars, Client, Enqueue, Fork, FinishRunning, FinishWaiting
<1>4. CASE \/ StepBegin \/ Reserve \/ ReserveEnd \/ AdmitNext \/ AdmitEnd
           \/ FillEnd \/ RegisterEnd \/ DecodeSkip
           \/ \E i \in DOMAIN running : AppendInPlace(i) \/ Preempt(i) \/ Retire(i)
           \/ PreemptEnd \/ ReleaseEnd \/ StepEnd \/ ForkEnd
  BY <1>2, <1>4 DEF StepBegin, Reserve, ReserveEnd, AdmitNext, AdmitEnd, FillEnd, RegisterEnd,
              DecodeSkip, AppendInPlace, Preempt, Retire, PreemptEnd, ReleaseEnd,
              StepEnd, ForkEnd, allocVars
<1>5. CASE Fill \/ \E i \in DOMAIN running : AppendFresh(i) \/ CowAllocate(i)
  <2>1. PICK x \in Blocks : Allocate(x)
    BY <1>5 DEF Fill, AppendFresh, CowAllocate
  <2>. QED  BY <1>1, <2>1, ParentsAllocate
<1>6. CASE ForkBlock
  <2>1. Head(claim) \in Blocks /\ Incref(Head(claim))
    BY <1>6, NextOfClaim DEF ForkBlock
  <2>. QED  BY <1>1, <2>1, ParentsIncref
<1>7. CASE Acquire
  <2>1. AcquireCached(Head(claim)) /\ pc = "build" /\ claim # <<>>
    BY <1>7 DEF Acquire
  <2>. QED  BY <1>1, <2>1, NextOfClaim, ParentsIncref, ParentsReclaim DEF AcquireCached
<1>8. CASE CowReplace
  BY <1>1, <1>8, CowReleased, ParentsDecref
<1>9. CASE ReleaseBlock
  BY <1>1, <1>9, LastReleased, ParentsDecref
<1>10. CASE RegisterBlock
  <2> DEFINE n == Settled
             x == Head(claim)
             k == [parent |-> parent, tokens |-> cur.prompt[n + 1]]
  <2>1. /\ x \in Blocks /\ k \in Key /\ CacheBlock(x, k)
        /\ n # 0 => /\ is_cached(cur.blocks[n]) /\ ref_counts[cur.blocks[n]] # 0
                    /\ EntryOf(cur.blocks[n]) = parent
        /\ n = 0 => parent = Root
    BY <1>10, RegisterKey
  <2>. HIDE DEF n, x
  <2>2. k.parent # Root =>
          \E c \in DOMAIN by_block : EntryOf(c) = k.parent /\ ref_counts[c] # 0
    BY <2>1 DEF is_cached
  <2>. HIDE DEF k
  <2>. QED  BY <1>1, <2>1, <2>2, ParentsCache
<1>. QED  BY <1>3, <1>4, <1>5, <1>6, <1>7, <1>8, <1>9, <1>10 DEF Next, Step

-----------------------------------------------------------------------------
(* The table of cur stays a path, and what it is built behind settled.     *)

\* Between the loops that build or release a table there is none.
LEMMA FullEmpty ==
  ASSUME OwnInv', pc' \in {"idle", "reserve", "admit", "decode"}
  PROVE  ChainedNext(Full') /\ BuildInv'
<1>1. cur'.blocks = <<>> /\ ~(pc' \in {"fork", "build"}) /\ pc' # "register"
  BY DEF OwnInv, LoopInv
<1>2. Full' = <<>>
  BY <1>1 DEF Full
<1>3. ~Building'
  BY <1>1 DEF Building
<1>. QED  BY <1>2, <1>3 DEF ChainedNext, BuildInv

\* A matched block moves from claim into the table.
LEMMA FullMoves ==
  ASSUME TypeInv, TypeInv', pc \in {"fork", "build"}, claim # <<>>, UNCHANGED pc,
         claim' = Tail(claim), cur'.blocks = Append(cur.blocks, Head(claim))
  PROVE  Full' = Full
<1>1. claim \in Seq(Blocks) /\ cur.blocks \in Seq(Blocks)
  BY TableTypes
<1>2. /\ Len(claim') = Len(claim) - 1 /\ Head(claim) = claim[1] /\ Head(claim) \in Blocks
      /\ \A k \in 1 .. Len(claim) - 1 : claim'[k] = claim[k + 1]
      /\ Len(claim) \in Nat \ {0}
  <2>1. Head(claim) \in Blocks /\ Len(claim) \in Nat \ {0} /\ Head(claim) = claim[1]
    BY <1>1, TailElements, TailOrigin, EmptySeq, LenProperties
  <2>2. /\ Len(Tail(claim)) = Len(claim) - 1
        /\ \A k \in 1 .. Len(claim) - 1 : Tail(claim)[k] = claim[k + 1]
    BY <1>1, HeadTailProperties
  <2>. QED  BY <2>1, <2>2
<1>3. /\ Len(cur'.blocks) = Len(cur.blocks) + 1 /\ Len(cur.blocks) \in Nat
      /\ \A k \in 1 .. Len(cur.blocks) : cur'.blocks[k] = cur.blocks[k]
      /\ cur'.blocks[Len(cur.blocks) + 1] = claim[1]
  BY <1>1, <1>2, AppendProperties, LenProperties
<1>4. /\ Full \in Seq(Blocks) /\ DOMAIN Full = 1 .. Len(cur.blocks) + Len(claim)
      /\ \A k \in DOMAIN Full :
           Full[k] = IF k <= Len(cur.blocks) THEN cur.blocks[k] ELSE claim[k - Len(cur.blocks)]
  BY FullParts
<1>5. /\ Full' \in Seq(Blocks)
      /\ DOMAIN Full' = 1 .. Len(cur'.blocks) + Len(claim')
      /\ \A k \in DOMAIN Full' :
           Full'[k] = IF k <= Len(cur'.blocks) THEN cur'.blocks[k] ELSE claim'[k - Len(cur'.blocks)]
  <2>1. /\ cur'.blocks \in Seq(Blocks) /\ claim' \in Seq(Blocks) /\ Full' = cur'.blocks \o claim'
    BY TableTypes, <1>1, <1>2, AppendProperties, TailElements DEF Full
  <2>2. /\ cur'.blocks \o claim' \in Seq(Blocks)
        /\ Len(cur'.blocks \o claim') = Len(cur'.blocks) + Len(claim')
        /\ \A k \in 1 .. Len(cur'.blocks) + Len(claim') :
             (cur'.blocks \o claim')[k] =
               IF k <= Len(cur'.blocks) THEN cur'.blocks[k] ELSE claim'[k - Len(cur'.blocks)]
    BY <2>1, ConcatProperties
  <2>. QED  BY <2>1, <2>2, LenProperties
<1> DEFINE n == Len(cur.blocks)
           c == Len(claim)
<1>6. DOMAIN Full' = DOMAIN Full
  <2>1. ASSUME NEW a \in Nat, NEW b \in Nat PROVE a + 1 + (b - 1) = a + b
    OBVIOUS
  <2>. QED  BY <1>2, <1>3, <1>4, <1>5, <2>1
<1>7. ASSUME NEW k \in DOMAIN Full PROVE Full'[k] = Full[k]
  <2>1. k \in 1 .. n + c /\ n \in Nat /\ c \in Nat \ {0} /\ Len(cur'.blocks) = n + 1
    BY <1>2, <1>3, <1>4
  <2>. HIDE DEF n, c
  <2>2. CASE k <= n
    BY <1>3, <1>4, <1>5, <1>6, <2>1, <2>2 DEF n
  <2>3. CASE k = n + 1
    <3>1. ~(k <= n) /\ k <= n + 1 /\ k - n = 1
      BY <2>1, <2>3
    <3>. QED  BY <1>3, <1>4, <1>5, <1>6, <2>1, <2>3, <3>1 DEF n
  <2>4. CASE k > n + 1
    <3>1. /\ ~(k <= n) /\ ~(k <= n + 1) /\ k - (n + 1) \in 1 .. c - 1 /\ k - (n + 1) + 1 = k - n
      BY <2>1, <2>4
    <3>2. Full'[k] = claim'[k - (n + 1)] /\ Full[k] = claim[k - n]
      BY <1>4, <1>5, <1>6, <2>1, <3>1 DEF n
    <3>. QED  BY <1>2, <3>1, <3>2 DEF c
  <2>. QED  BY <2>1, <2>2, <2>3, <2>4
<1>8. Full' = [k \in DOMAIN Full' |-> Full'[k]] /\ Full = [k \in DOMAIN Full |-> Full[k]]
  BY <1>4, <1>5
<1>. QED  BY <1>6, <1>7, <1>8

\* The table and what it waits for stay, and so does the index.
LEMMA BuildSame ==
  ASSUME BuildInv, UNCHANGED <<by_block, by_key, parent>>, Full' = Full, Building' => Building,
         Building' => Settled' = Settled /\ cur'.prompt = cur.prompt
  PROVE  BuildInv'
BY DEF BuildInv, is_cached, EntryOf

LEMMA FullFrame ==
  ASSUME ChainInv, UNCHANGED <<by_block, by_key, pc, cur, claim, parent>>
  PROVE  ChainedNext(Full') /\ BuildInv'
<1>1. Full' = Full /\ Settled' = Settled /\ Building' = Building
  BY DEF Full, Settled, Building
<1>2. ChainedNext(Full')
  BY <1>1, ChainedSame DEF ChainInv
<1>. QED  BY <1>1, <1>2, BuildSame DEF ChainInv

\* Admission takes a match as the table to be built.
LEMMA FullAdmit ==
  ASSUME SchedInv, AdmitNext
  PROVE  ChainedNext(Full') /\ BuildInv'
<1> DEFINE p == Head(waiting)
<1>1. /\ waiting \in Seq(Pending) /\ waiting # <<>> /\ pc' = "build"
      /\ AllocInv /\ TypeInv /\ UNCHANGED <<by_block, by_key>>
  BY DEF AdmitNext, SchedInv, TypeInv, allocVars
<1>2. p \in Pending /\ 1 \in DOMAIN waiting /\ p = waiting[1]
  BY <1>1, TailOrigin, TailElements
<1>3. Covered(p.prompt, p.context_len)
  BY <1>2 DEF SchedInv, PromptsCovered
<1>. HIDE DEF p
<1>4. PICK hit \in Matches(Matchable(p)) :
        /\ claim' = hit /\ parent' = LastEntry(hit)
        /\ cur' = [id |-> p.id, blocks |-> <<>>, num_tokens |-> p.context_len,
                   max_new |-> p.max_new, generated |-> 0, prompt |-> p.prompt,
                   cached |-> Len(hit)]
  BY DEF AdmitNext, p
<1>5. cur'.blocks = <<>> /\ cur'.prompt = p.prompt /\ cur'.cached = Len(hit)
  BY <1>4
<1>6. /\ hit \in Seq(Blocks) /\ DOMAIN hit = 1 .. Len(hit) /\ Len(hit) \in Nat
      /\ \A i \in DOMAIN hit :
           /\ is_cached(hit[i])
           /\ ParentOf(hit[i]) = IF i = 1 THEN Root ELSE EntryOf(hit[i - 1])
      /\ LastEntry(hit) = IF Len(hit) = 0 THEN Root ELSE EntryOf(hit[Len(hit)])
      /\ Len(hit) + 1 < Len(p.prompt) =>
           [parent |-> LastEntry(hit), tokens |-> p.prompt[Len(hit) + 1]] \notin DOMAIN by_key
  <2>1. /\ AllocInv /\ p \in Pending /\ Covered(p.prompt, p.context_len)
        /\ hit \in Matches(Matchable(p))
    BY <1>1, <1>2, <1>3, <1>4
  <2>. QED  BY ONLY <2>1, HitFacts
<1>7. Full' = hit
  <2>1. Full' = <<>> \o hit
    BY <1>1, <1>4, <1>5 DEF Full
  <2>. QED  BY <1>6, <2>1, ConcatEmptySeq
<1>8. \A i \in DOMAIN hit : i # 1 => i - 1 \in DOMAIN hit
  BY <1>6
<1>9. ChainedNext(hit)
  BY <1>1, <1>6, <1>8 DEF ChainedNext, is_cached, ParentOf, EntryOf
<1>10. Settled' = Len(hit)
  BY <1>1, <1>5 DEF Settled
<1>11. BuildInv'
  <2>1. Len(hit) \in 0 .. Len(hit) /\ \A k \in DOMAIN hit : ~(k > Len(hit))
    BY <1>6
  <2>2. Len(hit) # 0 => Len(hit) \in DOMAIN hit
    BY <1>6
  <2>3. IF Len(hit) = 0 THEN parent' = Root
        ELSE hit[Len(hit)] \in DOMAIN by_block' /\ parent' = by_block'[hit[Len(hit)]].entry
    BY <1>1, <1>4, <1>6, <2>2 DEF is_cached, EntryOf
  <2>4. Len(hit) + 1 < Len(cur'.prompt) =>
          [parent |-> parent', tokens |-> cur'.prompt[Len(hit) + 1]] \notin DOMAIN by_key'
    BY <1>1, <1>4, <1>5, <1>6
  <2>. QED  BY <1>7, <1>10, <2>1, <2>3, <2>4 DEF BuildInv, is_cached, EntryOf
<1>. QED  BY <1>7, <1>9, <1>11

\* A computed block is appended.
LEMMA FullFill ==
  ASSUME SchedInv, OwnInv, PrivInv, ChainInv, Fill
  PROVE  ChainedNext(Full') /\ BuildInv'
<1>1. /\ TypeInv /\ AllocInv /\ CountsExact /\ IndexShrinks
      /\ pc = "build" /\ claim = <<>> /\ pc' = "build" /\ claim' = <<>> /\ parent' = parent
  <2>1. ~RegisterBlock
    BY DEF Fill, RegisterBlock
  <2>2. [Next]_vars
    BY DEF Next, Step
  <2>3. IndexShrinks
    BY <2>1, <2>2, IndexOnlyShrinks
  <2>. QED  BY <2>3 DEF SchedInv, OwnInv, Fill
<1>2. PICK x \in Blocks : Allocate(x) /\ cur' = [cur EXCEPT !.blocks = Append(@, x)]
  BY DEF Fill
<1>3. /\ cur.blocks \in Seq(Blocks) /\ Full = cur.blocks /\ cur'.blocks = Append(cur.blocks, x)
      /\ cur'.cached = cur.cached /\ cur'.prompt = cur.prompt
  BY <1>1, <1>2, FullType DEF TypeInv, RunningWith
<1>4. Append(cur.blocks, x) \in Seq(Blocks)
  BY <1>3, AppendProperties
<1>5. Full' = Append(cur.blocks, x)
  BY <1>1, <1>3, <1>4, ConcatEmptySeq DEF Full
<1>6. x \notin DOMAIN by_block'
  BY <1>1, <1>2, AllocatedFacts
<1>7. ChainedNext(cur.blocks)
  <2>1. Chained(cur.blocks)
    BY <1>3 DEF ChainInv
  <2>. QED  BY <1>1, <1>3, <2>1, CurOwns, OwnedStays
<1>8. ChainedNext(Full')
  BY <1>3, <1>5, <1>6, <1>7, ChainedGrown
<1>9. BuildInv'
  <2> DEFINE n == cur.cached
             t == Append(cur.blocks, x)
  <2>1. /\ DOMAIN t = DOMAIN cur.blocks \cup {Len(cur.blocks) + 1}
        /\ \A i \in DOMAIN cur.blocks : t[i] = cur.blocks[i]
        /\ t[Len(cur.blocks) + 1] = x
        /\ Len(t) = Len(cur.blocks) + 1 /\ Len(cur.blocks) \in Nat
        /\ DOMAIN cur.blocks = 1 .. Len(cur.blocks)
    BY <1>3, AppendOrigin, AppendProperties, LenProperties
  <2>. HIDE DEF t
  <2>2. /\ n \in 0 .. Len(cur.blocks)
        /\ IF n = 0 THEN parent = Root
           ELSE is_cached(cur.blocks[n]) /\ parent = EntryOf(cur.blocks[n])
        /\ \A k \in DOMAIN cur.blocks : k > n => ~is_cached(cur.blocks[k])
        /\ n + 1 < Len(cur.prompt) =>
             [parent |-> parent, tokens |-> cur.prompt[n + 1]] \notin DOMAIN by_key
    <3>1. Building /\ Settled = n
      BY <1>1 DEF Building, Settled
    <3>. QED  BY <1>3, <3>1 DEF ChainInv, BuildInv
  <2>. HIDE DEF n
  <2>3. n \in 0 .. Len(t)
    BY <2>1, <2>2
  <2>4. IF n = 0 THEN parent' = Root
        ELSE t[n] \in DOMAIN by_block' /\ parent' = by_block'[t[n]].entry
    <3>1. CASE n = 0
      BY <1>1, <2>2, <3>1
    <3>2. CASE n # 0
      <4>1. n \in DOMAIN cur.blocks
        BY <2>1, <2>2, <3>2
      <4>2. cur.blocks[n] \in Blocks /\ In(cur.blocks[n], cur.blocks)
        BY <1>3, <4>1 DEF In
      <4>3. ref_counts[cur.blocks[n]] # 0
        BY <1>1, <4>2, CurOwns
      <4>. QED  BY <1>1, <2>1, <2>2, <3>2, <4>1, <4>3 DEF IndexShrinks, is_cached, EntryOf
    <3>. QED  BY <3>1, <3>2
  <2>5. ASSUME NEW k \in DOMAIN t, k > n PROVE t[k] \notin DOMAIN by_block'
    BY <1>1, <1>6, <2>1, <2>2, <2>5 DEF IndexShrinks, is_cached
  <2>6. n + 1 < Len(cur.prompt) =>
          [parent |-> parent', tokens |-> cur.prompt[n + 1]] \notin DOMAIN by_key'
    BY <1>1, <2>2 DEF IndexShrinks
  <2>7. Full' = t /\ Settled' = n
    BY <1>1, <1>3, <1>5 DEF t, n, Settled
  <2>. QED  BY <1>3, <2>3, <2>4, <2>5, <2>6, <2>7 DEF BuildInv, is_cached, EntryOf
<1>. QED  BY <1>8, <1>9

\* What is left to register is what lies behind the settled blocks.
LEMMA FullFillEnd ==
  ASSUME SchedInv, OwnInv, PrivInv, ChainInv, FillEnd
  PROVE  ChainedNext(Full') /\ BuildInv'
<1>1. /\ TypeInv /\ pc = "build" /\ claim = <<>> /\ pc' = "register" /\ cur' = cur
      /\ UNCHANGED <<by_block, by_key, parent>>
      /\ claim' = IF PrefixCaching THEN SubSeq(cur.blocks, cur.cached + 1, Len(cur.prompt)) ELSE <<>>
  BY DEF FillEnd, SchedInv, allocVars
<1>2. Full' = Full
  BY <1>1, FullType DEF Full
<1>3. ASSUME claim' # <<>> PROVE Settled' = cur.cached
  <2> DEFINE L == Len(cur.prompt)
             c == cur.cached
             s == SubSeq(cur.blocks, c + 1, L)
  <2>1. claim' = s /\ s # <<>>
    BY <1>1, <1>3
  <2>2. /\ c \in Nat /\ L \in Nat /\ c <= L /\ cur.blocks \in Seq(Blocks)
        /\ DOMAIN cur.blocks = 1 .. Len(cur.blocks) /\ Len(cur.blocks) \in Nat
        /\ L <= Len(cur.blocks)
    <3>1. c <= L
      BY <1>1 DEF PrivInv
    <3>2. cur.prompt \in Seq(Chunk) /\ c \in Nat /\ cur.blocks \in Seq(Blocks) /\ cur.num_tokens \in Nat
      BY <1>1 DEF TypeInv, RunningWith
    <3>3. L \in Nat
      BY <3>2, LenProperties
    <3>4. Covered(cur.prompt, cur.num_tokens)
      BY <1>1 DEF SchedInv, PromptsCovered, Held
    <3>5. Len(cur.blocks) = CeilDiv(cur.num_tokens, BlockSize)
      BY DEF FillEnd, HoldsWhatItNeeds, blocks_for_tokens
    <3>6. L <= Len(cur.blocks)
      BY <3>2, <3>3, <3>4, <3>5, CeilDivCovers DEF Covered
    <3>. QED  BY <3>1, <3>2, <3>3, <3>6, LenProperties
  <2>3. /\ s \in Seq(Blocks)
        /\ Len(s) = IF c + 1 <= L THEN L - (c + 1) + 1 ELSE 0
    <3>1. \A i \in c + 1 .. L : cur.blocks[i] \in Blocks
      BY <2>2
    <3>. QED  BY <2>2, <3>1, SubSeqProperties
  <2>. HIDE DEF s
  <2>4. Len(s) # 0
    BY <2>1, <2>3, EmptySeq
  <2>5. L - Len(s) = c
    <3>1. ASSUME NEW l \in Nat, NEW d \in Nat PROVE l - (l - (d + 1) + 1) = d
      OBVIOUS
    <3>2. Len(s) = L - (c + 1) + 1
      BY <2>3, <2>4
    <3>3. L \in Nat /\ c \in Nat
      BY <2>2
    <3>. HIDE DEF L, c
    <3>. QED  BY <3>1, <3>2, <3>3
  <2>. QED  BY <1>1, <2>1, <2>5 DEF Settled
<1>4. ChainedNext(Full')
  BY <1>1, <1>2, ChainedSame DEF ChainInv
<1>5. Building /\ Settled = cur.cached
  BY <1>1 DEF Building, Settled
<1>6. Building' => claim' # <<>>
  BY <1>1 DEF Building
<1>. QED  BY <1>1, <1>2, <1>3, <1>4, <1>5, <1>6, BuildSame DEF ChainInv

\* cache_prompt registers the next block of the prompt.
LEMMA ChainedRegister ==
  ASSUME SchedInv, OwnInv, PrivInv, ChainInv, RegisterBlock
  PROVE  /\ \A i \in DOMAIN running : ChainedNext(running[i].blocks)
         /\ ChainedNext(Full') /\ BuildInv'
<1> DEFINE n == Settled
           x == Head(claim)
           k == [parent |-> parent, tokens |-> cur.prompt[n + 1]]
           bs == cur.blocks
<1>1. /\ AllocInv /\ TypeInv /\ Distinct /\ CountsExact /\ NoRepeat(bs)
      /\ pc = "register" /\ claim # <<>> /\ pc' = "register" /\ cur' = cur
      /\ claim' = Tail(claim) /\ Full = bs /\ Full' = bs
  BY DEF SchedInv, OwnInv, TablesExact, RegisterBlock, Full
<1>2. /\ Len(claim) \in Nat \ {0} /\ Len(cur.prompt) \in Nat
      /\ n = Len(cur.prompt) - Len(claim) /\ n \in Nat
      /\ x \in Blocks /\ x = bs[n + 1] /\ n + 1 \in DOMAIN bs
      /\ k \in Key /\ CacheBlock(x, k) /\ parent' = CachedEntry(x, k)
      /\ ~is_cached(x) /\ ref_counts[x] = 1
      /\ n # 0 => /\ n \in DOMAIN bs /\ is_cached(bs[n])
                  /\ EntryOf(bs[n]) = parent
      /\ n = 0 => parent = Root
      /\ Len(claim) # 1 => k \notin DOMAIN by_key
  BY RegisterKey
<1>3. /\ Chained(bs) /\ (\A i \in DOMAIN running : Chained(running[i].blocks))
      /\ \A j \in DOMAIN bs : j > n => ~is_cached(bs[j])
      /\ n \in 0 .. Len(bs)
  BY <1>1 DEF ChainInv, BuildInv, Building
<1>4. /\ bs \in Seq(Blocks) /\ DOMAIN bs = 1 .. Len(bs) /\ Len(bs) \in Nat
      /\ claim \in Seq(Blocks)
      /\ \A i \in DOMAIN running : running[i].blocks \in Seq(Blocks)
                                   /\ DOMAIN running[i].blocks = 1 .. Len(running[i].blocks)
  BY <1>1, TableTypes, LenProperties
<1>5. Len(claim') = Len(claim) - 1
  BY <1>1, <1>4, HeadTailProperties
<1>6. parent \in Nat /\ parent < next_entry /\ next_entry \in Nat
  BY <1>1, EntryFacts DEF TypeInv
<1>7. /\ k.parent = parent
      /\ k.tokens = cur.prompt[n + 1]
  OBVIOUS
<1>. HIDE DEF n, x, k
<1>8. CASE k \in DOMAIN by_key
  <2>1. UNCHANGED by_block /\ Len(claim) = 1
    BY <1>2, <1>8 DEF CacheBlock
  <2>2. claim' = <<>>
    <3>1. Len(claim') = 0 /\ claim' \in Seq(Blocks)
      BY <1>1, <1>4, <1>5, <2>1, HeadTailProperties
    <3>. QED  BY <3>1, EmptySeq
  <2>3. ~Building'
    BY <1>1, <2>2 DEF Building
  <2>. QED  BY <1>1, <1>3, <2>1, <2>3, ChainedSame DEF BuildInv
<1>9. CASE k \notin DOMAIN by_key
  <2>1. /\ by_block' = [c \in DOMAIN by_block \cup {x} |->
                          IF c = x THEN [entry |-> next_entry, key |-> k] ELSE by_block[c]]
        /\ DOMAIN by_key' = DOMAIN by_key \cup {k}
        /\ x \notin DOMAIN by_block /\ parent' = next_entry
    BY <1>2, <1>9 DEF CacheBlock, CachedEntry, Register, RegisterAs, is_cached
  <2>2. /\ DOMAIN by_block' = DOMAIN by_block \cup {x}
        /\ \A c \in DOMAIN by_block : by_block'[c] = by_block[c] /\ c # x
        /\ by_block'[x].key.parent = parent
        /\ by_block'[x].entry = next_entry
    BY <1>7, <2>1
  <2>. HIDE DEF bs
  <2>3. ASSUME NEW i \in DOMAIN running PROVE ChainedNext(running[i].blocks)
    <3>1. In(x, bs)
      BY <1>2 DEF In
    <3>2. ~In(x, running[i].blocks)
      BY <1>1, <1>2, <3>1, SoleTable DEF bs
    <3>3. \A j \in DOMAIN running[i].blocks : running[i].blocks[j] # x
      BY <3>2 DEF In
    <3>4. Chained(running[i].blocks)
      BY <1>3
    <3>. QED  BY <2>2, <3>3, <3>4 DEF ChainedNext, Chained, is_cached, ParentOf, EntryOf
  <2>4. ASSUME NEW j \in DOMAIN bs, bs[j] \in DOMAIN by_block'
        PROVE  IF j = 1 THEN by_block'[bs[j]].key.parent = Root
               ELSE /\ bs[j - 1] \in DOMAIN by_block'
                    /\ by_block'[bs[j]].key.parent = by_block'[bs[j - 1]].entry
    <3>1. CASE j = n + 1
      <4>1. bs[j] = x
        BY <1>2, <3>1
      <4>2. CASE n = 0
        BY <1>2, <2>2, <3>1, <4>1, <4>2
      <4>3. CASE n # 0
        <5>1. j # 1 /\ j - 1 = n
          BY <1>2, <3>1, <4>3
        <5>. QED  BY <1>2, <2>2, <4>1, <4>3, <5>1 DEF is_cached, EntryOf
      <4>. QED  BY <4>2, <4>3
    <3>2. CASE j # n + 1
      <4>1. bs[j] # x
        BY <1>1, <1>2, <3>2 DEF NoRepeat, bs
      <4>2. bs[j] \in DOMAIN by_block
        BY <2>2, <2>4, <4>1
      <4>. QED  BY <1>3, <2>2, <4>2 DEF Chained, is_cached, ParentOf, EntryOf
    <3>. QED  BY <3>1, <3>2
  <2>5. ChainedNext(bs)
    BY <2>4 DEF ChainedNext
  <2>6. ASSUME Building' PROVE BuildInv'
    <3>1. Settled' = n + 1 /\ n + 1 \in 0 .. Len(bs) /\ n + 1 # 0
      <4>1. Settled' = Len(cur.prompt) - (Len(claim) - 1)
        BY <1>1, <1>5 DEF Settled
      <4>2. ASSUME NEW l \in Nat, NEW c \in Nat PROVE l - (c - 1) = l - c + 1
        OBVIOUS
      <4>. QED  BY <1>2, <1>4, <4>1, <4>2
    <3>2. bs[n + 1] \in DOMAIN by_block' /\ parent' = by_block'[bs[n + 1]].entry
      BY <1>2, <2>1, <2>2
    <3>3. ASSUME NEW j \in DOMAIN bs, j > n + 1 PROVE bs[j] \notin DOMAIN by_block'
      <4>1. j > n /\ j # n + 1 /\ j \in Nat
        BY <1>2, <1>4, <3>3
      <4>2. bs[j] # x /\ bs[j] \notin DOMAIN by_block
        BY <1>1, <1>2, <1>3, <4>1 DEF NoRepeat, is_cached, bs
      <4>. QED  BY <2>2, <4>2
    <3>4. ASSUME NEW c PROVE [parent |-> parent', tokens |-> c] \notin DOMAIN by_key'
      <4> DEFINE m == [parent |-> next_entry, tokens |-> c]
      <4>1. m.parent = next_entry
        OBVIOUS
      <4>. HIDE DEF m
      <4>2. m # k
        BY <1>6, <1>7, <4>1
      <4>3. m \notin DOMAIN by_key
        <5>1. \A j \in DOMAIN by_key : j.parent < next_entry /\ j.parent \in Nat
          <6>1. \A j \in DOMAIN by_key : j.parent \in Nat /\ by_key[j].entry \in Nat
            BY <1>1, EntriesBelow DEF AllocInv, AllocTypeOK, Key, Entry
          <6>. QED  BY <1>1, <1>6, <6>1 DEF AllocInv, EntriesOrdered
        <5>. QED  BY <1>6, <4>1, <5>1
      <4>. QED  BY <2>1, <4>2, <4>3 DEF m
    <3>. QED  BY <1>1, <3>1, <3>2, <3>3, <3>4 DEF BuildInv, is_cached, EntryOf
  <2>. QED  BY <1>1, <2>3, <2>5, <2>6 DEF BuildInv
<1>. QED  BY <1>8, <1>9

LEMMA FullKept ==
  ASSUME SchedInv, OwnInv, PrivInv, ChainInv, [Next]_vars
  PROVE  ChainedNext(Full') /\ BuildInv'
<1>1. TypeInv /\ TypeInv' /\ OwnInv'
  BY SchedNextInv, OwnNext DEF SchedInv
<1>2. CASE UNCHANGED vars
  BY <1>2, FullFrame DEF vars, allocVars, callVars
<1>3. CASE pc' \in {"idle", "reserve", "admit", "decode"}
  BY <1>1, <1>3, FullEmpty
<1>4. ASSUME NEW i \in DOMAIN running, NEW m \in ForkNew, Fork(i, m)
      PROVE  ChainedNext(Full') /\ BuildInv'
  <2>1. cur'.blocks = <<>> /\ claim' = running[i].blocks /\ pc' = "fork" /\ UNCHANGED by_block
    BY <1>4 DEF Fork, allocVars
  <2>2. Full' = running[i].blocks
    BY <1>1, <2>1, TableTypes, ConcatEmptySeq DEF Full
  <2>. QED  BY <2>1, <2>2, ChainedSame DEF ChainInv, BuildInv, Building
<1>5. CASE ForkBlock \/ Acquire
  <2>1. /\ pc \in {"fork", "build"} /\ claim # <<>> /\ claim' = Tail(claim)
        /\ cur' = [cur EXCEPT !.blocks = Append(@, Head(claim))]
        /\ UNCHANGED <<pc, parent, by_block, by_key>>
    BY <1>5 DEF ForkBlock, Acquire, Incref, AcquireCached, Reclaim
  <2>2. cur'.blocks = Append(cur.blocks, Head(claim)) /\ cur'.prompt = cur.prompt
        /\ cur'.cached = cur.cached
    BY <1>1, <2>1 DEF TypeInv, RunningWith
  <2>3. Full' = Full
    BY <1>1, <2>1, <2>2, FullMoves
  <2>4. ChainedNext(Full')
    BY <2>1, <2>3, ChainedSame DEF ChainInv
  <2>5. (Building' => Building) /\ (Building' => Settled' = Settled)
    BY <2>1, <2>2 DEF Building, Settled
  <2>. QED  BY <2>1, <2>2, <2>3, <2>4, <2>5, BuildSame DEF ChainInv
<1>6. CASE Fill
  BY <1>6, FullFill
<1>7. CASE FillEnd
  BY <1>7, FullFillEnd
<1>8. CASE RegisterBlock
  BY <1>8, ChainedRegister
<1>9. CASE AdmitNext
  BY <1>9, FullAdmit
<1>10. ASSUME NEW i \in DOMAIN running, FinishRunning(i) \/ Preempt(i) \/ Retire(i)
       PROVE  ChainedNext(Full') /\ BuildInv'
  <2>1. \E j \in DOMAIN running : cur' = running[j]
    BY <1>1, <1>10, VictimFacts DEF FinishRunning, Preempt, Retire
  <2>2. pc' \in {"finish", "preempt", "retire"} /\ UNCHANGED by_block
    BY <1>10 DEF FinishRunning, Preempt, Retire, allocVars
  <2>3. Full' = cur'.blocks
    BY <2>2 DEF Full
  <2>. QED  BY <2>1, <2>2, <2>3, ChainedSame DEF ChainInv, BuildInv, Building
<1>11. ASSUME NEW i \in DOMAIN running, CowAllocate(i)
       PROVE  ChainedNext(Full') /\ BuildInv'
  <2>1. PICK x \in Blocks : Allocate(x) /\ cur' = [NoSeq EXCEPT !.blocks = <<x>>]
    BY <1>11 DEF CowAllocate
  <2>2. Full' = <<x>> /\ ~Building'
    BY <1>11, <2>1 DEF CowAllocate, Full, Building, NoSeq
  <2>3. x \notin DOMAIN by_block'
    BY <2>1, AllocatedFacts DEF SchedInv
  <2>. QED  BY <2>2, <2>3 DEF ChainedNext, BuildInv
<1>12. CASE ReleaseBlock
  <2>1. /\ pc \in {"preempt", "retire", "finish"} /\ cur.blocks # <<>> /\ UNCHANGED <<pc, by_block>>
        /\ cur' = [cur EXCEPT !.blocks = SubSeq(@, 1, Len(@) - 1)]
    BY <1>12 DEF ReleaseBlock, Decref
  <2>2. cur'.blocks = SubSeq(cur.blocks, 1, Len(cur.blocks) - 1) /\ cur.blocks \in Seq(Blocks)
    BY <1>1, <2>1 DEF TypeInv, RunningWith
  <2>3. Full = cur.blocks /\ Full' = cur'.blocks /\ ~Building'
    BY <2>1 DEF Full, Building
  <2>4. ChainedNext(cur.blocks)
    BY <2>1, <2>3, ChainedSame DEF ChainInv
  <2>. QED  BY <2>1, <2>2, <2>3, <2>4, ChainedFront DEF BuildInv
<1>13. ASSUME \/ \E r \in Requests : Enqueue(r)
              \/ \E i \in DOMAIN waiting : FinishWaiting(i)
              \/ StepBegin \/ Reserve \/ ReserveEnd \/ AdmitEnd \/ RegisterEnd \/ DecodeSkip
              \/ \E i \in DOMAIN running : AppendInPlace(i) \/ AppendFresh(i)
              \/ CowReplace \/ PreemptEnd \/ StepEnd \/ ForkEnd \/ ReleaseEnd
       PROVE  pc' \in {"idle", "reserve", "admit", "decode"}
  BY <1>13 DEF Enqueue, FinishWaiting, StepBegin, Reserve, ReserveEnd, AdmitEnd, RegisterEnd,
       DecodeSkip, AppendInPlace, AppendFresh, Decoding, CowReplace, PreemptEnd, StepEnd,
       ForkEnd, ReleaseEnd, callVars
<1>. QED  BY <1>2, <1>3, <1>4, <1>5, <1>6, <1>7, <1>8, <1>9, <1>10, <1>11, <1>12, <1>13
             DEF Next, Client, Step

LEMMA ChainKept == ASSUME SchedInv, OwnInv, PrivInv, ChainInv, [Next]_vars PROVE ChainInv'
<1>1. ParentsKept'
  BY ParentsStay
<1>2. ChainedNext(Full') /\ BuildInv'
  BY FullKept
<1>3. \A j \in DOMAIN running' : ChainedNext(running'[j].blocks)
  <2>1. CASE ~RegisterBlock
    BY <2>1, BatchChained
  <2>2. CASE RegisterBlock
    BY <2>2, ChainedRegister DEF RegisterBlock
  <2>. QED  BY <2>1, <2>2
<1>. QED  BY <1>1, <1>2, <1>3 DEF ChainInv, Chained, ChainedNext, is_cached, ParentOf, EntryOf

LEMMA ChainInit == Init => ChainInv
<1>1. SUFFICES ASSUME Init PROVE ChainInv
  OBVIOUS
<1>2. DOMAIN by_block = {} /\ running = <<>> /\ pc = "idle" /\ Full = <<>>
  BY <1>1 DEF Init, AllocInit, Full, NoSeq
<1>. QED  BY <1>2 DEF ChainInv, ParentsKept, Chained, BuildInv, Building

LEMMA ChainInvariant == Spec => [](SchedInv /\ OwnInv /\ PrivInv /\ ChainInv)
<1> DEFINE I == SchedInv /\ OwnInv /\ PrivInv /\ ChainInv
<1>1. Init => I
  BY SchedInitInv, OwnInit, PrivInit, ChainInit
<1>2. I /\ [Next]_vars => I'
  BY SchedNextInv, OwnNext, PrivKept, ChainKept
<1>. QED  BY <1>1, <1>2, PTL DEF Spec

(***************************************************************************)
(* block_table.rs:193-195, "a sequence's later blocks are evicted before   *)
(* its prefix": the block a registered block continues is registered too,  *)
(* so the cache keeps nothing that match_prefix could not find.            *)
(***************************************************************************)
THEOREM PrefixesStayReachable == Spec => []PrefixesReachable
<1>1. ChainInv => PrefixesReachable
  BY DEF ChainInv, ParentsKept, ParentKept, PrefixesReachable, EntryOf, ParentOf
<1>. QED  BY <1>1, ChainInvariant, PTL

-----------------------------------------------------------------------------
(* What the blocks of a prompt hold.                                       *)

\* b was filled for the tokens it is registered under, behind those of the
\* block it continues.
Written(b) ==
  \/ ParentOf(b) = Root /\ holds[b] = <<by_block[b].key.tokens>>
  \/ \E c \in DOMAIN by_block :
       EntryOf(c) = ParentOf(b) /\ holds[b] = Append(holds[c], by_block[b].key.tokens)

\* The k-th block of a table with prompt p was filled for p up to there.
HoldsPrompt(bs, p) == \A k \in DOMAIN bs : k <= Len(p) => holds[bs[k]] = SubSeq(p, 1, k)

HoldInv ==
  /\ \A b \in DOMAIN by_block : Written(b)
  /\ \A i \in DOMAIN running : HoldsPrompt(running[i].blocks, running[i].prompt)
  /\ pc \in {"fork", "build", "register"} => HoldsPrompt(Full, cur.prompt)

\* The same after the step.
WrittenNext(b) ==
  \/ by_block'[b].key.parent = Root /\ holds'[b] = <<by_block'[b].key.tokens>>
  \/ \E c \in DOMAIN by_block' :
       /\ by_block'[c].entry = by_block'[b].key.parent
       /\ holds'[b] = Append(holds'[c], by_block'[b].key.tokens)

HoldsPromptNext(bs, p) == \A k \in DOMAIN bs : k <= Len(p) => holds'[bs[k]] = SubSeq(p, 1, k)

\* Along a match the contents add up to the prompt.
LEMMA HitHolds ==
  ASSUME AllocInv, \A b \in DOMAIN by_block : Written(b),
         NEW p \in Pending, Covered(p.prompt, p.context_len),
         NEW hit \in Matches(Matchable(p))
  PROVE  \A i \in DOMAIN hit : holds[hit[i]] = SubSeq(p.prompt, 1, i)
<1> DEFINE bad == {i \in DOMAIN hit : holds[hit[i]] # SubSeq(p.prompt, 1, i)}
<1>1. /\ DOMAIN hit = 1 .. Len(hit) /\ Len(hit) \in Nat /\ Len(hit) <= Len(p.prompt)
      /\ \A i \in DOMAIN hit :
           /\ hit[i] \in DOMAIN by_block
           /\ by_block[hit[i]].key.tokens = p.prompt[i]
           /\ ParentOf(hit[i]) = IF i = 1 THEN Root ELSE EntryOf(hit[i - 1])
  BY HitFacts DEF is_cached
<1>2. p.prompt \in Seq(Chunk)
  BY DEF Pending
<1>3. SUFFICES ASSUME bad # {} PROVE FALSE
  OBVIOUS
<1>4. bad \in SUBSET Nat
  BY <1>1
<1>5. PICK n \in bad : \A m \in bad : n <= m
  <2>. HIDE DEF bad
  <2>. QED  BY <1>3, <1>4, LeastNatural
<1>6. n \in 1 .. Len(p.prompt) /\ n \in DOMAIN hit /\ n \in Nat /\ Len(p.prompt) \in Nat
  BY <1>1, <1>2, LenProperties
<1>7. Written(hit[n])
  BY <1>1, <1>6
<1>8. CASE n = 1
  <2>1. ParentOf(hit[n]) = Root /\ \A c \in DOMAIN by_block : EntryOf(c) # Root
    BY <1>1, <1>6, <1>8, EntryFacts DEF Root
  <2>2. holds[hit[n]] = <<p.prompt[n]>>
    BY <1>1, <1>6, <1>7, <2>1 DEF Written
  <2>. QED  BY <1>2, <1>6, <1>8, <2>2, PrefixGrows
<1>9. CASE n # 1
  <2>1. n - 1 \in DOMAIN hit /\ n - 1 \notin bad
    <3>. HIDE DEF bad
    <3>. QED  BY <1>1, <1>5, <1>6, <1>9
  <2>2. holds[hit[n - 1]] = SubSeq(p.prompt, 1, n - 1)
    BY <2>1
  <2>3. /\ ParentOf(hit[n]) = EntryOf(hit[n - 1]) /\ hit[n - 1] \in DOMAIN by_block
        /\ ParentOf(hit[n]) # Root
    BY <1>1, <1>6, <1>9, <2>1, EntryFacts DEF Root
  <2>4. PICK c \in DOMAIN by_block :
          EntryOf(c) = ParentOf(hit[n]) /\ holds[hit[n]] = Append(holds[c], p.prompt[n])
    BY <1>1, <1>6, <1>7, <2>3 DEF Written
  <2>5. c = hit[n - 1]
    BY <2>3, <2>4, EntryFacts
  <2>6. holds[hit[n]] = SubSeq(p.prompt, 1, n)
    BY <1>2, <1>6, <2>2, <2>4, <2>5, PrefixGrows
  <2>. QED  BY <2>6
<1>. QED  BY <1>8, <1>9

\* A step writes no block but the one it allocates.
LEMMA OnlyNewWritten ==
  ASSUME SchedInv, [Next]_vars
  PROVE  \/ holds' = holds
         \/ \E x \in Blocks : /\ Allocate(x) /\ x \notin DOMAIN by_block'
                              /\ ref_counts[x] = 0
                              /\ \A b \in Blocks : b # x => holds'[b] = holds[b]
<1>1. holds \in [Blocks -> Seq(Chunk)] /\ AllocInv
  BY DEF SchedInv, TypeInv
<1>2. CASE UNCHANGED vars
  BY <1>2 DEF vars, histVars
<1>3. CASE Client
  BY <1>3 DEF Client, Enqueue, Fork, FinishRunning, FinishWaiting, histVars
<1>4. CASE Fill \/ \E i \in DOMAIN running : AppendFresh(i) \/ CowAllocate(i)
  <2>1. PICK x \in Blocks : Allocate(x) /\ \E v : holds' = [holds EXCEPT ![x] = v]
    BY <1>4 DEF Fill, AppendFresh, CowAllocate
  <2>2. \A b \in Blocks : b # x => holds'[b] = holds[b]
    BY <1>1, <2>1
  <2>. QED  BY <1>1, <2>1, <2>2, AllocatedFacts
<1>5. CASE \/ StepBegin \/ Reserve \/ ReserveEnd \/ AdmitNext \/ AdmitEnd \/ Acquire
           \/ FillEnd \/ RegisterBlock \/ RegisterEnd \/ DecodeSkip
           \/ \E i \in DOMAIN running : AppendInPlace(i) \/ Preempt(i) \/ Retire(i)
           \/ CowReplace \/ ReleaseBlock \/ PreemptEnd \/ ReleaseEnd \/ StepEnd
           \/ ForkBlock \/ ForkEnd
  BY <1>5 DEF StepBegin, Reserve, ReserveEnd, AdmitNext, AdmitEnd, Acquire, FillEnd,
              RegisterBlock, RegisterEnd, DecodeSkip, AppendInPlace, Preempt, Retire,
              CowReplace, ReleaseBlock, PreemptEnd, ReleaseEnd, StepEnd, ForkBlock, ForkEnd,
              histVars
<1>. QED  BY <1>2, <1>3, <1>4, <1>5 DEF Next, Step

LEMMA HoldsStay ==
  ASSUME SchedInv, [Next]_vars
  PROVE  \A b \in Blocks : ref_counts[b] # 0 \/ b \in DOMAIN by_block' => holds'[b] = holds[b]
BY OnlyNewWritten

LEMMA WrittenKept ==
  ASSUME SchedInv, OwnInv, PrivInv, ChainInv, HoldInv, [Next]_vars
  PROVE  \A b \in DOMAIN by_block' : WrittenNext(b)
<1>1. AllocInv
  BY DEF SchedInv
<1>2. ASSUME ~RegisterBlock, NEW b \in DOMAIN by_block' PROVE WrittenNext(b)
  <2>1. /\ b \in DOMAIN by_block /\ DOMAIN by_block' \subseteq DOMAIN by_block
        /\ \A c \in DOMAIN by_block' : by_block'[c] = by_block[c]
    BY <1>2, IndexOnlyShrinks DEF IndexShrinks
  <2>2. \A c \in DOMAIN by_block' : holds'[c] = holds[c]
    BY <1>1, <2>1, EntryFacts, HoldsStay
  <2>3. CASE ParentOf(b) = Root /\ holds[b] = <<by_block[b].key.tokens>>
    BY <1>2, <2>1, <2>2, <2>3 DEF WrittenNext, ParentOf
  <2>4. ASSUME NEW c \in DOMAIN by_block, EntryOf(c) = ParentOf(b),
               holds[b] = Append(holds[c], by_block[b].key.tokens)
        PROVE  WrittenNext(b)
    <3>1. by_block'[b].key.parent # Root
      BY <1>1, <1>2, <2>1, <2>4, EntryFacts DEF Root, ParentOf
    <3>2. PICK d \in DOMAIN by_block' : by_block'[d].entry = by_block'[b].key.parent
      BY <1>2, <3>1, ParentsStay DEF ParentsKept, ParentKept, EntryOf, ParentOf
    <3>3. d = c
      BY <1>1, <1>2, <2>1, <2>4, <3>2, EntryFacts DEF EntryOf, ParentOf
    <3>. QED  BY <1>2, <2>1, <2>2, <2>4, <3>2, <3>3 DEF WrittenNext
  <2>. QED  BY <2>1, <2>3, <2>4 DEF HoldInv, Written
<1>3. CASE RegisterBlock
  <2> DEFINE n == Settled
             x == Head(claim)
             k == [parent |-> parent, tokens |-> cur.prompt[n + 1]]
             bs == cur.blocks
  <2>1. /\ n \in Nat /\ x \in Blocks /\ x = bs[n + 1] /\ n + 1 \in DOMAIN bs
        /\ CacheBlock(x, k) /\ ~is_cached(x)
        /\ n # 0 => /\ n \in DOMAIN bs /\ is_cached(bs[n]) /\ EntryOf(bs[n]) = parent
        /\ n = 0 => parent = Root
        /\ Len(claim) \in Nat \ {0} /\ Len(cur.prompt) \in Nat
        /\ n = Len(cur.prompt) - Len(claim)
    BY <1>3, RegisterKey
  <2>2. holds' = holds /\ cur.prompt \in Seq(Chunk) /\ HoldsPrompt(bs, cur.prompt)
    BY <1>3, RunningFacts DEF RegisterBlock, HoldInv, Full, SchedInv, TypeInv, histVars
  <2>3. k.parent = parent /\ k.tokens = cur.prompt[n + 1]
    OBVIOUS
  <2>. HIDE DEF n, x, k, bs
  <2>4. n + 1 <= Len(cur.prompt) /\ n <= Len(cur.prompt)
    <3>1. ASSUME NEW l \in Nat, NEW c \in Nat \ {0} PROVE l - c + 1 <= l /\ l - c <= l
      OBVIOUS
    <3>. QED  BY <2>1, <3>1
  <2>5. CASE k \in DOMAIN by_key
    <3>1. UNCHANGED by_block
      BY <2>1, <2>5 DEF CacheBlock
    <3>. QED  BY <2>2, <3>1 DEF HoldInv, Written, WrittenNext, EntryOf, ParentOf
  <2>6. CASE k \notin DOMAIN by_key
    <3>1. by_block' = [c \in DOMAIN by_block \cup {x} |->
                         IF c = x THEN [entry |-> next_entry, key |-> k] ELSE by_block[c]]
      BY <2>1, <2>6 DEF CacheBlock, Register, RegisterAs, is_cached
    <3>2. /\ DOMAIN by_block' = DOMAIN by_block \cup {x} /\ x \notin DOMAIN by_block
          /\ \A c \in DOMAIN by_block : by_block'[c] = by_block[c]
          /\ by_block'[x].key = k
      BY <2>1, <3>1 DEF is_cached
    <3>3. \A b \in DOMAIN by_block : WrittenNext(b)
      BY <2>2, <3>2 DEF HoldInv, Written, WrittenNext, EntryOf, ParentOf
    <3>4. holds[x] = SubSeq(cur.prompt, 1, n + 1) /\ n + 1 \in 1 .. Len(cur.prompt) /\ n + 1 - 1 = n
      <4>1. n \in Nat /\ Len(cur.prompt) \in Nat /\ n + 1 <= Len(cur.prompt)
        BY <2>1, <2>4
      <4>2. n + 1 \in 1 .. Len(cur.prompt) /\ n + 1 - 1 = n
        BY ONLY <4>1
      <4>. QED  BY <2>1, <2>2, <4>1, <4>2 DEF HoldsPrompt
    <3>5. WrittenNext(x)
      <4>1. CASE n = 0
        <5>1. holds[x] = <<k.tokens>>
          BY <2>2, <2>3, <3>4, <4>1, PrefixGrows
        <5>. QED  BY <2>1, <2>2, <2>3, <3>2, <4>1, <5>1 DEF WrittenNext
      <4>2. CASE n # 0
        <5>1. holds[bs[n]] = SubSeq(cur.prompt, 1, n)
          BY <2>1, <2>2, <2>4, <4>2 DEF HoldsPrompt
        <5>2. holds[x] = Append(holds[bs[n]], k.tokens)
          <6>1. SubSeq(cur.prompt, 1, n + 1) = Append(SubSeq(cur.prompt, 1, n), cur.prompt[n + 1])
            <7>1. \A q \in Nat, m \in 1 .. Len(cur.prompt) : m = q + 1 =>
                    SubSeq(cur.prompt, 1, m) = Append(SubSeq(cur.prompt, 1, q), cur.prompt[m])
              <8>1. \A q \in Nat, m \in 1 .. Len(cur.prompt) : m = q + 1 => q = m - 1
                BY <2>1
              <8>. QED  BY <2>2, <8>1, PrefixGrows
            <7>. QED  BY <2>1, <3>4, <7>1
          <6>. QED  BY <2>3, <3>4, <5>1, <6>1
        <5>. QED  BY <2>1, <2>2, <2>3, <3>2, <4>2, <5>2 DEF WrittenNext, is_cached, EntryOf
      <4>. QED  BY <4>1, <4>2
    <3>. QED  BY <3>2, <3>3, <3>5
  <2>. QED  BY <2>5, <2>6
<1>. QED  BY <1>2, <1>3

\* A table whose blocks are owned.
LEMMA OwnedHolds ==
  ASSUME SchedInv, [Next]_vars, NEW bs \in Seq(Blocks), NEW p, HoldsPrompt(bs, p),
         \A b \in Blocks : In(b, bs) => ref_counts[b] # 0
  PROVE  HoldsPromptNext(bs, p)
<1>1. \A k \in DOMAIN bs : bs[k] \in Blocks /\ In(bs[k], bs)
  BY DEF In
<1>. QED  BY <1>1, HoldsStay DEF HoldsPrompt, HoldsPromptNext

LEMMA GrownHolds ==
  ASSUME NEW bs \in Seq(Blocks), NEW x \in Blocks, NEW p, HoldsPromptNext(bs, p),
         Len(bs) + 1 <= Len(p) => holds'[x] = SubSeq(p, 1, Len(bs) + 1)
  PROVE  HoldsPromptNext(Append(bs, x), p)
<1> DEFINE t == Append(bs, x)
<1>1. /\ DOMAIN t = DOMAIN bs \cup {Len(bs) + 1}
      /\ \A i \in DOMAIN bs : t[i] = bs[i]
      /\ t[Len(bs) + 1] = x
  BY AppendOrigin
<1>. HIDE DEF t
<1>2. HoldsPromptNext(t, p)
  BY <1>1 DEF HoldsPromptNext
<1>. QED  BY <1>2 DEF t

\* The batch's tables after the step.
LEMMA BatchHolds ==
  ASSUME SchedInv, OwnInv, PrivInv, ChainInv, HoldInv, [Next]_vars, NEW j \in DOMAIN running'
  PROVE  HoldsPromptNext(running'[j].blocks, running'[j].prompt)
<1>1. TypeInv /\ AllocInv /\ CountsExact
  BY DEF SchedInv, OwnInv
<1>2. ASSUME NEW k \in DOMAIN running
      PROVE  /\ running[k] \in Running /\ running[k].blocks \in Seq(Blocks)
             /\ running[k].prompt \in Seq(Chunk) /\ Len(running[k].prompt) \in Nat
             /\ HoldsWhatItNeeds(running[k]) /\ Covered(running[k].prompt, running[k].num_tokens)
             /\ HoldsPromptNext(running[k].blocks, running[k].prompt)
  <2>1. running[k] \in Running /\ running[k].blocks \in Seq(Blocks)
        /\ running[k].prompt \in Seq(Chunk)
    BY <1>1, TableTypes, RunningFacts DEF TypeInv, Running
  <2>2. \A b \in Blocks : In(b, running[k].blocks) => ref_counts[b] # 0
    BY <1>1, OwnedIsReferenced
  <2>3. HoldsPrompt(running[k].blocks, running[k].prompt)
    BY DEF HoldInv
  <2>. QED  BY <2>1, <2>2, <2>3, OwnedHolds, LenProperties
            DEF OwnInv, TablesExact, SchedInv, PromptsCovered
<1>3. CASE \E k \in DOMAIN running : running'[j] = running[k]
  BY <1>2, <1>3
<1>4. CASE (ForkEnd \/ RegisterEnd) /\ running'[j] = cur
  <2>1. Full = cur.blocks /\ cur.blocks \in Seq(Blocks) /\ pc \in {"fork", "build", "register"}
    BY <1>1, <1>4, FullType DEF ForkEnd, RegisterEnd
  <2>2. HoldsPrompt(cur.blocks, cur.prompt)
    BY <2>1 DEF HoldInv
  <2>3. \A b \in Blocks : In(b, cur.blocks) => ref_counts[b] # 0
    BY <1>1, CurOwns
  <2>. QED  BY <1>1, <1>4, <2>1, <2>2, <2>3, OwnedHolds
<1>5. CASE j \in DOMAIN running /\ running'[j].blocks = running[j].blocks
           /\ running'[j].prompt = running[j].prompt
  BY <1>2, <1>5
<1>6. ASSUME j \in DOMAIN running, NEW x \in Blocks, Allocate(x),
             running'[j].prompt = running[j].prompt,
             running'[j].blocks = Append(running[j].blocks, x)
      PROVE  HoldsPromptNext(running'[j].blocks, running'[j].prompt)
  <2> DEFINE t == running[j]
  <2>1. /\ t.blocks \in Seq(Blocks) /\ Len(t.prompt) \in Nat /\ Len(t.blocks) \in Nat
        /\ HoldsPromptNext(t.blocks, t.prompt)
    BY <1>2, <1>6, LenProperties
  <2>2. Len(t.prompt) <= Len(t.blocks)
    <3>1. t.num_tokens \in Nat /\ Len(t.prompt) * BlockSize <= t.num_tokens
      BY <1>1, <1>2, <1>6, TableTypes DEF Covered
    <3>2. Len(t.blocks) = CeilDiv(t.num_tokens, BlockSize)
      BY <1>2, <1>6 DEF HoldsWhatItNeeds, blocks_for_tokens
    <3>. QED  BY <2>1, <3>1, <3>2, CeilDivCovers
  <2>3. ~(Len(t.blocks) + 1 <= Len(t.prompt))
    BY <2>1, <2>2
  <2>. QED  BY <1>6, <2>1, <2>3, GrownHolds
<1>7. ASSUME j \in DOMAIN running, running[j].blocks # <<>>, last_block_has_room(running[j]),
             running'[j].prompt = running[j].prompt, NEW x,
             running'[j].blocks = [running[j].blocks EXCEPT ![Len(running[j].blocks)] = x]
      PROVE  HoldsPromptNext(running'[j].blocks, running'[j].prompt)
  <2> DEFINE t == running[j]
             bs == [t.blocks EXCEPT ![Len(t.blocks)] = x]
  <2>1. Len(t.blocks) > Len(t.prompt)
    BY <1>2, <1>7, RoomBeyondPrompt
  <2>2. /\ Len(t.prompt) \in Nat /\ Len(t.blocks) \in Nat
        /\ HoldsPromptNext(t.blocks, t.prompt)
    BY <1>2, <1>7, LenProperties
  <2>3. DOMAIN bs = DOMAIN t.blocks /\ \A k \in DOMAIN bs : k # Len(t.blocks) => bs[k] = t.blocks[k]
    OBVIOUS
  <2>4. DOMAIN t.blocks \subseteq Nat
    BY <1>2, <1>7, LenProperties
  <2>5. running'[j].blocks = bs
    BY <1>7
  <2>. HIDE DEF bs
  <2>6. HoldsPromptNext(bs, t.prompt)
    BY <2>1, <2>2, <2>3, <2>4 DEF HoldsPromptNext
  <2>. QED  BY <1>7, <2>5, <2>6
<1>. QED  BY <1>3, <1>4, <1>5, <1>6, <1>7, BatchOrigin

\* The table of cur after the step.
LEMMA FullHolds ==
  ASSUME SchedInv, OwnInv, PrivInv, ChainInv, HoldInv, [Next]_vars,
         pc' \in {"fork", "build", "register"}
  PROVE  HoldsPromptNext(Full', cur'.prompt)
<1>1. TypeInv /\ TypeInv' /\ AllocInv /\ CountsExact
  BY SchedNextInv DEF SchedInv, OwnInv
<1>2. ASSUME UNCHANGED <<pc, cur, claim, holds>> PROVE HoldsPromptNext(Full', cur'.prompt)
  <2>1. Full' = Full /\ cur'.prompt = cur.prompt /\ HoldsPrompt(Full, cur.prompt)
    BY <1>2 DEF Full, HoldInv
  <2>. QED  BY <1>2, <2>1 DEF HoldsPrompt, HoldsPromptNext
<1>3. CASE UNCHANGED vars
  BY <1>2, <1>3 DEF vars, callVars, histVars
<1>4. ASSUME NEW i \in DOMAIN running, NEW m \in ForkNew, Fork(i, m)
      PROVE  HoldsPromptNext(Full', cur'.prompt)
  <2>1. cur'.blocks = <<>> /\ cur'.prompt = running[i].prompt /\ claim' = running[i].blocks
        /\ pc' = "fork" /\ holds' = holds
    BY <1>4 DEF Fork
  <2>2. Full' = running[i].blocks
    BY <1>1, <2>1, TableTypes, ConcatEmptySeq DEF Full
  <2>. QED  BY <2>1, <2>2 DEF HoldInv, HoldsPrompt, HoldsPromptNext
<1>5. CASE ForkBlock \/ Acquire
  <2>1. /\ pc \in {"fork", "build"} /\ claim # <<>> /\ claim' = Tail(claim)
        /\ cur' = [cur EXCEPT !.blocks = Append(@, Head(claim))]
        /\ UNCHANGED <<pc, holds>>
    BY <1>5 DEF ForkBlock, Acquire, histVars
  <2>2. cur'.blocks = Append(cur.blocks, Head(claim)) /\ cur'.prompt = cur.prompt
    BY <1>1, <2>1 DEF TypeInv, RunningWith
  <2>3. Full' = Full
    BY <1>1, <2>1, <2>2, FullMoves
  <2>. QED  BY <2>1, <2>2, <2>3 DEF HoldInv, HoldsPrompt, HoldsPromptNext
<1>6. CASE Fill
  <2>1. PICK x \in Blocks :
          /\ Allocate(x) /\ cur' = [cur EXCEPT !.blocks = Append(@, x)]
          /\ holds' = [holds EXCEPT ![x] =
                         IF Len(cur.blocks) < Len(cur.prompt)
                         THEN SubSeq(cur.prompt, 1, Len(cur.blocks) + 1) ELSE <<>>]
    BY <1>6 DEF Fill
  <2>2. /\ pc = "build" /\ claim = <<>> /\ pc' = "build" /\ claim' = <<>>
        /\ cur.blocks \in Seq(Blocks) /\ Full = cur.blocks
        /\ cur'.blocks = Append(cur.blocks, x) /\ cur'.prompt = cur.prompt
        /\ cur.prompt \in Seq(Chunk) /\ holds \in [Blocks -> Seq(Chunk)]
    BY <1>1, <1>6, <2>1, FullType, RunningFacts DEF Fill, TypeInv, RunningWith
  <2>3. Append(cur.blocks, x) \in Seq(Blocks)
    BY <2>2, AppendProperties
  <2>4. Full' = Append(cur.blocks, x)
    BY <1>1, <2>2, <2>3, ConcatEmptySeq DEF Full
  <2>5. HoldsPromptNext(cur.blocks, cur.prompt)
    BY <1>1, <2>2, CurOwns, OwnedHolds DEF HoldInv
  <2>6. Len(cur.blocks) + 1 <= Len(cur.prompt) =>
          holds'[x] = SubSeq(cur.prompt, 1, Len(cur.blocks) + 1)
    <3>1. Len(cur.blocks) \in Nat /\ Len(cur.prompt) \in Nat
      BY <2>2, LenProperties
    <3>2. Len(cur.blocks) + 1 <= Len(cur.prompt) => Len(cur.blocks) < Len(cur.prompt)
      BY <3>1
    <3>. QED  BY <2>1, <2>2, <3>2
  <2>. QED  BY <2>2, <2>4, <2>5, <2>6, GrownHolds
<1>7. CASE FillEnd
  <2>1. Full' = Full /\ cur' = cur /\ holds' = holds /\ pc = "build"
    BY <1>1, <1>7, FullType DEF FillEnd, Full, histVars
  <2>. QED  BY <2>1 DEF HoldInv, HoldsPrompt, HoldsPromptNext
<1>8. CASE RegisterBlock
  <2>1. Full' = Full /\ cur' = cur /\ holds' = holds /\ pc = "register"
    BY <1>8 DEF RegisterBlock, Full, histVars
  <2>. QED  BY <2>1 DEF HoldInv, HoldsPrompt, HoldsPromptNext
<1>9. CASE AdmitNext
  <2> DEFINE p == Head(waiting)
  <2>1. p \in Pending /\ Covered(p.prompt, p.context_len) /\ pc' = "build" /\ holds' = holds
    <3>1. waiting \in Seq(Pending) /\ waiting # <<>>
      BY <1>1, <1>9 DEF AdmitNext, TypeInv
    <3>2. 1 \in DOMAIN waiting /\ p = waiting[1] /\ p \in Pending
      BY <3>1, TailOrigin, TailElements
    <3>. QED  BY <1>9, <3>2 DEF SchedInv, PromptsCovered, AdmitNext, histVars
  <2>. HIDE DEF p
  <2>2. PICK hit \in Matches(Matchable(p)) :
          /\ claim' = hit
          /\ cur' = [id |-> p.id, blocks |-> <<>>, num_tokens |-> p.context_len,
                     max_new |-> p.max_new, generated |-> 0, prompt |-> p.prompt,
                     cached |-> Len(hit)]
    BY <1>9 DEF AdmitNext, p
  <2>3. cur'.blocks = <<>> /\ cur'.prompt = p.prompt
    BY <2>2
  <2>4. hit \in Seq(Blocks)
    <3>1. AllocInv /\ hit \in Matches(Matchable(p))
      BY <1>1, <2>2
    <3>. QED  BY ONLY <2>1, <3>1, HitFacts
  <2>5. Full' = hit
    BY <2>1, <2>2, <2>3, <2>4, ConcatEmptySeq DEF Full
  <2>6. \A i \in DOMAIN hit : holds[hit[i]] = SubSeq(p.prompt, 1, i)
    <3>1. AllocInv /\ (\A b \in DOMAIN by_block : Written(b)) /\ hit \in Matches(Matchable(p))
      BY <1>1, <2>2 DEF HoldInv
    <3>. QED  BY ONLY <2>1, <3>1, HitHolds
  <2>. QED  BY <2>1, <2>3, <2>5, <2>6 DEF HoldsPromptNext
<1>10. CASE \/ \E r \in Requests : Enqueue(r)
            \/ \E i \in DOMAIN waiting : FinishWaiting(i)
  BY <1>2, <1>10 DEF Enqueue, FinishWaiting, callVars, histVars
<1>11. ASSUME \/ \E i \in DOMAIN running : FinishRunning(i) \/ Preempt(i) \/ Retire(i)
              \/ \E i \in DOMAIN running : CowAllocate(i)
              \/ ReleaseBlock
              \/ StepBegin \/ Reserve \/ ReserveEnd \/ AdmitEnd \/ RegisterEnd \/ DecodeSkip
              \/ \E i \in DOMAIN running : AppendInPlace(i) \/ AppendFresh(i)
              \/ CowReplace \/ PreemptEnd \/ StepEnd \/ ForkEnd \/ ReleaseEnd
       PROVE  FALSE
  BY <1>11 DEF FinishRunning, Preempt, Retire, CowAllocate, ReleaseBlock, StepBegin, Reserve,
       ReserveEnd, AdmitEnd, RegisterEnd, DecodeSkip, AppendInPlace, AppendFresh, Decoding,
       CowReplace, PreemptEnd, StepEnd, ForkEnd, ReleaseEnd
<1>. QED  BY <1>3, <1>4, <1>5, <1>6, <1>7, <1>8, <1>9, <1>10, <1>11 DEF Next, Client, Step

LEMMA HoldKept ==
  ASSUME SchedInv, OwnInv, PrivInv, ChainInv, HoldInv, [Next]_vars
  PROVE  HoldInv'
<1>1. \A b \in DOMAIN by_block' : WrittenNext(b)
  BY WrittenKept
<1>2. \A j \in DOMAIN running' : HoldsPromptNext(running'[j].blocks, running'[j].prompt)
  BY BatchHolds
<1>3. pc' \in {"fork", "build", "register"} => HoldsPromptNext(Full', cur'.prompt)
  BY FullHolds
<1>. QED  BY <1>1, <1>2, <1>3
             DEF HoldInv, Written, WrittenNext, HoldsPrompt, HoldsPromptNext, EntryOf, ParentOf

LEMMA HoldInit == Init => HoldInv
<1>1. SUFFICES ASSUME Init PROVE HoldInv
  OBVIOUS
<1>2. DOMAIN by_block = {} /\ running = <<>> /\ pc = "idle"
  BY <1>1 DEF Init, AllocInit
<1>. QED  BY <1>2 DEF HoldInv

LEMMA HoldInvariant == Spec => [](SchedInv /\ OwnInv /\ PrivInv /\ ChainInv /\ HoldInv)
<1> DEFINE I == SchedInv /\ OwnInv /\ PrivInv /\ ChainInv /\ HoldInv
<1>1. Init => I
  BY SchedInitInv, OwnInit, PrivInit, ChainInit, HoldInit
<1>2. I /\ [Next]_vars => I'
  BY SchedNextInv, OwnNext, PrivKept, ChainKept, HoldKept
<1>. QED  BY <1>1, <1>2, PTL DEF Spec

(***************************************************************************)
(* prefix_cache.rs:1-2: a block a sequence shares through the index was    *)
(* filled for the same tokens at the same place in the same prefix,        *)
(* whatever was evicted, refilled and registered anew in between.          *)
(***************************************************************************)
THEOREM SharedBlocksHoldPrompt == Spec => []PromptBlocksHoldPrompt
<1>1. ASSUME SchedInv, OwnInv, HoldInv PROVE PromptBlocksHoldPrompt
  <2> SUFFICES ASSUME NEW i \in DOMAIN running, NEW k \in DOMAIN running[i].prompt
               PROVE  holds[running[i].blocks[k]] = SubSeq(running[i].prompt, 1, k)
    BY DEF PromptBlocksHoldPrompt
  <2> DEFINE t == running[i]
  <2>1. /\ t.blocks \in Seq(Blocks) /\ t.prompt \in Seq(Chunk) /\ t.num_tokens \in Nat
        /\ Covered(t.prompt, t.num_tokens) /\ HoldsWhatItNeeds(t)
        /\ HoldsPrompt(t.blocks, t.prompt)
    BY <1>1, TableTypes, RunningFacts
       DEF SchedInv, TypeInv, Running, PromptsCovered, OwnInv, TablesExact, HoldInv
  <2>. HIDE DEF t
  <2>2. Len(t.prompt) \in Nat /\ k \in 1 .. Len(t.prompt) /\ DOMAIN t.blocks = 1 .. Len(t.blocks)
        /\ Len(t.blocks) \in Nat
    BY <2>1, LenProperties DEF t
  <2>3. Len(t.prompt) <= Len(t.blocks)
    BY <2>1, <2>2, CeilDivCovers DEF Covered, HoldsWhatItNeeds, blocks_for_tokens
  <2>4. k \in DOMAIN t.blocks /\ k <= Len(t.prompt)
    BY <2>2, <2>3
  <2>. QED  BY <2>1, <2>4 DEF HoldsPrompt, t
<1>. QED  BY <1>1, HoldInvariant, PTL

-----------------------------------------------------------------------------
(* The blocks set aside at admission.                                      *)

\* The next token of t takes a block.
NeedsBlock(t) == ~last_block_has_room(t) \/ needs_cow(t)

NeedOf(I) == {i \in I : NeedsBlock(running[i])}

\* The sequences reserve has counted; those decode has still to serve.
CountedNow == {i \in DOMAIN running : ~In(running[i].id, todo)}
ToServe == {i \in DOMAIN running :
              In(running[i].id, todo) /\ ~(pc = "cow" /\ running[i].id = Head(todo))}

\* The free blocks the admission under way still takes, the one for the
\* sequence's first token included.
StillTaken == Cardinality(UnownedIn(claim)) + blocks_for_tokens(cur.num_tokens + 1)
                - Len(cur.blocks) - Len(claim)

RoomInv ==
  /\ AdmissionNeverPreempts
  /\ {"admitted", "preempted"} \subseteq DOMAIN outcome
  /\ pc = "reserve" =>
       /\ NoRepeat(todo)
       /\ reserved = Cardinality(NeedOf(CountedNow))
       /\ outcome.admitted = <<>> /\ outcome.preempted = <<>>
  /\ pc \in {"admit", "build", "register"} =>
       /\ reserved = Cardinality(NeedOf(DOMAIN running))
       /\ outcome.preempted = <<>>
  /\ pc = "admit" /\ outcome.admitted # <<>> => reserved <= num_free
  /\ pc = "build" => StillTaken + reserved <= num_free
  /\ pc = "register" =>
       blocks_for_tokens(cur.num_tokens + 1) - Len(cur.blocks) + reserved <= num_free
  /\ Stepping /\ outcome.admitted # <<>> =>
       /\ pc # "preempt"
       /\ Cardinality(NeedOf(ToServe)) <= num_free

LEMMA NeededBlocks ==
  ASSUME NEW t \in Running
  PROVE  blocks_needed(t, 1) = IF NeedsBlock(t) THEN 1 ELSE 0
<1> DEFINE B == BlockSize
           r == t.num_tokens % B
<1>1. B \in Nat \ {0} /\ r \in 0 .. B - 1
  BY BlockTableAssumption, RunningFacts DEF Running
<1>2. CeilDiv(0, B) = 0 /\ CeilDiv(1, B) = 1
  BY <1>1 DEF CeilDiv
<1>3. last_block_has_room(t) => r # 0
  BY DEF last_block_has_room
<1>. HIDE DEF r
<1>4. blocks_needed(t, 1) =
        CeilDiv(IF 1 > (IF last_block_has_room(t) THEN B - r ELSE 0)
                THEN 1 - (IF last_block_has_room(t) THEN B - r ELSE 0) ELSE 0, B)
          + (IF needs_cow(t) THEN 1 ELSE 0)
  BY DEF blocks_needed, r
<1>5. CASE last_block_has_room(t)
  <2>1. ~(1 > B - r)
    BY <1>1, <1>3, <1>5
  <2>. QED  BY <1>2, <1>4, <1>5, <2>1 DEF NeedsBlock
<1>6. CASE ~last_block_has_room(t)
  <2>1. ~needs_cow(t)
    BY <1>6 DEF needs_cow
  <2>2. blocks_needed(t, 1) = CeilDiv(1, B) + 0
    BY <1>4, <1>6, <2>1
  <2>. QED  BY <1>2, <1>6, <2>2 DEF NeedsBlock
<1>. QED  BY <1>5, <1>6

LEMMA BatchFinite ==
  ASSUME TypeInv
  PROVE  /\ IsFiniteSet(DOMAIN running)
         /\ \A I \in SUBSET DOMAIN running :
              IsFiniteSet(NeedOf(I)) /\ Cardinality(NeedOf(I)) \in Nat
<1>1. DOMAIN running = 1 .. Len(running) /\ Len(running) \in Nat
  BY TableTypes
<1>2. IsFiniteSet(DOMAIN running)
  BY <1>1, FS_Interval
<1>3. ASSUME NEW I \in SUBSET DOMAIN running
      PROVE  IsFiniteSet(NeedOf(I)) /\ Cardinality(NeedOf(I)) \in Nat
  <2>1. NeedOf(I) \in SUBSET DOMAIN running
    BY DEF NeedOf
  <2>. QED  BY <1>2, <2>1, FS_Subset, FS_CardinalityType
<1>. QED  BY <1>2, <1>3

\* Whoever needs a block keeps needing one, and nobody else does, while the
\* tables and the counts of their tails stay.
NeedsNext(t) == ~last_block_has_room(t) \/ (last_block_has_room(t) /\ ref_counts'[TailOf(t)] > 1)

LEMMA NeedsSame ==
  ASSUME running' = running,
         \A i \in DOMAIN running : last_block_has_room(running[i]) =>
           ref_counts'[TailOf(running[i])] = ref_counts[TailOf(running[i])]
  PROVE  \A I : I \subseteq DOMAIN running =>
           {i \in I : NeedsNext(running'[i])} = NeedOf(I)
<1> SUFFICES ASSUME NEW I, I \subseteq DOMAIN running, NEW i \in I
             PROVE  NeedsNext(running'[i]) <=> NeedsBlock(running[i])
  BY DEF NeedOf
<1>. QED  BY DEF NeedsNext, NeedsBlock, needs_cow, is_shared

\* A tail with room is the table's own block, and not registered.
LEMMA RoomyTail ==
  ASSUME SchedInv, OwnInv, PrivInv, NEW i \in DOMAIN running, last_block_has_room(running[i])
  PROVE  /\ TailOf(running[i]) \in Blocks /\ In(TailOf(running[i]), running[i].blocks)
         /\ ref_counts[TailOf(running[i])] # 0
         /\ ~is_cached(TailOf(running[i]))
<1> DEFINE t == running[i]
<1>1. /\ t \in Running /\ t.blocks \in Seq(Blocks) /\ t.blocks # <<>>
      /\ HoldsWhatItNeeds(t) /\ Covered(t.prompt, t.num_tokens) /\ CachedWithinPrompt(t)
      /\ Len(t.prompt) \in Nat
  <2>1. t \in Running /\ t.blocks \in Seq(Blocks) /\ t.prompt \in Seq(Chunk)
    BY TableTypes, RunningFacts DEF SchedInv, TypeInv, Running
  <2>. QED  BY <2>1, LenProperties
            DEF OwnInv, TablesExact, SchedInv, PromptsCovered, PrivInv, last_block_has_room
<1>2. Len(t.blocks) \in DOMAIN t.blocks /\ Len(t.blocks) \in Nat
  BY <1>1, EmptySeq, LenProperties
<1>3. Len(t.blocks) > Len(t.prompt)
  BY <1>1, RoomBeyondPrompt
<1>4. TailOf(t) \in Blocks /\ In(TailOf(t), t.blocks)
  BY <1>1, <1>2 DEF TailOf, In
<1>5. ~is_cached(TailOf(t))
  BY <1>1, <1>2, <1>3 DEF CachedWithinPrompt, TailOf
<1>6. ref_counts[TailOf(t)] # 0
  BY <1>4, OwnedIsReferenced DEF SchedInv, OwnInv
<1>. QED  BY <1>4, <1>5, <1>6

\* RoomInv after the step.
NeedOfNext(I) == {i \in I : NeedsNext(running'[i])}
CountedNext == {i \in DOMAIN running' : ~In(running'[i].id, todo')}
ToServeNext == {i \in DOMAIN running' :
                  In(running'[i].id, todo') /\ ~(pc' = "cow" /\ running'[i].id = Head(todo'))}

RoomNext ==
  /\ outcome'.admitted = <<>> \/ outcome'.preempted = <<>>
  /\ {"admitted", "preempted"} \subseteq DOMAIN outcome'
  /\ pc' = "reserve" =>
       /\ NoRepeat(todo')
       /\ reserved' = Cardinality(NeedOfNext(CountedNext))
       /\ outcome'.admitted = <<>> /\ outcome'.preempted = <<>>
  /\ pc' \in {"admit", "build", "register"} =>
       /\ reserved' = Cardinality(NeedOfNext(DOMAIN running'))
       /\ outcome'.preempted = <<>>
  /\ pc' = "admit" /\ outcome'.admitted # <<>> => reserved' <= num_free'
  /\ pc' = "build" =>
       Cardinality(UnownedNext(claim')) + blocks_for_tokens(cur'.num_tokens + 1)
         - Len(cur'.blocks) - Len(claim') + reserved' <= num_free'
  /\ pc' = "register" =>
       blocks_for_tokens(cur'.num_tokens + 1) - Len(cur'.blocks) + reserved' <= num_free'
  /\ pc' \in {"decode", "cow", "preempt", "retire"} /\ outcome'.admitted # <<>> =>
       /\ pc' # "preempt"
       /\ Cardinality(NeedOfNext(ToServeNext)) <= num_free'

LEMMA RoomPrimed == RoomNext => RoomInv'
BY DEF RoomNext, RoomInv, AdmissionNeverPreempts, NeedOfNext, NeedOf, CountedNext, CountedNow,
       ToServeNext, ToServe, UnownedNext, UnownedIn, StillTaken, Stepping, NeedsNext, NeedsBlock,
       needs_cow, is_shared, last_block_has_room, TailOf

\* Between steps, and in a step that has admitted nobody.
LEMMA RoomOutside ==
  ASSUME RoomInv, pc' \in {"idle", "fork", "finish"}, UNCHANGED outcome
  PROVE  RoomInv'
<1>. RoomNext
  BY DEF RoomNext, RoomInv, AdmissionNeverPreempts
<1>. QED  BY RoomPrimed

LEMMA RoomNoAdmission ==
  ASSUME {"admitted", "preempted"} \subseteq DOMAIN outcome',
         pc' \in {"idle", "decode", "cow", "preempt", "retire"}, outcome'.admitted = <<>>
  PROVE  RoomInv'
<1>. RoomNext
  BY DEF RoomNext
<1>. QED  BY RoomPrimed

\* The batch and the counts of its tails stay.
LEMMA NeedFrame ==
  ASSUME running' = running,
         \A i \in DOMAIN running : last_block_has_room(running[i]) =>
           ref_counts'[TailOf(running[i])] = ref_counts[TailOf(running[i])]
  PROVE  \A I : I \subseteq DOMAIN running => NeedOfNext(I) = NeedOf(I)
BY NeedsSame DEF NeedOfNext

\* The sum of what the next tokens take, one sequence after the other.
LEMMA RoomReserve ==
  ASSUME SchedInv, RoomInv, StepBegin \/ Reserve \/ ReserveEnd
  PROVE  RoomInv'
<1>1. TypeInv /\ UNCHANGED <<running, ref_counts>>
  BY DEF SchedInv, StepBegin, Reserve, ReserveEnd, allocVars
<1>2. \A I : I \subseteq DOMAIN running => NeedOfNext(I) = NeedOf(I)
  BY <1>1, NeedFrame
<1>3. CASE StepBegin
  <2>1. pc' = "reserve" /\ reserved' = 0 /\ todo' = Ids(running) /\ outcome' = NoOutcome
    BY <1>3 DEF StepBegin
  <2>2. DOMAIN todo' = DOMAIN running /\ \A i \in DOMAIN running : todo'[i] = running[i].id
    BY <2>1 DEF Ids
  <2>3. NoRepeat(todo')
    BY <2>2 DEF NoRepeat, SchedInv, Distinct
  <2>4. CountedNext = {}
    BY <1>1, <2>2 DEF CountedNext, In
  <2>5. NeedOfNext(CountedNext) = {}
    BY <2>4 DEF NeedOfNext
  <2>6. RoomNext
    BY <2>1, <2>3, <2>5, FS_EmptySet DEF RoomNext, NoOutcome
  <2>. QED  BY <2>6, RoomPrimed
<1>4. CASE Reserve
  <2> DEFINE h == Head(todo)
             i == Pos(h)
  <2>1. /\ pc = "reserve" /\ todo # <<>> /\ reserved' = reserved + blocks_needed(running[i], 1)
        /\ todo' = Tail(todo) /\ pc' = "reserve" /\ outcome' = outcome
    BY <1>4 DEF Reserve
  <2>2. /\ \A y : In(y, todo) <=> y = h \/ In(y, todo')
        /\ 1 \in DOMAIN todo /\ h = todo[1]
        /\ \A k \in DOMAIN todo' : k \in Nat \ {0} /\ k + 1 \in DOMAIN todo /\ todo'[k] = todo[k + 1]
    BY <1>1, <2>1, TailIn, TailOrigin DEF TypeInv
  <2>3. NoRepeat(todo) /\ reserved = Cardinality(NeedOf(CountedNow))
        /\ outcome.admitted = <<>> /\ outcome.preempted = <<>>
        /\ {"admitted", "preempted"} \subseteq DOMAIN outcome
    BY <2>1 DEF RoomInv
  <2>4. NoRepeat(todo') /\ ~In(h, todo')
    <3>1. \A k \in DOMAIN todo' : todo'[k] # h
      <4>1. \A k \in DOMAIN todo' : k + 1 # 1
        BY <2>2
      <4>. QED  BY <2>2, <2>3, <4>1 DEF NoRepeat
    <3>2. ASSUME NEW k \in DOMAIN todo', NEW l \in DOMAIN todo', todo'[k] = todo'[l] PROVE k = l
      <4>1. k + 1 = l + 1 /\ k \in Nat /\ l \in Nat
        BY <2>2, <2>3, <3>2 DEF NoRepeat
      <4>. QED  BY <4>1
    <3>. QED  BY <3>1, <3>2 DEF NoRepeat, In
  <2>5. i \in DOMAIN running /\ running[i].id = h
    <3>1. IsRunning(h)
      BY <2>1, <2>2 DEF SchedInv, CallInv
    <3>. QED  BY <3>1 DEF IsRunning, Pos
  <2>. HIDE DEF i, h
  <2>6. CountedNext = CountedNow \cup {i} /\ i \notin CountedNow
    <3>1. \A j \in DOMAIN running : running[j].id = h <=> j = i
      BY <2>5 DEF SchedInv, Distinct
    <3>2. In(h, todo)
      BY <2>2
    <3>. QED  BY <1>1, <2>2, <2>4, <2>5, <3>1, <3>2 DEF CountedNext, CountedNow
  <2> DEFINE S == NeedOf(CountedNow)
  <2>7. IsFiniteSet(S) /\ Cardinality(S) \in Nat /\ i \notin S
    BY <1>1, <2>6, BatchFinite DEF CountedNow, NeedOf
  <2>8. NeedOfNext(CountedNext) = IF NeedsBlock(running[i]) THEN S \cup {i} ELSE S
    <3>1. CountedNext \subseteq DOMAIN running
      BY <1>1 DEF CountedNext
    <3>2. NeedOfNext(CountedNext) = NeedOf(CountedNow \cup {i})
      BY <1>2, <2>6, <3>1
    <3>. QED  BY <3>2 DEF NeedOf
  <2>9. blocks_needed(running[i], 1) = IF NeedsBlock(running[i]) THEN 1 ELSE 0
    BY <1>1, <2>5, NeededBlocks DEF TypeInv
  <2>. HIDE DEF S
  <2>10. Cardinality(S \cup {i}) = Cardinality(S) + 1
    BY <2>7, FS_AddElement
  <2>11. reserved' = Cardinality(NeedOfNext(CountedNext))
    BY <2>1, <2>3, <2>7, <2>8, <2>9, <2>10 DEF S
  <2>12. RoomNext
    BY <2>1, <2>3, <2>4, <2>11 DEF RoomNext
  <2>. QED  BY <2>12, RoomPrimed
<1>5. CASE ReserveEnd
  <2>1. /\ pc = "reserve" /\ todo = <<>> /\ pc' = "admit" /\ UNCHANGED <<reserved, outcome>>
    BY <1>5 DEF ReserveEnd
  <2>2. CountedNow = DOMAIN running
    BY <2>1, EmptyTable DEF CountedNow
  <2>3. NeedOfNext(DOMAIN running') = NeedOf(CountedNow)
    BY <1>1, <1>2, <2>2
  <2>4. RoomNext
    BY <2>1, <2>3 DEF RoomInv, RoomNext
  <2>. QED  BY <2>4, RoomPrimed
<1>. QED  BY <1>3, <1>4, <1>5

\* What a match leaves to compute.
LEMMA CeilDivLess ==
  ASSUME NEW n \in Nat, NEW h \in Nat
  PROVE  CeilDiv(n - h * BlockSize + 1, BlockSize) = blocks_for_tokens(n + 1) - h
<1> DEFINE B == BlockSize
           m == n + 1 + B - 1
           q == m \div B
           r == m % B
<1>1. B \in Nat \ {0} /\ m \in Nat
  BY BlockTableAssumption
<1>2. q \in Nat /\ r \in 0 .. B - 1 /\ m = q * B + r
  <2>. HIDE DEF m
  <2>. QED  BY <1>1
<1>3. \A a \in Int, d \in 0 .. B - 1 : (a * B + d) \div B = a
  BY <1>1
<1>4. h * B \in Nat /\ q * B \in Nat
  BY <1>1, <1>2
<1>. HIDE DEF q, r
<1>5. (q - h) * B = q * B - h * B
  BY <1>1, <1>2
<1>6. n - h * B + 1 + B - 1 = (q - h) * B + r
  <2>1. n + 1 + B - 1 = q * B + r /\ B \in Nat
    BY <1>1, <1>2
  <2>. HIDE DEF B
  <2> DEFINE u == h * B
             v == q * B
  <2>2. u \in Nat /\ v \in Nat /\ (q - h) * B = v - u /\ n + 1 + B - 1 = v + r
    BY <1>4, <1>5, <2>1
  <2>3. r \in Int
    BY <1>2 DEF B
  <2>. HIDE DEF u, v
  <2>4. n - u + 1 + B - 1 = v - u + r
    BY <2>1, <2>2, <2>3
  <2>. QED  BY <2>2, <2>4 DEF u
<1>7. (n - h * B + 1 + B - 1) \div B = q - h
  <2>1. q - h \in Int
    BY <1>2
  <2>. QED  BY <1>2, <1>3, <1>6, <2>1
<1>. QED  BY <1>7 DEF CeilDiv, blocks_for_tokens, q

LEMMA RoomAdmit ==
  ASSUME SchedInv, OwnInv, PrivInv, RoomInv, AdmitNext \/ AdmitEnd
  PROVE  RoomInv'
<1>1. /\ TypeInv /\ AllocInv /\ pc = "admit"
      /\ UNCHANGED <<running, ref_counts, reserved, outcome, free_list, evictable>>
  BY DEF SchedInv, AdmitNext, AdmitEnd, allocVars
<1>2. /\ \A I : I \subseteq DOMAIN running => NeedOfNext(I) = NeedOf(I)
      /\ num_free' = num_free /\ num_free \in Nat
      /\ reserved = Cardinality(NeedOf(DOMAIN running)) /\ outcome.preempted = <<>>
      /\ {"admitted", "preempted"} \subseteq DOMAIN outcome
      /\ outcome.admitted # <<>> => reserved <= num_free
      /\ reserved \in Nat
  BY <1>1, NeedFrame, FreeChange DEF RoomInv, num_free, TypeInv
<1>3. CASE AdmitNext
  <2> DEFINE p == Head(waiting)
  <2>1. p \in Pending /\ Covered(p.prompt, p.context_len) /\ pc' = "build"
    <3>1. waiting \in Seq(Pending) /\ waiting # <<>>
      BY <1>1, <1>3 DEF AdmitNext, TypeInv
    <3>2. 1 \in DOMAIN waiting /\ p = waiting[1] /\ p \in Pending
      BY <3>1, TailOrigin, TailElements
    <3>. QED  BY <1>3, <3>2 DEF SchedInv, PromptsCovered, AdmitNext
  <2>. HIDE DEF p
  <2>2. PICK hit \in Matches(Matchable(p)) :
          /\ Fits(p, hit) /\ claim' = hit
          /\ cur' = [id |-> p.id, blocks |-> <<>>, num_tokens |-> p.context_len,
                     max_new |-> p.max_new, generated |-> 0, prompt |-> p.prompt,
                     cached |-> Len(hit)]
    BY <1>3 DEF AdmitNext, p
  <2>3. cur'.blocks = <<>> /\ cur'.num_tokens = p.context_len /\ p.context_len \in Nat
    BY <2>1, <2>2 DEF Pending
  <2>4. hit \in Seq(Blocks) /\ Len(hit) \in Nat /\ \A i \in DOMAIN hit : is_cached(hit[i])
    <3>1. AllocInv /\ hit \in Matches(Matchable(p))
      BY <1>1, <2>2
    <3>. QED  BY ONLY <2>1, <3>1, HitFacts
  <2> DEFINE n == p.context_len
             N == blocks_for_tokens(n + 1)
             C == Cardinality({i \in DOMAIN hit : In(hit[i], evictable)})
             U == Cardinality(UnownedIn(hit))
  <2>5. N \in Nat
    <3>1. n + 1 \in Nat
      BY <2>3
    <3>. QED  BY <3>1, OneMoreToken
  <2>6. C \in Nat /\ U \in Nat /\ U <= C
    BY <1>1, <2>4, UnownedHit
  <2>7. C + (N - Len(hit)) + reserved <= num_free
    BY <2>2, <2>3, <2>4, CeilDivLess DEF Fits, Needed
  <2>8. UnownedNext(claim') = UnownedIn(hit)
    BY <1>1, <2>2 DEF UnownedNext, UnownedIn
  <2>9. Len(<<>>) = 0
    OBVIOUS
  <2>. HIDE DEF N, C, U, n
  <2>10. U + N - 0 - Len(hit) + reserved <= num_free
    BY <1>2, <2>4, <2>5, <2>6, <2>7
  <2>11. Cardinality(UnownedNext(claim')) + blocks_for_tokens(cur'.num_tokens + 1)
           - Len(cur'.blocks) - Len(claim') + reserved' <= num_free'
    BY <1>1, <1>2, <2>2, <2>3, <2>8, <2>9, <2>10 DEF N, U, n
  <2>12. RoomNext
    BY <1>1, <1>2, <2>1, <2>11 DEF RoomNext
  <2>. QED  BY <2>12, RoomPrimed
<1>4. CASE AdmitEnd
  <2>1. pc' = "decode" /\ todo' = Ids(running)
    BY <1>4 DEF AdmitEnd
  <2>2. NeedOfNext(ToServeNext) \subseteq NeedOf(DOMAIN running)
    BY <1>1, <1>2 DEF ToServeNext, NeedOfNext, NeedOf
  <2> DEFINE S == NeedOf(DOMAIN running)
             T == NeedOfNext(ToServeNext)
  <2>3. IsFiniteSet(S) /\ T \in SUBSET S /\ Cardinality(S) \in Nat
    BY <1>1, <2>2, BatchFinite
  <2>. HIDE DEF S, T
  <2>4. Cardinality(T) <= Cardinality(S) /\ Cardinality(T) \in Nat
    BY <2>3, FS_Subset, FS_CardinalityType
  <2>5. outcome.admitted # <<>> => Cardinality(T) <= num_free
    BY <1>2, <2>3, <2>4 DEF S
  <2>6. RoomNext
    BY <1>1, <1>2, <2>1, <2>5 DEF RoomNext, T
  <2>. QED  BY <2>6, RoomPrimed
<1>. QED  BY <1>3, <1>4

\* What admission claims is registered.
LEMMA ClaimCached ==
  ASSUME SchedInv, OwnInv, PrivInv, ChainInv, pc = "build", claim # <<>>
  PROVE  is_cached(Head(claim))
<1> DEFINE n == Len(cur.blocks)
           c == cur.cached
<1>1. TypeInv /\ Building /\ Settled = c /\ Chained(Full) /\ BuildInv
  BY DEF SchedInv, Building, Settled, ChainInv
<1>2. /\ Full \in Seq(Blocks) /\ n + 1 \in DOMAIN Full /\ Head(claim) = Full[n + 1]
      /\ DOMAIN Full = 1 .. n + Len(claim) /\ n \in Nat /\ Len(claim) \in Nat
  BY <1>1, FullParts, NextOfClaim
<1>3. n + Len(claim) = c
  BY DEF PrivInv
<1>. HIDE DEF n, c
<1>4. c \in DOMAIN Full /\ c # 0 /\ n + 1 \in 1 .. c
  BY <1>2, <1>3
<1>5. is_cached(Full[c])
  BY <1>1, <1>4 DEF BuildInv
<1>. QED  BY <1>1, <1>2, <1>4, <1>5, ChainedBelow

\* One more block of the table that is built: the batch stays, and so do the
\* counts of its tails, and what is still taken goes down with what is free.
LEMMA RoomGrow ==
  ASSUME SchedInv, OwnInv, RoomInv, pc = "build", pc' = "build",
         UNCHANGED <<running, reserved, outcome>>, cur'.num_tokens = cur.num_tokens,
         NEW x \in Blocks, cur'.blocks = Append(cur.blocks, x), claim' \in Seq(Blocks),
         \A y \in Blocks : ref_counts'[y] = IF y = x THEN ref_counts[x] + 1 ELSE ref_counts[y],
         \A i \in DOMAIN running : last_block_has_room(running[i]) => TailOf(running[i]) # x,
         NEW u \in Nat, NEW v \in Nat,
         u = Cardinality(UnownedIn(claim)), v = Cardinality(UnownedNext(claim')),
         num_free' \in Nat, v - Len(claim') + num_free - 1 <= u - Len(claim) + num_free'
  PROVE  RoomInv'
<1>1. TypeInv /\ AllocInv /\ num_free \in Nat
  BY FreeChange DEF SchedInv
<1>2. /\ cur.blocks \in Seq(Blocks) /\ claim \in Seq(Blocks)
      /\ cur.num_tokens \in Nat /\ reserved \in Nat
  BY <1>1, TableTypes DEF TypeInv
<1> DEFINE c == Len(cur.blocks)
           l == Len(claim)
           m == Len(claim')
           N == blocks_for_tokens(cur.num_tokens + 1)
           f == num_free
           g == num_free'
           r == reserved
<1>3. c \in Nat /\ l \in Nat /\ m \in Nat /\ Len(cur'.blocks) = c + 1
  BY <1>2, LenProperties, AppendProperties
<1>4. N \in Nat
  <2>1. cur.num_tokens + 1 \in Nat
    BY <1>2
  <2>. QED  BY <2>1, OneMoreToken
<1>5. u + N - c - l + r <= f
  BY DEF RoomInv, StillTaken
<1>6. v - m + f - 1 <= u - l + g
  OBVIOUS
<1>7. f \in Nat /\ g \in Nat /\ r \in Nat
  BY <1>1, <1>2
<1>8. DOMAIN running' = DOMAIN running /\ NeedOfNext(DOMAIN running) = NeedOf(DOMAIN running)
  <2>1. ASSUME NEW i \in DOMAIN running, last_block_has_room(running[i])
        PROVE  ref_counts'[TailOf(running[i])] = ref_counts[TailOf(running[i])]
    <3>1. running[i].blocks \in Seq(Blocks) /\ running[i].blocks # <<>>
      BY <1>1, <2>1, TableTypes DEF last_block_has_room
    <3>2. TailOf(running[i]) \in Blocks
      BY <3>1, EmptySeq, LenProperties DEF TailOf
    <3>. QED  BY <2>1, <3>2
  <2>. QED  BY <2>1, NeedFrame
<1>9. v + N - (c + 1) - m + r <= g
  <2>1. \A c1, l1, m1, N1, f1, g1, r1, u1, v1 \in Nat :
          u1 + N1 - c1 - l1 + r1 <= f1 /\ v1 - m1 + f1 - 1 <= u1 - l1 + g1
            => v1 + N1 - (c1 + 1) - m1 + r1 <= g1
    OBVIOUS
  <2>. HIDE DEF c, l, m, N, f, g, r
  <2>. QED  BY ONLY u \in Nat, v \in Nat, <1>3, <1>4, <1>5, <1>6, <1>7, <2>1
<1>10. Cardinality(UnownedNext(claim')) + blocks_for_tokens(cur'.num_tokens + 1)
         - Len(cur'.blocks) - Len(claim') + reserved' <= num_free'
  <2>1. UNCHANGED reserved
    OBVIOUS
  <2>2. v + N - (c + 1) - m + reserved' <= num_free'
    BY <1>9, <2>1
  <2>. HIDE DEF c, m
  <2>. QED  BY <1>3, <2>2 DEF N, m
<1>11. RoomNext
  BY <1>8, <1>10 DEF RoomNext, RoomInv
<1>. QED  BY <1>11, RoomPrimed

LEMMA RoomAcquire ==
  ASSUME SchedInv, OwnInv, PrivInv, ChainInv, RoomInv, Acquire
  PROVE  RoomInv'
<1> DEFINE x == Head(claim)
<1>1. /\ pc = "build" /\ pc' = "build" /\ claim # <<>> /\ claim' = Tail(claim)
      /\ UNCHANGED <<running, reserved, outcome>> /\ AcquireCached(x)
      /\ cur' = [cur EXCEPT !.blocks = Append(@, x)]
  BY DEF Acquire
<1>2. /\ TypeInv /\ AllocInv /\ LoopInv /\ NoRepeat(claim) /\ claim \in Seq(Blocks)
      /\ ref_counts \in [Blocks -> 0 .. MaxRefCount]
  BY <1>1, TableTypes DEF SchedInv, OwnInv, LoopInv, AllocInv, AllocTypeOK
<1>3. is_cached(x)
  BY <1>1, ClaimCached
<1>4. cur'.blocks = Append(cur.blocks, x) /\ cur'.num_tokens = cur.num_tokens
  BY <1>1, <1>2, TableGrows, CurStep
<1>5. /\ x \in Blocks /\ claim' \in Seq(Blocks) /\ In(x, claim)
      /\ \A y : In(y, claim') <=> In(y, claim) /\ y # x
      /\ Len(claim') = Len(claim) - 1 /\ Len(claim) \in Nat
  BY <1>1, <1>2, TailElements, HeadTailProperties, LenProperties
<1>6. \A i \in DOMAIN running : last_block_has_room(running[i]) => TailOf(running[i]) # x
  BY <1>3, RoomyTail
<1>. HIDE DEF x
<1>7. \A y \in Blocks : ref_counts'[y] = IF y = x THEN ref_counts[x] + 1 ELSE ref_counts[y]
  BY <1>1, <1>2, <1>5 DEF AcquireCached, Incref, Reclaim
<1> DEFINE U == UnownedIn(claim)
           V == UnownedNext(claim')
           u == Cardinality(U)
           v == Cardinality(V)
<1>8. V = U \ {x}
  <2>1. ref_counts[x] + 1 # 0
    BY <1>2, <1>5
  <2>. QED  BY <1>5, <1>7, <2>1 DEF UnownedNext, UnownedIn
<1>9. IsFiniteSet(U) /\ u \in Nat
  BY UnownedFinite
<1>10. x \in U <=> ref_counts[x] = 0
  BY <1>5 DEF UnownedIn
<1>11. num_free \in Nat
  BY <1>2, FreeChange
<1>. HIDE DEF U, V
<1>12. /\ v \in Nat /\ num_free' \in Nat
       /\ v - Len(claim') + num_free - 1 <= u - Len(claim) + num_free'
  <2>1. CASE Incref(x)
    <3>1. num_free' = num_free
      BY <1>2, <1>5, <2>1, FreeChange
    <3>2. x \notin U
      BY <1>10, <2>1 DEF Incref
    <3>3. v = u
      <4>1. U \ {x} = U
        BY <3>2
      <4>. QED  BY <1>8, <4>1
    <3>. HIDE DEF u, v
    <3>. QED  BY <1>5, <1>9, <1>11, <3>1, <3>3
  <2>2. CASE Reclaim(x)
    <3>1. num_free' = num_free - 1
      BY <1>2, <1>5, <2>2, FreeChange
    <3>2. x \in U
      BY <1>10, <2>2 DEF Reclaim
    <3>3. v = u - 1
      BY <1>8, <1>9, <3>2, FS_RemoveElement
    <3>4. u # 0
      BY <1>9, <3>2, FS_EmptySet
    <3>5. num_free # 0
      BY <1>2, <2>2, ReclaimLeaves
    <3>. HIDE DEF u, v
    <3>. QED  BY <1>5, <1>9, <1>11, <3>1, <3>3, <3>4, <3>5
  <2>. QED  BY <1>1, <2>1, <2>2 DEF AcquireCached
<1>. QED  BY <1>1, <1>4, <1>5, <1>6, <1>7, <1>9, <1>12, RoomGrow DEF U, V

LEMMA RoomFill ==
  ASSUME SchedInv, OwnInv, RoomInv, Fill
  PROVE  RoomInv'
<1>1. PICK x \in Blocks : Allocate(x) /\ cur' = [cur EXCEPT !.blocks = Append(@, x)]
  BY DEF Fill
<1>2. /\ pc = "build" /\ pc' = "build" /\ claim = <<>> /\ claim' = claim
      /\ UNCHANGED <<running, reserved, outcome>>
  BY DEF Fill
<1>3. TypeInv /\ AllocInv /\ CountsExact /\ claim' \in Seq(Blocks)
  BY <1>2, TableTypes DEF SchedInv, OwnInv
<1>4. cur'.blocks = Append(cur.blocks, x) /\ cur'.num_tokens = cur.num_tokens
  BY <1>1, <1>3, TableGrows, CurStep
<1>5. /\ \A y \in Blocks : ref_counts'[y] = IF y = x THEN ref_counts[x] + 1 ELSE ref_counts[y]
      /\ \A i \in DOMAIN running : ~In(x, running[i].blocks)
  BY <1>1, <1>3, AllocatedIsNew
<1>6. \A i \in DOMAIN running : last_block_has_room(running[i]) => TailOf(running[i]) # x
  <2> SUFFICES ASSUME NEW i \in DOMAIN running, last_block_has_room(running[i])
               PROVE  TailOf(running[i]) # x
    OBVIOUS
  <2>1. running[i].blocks \in Seq(Blocks) /\ running[i].blocks # <<>>
    BY <1>3, TableTypes DEF last_block_has_room
  <2>2. In(TailOf(running[i]), running[i].blocks)
    BY <2>1, EmptySeq, LenProperties DEF TailOf, In
  <2>. QED  BY <1>5, <2>2
<1>7. num_free \in Nat /\ num_free' = num_free - 1 /\ num_free # 0
  BY <1>1, <1>3, FreeChange, AllocateLeaves
<1>8. UnownedIn(claim) = {} /\ UnownedNext(claim') = {}
  BY <1>2, EmptyTable DEF UnownedIn, UnownedNext
<1>9. Cardinality(UnownedIn(claim)) = 0 /\ Cardinality(UnownedNext(claim')) = 0
  BY <1>8, FS_EmptySet
<1>10. num_free' \in Nat /\ 0 - Len(claim') + num_free - 1 <= 0 - Len(claim) + num_free'
  BY <1>2, <1>7, EmptyTable
<1>11. 0 \in Nat
  OBVIOUS
<1>. QED  BY <1>2, <1>3, <1>4, <1>5, <1>6, <1>9, <1>10, <1>11, RoomGrow

\* The prompt's blocks are all there; the index learns of them.
LEMMA RoomIndex ==
  ASSUME SchedInv, RoomInv, FillEnd \/ RegisterBlock
  PROVE  RoomInv'
<1>1. /\ UNCHANGED <<running, ref_counts, cur, reserved, outcome, free_list, evictable>>
      /\ pc \in {"build", "register"} /\ pc' = "register"
  BY DEF FillEnd, RegisterBlock, CacheBlock, allocVars
<1>2. /\ NeedOfNext(DOMAIN running') = NeedOf(DOMAIN running) /\ num_free' = num_free
  BY <1>1, NeedFrame DEF num_free
<1>3. blocks_for_tokens(cur.num_tokens + 1) - Len(cur.blocks) + reserved <= num_free
  <2>1. CASE FillEnd
    <3>1. claim = <<>> /\ pc = "build"
      BY <2>1 DEF FillEnd
    <3>2. UnownedIn(claim) = {}
      BY <3>1, EmptyTable DEF UnownedIn
    <3>3. Cardinality(UnownedIn(claim)) = 0 /\ Len(claim) = 0
      BY <3>1, <3>2, FS_EmptySet, EmptyTable
    <3>4. blocks_for_tokens(cur.num_tokens + 1) \in Nat /\ Len(cur.blocks) \in Nat
      <4>1. cur.num_tokens + 1 \in Nat /\ cur.blocks \in Seq(Blocks)
        BY TableTypes DEF SchedInv
      <4>. QED  BY <4>1, OneMoreToken, LenProperties
    <3>5. StillTaken = blocks_for_tokens(cur.num_tokens + 1) - Len(cur.blocks)
      BY <3>3, <3>4 DEF StillTaken
    <3>. QED  BY <3>1, <3>5 DEF RoomInv
  <2>2. CASE RegisterBlock
    BY <2>2 DEF RegisterBlock, RoomInv
  <2>. QED  BY <2>1, <2>2
<1>4. RoomNext
  BY <1>1, <1>2, <1>3 DEF RoomNext, RoomInv
<1>. QED  BY <1>4, RoomPrimed

\* The sequence joins the batch with its own next token reserved.
LEMMA RoomJoin ==
  ASSUME SchedInv, OwnInv, PrivInv, RoomInv, RegisterEnd
  PROVE  RoomInv'
<1> DEFINE n == Len(running) + 1
           k == blocks_for_tokens(cur.num_tokens + 1) - Len(cur.blocks)
           R == NeedOf(DOMAIN running)
<1>1. /\ pc = "register" /\ pc' = "admit" /\ running' = Append(running, cur)
      /\ reserved' = reserved + blocks_needed(cur, 1) /\ UNCHANGED <<ref_counts, free_list, evictable>>
      /\ outcome' = [outcome EXCEPT !.admitted = Append(@, [id |-> cur.id, cached |-> cur.cached])]
  BY DEF RegisterEnd, allocVars
<1>2. /\ TypeInv /\ HoldsWhatItNeeds(cur) /\ Covered(cur.prompt, cur.num_tokens) /\ Held
      /\ cur.cached <= Len(cur.prompt)
      /\ \A j \in DOMAIN cur.blocks : j > cur.cached => ref_counts[cur.blocks[j]] = 1
      /\ {"admitted", "preempted"} \subseteq DOMAIN outcome /\ outcome.preempted = <<>>
      /\ reserved = Cardinality(R) /\ k + reserved <= num_free
  BY <1>1 DEF SchedInv, OwnInv, LoopInv, PromptsCovered, Held, PrivInv, RoomInv
<1>3. /\ cur \in Running /\ cur.blocks \in Seq(Blocks) /\ cur.num_tokens \in Nat
      /\ Len(cur.prompt) \in Nat /\ cur.cached \in Nat
  <2>1. cur.id \in SeqId
    BY <1>2 DEF SchedInv, Distinct
  <2>2. cur \in Running
    BY <1>2, <2>1 DEF TypeInv, Running, RunningWith
  <2>. QED  BY <2>2, RunningFacts, LenProperties DEF Running
<1>4. /\ DOMAIN running' = DOMAIN running \cup {n} /\ n \notin DOMAIN running
      /\ \A i \in DOMAIN running : running'[i] = running[i]
      /\ running'[n] = cur
  <2>1. cur \in Running /\ running \in Seq(Running)
    BY <1>2, <1>3 DEF TypeInv
  <2>. QED  BY <1>1, <2>1, AppendOrigin
<1>. HIDE DEF n
<1>5. ~needs_cow(cur)
  <2> SUFFICES ASSUME last_block_has_room(cur) PROVE ~is_shared(TailOf(cur))
    BY DEF needs_cow
  <2>1. Len(cur.blocks) > Len(cur.prompt)
    BY <1>2, <1>3, RoomBeyondPrompt
  <2>2. cur.blocks # <<>>
    BY DEF last_block_has_room
  <2>3. Len(cur.blocks) \in DOMAIN cur.blocks /\ Len(cur.blocks) \in Nat
    BY <1>3, <2>2, EmptySeq, LenProperties
  <2>4. ref_counts[TailOf(cur)] = 1
    BY <1>2, <1>3, <2>1, <2>3 DEF TailOf
  <2>. QED  BY <2>4 DEF is_shared
<1>6. blocks_needed(cur, 1) = IF NeedsBlock(cur) THEN 1 ELSE 0
  BY <1>3, NeededBlocks
<1>7. NeedsBlock(cur) <=> cur.num_tokens % BlockSize = 0
  <2>1. cur.blocks = <<>> => cur.num_tokens % BlockSize = 0
    <3>1. cur.blocks = <<>> => blocks_for_tokens(cur.num_tokens) = 0
      BY <1>2, EmptyTable DEF HoldsWhatItNeeds
    <3>. QED  BY <1>3, <3>1, OneMoreToken
  <2>. QED  BY <1>5, <2>1 DEF NeedsBlock, last_block_has_room
<1>8. k = IF NeedsBlock(cur) THEN 1 ELSE 0
  <2> DEFINE a == blocks_for_tokens(cur.num_tokens)
             b == blocks_for_tokens(cur.num_tokens + 1)
  <2>1. a \in Nat /\ b = (IF NeedsBlock(cur) THEN a + 1 ELSE a) /\ Len(cur.blocks) = a
    BY <1>2, <1>3, <1>7, OneMoreToken DEF HoldsWhatItNeeds
  <2>. HIDE DEF a, b
  <2>2. b - a = IF NeedsBlock(cur) THEN 1 ELSE 0
    BY <2>1
  <2>. QED  BY <2>1, <2>2 DEF b
<1>9. NeedsNext(cur) <=> NeedsBlock(cur)
  BY <1>1 DEF NeedsNext, NeedsBlock, needs_cow, is_shared
<1>10. NeedOfNext(DOMAIN running') = IF NeedsBlock(cur) THEN R \cup {n} ELSE R
  <2>1. \A i \in DOMAIN running : NeedsNext(running'[i]) <=> NeedsBlock(running[i])
    BY <1>1, <1>4 DEF NeedsNext, NeedsBlock, needs_cow, is_shared
  <2>. QED  BY <1>4, <1>9, <2>1 DEF NeedOfNext, NeedOf
<1>11. IsFiniteSet(R) /\ n \notin R /\ Cardinality(R) \in Nat
  BY <1>2, <1>4, BatchFinite DEF NeedOf
<1>. HIDE DEF R, k
<1>12. Cardinality(R \cup {n}) = Cardinality(R) + 1
  BY <1>11, FS_AddElement
<1>13. reserved' = Cardinality(NeedOfNext(DOMAIN running'))
  BY <1>1, <1>2, <1>6, <1>10, <1>11, <1>12
<1>14. num_free' = num_free /\ num_free \in Nat /\ reserved \in Nat
  BY <1>1, FreeChange DEF num_free, SchedInv, TypeInv
<1>15. reserved' <= num_free'
  BY <1>1, <1>2, <1>6, <1>8, <1>14
<1>16. DOMAIN outcome' = DOMAIN outcome /\ outcome'.preempted = outcome.preempted
  BY <1>1, <1>2
<1>17. RoomNext
  BY <1>1, <1>2, <1>13, <1>15, <1>16 DEF RoomNext
<1>. QED  BY <1>17, RoomPrimed

\* A step of decode or of retirement: whoever still needs a block needed one
\* before, and who has taken one no longer counts.
LEMMA RoomStep ==
  ASSUME TypeInv, AllocInv, RoomInv, Stepping, pc' \in {"decode", "cow", "retire"},
         DOMAIN outcome' = DOMAIN outcome, outcome'.admitted = outcome.admitted,
         outcome'.preempted = outcome.preempted,
         \A j \in ToServeNext :
           j \in ToServe /\ (NeedsNext(running'[j]) => NeedsBlock(running[j])),
         \/ num_free' >= num_free /\ num_free' \in Nat
         \/ /\ num_free' = num_free - 1
            /\ \E i \in NeedOf(ToServe) : i \notin ToServeNext
  PROVE  RoomInv'
<1> DEFINE S == NeedOf(ToServe)
           T == NeedOfNext(ToServeNext)
<1>1. {"admitted", "preempted"} \subseteq DOMAIN outcome
  BY DEF RoomInv
<1>2. CASE outcome.admitted = <<>>
  BY <1>1, <1>2, RoomNoAdmission
<1>3. CASE outcome.admitted # <<>>
  <2>1. Cardinality(S) <= num_free /\ outcome.preempted = <<>>
    BY <1>3 DEF RoomInv, AdmissionNeverPreempts
  <2>2. IsFiniteSet(S) /\ Cardinality(S) \in Nat
    BY BatchFinite DEF ToServe
  <2>3. T \in SUBSET S
    BY DEF NeedOfNext, NeedOf
  <2>4. num_free \in Nat
    BY FreeChange
  <2>5. IsFiniteSet(T) /\ Cardinality(T) \in Nat /\ Cardinality(T) <= Cardinality(S)
    <3>. HIDE DEF S, T
    <3>. QED  BY <2>2, <2>3, FS_Subset, FS_CardinalityType
  <2>6. Cardinality(T) <= num_free'
    <3>1. CASE num_free' >= num_free /\ num_free' \in Nat
      <4>. HIDE DEF S, T
      <4>. QED  BY <2>1, <2>2, <2>4, <2>5, <3>1
    <3>2. CASE num_free' = num_free - 1 /\ \E i \in S : i \notin ToServeNext
      <4>1. PICK i \in S : i \notin T
        BY <3>2 DEF NeedOfNext
      <4>. HIDE DEF S, T
      <4>2. T \in SUBSET (S \ {i})
        BY <2>3, <4>1
      <4>3. IsFiniteSet(S \ {i}) /\ Cardinality(S \ {i}) = Cardinality(S) - 1
        BY <2>2, <4>1, FS_RemoveElement
      <4>4. Cardinality(T) <= Cardinality(S \ {i})
        BY <4>2, <4>3, FS_Subset
      <4>. QED  BY <2>1, <2>2, <2>4, <2>5, <3>2, <4>3, <4>4
    <3>. QED  BY <3>1, <3>2
  <2>7. RoomNext
    BY <1>1, <2>1, <2>6 DEF RoomNext
  <2>. QED  BY <2>7, RoomPrimed
<1>. QED  BY <1>2, <1>3

\* Who needs a block after counts have only dropped, or grown elsewhere.
LEMMA NeedsLess ==
  ASSUME TypeInv, NEW t \in Running,
         \A b \in Blocks : In(b, t.blocks) => ref_counts'[b] <= ref_counts[b],
         ref_counts \in [Blocks -> 0 .. MaxRefCount], ref_counts' \in [Blocks -> 0 .. MaxRefCount],
         NeedsNext(t)
  PROVE  NeedsBlock(t)
<1>1. CASE ~last_block_has_room(t)
  BY <1>1 DEF NeedsBlock
<1>2. CASE last_block_has_room(t)
  <2>1. t.blocks \in Seq(Blocks) /\ t.blocks # <<>>
    BY <1>2, RunningFacts DEF Running, last_block_has_room
  <2>2. TailOf(t) \in Blocks /\ In(TailOf(t), t.blocks)
    BY <2>1, EmptySeq, LenProperties DEF TailOf, In
  <2>3. ref_counts'[TailOf(t)] > 1 /\ ref_counts'[TailOf(t)] <= ref_counts[TailOf(t)]
    BY <1>2, <2>2 DEF NeedsNext
  <2>4. ref_counts[TailOf(t)] \in Nat /\ ref_counts'[TailOf(t)] \in Nat
    BY <2>2, AllocatorAssumption
  <2>5. \A m, n \in Nat : m > 1 /\ m <= n => n > 1
    OBVIOUS
  <2>6. ref_counts[TailOf(t)] > 1
    BY ONLY <2>3, <2>4, <2>5
  <2>. QED  BY <1>2, <2>6 DEF NeedsBlock, needs_cow, is_shared
<1>. QED  BY <1>1, <1>2

\* Decode goes past an id, or writes into a table.
LEMMA RoomDecode ==
  ASSUME SchedInv, OwnInv, RoomInv, [Next]_vars,
         \/ DecodeSkip \/ CowReplace
         \/ \E i \in DOMAIN running : AppendInPlace(i) \/ AppendFresh(i) \/ CowAllocate(i)
  PROVE  RoomInv'
<1>1. /\ AllocInv /\ TypeInv /\ Distinct /\ CountsExact /\ Stepping /\ VisitInv /\ todo # <<>>
      /\ running \in Seq(Running)
  <2>1. AllocInv /\ TypeInv /\ Distinct /\ CountsExact /\ Stepping /\ todo # <<>>
    BY CowFacts DEF SchedInv, OwnInv, Stepping, DecodeSkip, CowReplace, AppendInPlace,
                    AppendFresh, CowAllocate, Decoding
  <2>. QED  BY <2>1 DEF SchedInv, BudgetInv, TypeInv
<1>2. AllocInv'
  BY SchedNextInv DEF SchedInv
<1>3. /\ ref_counts \in [Blocks -> 0 .. MaxRefCount] /\ ref_counts' \in [Blocks -> 0 .. MaxRefCount]
      /\ MaxRefCount \in Nat
  BY <1>1, <1>2, AllocatorAssumption DEF AllocInv, AllocTypeOK
<1>4. "admitted" \in DOMAIN outcome /\ "preempted" \in DOMAIN outcome
  BY DEF RoomInv
<1>5. \A t \in Running : NeedsNext(t)
        /\ (\A b \in Blocks : In(b, t.blocks) => ref_counts'[b] <= ref_counts[b])
          => NeedsBlock(t)
  BY <1>1, <1>3, NeedsLess
<1>6. \A j \in DOMAIN running : running[j] \in Running
  BY <1>1
<1>7. \A b \in Blocks : ref_counts[b] \in Nat
  BY <1>3
<1>8. \A y : In(y, Tail(todo)) => In(y, todo)
  BY <1>1, TailIn DEF TypeInv
<1>9. CASE DecodeSkip
  <2>1. /\ pc = "decode" /\ pc' = "decode" /\ todo' = Tail(todo)
        /\ UNCHANGED <<running, ref_counts, free_list, evictable, outcome>>
    BY <1>9 DEF DecodeSkip, allocVars
  <2>2. num_free' = num_free /\ num_free \in Nat
    BY <1>1, <2>1, FreeChange DEF num_free
  <2>3. \A b \in Blocks : ref_counts'[b] <= ref_counts[b]
    BY <1>7, <2>1
  <2>4. \A j \in ToServeNext :
          j \in ToServe /\ (NeedsNext(running'[j]) => NeedsBlock(running[j]))
    BY <1>5, <1>6, <1>8, <2>1, <2>3 DEF ToServeNext, ToServe
  <2>. QED  BY <1>1, <2>1, <2>2, <2>4, RoomStep
<1>10. ASSUME NEW i \in DOMAIN running, NEW bs \in Seq(Blocks), NEW cow,
              Appended(i, bs, cow), running[i].id = Head(todo), pc' = "decode",
              \A j \in DOMAIN running \ {i}, b \in Blocks :
                In(b, running[j].blocks) => ref_counts'[b] <= ref_counts[b]
       PROVE  /\ DOMAIN outcome' = DOMAIN outcome /\ outcome'.admitted = outcome.admitted
              /\ outcome'.preempted = outcome.preempted /\ i \notin ToServeNext
              /\ \A j \in ToServeNext :
                   j \in ToServe /\ (NeedsNext(running'[j]) => NeedsBlock(running[j]))
  <2>1. /\ DOMAIN running' = DOMAIN running /\ todo' = Tail(todo) /\ running'[i].id = running[i].id
        /\ \A j \in DOMAIN running \ {i} : running'[j] = running[j]
    BY <1>1, <1>10, AppendedFacts
  <2>2. PICK e : outcome' = [outcome EXCEPT !.decoded = Append(@, e)]
    BY <1>10 DEF Appended
  <2>3. /\ DOMAIN outcome' = DOMAIN outcome /\ outcome'.admitted = outcome.admitted
        /\ outcome'.preempted = outcome.preempted
    BY <1>4, <2>2
  <2>4. ~In(Head(todo), Tail(todo))
    BY <1>1, <1>10, VisitedOnce
  <2>5. i \notin ToServeNext
    BY <1>10, <2>1, <2>4 DEF ToServeNext
  <2>6. ASSUME NEW j \in ToServeNext
        PROVE  j \in ToServe /\ (NeedsNext(running'[j]) => NeedsBlock(running[j]))
    <3>1. j \in DOMAIN running \ {i} /\ In(running[j].id, Tail(todo))
      BY <2>1, <2>5 DEF ToServeNext
    <3>2. running[j].id # Head(todo) /\ In(running[j].id, todo)
      BY <1>8, <2>4, <3>1
    <3>3. NeedsNext(running[j]) => NeedsBlock(running[j])
      BY <1>5, <1>6, <1>10, <3>1
    <3>. QED  BY <2>1, <3>1, <3>2, <3>3 DEF ToServe
  <2>. QED  BY <2>3, <2>5, <2>6
<1>11. ASSUME NEW i \in DOMAIN running, AppendInPlace(i) PROVE RoomInv'
  <2>1. /\ Appended(i, running[i].blocks, <<>>) /\ running[i].id = Head(todo)
        /\ pc' = "decode" /\ UNCHANGED <<ref_counts, free_list, evictable>>
    BY <1>11 DEF AppendInPlace, Decoding, allocVars
  <2>2. running[i].blocks \in Seq(Blocks)
    BY <1>1, TableTypes
  <2>3. \A b \in Blocks : ref_counts'[b] <= ref_counts[b]
    BY <1>7, <2>1
  <2>4. num_free' = num_free /\ num_free \in Nat
    BY <1>1, <2>1, FreeChange DEF num_free
  <2>. QED  BY <1>1, <1>10, <2>1, <2>2, <2>3, <2>4, RoomStep
<1>12. ASSUME NEW i \in DOMAIN running, NEW x \in Blocks, Allocate(x)
       PROVE  /\ \A j \in DOMAIN running, b \in Blocks :
                   In(b, running[j].blocks) => ref_counts'[b] <= ref_counts[b]
              /\ num_free' = num_free - 1
  <2>1. /\ \A y \in Blocks : ref_counts'[y] = IF y = x THEN ref_counts[x] + 1 ELSE ref_counts[y]
        /\ \A j \in DOMAIN running : ~In(x, running[j].blocks)
    BY <1>1, <1>12, AllocatedIsNew
  <2>2. \A j \in DOMAIN running, b \in Blocks :
          In(b, running[j].blocks) => ref_counts'[b] = ref_counts[b]
    BY <2>1
  <2>. QED  BY <1>1, <1>7, <1>12, <2>2, FreeChange
<1>13. ASSUME NEW i \in DOMAIN running, Decoding(i), NeedsBlock(running[i])
       PROVE  i \in NeedOf(ToServe)
  <2>1. pc = "decode" /\ running[i].id = Head(todo) /\ In(Head(todo), todo)
    BY <1>1, <1>13, VisitedOnce DEF Decoding
  <2>. QED  BY <1>13, <2>1 DEF NeedOf, ToServe
<1>14. ASSUME NEW i \in DOMAIN running, AppendFresh(i) PROVE RoomInv'
  <2>1. /\ Decoding(i) /\ ~last_block_has_room(running[i])
        /\ \E b \in Blocks : Allocate(b) /\ Appended(i, Append(running[i].blocks, b), <<>>)
        /\ UNCHANGED pc
    BY <1>14 DEF AppendFresh
  <2>2. PICK x \in Blocks : Allocate(x) /\ Appended(i, Append(running[i].blocks, x), <<>>)
    BY <2>1
  <2>3. Append(running[i].blocks, x) \in Seq(Blocks)
    BY <1>1, TableFacts
  <2>4. i \in NeedOf(ToServe)
    BY <1>13, <2>1 DEF NeedsBlock
  <2>5. running[i].id = Head(todo) /\ pc' = "decode"
    BY <2>1 DEF Decoding
  <2>6. /\ \A j \in DOMAIN running, b \in Blocks :
             In(b, running[j].blocks) => ref_counts'[b] <= ref_counts[b]
        /\ num_free' = num_free - 1
    BY <1>12, <2>2
  <2>7. /\ DOMAIN outcome' = DOMAIN outcome /\ outcome'.admitted = outcome.admitted
        /\ outcome'.preempted = outcome.preempted /\ i \notin ToServeNext
        /\ \A j \in ToServeNext :
             j \in ToServe /\ (NeedsNext(running'[j]) => NeedsBlock(running[j]))
    BY <1>10, <2>2, <2>3, <2>5, <2>6
  <2>. QED  BY <1>1, <2>4, <2>5, <2>6, <2>7, RoomStep
<1>15. ASSUME NEW i \in DOMAIN running, CowAllocate(i) PROVE RoomInv'
  <2>1. /\ Decoding(i) /\ needs_cow(running[i]) /\ pc' = "cow"
        /\ \E b \in Blocks : Allocate(b)
        /\ UNCHANGED <<running, todo, outcome>>
    BY <1>15 DEF CowAllocate
  <2>2. PICK x \in Blocks : Allocate(x)
    BY <2>1
  <2>3. i \in NeedOf(ToServe)
    BY <1>13, <2>1 DEF NeedsBlock
  <2>4. running[i].id = Head(todo) /\ pc = "decode"
    BY <2>1 DEF Decoding
  <2>5. /\ \A j \in DOMAIN running, b \in Blocks :
             In(b, running[j].blocks) => ref_counts'[b] <= ref_counts[b]
        /\ num_free' = num_free - 1
    BY <1>12, <2>2
  <2>6. /\ i \notin ToServeNext
        /\ \A j \in ToServeNext :
             j \in ToServe /\ (NeedsNext(running'[j]) => NeedsBlock(running[j]))
    BY <1>5, <1>6, <2>1, <2>4, <2>5 DEF ToServeNext, ToServe
  <2>. QED  BY <1>1, <2>1, <2>3, <2>5, <2>6, RoomStep
<1>16. CASE CowReplace
  <2> DEFINE i == Pos(Head(todo))
             bs == [running[i].blocks EXCEPT ![Len(running[i].blocks)] = Head(cur.blocks)]
             cow == CopyPair(TailOf(running[i]), Head(cur.blocks))
             x == TailOf(running[i])
  <2>1. /\ pc = "cow" /\ pc' = "decode" /\ Decref(x) /\ Appended(i, bs, cow)
    BY <1>16 DEF CowReplace
  <2>2. /\ i \in DOMAIN running /\ Head(cur.blocks) \in Blocks /\ x \in Blocks
        /\ running[i].blocks # <<>> /\ running[i].id = Head(todo)
    BY <2>1, CowFacts
  <2>3. bs \in Seq(Blocks)
    BY <1>1, <2>2, TableFacts
  <2>. HIDE DEF i, bs, cow, x
  <2>4. \A b \in Blocks : ref_counts'[b] <= ref_counts[b]
    BY <1>3, <1>7, <2>1, <2>2 DEF Decref
  <2>5. num_free' >= num_free /\ num_free' \in Nat
    BY <1>1, <2>1, <2>2, FreeChange
  <2>. QED  BY <1>1, <1>10, <2>1, <2>2, <2>3, <2>4, <2>5, RoomStep
<1>. QED  BY <1>9, <1>11, <1>14, <1>15, <1>16

\* Sequences leave the batch, and their blocks are given back.
LEMMA RoomLeave ==
  ASSUME SchedInv, OwnInv, RoomInv, [Next]_vars, Stepping,
         \/ ReleaseBlock \/ ReleaseEnd \/ PreemptEnd
         \/ \E i \in DOMAIN running : Preempt(i) \/ Retire(i)
  PROVE  RoomInv'
<1>1. AllocInv /\ TypeInv /\ VisitInv /\ running \in Seq(Running)
  BY DEF SchedInv, BudgetInv, TypeInv
<1>2. AllocInv'
  BY SchedNextInv DEF SchedInv
<1>3. /\ ref_counts \in [Blocks -> 0 .. MaxRefCount] /\ ref_counts' \in [Blocks -> 0 .. MaxRefCount]
      /\ MaxRefCount \in Nat
  BY <1>1, <1>2, AllocatorAssumption DEF AllocInv, AllocTypeOK
<1>4. "admitted" \in DOMAIN outcome /\ "preempted" \in DOMAIN outcome
  BY DEF RoomInv
<1>5. \A t \in Running : NeedsNext(t)
        /\ (\A b \in Blocks : In(b, t.blocks) => ref_counts'[b] <= ref_counts[b])
          => NeedsBlock(t)
  BY <1>1, <1>3, NeedsLess
<1>6. \A j \in DOMAIN running : running[j] \in Running
  BY <1>1
<1>7. pc = "preempt" => outcome.admitted = <<>>
  BY DEF RoomInv, Stepping
<1>8. ASSUME UNCHANGED <<running, todo, outcome>>, pc = "retire", pc' \in {"retire", "decode"},
             \A b \in Blocks : ref_counts'[b] <= ref_counts[b],
             num_free' >= num_free /\ num_free' \in Nat
      PROVE  RoomInv'
  <2>1. \A j \in ToServeNext :
          j \in ToServe /\ (NeedsNext(running'[j]) => NeedsBlock(running[j]))
    BY <1>5, <1>6, <1>8 DEF ToServeNext, ToServe
  <2>. QED  BY <1>1, <1>8, <2>1, RoomStep
<1>9. CASE ReleaseBlock
  <2>1. /\ UNCHANGED <<running, todo, outcome, pc>> /\ Decref(TailOf(cur)) /\ TailOf(cur) \in Blocks
    <3>1. cur.blocks # <<>> /\ cur.blocks \in Seq(Blocks)
      BY <1>1, <1>9, TableTypes DEF ReleaseBlock
    <3>2. TailOf(cur) \in Blocks
      BY <3>1, EmptySeq, ElementOfSeq DEF TailOf
    <3>. QED  BY <1>9, <3>2 DEF ReleaseBlock
  <2>2. CASE pc = "retire"
    <3>1. \A b \in Blocks : ref_counts'[b] <= ref_counts[b]
      BY <1>3, <2>1 DEF Decref
    <3>2. num_free' >= num_free /\ num_free' \in Nat
      BY <1>1, <2>1, FreeChange
    <3>. QED  BY <1>8, <2>1, <2>2, <3>1, <3>2
  <2>3. CASE pc = "preempt"
    BY <1>4, <1>7, <2>1, <2>3, RoomNoAdmission
  <2>. QED  BY <1>9, <2>2, <2>3 DEF ReleaseBlock, Stepping
<1>10. CASE ReleaseEnd
  <2>1. pc = "retire" /\ pc' = "decode"
        /\ UNCHANGED <<running, todo, outcome, ref_counts, free_list, evictable>>
    BY <1>10 DEF ReleaseEnd, Stepping, allocVars
  <2>2. \A b \in Blocks : ref_counts'[b] <= ref_counts[b]
    BY <1>3, <2>1
  <2>3. num_free' >= num_free /\ num_free' \in Nat
    BY <1>1, <2>1, FreeChange DEF num_free
  <2>. QED  BY <1>8, <2>1, <2>2, <2>3
<1>11. CASE PreemptEnd
  <2>1. pc = "preempt" /\ pc' = "decode" /\ UNCHANGED outcome
    BY <1>11 DEF PreemptEnd
  <2>. QED  BY <1>4, <1>7, <2>1, RoomNoAdmission
<1>12. ASSUME NEW i \in DOMAIN running, Preempt(i) PROVE RoomInv'
  <2>1. /\ pc = "decode" /\ todo # <<>> /\ running[i].id = Head(todo) /\ ~CanAllocate
        /\ NeedsBlock(running[i]) /\ pc' = "preempt"
    BY <1>12 DEF Preempt, Decoding, NeedsBlock
  <2>2. PICK v : outcome' = [outcome EXCEPT !.decoded = Retained(@, v.id),
                                            !.preempted = Append(@, v.id)]
    BY <1>12 DEF Preempt
  <2>3. i \in NeedOf(ToServe)
    <3>1. In(Head(todo), todo)
      BY <1>1, <2>1, VisitedOnce
    <3>. QED  BY <2>1, <3>1 DEF NeedOf, ToServe
  <2>4. Cardinality(NeedOf(ToServe)) \in Nat /\ IsFiniteSet(NeedOf(ToServe))
    BY <1>1, BatchFinite DEF ToServe
  <2>5. Cardinality(NeedOf(ToServe)) # 0
    BY <2>3, <2>4, FS_EmptySet
  <2>6. num_free = 0
    BY <1>1, <2>1, FreeChange
  <2>7. outcome.admitted = <<>>
    BY <2>4, <2>5, <2>6 DEF RoomInv
  <2>8. outcome'.admitted = outcome.admitted /\ DOMAIN outcome' = DOMAIN outcome
    BY <1>4, <2>2
  <2>. QED  BY <1>4, <2>1, <2>7, <2>8, RoomNoAdmission
<1>13. ASSUME NEW i \in DOMAIN running, Retire(i) PROVE RoomInv'
  <2>1. /\ todo = <<>> /\ UNCHANGED <<todo, free_list, evictable>> /\ pc' = "retire"
        /\ outcome' = [outcome EXCEPT !.finished = Append(@, running[i].id)]
    BY <1>13 DEF Retire, allocVars
  <2>2. ToServeNext = {}
    BY <2>1, EmptyTable DEF ToServeNext
  <2>3. /\ DOMAIN outcome' = DOMAIN outcome /\ outcome'.admitted = outcome.admitted
        /\ outcome'.preempted = outcome.preempted
    BY <1>4, <2>1
  <2>4. num_free' >= num_free /\ num_free' \in Nat
    BY <1>1, <2>1, FreeChange DEF num_free
  <2>. QED  BY <1>1, <2>1, <2>2, <2>3, <2>4, RoomStep
<1>. QED  BY <1>9, <1>10, <1>11, <1>12, <1>13

\* Nothing that counts has changed.
LEMMA RoomFrame == ASSUME RoomInv, UNCHANGED vars PROVE RoomInv'
<1>1. UNCHANGED <<running, pc, outcome, todo, cur, claim, ref_counts, reserved, free_list, evictable>>
  BY DEF vars, allocVars, callVars
<1>. QED  BY <1>1 DEF RoomInv, AdmissionNeverPreempts, NeedOf, NeedsBlock, needs_cow,
                      is_shared, CountedNow, ToServe, UnownedIn, StillTaken, Stepping, num_free

LEMMA RoomKept ==
  ASSUME SchedInv, OwnInv, PrivInv, ChainInv, RoomInv, [Next]_vars
  PROVE  RoomInv'
<1>1. CASE UNCHANGED vars
  BY <1>1, RoomFrame
<1>2. CASE Client
  <2>1. pc' \in {"idle", "fork", "finish"} /\ UNCHANGED outcome
    BY <1>2 DEF Client, Enqueue, Fork, FinishRunning, FinishWaiting, callVars
  <2>. QED  BY <2>1, RoomOutside
<1>3. CASE ForkBlock \/ ForkEnd \/ StepEnd \/ (pc = "finish" /\ (ReleaseBlock \/ ReleaseEnd))
  <2>1. pc' \in {"idle", "fork", "finish"} /\ UNCHANGED outcome
    BY <1>3 DEF ForkBlock, ForkEnd, StepEnd, ReleaseBlock, ReleaseEnd
  <2>. QED  BY <2>1, RoomOutside
<1>4. CASE StepBegin \/ Reserve \/ ReserveEnd
  BY <1>4, RoomReserve
<1>5. CASE AdmitNext \/ AdmitEnd
  BY <1>5, RoomAdmit
<1>6. CASE Acquire \/ Fill \/ FillEnd \/ RegisterBlock \/ RegisterEnd
  BY <1>6, RoomAcquire, RoomFill, RoomIndex, RoomJoin
<1>7. CASE DecodeSkip \/ CowReplace
           \/ \E i \in DOMAIN running : AppendInPlace(i) \/ AppendFresh(i) \/ CowAllocate(i)
  BY <1>7, RoomDecode
<1>8. CASE \/ pc # "finish" /\ (ReleaseBlock \/ ReleaseEnd)
           \/ PreemptEnd
           \/ \E i \in DOMAIN running : Preempt(i) \/ Retire(i)
  <2>1. Stepping
    BY <1>8 DEF Stepping, ReleaseBlock, ReleaseEnd, PreemptEnd, Preempt, Retire, Decoding
  <2>. QED  BY <1>8, <2>1, RoomLeave
<1>9. CASE Step
  <2>1. (\E i \in DOMAIN running :
           AppendInPlace(i) \/ AppendFresh(i) \/ CowAllocate(i) \/ Preempt(i) \/ Retire(i))
        => \/ \E i \in DOMAIN running : AppendInPlace(i) \/ AppendFresh(i) \/ CowAllocate(i)
           \/ \E i \in DOMAIN running : Preempt(i) \/ Retire(i)
    OBVIOUS
  <2>. QED  BY <1>3, <1>4, <1>5, <1>6, <1>7, <1>8, <1>9, <2>1 DEF Step
<1>. QED  BY <1>1, <1>2, <1>9 DEF Next

LEMMA RoomInit == Init => RoomInv
<1>1. SUFFICES ASSUME Init PROVE RoomInv
  OBVIOUS
<1>2. pc = "idle" /\ outcome = NoOutcome
  BY <1>1 DEF Init
<1>3. {"admitted", "preempted"} \subseteq DOMAIN outcome /\ outcome.admitted = <<>>
  BY <1>2 DEF NoOutcome
<1>. QED  BY <1>2, <1>3 DEF RoomInv, AdmissionNeverPreempts, Stepping

LEMMA RoomInvariant == Spec => [](SchedInv /\ OwnInv /\ PrivInv /\ ChainInv /\ RoomInv)
<1> DEFINE I == SchedInv /\ OwnInv /\ PrivInv /\ ChainInv /\ RoomInv
<1>1. Init => I
  BY SchedInitInv, OwnInit, PrivInit, ChainInit, RoomInit
<1>2. I /\ [Next]_vars => I'
  BY SchedNextInv, OwnNext, PrivKept, ChainKept, RoomKept
<1>. QED  BY <1>1, <1>2, PTL DEF Spec

(***************************************************************************)
(* scheduler.rs:279-284: what admission sets aside is never less than what *)
(* the same step's decode takes, so a step that admits a sequence preempts *)
(* nobody, for every pool, batch size and mix of forks and shared prompts. *)
(***************************************************************************)
THEOREM AdmissionPreemptsNobody == Spec => []AdmissionNeverPreempts
<1>1. RoomInv => AdmissionNeverPreempts
  BY DEF RoomInv
<1>. QED  BY <1>1, RoomInvariant, PTL

-----------------------------------------------------------------------------
(* What a driver sees of a step.                                          *)

QueueRecord == [id : SeqId, len : Nat, max_new : Nat]
BatchRecord == [id : SeqId, len : Nat, generated : Nat, max_new : Nat]

QueueView(s) == [i \in DOMAIN s |-> Queued(s[i])]
BatchView(s) == [i \in DOMAIN s |-> Batched(s[i])]

\* A sequence as it is admitted, with its next token, and as it is preempted.
Fresh(w) == [id |-> w.id, len |-> w.len, generated |-> 0, max_new |-> w.max_new]
More(s) == [id |-> s.id, len |-> s.len + 1, generated |-> s.generated + 1, max_new |-> s.max_new]
Yielded(s) == [id |-> s.id, len |-> s.len, max_new |-> s.max_new - s.generated]
Done(s) == s.generated >= s.max_new

\* A step that found the batch b and the queue q has admitted n and preempted
\* m so far: the k-th of those that decode, and the k-th of those that wait.
Stays(b, q, m, k) == IF k <= Len(b) - m THEN b[k] ELSE Fresh(q[k - (Len(b) - m)])
Waits(b, q, n, m, k) == IF k <= m THEN Yielded(b[Len(b) - m + k]) ELSE q[k - m + n]

Bounded(b, q, n, m) ==
  /\ n \in Nat /\ m \in Nat /\ n <= Len(q) /\ m <= Len(b) /\ Len(b) + n <= MaxBatchSize
  /\ n = 0 \/ m = 0

QueueIs(w, b, q, n, m) ==
  /\ DOMAIN w = 1 .. m + Len(q) - n
  /\ \A k \in DOMAIN w : w[k] = Waits(b, q, n, m, k)

\* Nobody has decoded yet.
Joined(v, b, q, n) ==
  /\ DOMAIN v = 1 .. Len(b) + n
  /\ \A k \in DOMAIN v : v[k] = Stays(b, q, 0, k)

\* Those whose ids are not in ids have decoded.
BatchIs(v, ids, b, q, n, m) ==
  /\ DOMAIN v = 1 .. Len(b) - m + n
  /\ \A k \in DOMAIN v :
       v[k] = IF In(v[k].id, ids) THEN Stays(b, q, m, k) ELSE More(Stays(b, q, m, k))

\* The batch when all have decoded, and what is left of it while some retire.
AllDecoded(b, q, n, m) == [k \in 1 .. Len(b) - m + n |-> More(Stays(b, q, m, k))]
NotDone(d) == {s \in ToSet(d) : ~Done(s)}
Thinned(v, d) == Keep(v, NotDone(d)) = Keep(d, NotDone(d)) /\ ToSet(v) \subseteq ToSet(d)

\* What the batch and the queue have become, of a step in this part of it.
Admitting(n) ==
  /\ Bounded(before.batch, before.queue, n, 0)
  /\ Joined(BatchView(running), before.batch, before.queue, n)
  /\ QueueIs(QueueView(waiting), before.batch, before.queue, n, 0)
  /\ n # 0 => outcome.admitted # <<>>

Constructing(n) ==
  /\ Bounded(before.batch, before.queue, n + 1, 0)
  /\ Joined(BatchView(running), before.batch, before.queue, n)
  /\ QueueIs(QueueView(waiting), before.batch, before.queue, n + 1, 0)
  /\ Batched(cur) = Fresh(before.queue[n + 1])

Visiting(n, m) ==
  /\ Bounded(before.batch, before.queue, n, m)
  /\ BatchIs(BatchView(running), todo, before.batch, before.queue, n, m)
  /\ QueueIs(QueueView(waiting), before.batch, before.queue, n, m)
  /\ n # 0 => outcome.admitted # <<>>

Yielding(m) ==
  /\ Bounded(before.batch, before.queue, 0, m + 1)
  /\ BatchIs(BatchView(running), todo, before.batch, before.queue, 0, m + 1)
  /\ QueueIs(QueueView(waiting), before.batch, before.queue, 0, m)
  /\ Batched(cur) = before.batch[Len(before.batch) - m]

Retiring(n, m) ==
  /\ todo = <<>>
  /\ Bounded(before.batch, before.queue, n, m)
  /\ Thinned(BatchView(running), AllDecoded(before.batch, before.queue, n, m))
  /\ QueueIs(QueueView(waiting), before.batch, before.queue, n, m)

\* A fork is a copy of one that runs; one that is finished is out of the batch.
Forking ==
  /\ cur.id \in SeqId /\ cur.generated = 0 /\ cur.max_new \in ForkNew
  /\ \E i \in DOMAIN before.batch : cur.num_tokens = before.batch[i].len

Finishing ==
  /\ QueueView(waiting) = before.queue
  /\ \E i \in DOMAIN before.batch : BatchView(running) = RemoveAt(before.batch, i)

\* What the driver saw when the call began, and what has come of it so far.
ViewInv ==
  /\ pc \in {"idle", "reserve", "fork"} => before = Snapshot
  /\ pc = "fork" => Forking
  /\ pc = "finish" => Finishing
  /\ pc = "admit" => \E n \in Nat : Admitting(n)
  /\ pc \in {"build", "register"} => \E n \in Nat : Constructing(n)
  /\ pc = "decode" => \E n, m \in Nat : Visiting(n, m) \/ Retiring(n, m)
  /\ pc = "cow" => \E n, m \in Nat : Visiting(n, m)
  /\ pc = "preempt" => \E m \in Nat : Yielding(m)
  /\ pc = "retire" => \E n, m \in Nat : Retiring(n, m)

LEMMA BatchedType == ASSUME NEW t \in Running PROVE Batched(t) \in BatchRecord
<1>1. t.id \in SeqId /\ t.num_tokens \in Nat /\ t.generated \in Nat /\ t.max_new \in Nat
  BY DEF Running, RunningWith
<1>. QED  BY <1>1 DEF Batched, BatchRecord

LEMMA BatchViewFacts ==
  ASSUME NEW s \in Seq(Running)
  PROVE  /\ BatchView(s) \in Seq(BatchRecord) /\ Len(BatchView(s)) = Len(s)
         /\ DOMAIN BatchView(s) = DOMAIN s /\ DOMAIN s = 1 .. Len(s) /\ Len(s) \in Nat
         /\ \A k \in DOMAIN s : BatchView(s)[k] = Batched(s[k]) /\ BatchView(s)[k].id = s[k].id
<1>1. DOMAIN s = 1 .. Len(s) /\ Len(s) \in Nat /\ \A k \in DOMAIN s : s[k] \in Running
  OBVIOUS
<1>2. \A k \in DOMAIN s : Batched(s[k]) \in BatchRecord /\ Batched(s[k]).id = s[k].id
  BY <1>1, BatchedType DEF Batched
<1>3. BatchView(s) \in Seq(BatchRecord)
  BY <1>1, <1>2 DEF BatchView
<1>4. DOMAIN BatchView(s) = DOMAIN s /\ \A k \in DOMAIN s : BatchView(s)[k] = Batched(s[k])
  BY DEF BatchView
<1>5. Len(BatchView(s)) = Len(s)
  BY <1>1, <1>3, <1>4, LenProperties
<1>. QED  BY <1>1, <1>2, <1>3, <1>4, <1>5

LEMMA QueuedType == ASSUME NEW w \in Pending PROVE Queued(w) \in QueueRecord
<1>1. w.id \in SeqId /\ w.context_len \in Nat /\ w.max_new \in Nat
  BY DEF Pending
<1>. QED  BY <1>1 DEF Queued, QueueRecord

LEMMA QueueViewFacts ==
  ASSUME NEW s \in Seq(Pending)
  PROVE  /\ QueueView(s) \in Seq(QueueRecord) /\ Len(QueueView(s)) = Len(s)
         /\ DOMAIN QueueView(s) = DOMAIN s /\ DOMAIN s = 1 .. Len(s) /\ Len(s) \in Nat
         /\ \A k \in DOMAIN s : QueueView(s)[k] = Queued(s[k])
<1>1. DOMAIN s = 1 .. Len(s) /\ Len(s) \in Nat /\ \A k \in DOMAIN s : s[k] \in Pending
  OBVIOUS
<1>2. \A k \in DOMAIN s : Queued(s[k]) \in QueueRecord
  BY <1>1, QueuedType
<1>3. QueueView(s) \in Seq(QueueRecord)
  BY <1>1, <1>2 DEF QueueView
<1>4. DOMAIN QueueView(s) = DOMAIN s /\ \A k \in DOMAIN s : QueueView(s)[k] = Queued(s[k])
  BY DEF QueueView
<1>5. Len(QueueView(s)) = Len(s)
  BY <1>1, <1>3, <1>4, LenProperties
<1>. QED  BY <1>1, <1>3, <1>4, <1>5

LEMMA BatchViewAppend ==
  ASSUME NEW s \in Seq(Running), NEW x \in Running
  PROVE  BatchView(Append(s, x)) = Append(BatchView(s), Batched(x))
<1> DEFINE z == Append(s, x)
<1>1. z \in Seq(Running) /\ DOMAIN z = DOMAIN s \cup {Len(s) + 1} /\ Len(z) = Len(s) + 1
  BY AppendOrigin, AppendProperties
<1>2. (\A k \in DOMAIN s : z[k] = s[k]) /\ z[Len(s) + 1] = x
  BY AppendOrigin
<1>. HIDE DEF z
<1>3. /\ BatchView(z) \in Seq(BatchRecord) /\ Len(BatchView(z)) = Len(s) + 1
      /\ BatchView(s) \in Seq(BatchRecord) /\ Len(BatchView(s)) = Len(s)
      /\ \A k \in DOMAIN s : BatchView(z)[k] = BatchView(s)[k]
      /\ BatchView(z)[Len(s) + 1] = Batched(x)
  BY <1>1, <1>2, BatchViewFacts
<1>4. BatchView(z) = Append(BatchView(s), Batched(x))
  BY <1>3, BatchedType, MapAppend
<1>. QED  BY <1>4 DEF z

LEMMA QueueViewAppend ==
  ASSUME NEW s \in Seq(Pending), NEW x \in Pending
  PROVE  QueueView(Append(s, x)) = Append(QueueView(s), Queued(x))
<1> DEFINE z == Append(s, x)
<1>1. z \in Seq(Pending) /\ DOMAIN z = DOMAIN s \cup {Len(s) + 1} /\ Len(z) = Len(s) + 1
  BY AppendOrigin, AppendProperties
<1>2. (\A k \in DOMAIN s : z[k] = s[k]) /\ z[Len(s) + 1] = x
  BY AppendOrigin
<1>. HIDE DEF z
<1>3. /\ QueueView(z) \in Seq(QueueRecord) /\ Len(QueueView(z)) = Len(s) + 1
      /\ QueueView(s) \in Seq(QueueRecord) /\ Len(QueueView(s)) = Len(s)
      /\ \A k \in DOMAIN s : QueueView(z)[k] = QueueView(s)[k]
      /\ QueueView(z)[Len(s) + 1] = Queued(x)
  BY <1>1, <1>2, QueueViewFacts
<1>4. QueueView(z) = Append(QueueView(s), Queued(x))
  BY <1>3, QueuedType, MapAppend
<1>. QED  BY <1>4 DEF z

LEMMA BatchViewRemove ==
  ASSUME NEW s \in Seq(Running), NEW i \in DOMAIN s
  PROVE  BatchView(RemoveAt(s, i)) = RemoveAt(BatchView(s), i)
<1> DEFINE z == RemoveAt(s, i)
<1>1. /\ z \in Seq(Running) /\ Len(z) = Len(s) - 1 /\ i \in Int /\ DOMAIN z \subseteq Int
      /\ \A j \in DOMAIN z : /\ j < i => j \in DOMAIN s /\ z[j] = s[j]
                             /\ j >= i => j + 1 \in DOMAIN s /\ z[j] = s[j + 1]
  BY RemoveAtFacts, LenProperties
<1>. HIDE DEF z
<1>2. /\ BatchView(z) \in Seq(BatchRecord) /\ Len(BatchView(z)) = Len(s) - 1
      /\ BatchView(s) \in Seq(BatchRecord) /\ Len(BatchView(s)) = Len(s)
      /\ DOMAIN BatchView(z) = DOMAIN z /\ DOMAIN BatchView(s) = DOMAIN s
      /\ \A k \in DOMAIN z : BatchView(z)[k] = Batched(z[k])
      /\ \A k \in DOMAIN s : BatchView(s)[k] = Batched(s[k])
  BY <1>1, BatchViewFacts
<1>3. \A k \in DOMAIN BatchView(z) :
        BatchView(z)[k] = IF k < i THEN BatchView(s)[k] ELSE BatchView(s)[k + 1]
  BY <1>1, <1>2
<1>4. i \in DOMAIN BatchView(s) /\ Len(BatchView(z)) = Len(BatchView(s)) - 1
  BY <1>2
<1>5. BatchView(z) = RemoveAt(BatchView(s), i)
  BY <1>2, <1>3, <1>4, MapRemove
<1>. QED  BY <1>5 DEF z

LEMMA QueueViewRemove ==
  ASSUME NEW s \in Seq(Pending), NEW i \in DOMAIN s
  PROVE  QueueView(RemoveAt(s, i)) = RemoveAt(QueueView(s), i)
<1> DEFINE z == RemoveAt(s, i)
<1>1. /\ z \in Seq(Pending) /\ Len(z) = Len(s) - 1 /\ i \in Int /\ DOMAIN z \subseteq Int
      /\ \A j \in DOMAIN z : /\ j < i => j \in DOMAIN s /\ z[j] = s[j]
                             /\ j >= i => j + 1 \in DOMAIN s /\ z[j] = s[j + 1]
  BY RemoveAtFacts, LenProperties
<1>. HIDE DEF z
<1>2. /\ QueueView(z) \in Seq(QueueRecord) /\ Len(QueueView(z)) = Len(s) - 1
      /\ QueueView(s) \in Seq(QueueRecord) /\ Len(QueueView(s)) = Len(s)
      /\ DOMAIN QueueView(z) = DOMAIN z /\ DOMAIN QueueView(s) = DOMAIN s
      /\ \A k \in DOMAIN z : QueueView(z)[k] = Queued(z[k])
      /\ \A k \in DOMAIN s : QueueView(s)[k] = Queued(s[k])
  BY <1>1, QueueViewFacts
<1>3. \A k \in DOMAIN QueueView(z) :
        QueueView(z)[k] = IF k < i THEN QueueView(s)[k] ELSE QueueView(s)[k + 1]
  BY <1>1, <1>2
<1>4. i \in DOMAIN QueueView(s) /\ Len(QueueView(z)) = Len(QueueView(s)) - 1
  BY <1>2
<1>5. QueueView(z) = RemoveAt(QueueView(s), i)
  BY <1>2, <1>3, <1>4, MapRemove
<1>. QED  BY <1>5 DEF z

LEMMA StaysFacts ==
  ASSUME NEW b \in Seq(BatchRecord), NEW q \in Seq(QueueRecord), NEW n, NEW m, Bounded(b, q, n, m)
  PROVE  \A k \in 1 .. Len(b) - m + n :
           /\ Stays(b, q, m, k) \in BatchRecord /\ More(Stays(b, q, m, k)) \in BatchRecord
           /\ More(Stays(b, q, m, k)).id = Stays(b, q, m, k).id
<1>1. /\ n \in Nat /\ m \in Nat /\ n <= Len(q) /\ m <= Len(b) /\ Len(b) \in Nat /\ Len(q) \in Nat
      /\ DOMAIN b = 1 .. Len(b) /\ DOMAIN q = 1 .. Len(q)
  BY DEF Bounded
<1>2. \A w \in QueueRecord : Fresh(w) \in BatchRecord
  BY DEF QueueRecord, BatchRecord, Fresh
<1>3. \A s \in BatchRecord : More(s) \in BatchRecord /\ More(s).id = s.id
  BY DEF BatchRecord, More
<1> TAKE k \in 1 .. Len(b) - m + n
<1>4. CASE k <= Len(b) - m
  <2>1. k \in DOMAIN b /\ Stays(b, q, m, k) = b[k]
    BY <1>1, <1>4 DEF Stays
  <2>. QED  BY <1>3, <2>1
<1>5. CASE ~(k <= Len(b) - m)
  <2> DEFINE j == k - (Len(b) - m)
  <2>1. j \in DOMAIN q /\ Stays(b, q, m, k) = Fresh(q[j])
    BY <1>1, <1>5 DEF Stays
  <2>2. q[j] \in QueueRecord
    BY <2>1
  <2>. QED  BY <1>2, <1>3, <2>1, <2>2
<1>. QED  BY <1>4, <1>5

\* A step begins with the batch and the queue as they are.
LEMMA StepStartsHere ==
  ASSUME NEW b \in Seq(BatchRecord), NEW q \in Seq(QueueRecord), Len(b) <= MaxBatchSize
  PROVE  Bounded(b, q, 0, 0) /\ Joined(b, b, q, 0) /\ QueueIs(q, b, q, 0, 0)
<1>1. Len(b) \in Nat /\ Len(q) \in Nat /\ DOMAIN b = 1 .. Len(b) /\ DOMAIN q = 1 .. Len(q)
  OBVIOUS
<1>2. Bounded(b, q, 0, 0)
  BY <1>1 DEF Bounded
<1>3. Joined(b, b, q, 0)
  BY <1>1 DEF Joined, Stays
<1>4. QueueIs(q, b, q, 0, 0)
  BY <1>1 DEF QueueIs, Waits
<1>. QED  BY <1>2, <1>3, <1>4

\* The front of the queue leaves it ...
LEMMA FrontLeaves ==
  ASSUME NEW b \in Seq(BatchRecord), NEW q \in Seq(QueueRecord), NEW n \in Nat,
         Bounded(b, q, n, 0), Len(b) + n < MaxBatchSize,
         NEW s \in Seq(Pending), s # <<>>, QueueIs(QueueView(s), b, q, n, 0)
  PROVE  /\ Bounded(b, q, n + 1, 0) /\ QueueIs(QueueView(Tail(s)), b, q, n + 1, 0)
         /\ Queued(Head(s)) = q[n + 1]
<1>1. /\ Len(b) \in Nat /\ Len(q) \in Nat /\ n <= Len(q) /\ MaxBatchSize \in Nat
  BY SchedulerAssumption DEF Bounded
<1>2. /\ DOMAIN s = 1 .. Len(q) - n
      /\ \A k \in DOMAIN s : Queued(s[k]) = q[k + n]
  <2>1. /\ DOMAIN QueueView(s) = DOMAIN s
        /\ \A k \in DOMAIN s : QueueView(s)[k] = Queued(s[k])
    BY QueueViewFacts
  <2>2. DOMAIN s = 1 .. Len(q) - n
    BY <1>1, <2>1 DEF QueueIs
  <2>3. ASSUME NEW k \in DOMAIN s PROVE Queued(s[k]) = q[k + n]
    <3>1. QueueView(s)[k] = Waits(b, q, n, 0, k)
      BY <2>1 DEF QueueIs
    <3>2. ~(k <= 0) /\ k - 0 + n = k + n
      BY <1>1, <2>2
    <3>. QED  BY <2>1, <3>1, <3>2 DEF Waits
  <2>. QED  BY <2>2, <2>3
<1>3. 1 \in DOMAIN s /\ Head(s) = s[1] /\ n + 1 <= Len(q)
  <2>1. 1 \in DOMAIN s /\ Head(s) = s[1]
    OBVIOUS
  <2>. QED  BY <1>1, <1>2, <2>1
<1>4. Queued(Head(s)) = q[n + 1]
  <2>1. 1 + n = n + 1
    OBVIOUS
  <2>. QED  BY <1>2, <1>3, <2>1
<1>5. Bounded(b, q, n + 1, 0)
  BY <1>1, <1>3 DEF Bounded
<1> DEFINE z == Tail(s)
<1>6. /\ z \in Seq(Pending) /\ DOMAIN z = 1 .. Len(q) - (n + 1)
      /\ \A k \in DOMAIN z : k \in Nat \ {0} /\ k + 1 \in DOMAIN s /\ z[k] = s[k + 1]
  <2>1. z \in Seq(Pending) /\ Len(z) = Len(s) - 1 /\ DOMAIN z = 1 .. Len(z)
        /\ Len(s) \in Nat /\ DOMAIN s = 1 .. Len(s)
    OBVIOUS
  <2>2. Len(s) = Len(q) - n
    BY <1>1, <1>2, <2>1, SameUpper
  <2>3. \A k \in DOMAIN z : z[k] = s[k + 1]
    OBVIOUS
  <2>. QED  BY <1>1, <2>1, <2>2, <2>3
<1>. HIDE DEF z
<1>7. /\ DOMAIN QueueView(z) = DOMAIN z
      /\ \A k \in DOMAIN z : QueueView(z)[k] = Queued(z[k])
  BY <1>6, QueueViewFacts
<1>8. ASSUME NEW k \in DOMAIN z PROVE QueueView(z)[k] = Waits(b, q, n + 1, 0, k)
  <2>1. QueueView(z)[k] = q[k + 1 + n]
    BY <1>2, <1>6, <1>7
  <2>2. k \in Nat /\ k # 0
    BY <1>6
  <2>3. ~(k <= 0) /\ k - 0 + (n + 1) = k + 1 + n
    <3>1. \A c, d \in Nat : c # 0 => ~(c <= 0) /\ c - 0 + (d + 1) = c + 1 + d
      OBVIOUS
    <3>. QED  BY ONLY <2>2, <3>1, n \in Nat
  <2>. QED  BY <2>1, <2>3 DEF Waits
<1>9. DOMAIN QueueView(z) = 1 .. 0 + Len(q) - (n + 1)
  BY <1>1, <1>6, <1>7
<1>10. QueueIs(QueueView(z), b, q, n + 1, 0)
  BY <1>7, <1>8, <1>9 DEF QueueIs
<1>. QED  BY <1>4, <1>5, <1>10 DEF z

\* ... and joins the batch.
LEMMA FrontJoins ==
  ASSUME NEW b \in Seq(BatchRecord), NEW q \in Seq(QueueRecord), NEW n \in Nat,
         NEW s \in Seq(Running), Joined(BatchView(s), b, q, n),
         NEW x \in Running, Batched(x) = Fresh(q[n + 1])
  PROVE  Joined(BatchView(Append(s, x)), b, q, n + 1)
<1> DEFINE v == BatchView(s)
           u == BatchView(Append(s, x))
<1>1. u = Append(v, Batched(x)) /\ v \in Seq(BatchRecord)
  BY BatchViewAppend, BatchViewFacts
<1>2. /\ Len(b) \in Nat /\ DOMAIN v = 1 .. Len(b) + n
      /\ \A k \in DOMAIN v : v[k] = Stays(b, q, 0, k)
  BY DEF Joined
<1>3. Batched(x) \in BatchRecord
  BY BatchedType
<1>. HIDE DEF u, v
<1>4. Len(v) = Len(b) + n
  <2>1. DOMAIN v = 1 .. Len(v) /\ Len(v) \in Nat
    BY <1>1
  <2>2. Len(b) + n \in Nat
    BY <1>2
  <2>. QED  BY <1>2, <2>1, <2>2, SameUpper
<1>5. /\ DOMAIN u = DOMAIN v \cup {Len(b) + n + 1} /\ u[Len(b) + n + 1] = Batched(x)
      /\ \A k \in DOMAIN v : u[k] = v[k]
  BY <1>1, <1>3, <1>4, AppendOrigin
<1>6. DOMAIN u = 1 .. Len(b) + (n + 1)
  <2>1. \A c, d \in Nat : (1 .. c + d) \cup {c + d + 1} = 1 .. c + (d + 1)
    OBVIOUS
  <2>2. Len(b) \in Nat /\ DOMAIN u = (1 .. Len(b) + n) \cup {Len(b) + n + 1}
    BY <1>2, <1>5
  <2>. QED  BY ONLY <2>1, <2>2, n \in Nat
<1>7. Stays(b, q, 0, Len(b) + n + 1) = Batched(x)
  <2>1. ~(Len(b) + n + 1 <= Len(b) - 0) /\ Len(b) + n + 1 - (Len(b) - 0) = n + 1
    BY <1>2
  <2>. QED  BY <2>1 DEF Stays
<1>8. \A k \in DOMAIN u : u[k] = Stays(b, q, 0, k)
  BY <1>2, <1>5, <1>7
<1>9. Joined(u, b, q, n + 1)
  BY <1>6, <1>8 DEF Joined
<1>. QED  BY <1>9 DEF u

\* Decode is to visit everyone.
LEMMA AllToVisit ==
  ASSUME NEW b \in Seq(BatchRecord), NEW q, NEW n \in Nat,
         NEW s \in Seq(Running), Joined(BatchView(s), b, q, n)
  PROVE  BatchIs(BatchView(s), Ids(s), b, q, n, 0)
<1>1. /\ DOMAIN BatchView(s) = DOMAIN s
      /\ \A k \in DOMAIN s : BatchView(s)[k].id = s[k].id
  BY BatchViewFacts
<1>2. \A k \in DOMAIN s : In(s[k].id, Ids(s))
  BY DEF In, Ids
<1>3. Len(b) \in Nat /\ Len(b) + n = Len(b) - 0 + n
  OBVIOUS
<1>. QED  BY <1>1, <1>2, <1>3 DEF BatchIs, Joined

\* Decode visits one of the batch, or one that has been preempted.
LEMMA OneVisited ==
  ASSUME NEW b \in Seq(BatchRecord), NEW q \in Seq(QueueRecord), NEW n, NEW m, Bounded(b, q, n, m),
         NEW v, NEW u, NEW ids \in Seq(SeqId), ids # <<>>, ~In(Head(ids), Tail(ids)),
         BatchIs(v, ids, b, q, n, m), DOMAIN u = DOMAIN v,
         NEW i \in DOMAIN v, v[i].id = Head(ids), u[i] = More(v[i]),
         \A j \in DOMAIN v \ {i} : u[j] = v[j] /\ v[j].id # v[i].id
  PROVE  BatchIs(u, Tail(ids), b, q, n, m)
<1>1. \A y : In(y, ids) <=> y = Head(ids) \/ In(y, Tail(ids))
  BY TailIn
<1>2. /\ DOMAIN v = 1 .. Len(b) - m + n
      /\ \A k \in DOMAIN v :
           v[k] = IF In(v[k].id, ids) THEN Stays(b, q, m, k) ELSE More(Stays(b, q, m, k))
  BY DEF BatchIs
<1>3. v[i] = Stays(b, q, m, i) /\ u[i] = More(Stays(b, q, m, i))
  BY <1>1, <1>2
<1>4. u[i].id = Head(ids)
  BY <1>2, <1>3, StaysFacts
<1>5. ASSUME NEW k \in DOMAIN u
      PROVE  u[k] = IF In(u[k].id, Tail(ids)) THEN Stays(b, q, m, k) ELSE More(Stays(b, q, m, k))
  <2>1. CASE k = i
    BY <1>3, <1>4, <2>1
  <2>2. CASE k # i
    <3>1. u[k] = v[k] /\ v[k].id # Head(ids) /\ k \in DOMAIN v
      BY <2>2
    <3>2. In(v[k].id, Tail(ids)) <=> In(v[k].id, ids)
      BY <1>1, <3>1
    <3>. QED  BY <1>2, <3>1, <3>2
  <2>. QED  BY <2>1, <2>2
<1>. QED  BY <1>2, <1>5 DEF BatchIs

LEMMA NobodyVisited ==
  ASSUME NEW b, NEW q, NEW n, NEW m, NEW v, NEW ids \in Seq(SeqId), ids # <<>>,
         BatchIs(v, ids, b, q, n, m), \A i \in DOMAIN v : v[i].id # Head(ids)
  PROVE  BatchIs(v, Tail(ids), b, q, n, m)
<1>1. \A y : In(y, ids) <=> y = Head(ids) \/ In(y, Tail(ids))
  BY TailIn
<1>2. \A i \in DOMAIN v : In(v[i].id, Tail(ids)) <=> In(v[i].id, ids)
  BY <1>1
<1>. QED  BY <1>2 DEF BatchIs

\* The newest of the batch yields, who was to be visited ...
LEMMA NewestYields ==
  ASSUME NEW b \in Seq(BatchRecord), NEW q \in Seq(QueueRecord), NEW m \in Nat, Bounded(b, q, 0, m),
         NEW s \in Seq(Running), s # <<>>, NEW ids, BatchIs(BatchView(s), ids, b, q, 0, m),
         In(s[Len(s)].id, ids)
  PROVE  /\ Bounded(b, q, 0, m + 1)
         /\ BatchIs(BatchView(RemoveAt(s, Len(s))), ids, b, q, 0, m + 1)
         /\ Batched(s[Len(s)]) = b[Len(b) - m]
<1> DEFINE v == BatchView(s)
           z == RemoveAt(s, Len(s))
           u == BatchView(z)
<1>1. /\ Len(b) \in Nat /\ m <= Len(b) /\ Len(b) + 0 <= MaxBatchSize /\ Len(q) \in Nat
      /\ Len(s) \in Nat /\ DOMAIN s = 1 .. Len(s) /\ Len(s) \in DOMAIN s /\ Len(s) # 0
  BY DEF Bounded
<1>2. /\ DOMAIN v = DOMAIN s
      /\ \A k \in DOMAIN s : v[k] = Batched(s[k]) /\ v[k].id = s[k].id
  BY BatchViewFacts
<1>3. /\ DOMAIN v = 1 .. Len(b) - m + 0
      /\ \A k \in DOMAIN v :
           v[k] = IF In(v[k].id, ids) THEN Stays(b, q, m, k) ELSE More(Stays(b, q, m, k))
  BY DEF BatchIs
<1>4. Len(s) = Len(b) - m
  <2>1. Len(b) - m \in Nat /\ Len(b) - m + 0 = Len(b) - m
    BY <1>1
  <2>. QED  BY <1>1, <1>2, <1>3, <2>1, SameUpper
<1>5. Batched(s[Len(s)]) = b[Len(b) - m]
  <2>1. v[Len(s)] = Stays(b, q, m, Len(s)) /\ v[Len(s)] = Batched(s[Len(s)])
    BY <1>1, <1>2, <1>3
  <2>2. Len(s) <= Len(b) - m
    BY <1>1, <1>4
  <2>. QED  BY <1>4, <2>1, <2>2 DEF Stays
<1>6. Bounded(b, q, 0, m + 1)
  BY <1>1, <1>4 DEF Bounded
<1>7. /\ z \in Seq(Running) /\ DOMAIN z = 1 .. Len(s) - 1
      /\ \A j \in DOMAIN z : j \in DOMAIN s /\ z[j] = s[j]
  <2>1. /\ z \in Seq(Running) /\ Len(z) = Len(s) - 1
        /\ \A j \in DOMAIN z : j < Len(s) => j \in DOMAIN s /\ z[j] = s[j]
    BY <1>1, RemoveAtFacts
  <2>. HIDE DEF z
  <2>2. DOMAIN z = 1 .. Len(s) - 1
    BY <2>1
  <2>. QED  BY <1>1, <2>1, <2>2
<1>. HIDE DEF z, v
<1>8. /\ DOMAIN u = DOMAIN z
      /\ \A k \in DOMAIN z : u[k] = Batched(z[k])
  BY <1>7, BatchViewFacts
<1>. HIDE DEF u
<1>9. \A k \in DOMAIN u : k \in DOMAIN v /\ u[k] = v[k]
  BY <1>2, <1>7, <1>8
<1>10. ASSUME NEW k \in DOMAIN u PROVE Stays(b, q, m + 1, k) = Stays(b, q, m, k)
  <2>1. k <= Len(b) - m /\ k <= Len(b) - (m + 1)
    BY <1>1, <1>4, <1>7, <1>8
  <2>. QED  BY <2>1 DEF Stays
<1>11. \A k \in DOMAIN u :
         u[k] = IF In(u[k].id, ids) THEN Stays(b, q, m + 1, k) ELSE More(Stays(b, q, m + 1, k))
  BY <1>3, <1>9, <1>10
<1>12. DOMAIN u = 1 .. Len(b) - (m + 1) + 0
  BY <1>1, <1>4, <1>7, <1>8
<1>13. BatchIs(u, ids, b, q, 0, m + 1)
  BY <1>11, <1>12 DEF BatchIs
<1>. QED  BY <1>5, <1>6, <1>13 DEF u, z

\* ... and waits in front of everyone.
LEMMA HeadOfQueue ==
  ASSUME NEW b \in Seq(BatchRecord), NEW q \in Seq(QueueRecord), NEW m \in Nat,
         Bounded(b, q, 0, m + 1), NEW s \in Seq(Pending), QueueIs(QueueView(s), b, q, 0, m),
         NEW t, Requeued(t) \in Pending, Batched(t) = b[Len(b) - m]
  PROVE  QueueIs(QueueView(<<Requeued(t)>> \o s), b, q, 0, m + 1)
<1> DEFINE x == Requeued(t)
           z == <<x>> \o s
<1>1. /\ Len(b) \in Nat /\ Len(q) \in Nat /\ DOMAIN s = 1 .. Len(s) /\ Len(s) \in Nat
  OBVIOUS
<1>2. Queued(x) = Yielded(b[Len(b) - m])
  <2>1. Queued(x) = Yielded(Batched(t))
    BY DEF Queued, Requeued, Yielded, Batched
  <2>. QED  BY <2>1
<1>3. /\ DOMAIN s = 1 .. m + Len(q) - 0
      /\ \A k \in DOMAIN s : Queued(s[k]) = Waits(b, q, 0, m, k)
  <2>1. /\ DOMAIN QueueView(s) = DOMAIN s
        /\ \A k \in DOMAIN s : QueueView(s)[k] = Queued(s[k])
    BY QueueViewFacts
  <2>. QED  BY <2>1 DEF QueueIs
<1>. HIDE DEF x
<1>4. /\ z \in Seq(Pending) /\ DOMAIN z = 1 .. 1 + Len(s)
      /\ \A k \in DOMAIN z : \/ k = 1 /\ z[k] = x
                             \/ k - 1 \in DOMAIN s /\ k \in Nat /\ z[k] = s[k - 1]
  <2>1. x \in Pending
    BY DEF x
  <2>2. <<x>> \in Seq(Pending) /\ Len(<<x>>) = 1
    BY <2>1
  <2>3. z \in Seq(Pending) /\ Len(z) = 1 + Len(s)
    BY <2>2, ConcatProperties
  <2>4. DOMAIN z = 1 .. Len(z)
    <3>. HIDE DEF z
    <3>. QED  BY <2>3
  <2>. QED  BY <2>1, <2>3, <2>4, ConsOrigin
<1>. HIDE DEF z
<1>5. Len(s) = m + Len(q)
  <2>1. m + Len(q) \in Nat /\ m + Len(q) - 0 = m + Len(q)
    BY <1>1
  <2>. QED  BY <1>1, <1>3, <2>1, SameUpper
<1>6. ASSUME NEW k \in DOMAIN z PROVE Queued(z[k]) = Waits(b, q, 0, m + 1, k)
  <2>1. CASE k = 1 /\ z[k] = x
    <3>1. 1 <= m + 1 /\ Len(b) - (m + 1) + 1 = Len(b) - m
      BY <1>1
    <3>. QED  BY <1>2, <2>1, <3>1 DEF Waits
  <2>2. CASE k - 1 \in DOMAIN s /\ k \in Nat /\ z[k] = s[k - 1]
    <3>1. Queued(z[k]) = Waits(b, q, 0, m, k - 1)
      BY <1>3, <2>2
    <3>2. /\ (k - 1 <= m) <=> (k <= m + 1)
          /\ Len(b) - m + (k - 1) = Len(b) - (m + 1) + k
          /\ k - 1 - m + 0 = k - (m + 1) + 0
      <4>1. k \in Nat /\ m \in Nat /\ Len(b) \in Nat
        BY <1>1, <2>2
      <4>2. \A c, d, l \in Nat : /\ (c - 1 <= d) <=> (c <= d + 1)
                                 /\ l - d + (c - 1) = l - (d + 1) + c
                                 /\ c - 1 - d + 0 = c - (d + 1) + 0
        OBVIOUS
      <4>. QED  BY ONLY <4>1, <4>2
    <3>. QED  BY <3>1, <3>2 DEF Waits
  <2>. QED  BY <1>4, <2>1, <2>2
<1>7. DOMAIN z = 1 .. (m + 1) + Len(q) - 0
  BY <1>1, <1>4, <1>5
<1>8. DOMAIN QueueView(z) = DOMAIN z /\ \A k \in DOMAIN z : QueueView(z)[k] = Queued(z[k])
  BY <1>4, QueueViewFacts
<1>9. QueueIs(QueueView(z), b, q, 0, m + 1)
  BY <1>6, <1>7, <1>8 DEF QueueIs
<1>. QED  BY <1>9 DEF x, z

\* When all have been visited some are done, and retiring them loses nobody else.
LEMMA AllVisited ==
  ASSUME NEW b \in Seq(BatchRecord), NEW q \in Seq(QueueRecord), NEW n, NEW m, Bounded(b, q, n, m),
         NEW v \in Seq(BatchRecord), BatchIs(v, <<>>, b, q, n, m)
  PROVE  v = AllDecoded(b, q, n, m)
<1>1. \A y : ~In(y, <<>>)
  BY DEF In
<1>2. /\ DOMAIN v = 1 .. Len(b) - m + n
      /\ \A k \in DOMAIN v : v[k] = More(Stays(b, q, m, k))
  BY <1>1 DEF BatchIs
<1>3. v = [k \in DOMAIN v |-> v[k]]
  OBVIOUS
<1>4. v = [k \in 1 .. Len(b) - m + n |-> More(Stays(b, q, m, k))]
  BY ONLY <1>2, <1>3
<1>. QED  BY <1>4 DEF AllDecoded

LEMMA DoneLeaves ==
  ASSUME NEW v \in Seq(BatchRecord), NEW d, Thinned(v, d), NEW i \in DOMAIN v, Done(v[i])
  PROVE  Thinned(RemoveAt(v, i), d)
<1>1. v[i] \notin NotDone(d)
  BY DEF NotDone
<1>2. Keep(RemoveAt(v, i), NotDone(d)) = Keep(v, NotDone(d))
  BY <1>1, KeepSkips
<1>3. ToSet(RemoveAt(v, i)) \subseteq ToSet(v)
  BY RemoveAtElements DEF ToSet
<1>. QED  BY <1>2, <1>3 DEF Thinned

LEMMA NobodyDone ==
  ASSUME NEW v \in Seq(BatchRecord), NEW d, Thinned(v, d), \A i \in DOMAIN v : ~Done(v[i])
  PROVE  v = Keep(d, NotDone(d))
<1>1. \A i \in DOMAIN v : v[i] \in NotDone(d)
  BY DEF Thinned, NotDone, ToSet
<1>2. Keep(v, NotDone(d)) = v
  BY <1>1, KeepAll
<1>. QED  BY <1>2 DEF Thinned

-----------------------------------------------------------------------------
(* Every action keeps it.                                                 *)

BeforeType == before \in [queue : Seq(QueueRecord), batch : Seq(BatchRecord)]

AdmittedSeq ==
  "admitted" \in DOMAIN outcome /\ outcome.admitted \in Seq([id : SeqId, cached : Nat])

SeenInv == BeforeType /\ AdmittedSeq /\ ViewInv

LEMMA SnapshotIs ==
  Snapshot = [queue |-> QueueView(waiting), batch |-> BatchView(running)]
BY DEF Snapshot, QueueSnapshot, BatchSnapshot, QueueView, BatchView

LEMMA SnapshotIsNext ==
  Snapshot' = [queue |-> QueueView(waiting'), batch |-> BatchView(running')]
BY DEF Snapshot, QueueSnapshot, BatchSnapshot, QueueView, BatchView

\* Between calls the driver sees what there is.
LEMMA SeenBetween == ASSUME pc' = "idle", Remember PROVE ViewInv' /\ before' = Snapshot'
BY DEF ViewInv, Remember

\* The loops that change neither the queue nor the batch.
LEMMA QuietView ==
  ASSUME ViewInv, before' = before, UNCHANGED <<waiting, running, todo, outcome>>,
         pc' = pc \/ {pc, pc'} = {"build", "register"},
         cur'.id = cur.id, cur'.num_tokens = cur.num_tokens,
         cur'.generated = cur.generated, cur'.max_new = cur.max_new
  PROVE  ViewInv'
<1>1. Snapshot' = Snapshot
  BY SnapshotIs, SnapshotIsNext
<1>2. Batched(cur') = Batched(cur)
  BY DEF Batched
<1>3. Forking => Forking'
  BY DEF Forking
<1>4. Finishing => Finishing'
  BY DEF Finishing
<1>5. /\ \A n \in Nat : (Admitting(n) => Admitting(n)') /\ (Constructing(n) => Constructing(n)')
      /\ \A n, m \in Nat : (Visiting(n, m) => Visiting(n, m)') /\ (Retiring(n, m) => Retiring(n, m)')
      /\ \A m \in Nat : Yielding(m) => Yielding(m)'
  BY <1>2 DEF Admitting, Constructing, Visiting, Retiring, Yielding
<1>. QED  BY <1>1, <1>3, <1>4, <1>5 DEF ViewInv

\* Client calls of more than one action.
LEMMA ForkSeen ==
  ASSUME SchedInv, SchedInv', BeforeType, ViewInv, before' = before, NEW i \in DOMAIN running,
         NEW n \in ForkNew, Fork(i, n)
  PROVE  ViewInv'
<1>. TypeInv /\ TypeInv'
  BY DEF SchedInv
<1>1. /\ pc = "idle" /\ pc' = "fork" /\ waiting' = waiting /\ running' = running
      /\ cur' = [id |-> next_id, blocks |-> <<>>, num_tokens |-> running[i].num_tokens,
                 max_new |-> n, generated |-> 0, prompt |-> running[i].prompt, cached |-> 0]
  BY DEF Fork
<1>2. before = Snapshot /\ before' = Snapshot'
  BY <1>1, SnapshotIs, SnapshotIsNext DEF ViewInv
<1>3. next_id \in SeqId
  BY <1>1, SchedulerAssumption DEF Fork, NewId, TypeInv, SeqId
<1>4. before.batch = BatchView(running)
  BY <1>2, SnapshotIs
<1>5. i \in DOMAIN BatchView(running) /\ BatchView(running)[i].len = running[i].num_tokens
  <2>1. i \in DOMAIN BatchView(running) /\ BatchView(running)[i] = Batched(running[i])
    BY BatchViewFacts DEF TypeInv
  <2>. QED  BY <2>1 DEF Batched
<1>6. Forking'
  BY <1>1, <1>3, <1>4, <1>5 DEF Forking
<1>. QED  BY <1>1, <1>2, <1>6 DEF ViewInv

LEMMA FinishSeen ==
  ASSUME SchedInv, BeforeType, ViewInv, before' = before, NEW i \in DOMAIN running,
         FinishRunning(i)
  PROVE  ViewInv'
<1>. TypeInv
  BY DEF SchedInv
<1>1. pc = "idle" /\ pc' = "finish" /\ waiting' = waiting /\ running' = RemoveAt(running, i)
  BY DEF FinishRunning
<1>2. before.queue = QueueView(waiting) /\ before.batch = BatchView(running)
  BY <1>1, SnapshotIs DEF ViewInv
<1>3. BatchView(running') = RemoveAt(BatchView(running), i) /\ i \in DOMAIN BatchView(running)
  BY <1>1, BatchViewRemove, BatchViewFacts DEF TypeInv
<1>4. Finishing'
  BY <1>1, <1>2, <1>3 DEF Finishing
<1>. QED  BY <1>1, <1>4 DEF ViewInv

\* Admission.
LEMMA ReserveSeen ==
  ASSUME SchedInv, BeforeType, ViewInv, before' = before,
         StepBegin \/ Reserve \/ ReserveEnd
  PROVE  ViewInv'
<1>. TypeInv
  BY DEF SchedInv
<1>1. /\ pc \in {"idle", "reserve"} /\ waiting' = waiting /\ running' = running
      /\ pc' \in {"reserve", "admit"}
  BY DEF StepBegin, Reserve, ReserveEnd
<1>2. before = Snapshot /\ before' = Snapshot'
  BY <1>1, SnapshotIs, SnapshotIsNext DEF ViewInv
<1>3. /\ before.queue = QueueView(waiting) /\ before.batch = BatchView(running)
      /\ before.queue \in Seq(QueueRecord) /\ before.batch \in Seq(BatchRecord)
  BY <1>2, SnapshotIs DEF BeforeType
<1>4. Len(before.batch) <= MaxBatchSize
  BY <1>3, BatchViewFacts DEF TypeInv
<1>5. Admitting(0)'
  BY <1>1, <1>3, <1>4, StepStartsHere DEF Admitting
<1>6. 0 \in Nat
  OBVIOUS
<1>. QED  BY <1>1, <1>2, <1>5, <1>6 DEF ViewInv

LEMMA AdmitSeen ==
  ASSUME SchedInv, BeforeType, ViewInv, before' = before, AdmitNext
  PROVE  ViewInv'
<1>. TypeInv
  BY DEF SchedInv
<1>1. /\ pc = "admit" /\ pc' = "build" /\ running' = running /\ BatchHasRoom /\ waiting # <<>>
      /\ waiting' = Tail(waiting) /\ waiting \in Seq(Pending)
      /\ Batched(cur') = Fresh(Queued(Head(waiting)))
  BY DEF AdmitNext, TypeInv, Batched, Fresh, Queued
<1>2. PICK n \in Nat : Admitting(n)
  BY <1>1 DEF ViewInv
<1> DEFINE b == before.batch
           q == before.queue
<1>3. /\ b \in Seq(BatchRecord) /\ q \in Seq(QueueRecord)
      /\ Bounded(b, q, n, 0) /\ Joined(BatchView(running), b, q, n)
      /\ QueueIs(QueueView(waiting), b, q, n, 0)
  BY <1>2 DEF Admitting, BeforeType
<1>4. Len(b) + n < MaxBatchSize
  <2>1. DOMAIN BatchView(running) = 1 .. Len(b) + n /\ DOMAIN BatchView(running) = 1 .. Len(running)
    BY <1>3, BatchViewFacts DEF TypeInv, Joined
  <2>2. Len(b) + n \in Nat /\ Len(running) \in Nat
    BY <1>3 DEF TypeInv
  <2>3. Len(running) = Len(b) + n
    BY <2>1, <2>2, SameUpper
  <2>. QED  BY <1>1, <2>3 DEF BatchHasRoom
<1>5. /\ Bounded(b, q, n + 1, 0) /\ QueueIs(QueueView(waiting'), b, q, n + 1, 0)
      /\ Queued(Head(waiting)) = q[n + 1]
  <2>. HIDE DEF b, q
  <2>1. /\ Bounded(b, q, n + 1, 0) /\ QueueIs(QueueView(Tail(waiting)), b, q, n + 1, 0)
        /\ Queued(Head(waiting)) = q[n + 1]
    BY ONLY <1>1, <1>3, <1>4, n \in Nat, FrontLeaves
  <2>. QED  BY <1>1, <2>1
<1>6. Constructing(n)'
  BY <1>1, <1>3, <1>5 DEF Constructing
<1>. QED  BY <1>1, <1>6 DEF ViewInv

LEMMA JoinSeen ==
  ASSUME SchedInv, BeforeType, AdmittedSeq, ViewInv, before' = before, RegisterEnd
  PROVE  ViewInv' /\ AdmittedSeq'
<1>. TypeInv
  BY DEF SchedInv
<1> DEFINE e == [id |-> cur.id, cached |-> cur.cached]
<1>1. /\ pc = "register" /\ pc' = "admit" /\ running' = Append(running, cur) /\ waiting' = waiting
      /\ outcome' = [outcome EXCEPT !.admitted = Append(@, e)]
  BY DEF RegisterEnd
<1>2. cur \in Running
  BY <1>1 DEF SchedInv, TypeInv, Distinct, Running, RunningWith, Held
<1>3. e \in [id : SeqId, cached : Nat]
  BY <1>2 DEF Running, RunningWith
<1>. HIDE DEF e
<1>4. DOMAIN outcome' = DOMAIN outcome /\ outcome'.admitted = Append(outcome.admitted, e)
  BY <1>1 DEF AdmittedSeq
<1>5. AdmittedSeq' /\ outcome'.admitted # <<>>
  <2>1. PICK s \in Seq([id : SeqId, cached : Nat]) : s = outcome.admitted
    BY DEF AdmittedSeq
  <2>2. Append(s, e) \in Seq([id : SeqId, cached : Nat]) /\ Append(s, e) # <<>>
    BY <1>3, AppendProperties
  <2>. QED  BY <1>4, <2>1, <2>2 DEF AdmittedSeq
<1>6. PICK n \in Nat : Constructing(n)
  BY <1>1 DEF ViewInv
<1>7. /\ before.batch \in Seq(BatchRecord) /\ before.queue \in Seq(QueueRecord)
      /\ running \in Seq(Running)
  BY DEF BeforeType, TypeInv
<1>8. Joined(BatchView(running'), before.batch, before.queue, n + 1)
  BY <1>1, <1>2, <1>6, <1>7, FrontJoins DEF Constructing
<1>9. Admitting(n + 1)' /\ n + 1 \in Nat
  BY <1>1, <1>5, <1>6, <1>8 DEF Admitting, Constructing
<1>10. ViewInv'
  BY <1>1, <1>9 DEF ViewInv
<1>. QED  BY <1>5, <1>10

LEMMA AdmitEndSeen ==
  ASSUME SchedInv, BeforeType, ViewInv, before' = before, AdmitEnd
  PROVE  ViewInv'
<1>1. /\ pc = "admit" /\ pc' = "decode" /\ todo' = Ids(running)
      /\ UNCHANGED <<waiting, running, outcome>> /\ running \in Seq(Running)
      /\ before.batch \in Seq(BatchRecord)
  BY DEF AdmitEnd, SchedInv, TypeInv, BeforeType
<1>2. PICK n \in Nat : Admitting(n)
  BY <1>1 DEF ViewInv
<1>3. BatchIs(BatchView(running), Ids(running), before.batch, before.queue, n, 0)
  BY <1>1, <1>2, AllToVisit DEF Admitting
<1>4. Visiting(n, 0)' /\ 0 \in Nat
  BY <1>1, <1>2, <1>3 DEF Visiting, Admitting
<1>. QED  BY <1>1, <1>4 DEF ViewInv

\* Decode visits a sequence; Retiring has nobody left to visit.
LEMMA VisitingNow ==
  ASSUME BeforeType, ViewInv, pc \in {"decode", "cow"}, todo # <<>>
  PROVE  \E n, m \in Nat :
           /\ Visiting(n, m)
           /\ before.batch \in Seq(BatchRecord) /\ before.queue \in Seq(QueueRecord)
           /\ Bounded(before.batch, before.queue, n, m)
           /\ BatchIs(BatchView(running), todo, before.batch, before.queue, n, m)
<1>1. PICK n, m \in Nat : Visiting(n, m)
  BY DEF ViewInv, Retiring
<1>. QED  BY <1>1 DEF Visiting, BeforeType

LEMMA SkipSeen ==
  ASSUME SchedInv, BeforeType, ViewInv, before' = before, DecodeSkip
  PROVE  ViewInv'
<1>1. /\ pc = "decode" /\ pc' = "decode" /\ todo # <<>> /\ todo' = Tail(todo) /\ todo \in Seq(SeqId)
      /\ UNCHANGED <<waiting, running, outcome>> /\ running \in Seq(Running)
      /\ \A i \in DOMAIN running : running[i].id # Head(todo)
  BY DEF DecodeSkip, SchedInv, TypeInv, IsRunning
<1>2. PICK n, m \in Nat : Visiting(n, m)
  BY <1>1, VisitingNow
<1>3. \A i \in DOMAIN BatchView(running) : BatchView(running)[i].id # Head(todo)
  BY <1>1, BatchViewFacts
<1>4. BatchIs(BatchView(running), Tail(todo), before.batch, before.queue, n, m)
  BY <1>1, <1>2, <1>3, NobodyVisited DEF Visiting
<1>5. Visiting(n, m)'
  BY <1>1, <1>2, <1>4 DEF Visiting
<1>. QED  BY <1>1, <1>5 DEF ViewInv

LEMMA AppendSeen ==
  ASSUME SchedInv, SchedInv', BeforeType, AdmittedSeq, ViewInv, before' = before,
         CowReplace \/ \E i \in DOMAIN running : AppendInPlace(i) \/ AppendFresh(i)
  PROVE  ViewInv' /\ AdmittedSeq'
<1>. TypeInv /\ TypeInv' /\ Distinct
  BY DEF SchedInv
<1>1. PICK i \in DOMAIN running, bs \in Seq(Blocks), cow \in Seq(Blocks) :
        Appended(i, bs, cow) /\ todo # <<>> /\ running[i].id = Head(todo)
  BY AppendStep
<1>2. /\ pc \in {"decode", "cow"} /\ pc' = "decode" /\ waiting' = waiting
  BY DEF CowReplace, AppendInPlace, AppendFresh, Decoding
<1>3. outcome'.admitted = outcome.admitted /\ AdmittedSeq'
  BY <1>1 DEF Appended, AdmittedSeq
<1>4. /\ DOMAIN running' = DOMAIN running
      /\ \A j \in DOMAIN running \ {i} : running'[j] = running[j]
      /\ running'[i].id = running[i].id
      /\ running'[i].num_tokens = running[i].num_tokens + 1
      /\ running'[i].generated = running[i].generated + 1
      /\ running'[i].max_new = running[i].max_new
      /\ todo' = Tail(todo)
  BY <1>1, AppendedFacts
<1> DEFINE v == BatchView(running)
           u == BatchView(running')
<1>5. /\ DOMAIN u = DOMAIN running /\ DOMAIN v = DOMAIN running
      /\ \A k \in DOMAIN running : /\ v[k] = Batched(running[k]) /\ v[k].id = running[k].id
                                   /\ u[k] = Batched(running'[k])
  BY <1>4, BatchViewFacts DEF TypeInv
<1>. HIDE DEF u, v
<1>6. u[i] = More(v[i])
  BY <1>4, <1>5 DEF Batched, More
<1>7. \A j \in DOMAIN v \ {i} : u[j] = v[j] /\ v[j].id # v[i].id
  BY <1>4, <1>5 DEF Distinct
<1>8. PICK n, m \in Nat : Visiting(n, m)
  BY <1>1, <1>2, VisitingNow
<1>9. todo \in Seq(SeqId) /\ ~In(Head(todo), Tail(todo))
  <2>1. VisitInv
    BY <1>2 DEF SchedInv, BudgetInv, Stepping
  <2>. QED  BY <1>1, <2>1, VisitedOnce DEF TypeInv
<1>10. BatchIs(v, todo, before.batch, before.queue, n, m)
  BY <1>8 DEF Visiting, v
<1>11. BatchIs(u, Tail(todo), before.batch, before.queue, n, m)
  <2>1. /\ before.batch \in Seq(BatchRecord) /\ before.queue \in Seq(QueueRecord)
        /\ Bounded(before.batch, before.queue, n, m)
    BY <1>8 DEF Visiting, BeforeType
  <2>2. DOMAIN u = DOMAIN v /\ i \in DOMAIN v /\ v[i].id = Head(todo) /\ todo # <<>>
    BY <1>1, <1>5
  <2>. QED  BY ONLY <1>6, <1>7, <1>9, <1>10, <2>1, <2>2, OneVisited
<1>12. Visiting(n, m)'
  BY <1>2, <1>3, <1>4, <1>8, <1>11 DEF Visiting, u
<1>. QED  BY <1>2, <1>3, <1>12 DEF ViewInv

LEMMA CowSeen ==
  ASSUME SchedInv, BeforeType, ViewInv, before' = before,
         \E i \in DOMAIN running : CowAllocate(i)
  PROVE  ViewInv'
<1>1. /\ pc = "decode" /\ pc' = "cow" /\ todo # <<>>
      /\ UNCHANGED <<waiting, running, todo, outcome>>
  BY DEF CowAllocate, Decoding
<1>2. PICK n, m \in Nat : Visiting(n, m)
  BY <1>1, VisitingNow
<1>3. Visiting(n, m)'
  BY <1>1, <1>2 DEF Visiting
<1>. QED  BY <1>1, <1>3 DEF ViewInv

\* Who is preempted was to be visited, and the step has admitted nobody (RoomInv).
LEMMA PreemptSeen ==
  ASSUME SchedInv, RoomInv', BeforeType, AdmittedSeq, ViewInv, before' = before,
         NEW i \in DOMAIN running, Preempt(i)
  PROVE  ViewInv' /\ AdmittedSeq'
<1>. TypeInv
  BY DEF SchedInv
<1>1. /\ pc = "decode" /\ pc' = "preempt" /\ todo # <<>> /\ UNCHANGED <<waiting, todo>>
      /\ running' = RemoveAt(running, VictimIndex) /\ cur' = running[VictimIndex]
      /\ outcome' = [outcome EXCEPT !.decoded = Retained(@, running[VictimIndex].id),
                                    !.preempted = Append(@, running[VictimIndex].id)]
  BY DEF Preempt, Decoding
<1>2. outcome'.admitted = outcome.admitted /\ AdmittedSeq'
  BY <1>1 DEF AdmittedSeq
<1>3. outcome.admitted = <<>>
  BY <1>1, <1>2 DEF RoomInv, Stepping
<1>4. PICK n, m \in Nat : Visiting(n, m)
  BY <1>1, VisitingNow
<1>5. n = 0
  BY <1>3, <1>4 DEF Visiting
<1>6. /\ running \in Seq(Running) /\ running # <<>> /\ VictimIndex = Len(running)
      /\ In(running[Len(running)].id, todo)
  BY VictimToVisit DEF TypeInv, VictimIndex
<1>7. /\ before.batch \in Seq(BatchRecord) /\ before.queue \in Seq(QueueRecord)
      /\ Bounded(before.batch, before.queue, 0, m)
      /\ BatchIs(BatchView(running), todo, before.batch, before.queue, 0, m)
      /\ QueueIs(QueueView(waiting), before.batch, before.queue, 0, m)
  BY <1>4, <1>5 DEF Visiting, BeforeType
<1>8. /\ Bounded(before.batch, before.queue, 0, m + 1)
      /\ BatchIs(BatchView(running'), todo, before.batch, before.queue, 0, m + 1)
      /\ Batched(cur') = before.batch[Len(before.batch) - m]
  BY <1>1, <1>6, <1>7, NewestYields
<1>9. Yielding(m)'
  BY <1>1, <1>7, <1>8 DEF Yielding
<1>. QED  BY <1>1, <1>2, <1>9 DEF ViewInv

LEMMA PreemptEndSeen ==
  ASSUME SchedInv, SchedInv', BeforeType, ViewInv, before' = before, PreemptEnd
  PROVE  ViewInv'
<1>. TypeInv /\ TypeInv'
  BY DEF SchedInv
<1>1. /\ pc = "preempt" /\ pc' = "decode" /\ UNCHANGED <<running, todo>>
      /\ waiting' = <<Requeued(cur)>> \o waiting /\ waiting \in Seq(Pending)
  BY DEF PreemptEnd, TypeInv
<1>2. Requeued(cur) \in Pending
  <2>1. cur \in Running /\ WithinBudget(cur)
    BY <1>1 DEF SchedInv, TypeInv, Distinct, BudgetInv, Running, RunningWith, Held
  <2>2. /\ cur.id \in SeqId /\ cur.num_tokens \in Nat /\ cur.prompt \in Seq(Chunk)
        /\ cur.max_new - cur.generated \in Nat
    BY <2>1 DEF Running, RunningWith, WithinBudget
  <2>. QED  BY <2>2 DEF Requeued, Pending
<1>3. PICK m \in Nat : Yielding(m)
  BY <1>1 DEF ViewInv
<1>4. before.batch \in Seq(BatchRecord) /\ before.queue \in Seq(QueueRecord)
  BY DEF BeforeType
<1>5. QueueIs(QueueView(waiting'), before.batch, before.queue, 0, m + 1)
  BY <1>1, <1>2, <1>3, <1>4, HeadOfQueue DEF Yielding
<1>6. Visiting(0, m + 1)' /\ 0 \in Nat /\ m + 1 \in Nat
  BY <1>1, <1>3, <1>5 DEF Visiting, Yielding
<1>. QED  BY <1>1, <1>6 DEF ViewInv

\* Retirement.
LEMMA RetiringNow ==
  ASSUME SchedInv, BeforeType, ViewInv, pc = "decode", todo = <<>>
  PROVE  \E n, m \in Nat : Retiring(n, m)
<1>1. PICK n, m \in Nat : Visiting(n, m) \/ Retiring(n, m)
  BY DEF ViewInv
<1>2. CASE Visiting(n, m)
  <2>1. /\ before.batch \in Seq(BatchRecord) /\ before.queue \in Seq(QueueRecord)
        /\ BatchView(running) \in Seq(BatchRecord)
    BY BatchViewFacts DEF BeforeType, SchedInv, TypeInv
  <2>2. BatchView(running) = AllDecoded(before.batch, before.queue, n, m)
    BY <1>2, <2>1, AllVisited DEF Visiting
  <2>3. Retiring(n, m)
    BY <1>2, <2>2 DEF Retiring, Visiting, Thinned
  <2>. QED  BY <2>3
<1>. QED  BY <1>1, <1>2

LEMMA RetireSeen ==
  ASSUME SchedInv, BeforeType, AdmittedSeq, ViewInv, before' = before, NEW i \in DOMAIN running,
         Retire(i)
  PROVE  ViewInv' /\ AdmittedSeq'
<1>1. /\ pc = "decode" /\ pc' = "retire" /\ todo = <<>> /\ UNCHANGED <<waiting, todo>>
      /\ running' = RemoveAt(running, i) /\ Finished(i) /\ running \in Seq(Running)
      /\ outcome' = [outcome EXCEPT !.finished = Append(@, running[i].id)]
  BY DEF Retire, SchedInv, TypeInv
<1>2. AdmittedSeq'
  BY <1>1 DEF AdmittedSeq
<1>3. PICK n, m \in Nat : Retiring(n, m)
  BY <1>1, RetiringNow
<1>4. /\ BatchView(running) \in Seq(BatchRecord) /\ i \in DOMAIN BatchView(running)
      /\ BatchView(running)[i] = Batched(running[i])
      /\ BatchView(running') = RemoveAt(BatchView(running), i)
  BY <1>1, BatchViewFacts, BatchViewRemove
<1>5. Done(BatchView(running)[i])
  BY <1>1, <1>4 DEF Finished, Done, Batched
<1>6. Thinned(BatchView(running'), AllDecoded(before.batch, before.queue, n, m))
  BY <1>3, <1>4, <1>5, DoneLeaves DEF Retiring
<1>7. Retiring(n, m)'
  BY <1>1, <1>3, <1>6 DEF Retiring
<1>. QED  BY <1>1, <1>2, <1>7 DEF ViewInv

LEMMA RetiredSeen ==
  ASSUME ViewInv, before' = before, ReleaseEnd, pc = "retire"
  PROVE  ViewInv'
<1>1. pc' = "decode" /\ UNCHANGED <<waiting, running, todo>>
  BY DEF ReleaseEnd
<1>2. PICK n, m \in Nat : Retiring(n, m)
  BY DEF ViewInv
<1>3. Retiring(n, m)'
  BY <1>1, <1>2 DEF Retiring
<1>. QED  BY <1>1, <1>3 DEF ViewInv

-----------------------------------------------------------------------------
(* What a call has done when it returns.                                  *)

\* What Batching says of a step, in terms of what the scheduler has become.
LEMMA MoreIs ==
  ASSUME NEW s \in BatchRecord
  PROVE  [s EXCEPT !.len = @ + 1, !.generated = @ + 1] = More(s)
<1> DEFINE t == [s EXCEPT !.len = @ + 1, !.generated = @ + 1]
           fields == {"id", "len", "generated", "max_new"}
<1>1. DOMAIN t = fields /\ t = [x \in DOMAIN t |-> t[x]]
  BY DEF BatchRecord
<1>2. DOMAIN More(s) = fields /\ More(s) = [x \in DOMAIN More(s) |-> More(s)[x]]
  BY DEF More
<1>3. /\ t.id = s.id /\ t.len = s.len + 1
      /\ t.generated = s.generated + 1 /\ t.max_new = s.max_new
  BY DEF BatchRecord
<1>4. /\ More(s).id = s.id /\ More(s).len = s.len + 1
      /\ More(s).generated = s.generated + 1 /\ More(s).max_new = s.max_new
  BY DEF More
<1>. HIDE DEF t
<1>5. \A x \in fields : t[x] = More(s)[x]
  BY <1>3, <1>4
<1>6. t = More(s)
  BY <1>1, <1>2, <1>5
<1>. QED  BY <1>6 DEF t

LEMMA DecodedIs ==
  ASSUME BeforeType, NEW n, NEW m, Bounded(before.batch, before.queue, n, m)
  PROVE  Abstract!Decoded(n, m) = AllDecoded(before.batch, before.queue, n, m)
<1> DEFINE b == before.batch
           q == before.queue
           first == SubSeq(b, 1, Len(b) - m)
           joined == Abstract!Admitted(n)
<1>1. /\ b \in Seq(BatchRecord) /\ q \in Seq(QueueRecord)
      /\ n \in Nat /\ m \in Nat /\ n <= Len(q) /\ m <= Len(b) /\ Len(b) \in Nat /\ Len(q) \in Nat
      /\ Len(b) - m \in Nat /\ Bounded(b, q, n, m)
  BY DEF BeforeType, Bounded
<1>2. Abstract!Decoded(n, m) =
        [k \in DOMAIN (first \o joined) |->
           [(first \o joined)[k] EXCEPT !.len = @ + 1, !.generated = @ + 1]]
  BY DEF Abstract!Decoded, Abstract!Drop
<1>3. joined = [k \in 1 .. n |-> Fresh(q[k])]
  BY DEF Abstract!Admitted, Fresh
<1>. HIDE DEF b, q
<1>4. /\ first \in Seq(BatchRecord) /\ Len(first) = Len(b) - m
      /\ \A k \in 1 .. Len(b) - m : first[k] = b[k]
  <2>1. \A i \in 1 .. Len(b) - m : b[i] \in BatchRecord
    BY <1>1
  <2>. QED  BY <1>1, <2>1, SubSeqProperties
<1>5. joined \in Seq(BatchRecord) /\ Len(joined) = n
  <2>1. \A k \in 1 .. n : Fresh(q[k]) \in BatchRecord
    <3>1. \A w \in QueueRecord : Fresh(w) \in BatchRecord
      BY DEF QueueRecord, BatchRecord, Fresh
    <3>2. \A k \in 1 .. n : q[k] \in QueueRecord
      BY <1>1
    <3>. QED  BY <3>1, <3>2
  <2>. QED  BY <1>1, <1>3, <2>1
<1>. HIDE DEF first, joined
<1> DEFINE staying == first \o joined
<1>6. /\ staying \in Seq(BatchRecord) /\ Len(staying) = Len(b) - m + n
      /\ DOMAIN staying = 1 .. Len(b) - m + n
      /\ \A k \in 1 .. Len(b) - m + n :
           staying[k] = IF k <= Len(b) - m THEN first[k] ELSE joined[k - (Len(b) - m)]
  <2>1. Len(first) + Len(joined) = Len(b) - m + n
    BY <1>4, <1>5
  <2>2. /\ staying \in Seq(BatchRecord) /\ Len(staying) = Len(first) + Len(joined)
        /\ \A k \in 1 .. Len(first) + Len(joined) :
             staying[k] = IF k <= Len(first) THEN first[k] ELSE joined[k - Len(first)]
    BY <1>4, <1>5, ConcatProperties
  <2>. HIDE DEF staying
  <2>3. DOMAIN staying = 1 .. Len(staying)
    BY <2>2
  <2>. QED  BY <1>4, <2>1, <2>2, <2>3
<1>. HIDE DEF staying
<1>7. \A k \in 1 .. Len(b) - m + n : staying[k] = Stays(b, q, m, k)
  <2> TAKE k \in 1 .. Len(b) - m + n
  <2>1. CASE k <= Len(b) - m
    <3>1. k \in 1 .. Len(b) - m
      BY <1>1, <2>1
    <3>. QED  BY <1>4, <1>6, <2>1, <3>1 DEF Stays
  <2>2. CASE ~(k <= Len(b) - m)
    <3>1. k - (Len(b) - m) \in 1 .. n
      BY <1>1, <2>2
    <3>. QED  BY <1>3, <1>6, <2>2, <3>1 DEF Stays
  <2>. QED  BY <2>1, <2>2
<1>8. \A s \in BatchRecord : [s EXCEPT !.len = @ + 1, !.generated = @ + 1] = More(s)
  BY MoreIs
<1>9. \A k \in 1 .. Len(b) - m + n :
        [staying[k] EXCEPT !.len = @ + 1, !.generated = @ + 1] = More(Stays(b, q, m, k))
  <2>1. \A k \in 1 .. Len(b) - m + n : staying[k] \in BatchRecord
    BY <1>6
  <2>. QED  BY <1>7, <1>8, <2>1
<1>10. Abstract!Decoded(n, m) =
         [k \in 1 .. Len(b) - m + n |->
            [staying[k] EXCEPT !.len = @ + 1, !.generated = @ + 1]]
  BY <1>2, <1>6 DEF staying
<1>11. Abstract!Decoded(n, m) = [k \in 1 .. Len(b) - m + n |-> More(Stays(b, q, m, k))]
  BY ONLY <1>9, <1>10
<1>. QED  BY <1>11 DEF AllDecoded, b, q

LEMMA QueueAfter ==
  ASSUME BeforeType, NEW n, NEW m, Bounded(before.batch, before.queue, n, m),
         NEW w \in Seq(QueueRecord), QueueIs(w, before.batch, before.queue, n, m)
  PROVE  w = Abstract!Victims(m) \o SubSeq(before.queue, n + 1, Len(before.queue))
<1> DEFINE b == before.batch
           q == before.queue
           victims == Abstract!Victims(m)
           rest == SubSeq(q, n + 1, Len(q))
           T == [id : SeqId, len : Nat, max_new : Int]
<1>1. /\ b \in Seq(BatchRecord) /\ q \in Seq(QueueRecord)
      /\ n \in Nat /\ m \in Nat /\ n <= Len(q) /\ m <= Len(b) /\ Len(b) \in Nat /\ Len(q) \in Nat
      /\ Len(b) - m \in Nat
  BY DEF BeforeType, Bounded
<1>2. victims = [k \in 1 .. m |-> Yielded(b[Len(b) - m + k])]
  BY DEF Abstract!Victims, Yielded
<1>3. DOMAIN w = 1 .. m + Len(q) - n /\ \A k \in DOMAIN w : w[k] = Waits(b, q, n, m, k)
  BY DEF QueueIs
<1>. HIDE DEF b, q, victims
<1>4. victims \in Seq(T) /\ Len(victims) = m
  <2>1. \A s \in BatchRecord : Yielded(s) \in T
    BY DEF BatchRecord, Yielded
  <2>2. \A k \in 1 .. m : b[Len(b) - m + k] \in BatchRecord
    BY <1>1
  <2>3. \A k \in 1 .. m : Yielded(b[Len(b) - m + k]) \in T
    BY <2>1, <2>2
  <2>. HIDE DEF T
  <2>. QED  BY <1>1, <1>2, <2>3
<1>5. QueueRecord \subseteq T
  BY DEF QueueRecord
<1>. HIDE DEF T
<1>6. q \in Seq(T) /\ w \in Seq(T)
  BY <1>1, <1>5
<1>7. /\ rest \in Seq(T) /\ Len(rest) = Len(q) - n
      /\ \A k \in 1 .. Len(q) - n : rest[k] = q[k + n]
  <2>2. \A i \in n + 1 .. Len(q) : q[i] \in T
    BY <1>1, <1>6
  <2>3. rest \in Seq(T)
    BY <1>1, <2>2, SubSeqProperties
  <2>4. Len(rest) = Len(q) - n
    BY <1>1, <1>6
  <2>5. \A k \in 1 .. Len(q) - n : rest[k] = q[k + n]
    BY <1>1, <1>6
  <2>. QED  BY <2>3, <2>4, <2>5
<1>. HIDE DEF rest
<1> DEFINE u == victims \o rest
<1>8. /\ u \in Seq(T) /\ Len(u) = m + (Len(q) - n)
      /\ \A k \in 1 .. m + (Len(q) - n) : u[k] = IF k <= m THEN victims[k] ELSE rest[k - m]
  <2>1. Len(victims) + Len(rest) = m + (Len(q) - n)
    BY <1>4, <1>7
  <2>2. /\ u \in Seq(T) /\ Len(u) = Len(victims) + Len(rest)
        /\ \A k \in 1 .. Len(victims) + Len(rest) :
             u[k] = IF k <= Len(victims) THEN victims[k] ELSE rest[k - Len(victims)]
    BY <1>4, <1>7, ConcatProperties
  <2>. HIDE DEF u
  <2>. QED  BY <1>4, <2>1, <2>2
<1>. HIDE DEF u
<1>9. Len(w) = m + (Len(q) - n)
  <2>1. DOMAIN w = 1 .. Len(w) /\ Len(w) \in Nat
    BY <1>6
  <2>2. m + Len(q) - n = m + (Len(q) - n) /\ m + (Len(q) - n) \in Nat
    BY <1>1
  <2>. QED  BY <1>3, <2>1, <2>2, SameUpper
<1>10. \A k \in 1 .. Len(w) : w[k] = u[k]
  <2> TAKE k \in 1 .. Len(w)
  <2>1. k \in DOMAIN w /\ k \in 1 .. m + (Len(q) - n)
    BY <1>6, <1>9
  <2>2. CASE k <= m
    <3>1. k \in 1 .. m
      BY <1>1, <2>1, <2>2
    <3>. QED  BY <1>2, <1>3, <1>8, <2>1, <2>2, <3>1 DEF Waits
  <2>3. CASE ~(k <= m)
    <3>1. k - m \in 1 .. Len(q) - n
      BY <1>1, <2>1, <2>3
    <3>. QED  BY <1>3, <1>7, <1>8, <2>1, <2>3, <3>1 DEF Waits
  <2>. QED  BY <2>2, <2>3
<1>11. w = u
  BY <1>6, <1>8, <1>9, <1>10, SeqEqual
<1>. QED  BY <1>11 DEF u, victims, rest, q

\* What a driver sees of a call when it returns.
LEMMA EnqueueIsSubmit ==
  ASSUME SchedInv, before = Snapshot, before' = Snapshot', NEW r \in Requests, Enqueue(r)
  PROVE  Abstract!Next
<1>. TypeInv
  BY DEF SchedInv
<1> DEFINE w == [id |-> next_id, context_len |-> r.len, max_new |-> r.max_new,
                 prompt |-> r.prompt]
<1>1. waiting' = Append(waiting, w) /\ running' = running /\ CouldFit(r) /\ next_id <= MaxSeqs
  BY DEF Enqueue, NewId
<1>2. r.len \in Nat /\ r.max_new \in Nat /\ r.prompt \in Seq(Chunk)
  BY SchedulerAssumption DEF Request
<1>3. next_id \in SeqId
  BY <1>1, SchedulerAssumption DEF TypeInv, SeqId
<1>4. w \in Pending /\ Queued(w) = [id |-> next_id, len |-> r.len, max_new |-> r.max_new]
  BY <1>2, <1>3 DEF Pending, Queued
<1>5. r.len \in 0 .. Capacity /\ r.max_new \in 0 .. Capacity
  <2>1. Capacity \in Nat
    BY AllocatorAssumption, BlockTableAssumption DEF Capacity
  <2>. QED  BY <1>1, <1>2, <2>1 DEF CouldFit
<1>. HIDE DEF w
<1>6. QueueView(waiting') = Append(QueueView(waiting), Queued(w))
  BY <1>1, <1>4, QueueViewAppend DEF TypeInv
<1>7. before'.queue = Append(before.queue, Queued(w)) /\ before'.batch = before.batch
  BY <1>1, <1>6, SnapshotIs, SnapshotIsNext
<1>8. Abstract!Submit(next_id, r.len, r.max_new)
  BY <1>4, <1>7 DEF Abstract!Submit
<1>. QED  BY <1>3, <1>5, <1>8 DEF Abstract!Next

LEMMA FinishWaitingIs ==
  ASSUME SchedInv, before = Snapshot, before' = Snapshot', NEW i \in DOMAIN waiting,
         FinishWaiting(i)
  PROVE  Abstract!Next
<1>1. waiting' = RemoveAt(waiting, i) /\ running' = running /\ waiting \in Seq(Pending)
  BY DEF FinishWaiting, SchedInv, TypeInv
<1>2. /\ QueueView(waiting') = RemoveAt(QueueView(waiting), i) /\ i \in DOMAIN QueueView(waiting)
  BY <1>1, QueueViewRemove, QueueViewFacts
<1>3. /\ before'.queue = RemoveAt(before.queue, i) /\ before'.batch = before.batch
      /\ i \in DOMAIN before.queue
  BY <1>1, <1>2, SnapshotIs, SnapshotIsNext
<1>4. Abstract!FinishQueued(i)
  BY <1>3 DEF Abstract!FinishQueued, Abstract!RemoveAt, RemoveAt
<1>. QED  BY <1>3, <1>4 DEF Abstract!Next

LEMMA ForkEndIs ==
  ASSUME SchedInv, ViewInv, before' = Snapshot', ForkEnd
  PROVE  Abstract!Next
<1>. TypeInv
  BY DEF SchedInv
<1>1. pc = "fork" /\ waiting' = waiting /\ running' = Append(running, cur)
  BY DEF ForkEnd
<1>2. before = Snapshot /\ Forking /\ Len(running) < MaxBatchSize /\ cur \in Running
  BY <1>1 DEF ViewInv, SchedInv, CallInv, TypeInv, Distinct, Running, RunningWith, Held
<1>3. /\ BatchView(running') = Append(BatchView(running), Batched(cur))
      /\ Len(BatchView(running)) = Len(running)
  BY <1>1, <1>2, BatchViewAppend, BatchViewFacts DEF TypeInv
<1>4. /\ before'.batch = Append(before.batch, Batched(cur)) /\ before'.queue = before.queue
      /\ Len(before.batch) < MaxBatchSize
  BY <1>1, <1>2, <1>3, SnapshotIs, SnapshotIsNext
<1>5. PICK i \in DOMAIN before.batch : cur.num_tokens = before.batch[i].len
  BY <1>2 DEF Forking
<1>6. Batched(cur) = [id |-> cur.id, len |-> before.batch[i].len, generated |-> 0,
                      max_new |-> cur.max_new]
  BY <1>2, <1>5 DEF Forking, Batched
<1>7. Abstract!ForkSequence(i, cur.id, cur.max_new)
  BY <1>4, <1>6 DEF Abstract!ForkSequence
<1>8. cur.id \in SeqId /\ cur.max_new \in 0 .. Capacity \cup ForkNew
  BY <1>2 DEF Forking
<1>. QED  BY <1>5, <1>7, <1>8 DEF Abstract!Next

LEMMA FinishEndIs ==
  ASSUME ViewInv, before' = Snapshot', ReleaseEnd, pc = "finish"
  PROVE  Abstract!Next
<1>1. Finishing /\ waiting' = waiting /\ running' = running
  BY DEF ViewInv, ReleaseEnd
<1>2. PICK i \in DOMAIN before.batch : BatchView(running) = RemoveAt(before.batch, i)
  BY <1>1 DEF Finishing
<1>3. before'.batch = RemoveAt(before.batch, i) /\ before'.queue = before.queue
  BY <1>1, <1>2, SnapshotIsNext DEF Finishing
<1>4. Abstract!Finish(i)
  BY <1>3 DEF Abstract!Finish, Abstract!RemoveAt, RemoveAt
<1>. QED  BY <1>2, <1>4 DEF Abstract!Next

LEMMA StepEndIs ==
  ASSUME SchedInv, BeforeType, ViewInv, before' = Snapshot', StepEnd
  PROVE  Abstract!Next
<1>. TypeInv
  BY DEF SchedInv
<1>1. /\ pc = "decode" /\ todo = <<>> /\ UNCHANGED <<waiting, running>>
      /\ \A i \in DOMAIN running : ~Finished(i)
  BY DEF StepEnd
<1>2. PICK n, m \in Nat : Retiring(n, m)
  BY <1>1, RetiringNow
<1> DEFINE b == before.batch
           q == before.queue
           v == BatchView(running)
           w == QueueView(waiting)
           d == AllDecoded(b, q, n, m)
<1>3. /\ b \in Seq(BatchRecord) /\ q \in Seq(QueueRecord) /\ Bounded(b, q, n, m)
      /\ Thinned(v, d) /\ QueueIs(w, b, q, n, m)
  BY <1>2 DEF Retiring, BeforeType
<1>4. /\ v \in Seq(BatchRecord) /\ w \in Seq(QueueRecord) /\ DOMAIN v = DOMAIN running
      /\ \A i \in DOMAIN running : v[i] = Batched(running[i])
  BY BatchViewFacts, QueueViewFacts DEF TypeInv
<1>5. before'.batch = v /\ before'.queue = w
  BY <1>1, SnapshotIsNext
<1>. HIDE DEF v, w
<1>6. \A i \in DOMAIN v : ~Done(v[i])
  BY <1>1, <1>4 DEF Done, Finished, Batched
<1>7. v = Keep(d, NotDone(d))
  <2>. HIDE DEF d
  <2>. QED  BY ONLY <1>3, <1>4, <1>6, NobodyDone
<1>8. Abstract!Decoded(n, m) = d
  BY <1>3, DecodedIs
<1>9. NotDone(d) = {s \in ToSet(d) : ~Abstract!Finished(s)}
  BY DEF NotDone, Done, Abstract!Finished
<1>10. before'.batch = Keep(Abstract!Decoded(n, m),
                            {s \in ToSet(Abstract!Decoded(n, m)) : ~Abstract!Finished(s)})
  BY ONLY <1>5, <1>7, <1>8, <1>9
<1>11. before'.queue = Abstract!Victims(m) \o SubSeq(q, n + 1, Len(q))
  BY <1>3, <1>4, <1>5, QueueAfter
<1>12. Abstract!Possible(n, m)
  BY <1>3 DEF Bounded, Abstract!Possible
<1>13. Abstract!Step(n, m)
  <2>1. \A s, K : Abstract!Keep(s, K) = Keep(s, K) /\ Abstract!ToSet(s) = ToSet(s)
    BY DEF Keep, Abstract!Keep, ToSet, Abstract!ToSet
  <2>. QED  BY <1>10, <1>11, <1>12, <2>1 DEF Abstract!Step
<1>14. n \in 0 .. Len(q) /\ m \in 0 .. Len(b)
  BY <1>3 DEF Bounded
<1>. QED  BY <1>13, <1>14 DEF Abstract!Next

\* The actions of the loops with which a call returns.
LEMMA ReturningActions ==
  ASSUME SchedInv, Step, pc' = "idle"
  PROVE  ForkEnd \/ ReleaseEnd \/ StepEnd
<1>. TypeInv
  BY DEF SchedInv
<1>1. CASE StepBegin \/ Reserve \/ ReserveEnd \/ AdmitNext \/ AdmitEnd
  BY <1>1 DEF StepBegin, Reserve, ReserveEnd, AdmitNext, AdmitEnd
<1>2. CASE FillEnd \/ RegisterBlock \/ RegisterEnd \/ DecodeSkip \/ CowReplace \/ PreemptEnd
  BY <1>2 DEF FillEnd, RegisterBlock, RegisterEnd, DecodeSkip, CowReplace, PreemptEnd
<1>3. CASE ForkBlock \/ Acquire \/ Fill \/ ReleaseBlock
  BY <1>3 DEF ForkBlock, Acquire, Fill, ReleaseBlock
<1>4. CASE \E i \in DOMAIN running :
             AppendInPlace(i) \/ AppendFresh(i) \/ CowAllocate(i) \/ Preempt(i) \/ Retire(i)
  BY <1>4 DEF AppendInPlace, AppendFresh, CowAllocate, Preempt, Retire, Decoding
<1>. QED  BY <1>1, <1>2, <1>3, <1>4 DEF Step

\* A call is one step of Batching when it returns, and none before.
LEMMA AbstractStep ==
  ASSUME SchedInv, SeenInv, [Next /\ Remember]_<<vars, before>>
  PROVE  [Abstract!Next]_<<before.queue, before.batch>>
<1>1. CASE before' = before
  BY <1>1
<1>2. CASE before' # before
  <2>1. Next /\ Remember
    BY <1>2
  <2>2. pc' = "idle" /\ before' = Snapshot'
    BY <1>2, <2>1 DEF Remember
  <2>3. BeforeType /\ ViewInv
    BY DEF SeenInv
  <2>4. CASE Client
    <3>1. CASE \E r \in Requests : Enqueue(r)
      <4>1. pc = "idle" /\ before = Snapshot
        BY <2>3, <3>1 DEF Enqueue, ViewInv
      <4>. QED  BY <2>2, <3>1, <4>1, EnqueueIsSubmit
    <3>2. CASE \E i \in DOMAIN running : FinishRunning(i) \/ \E n \in ForkNew : Fork(i, n)
      BY <2>2, <3>2 DEF FinishRunning, Fork
    <3>3. CASE \E i \in DOMAIN waiting : FinishWaiting(i)
      <4>1. pc = "idle" /\ before = Snapshot
        BY <2>3, <3>3 DEF FinishWaiting, ViewInv
      <4>. QED  BY <2>2, <3>3, <4>1, FinishWaitingIs
    <3>. QED  BY <2>4, <3>1, <3>2, <3>3 DEF Client
  <2>5. CASE Step
    <3>1. ForkEnd \/ ReleaseEnd \/ StepEnd
      <4>1. SchedInv /\ pc' = "idle"
        BY <2>2
      <4>. QED  BY <2>5, <4>1, ReturningActions
    <3>2. CASE ForkEnd  BY <2>2, <2>3, <3>2, ForkEndIs
    <3>3. CASE ReleaseEnd
      <4>1. pc = "finish"
        BY <2>2, <3>3 DEF ReleaseEnd
      <4>. QED  BY <2>2, <2>3, <3>3, <4>1, FinishEndIs
    <3>4. CASE StepEnd  BY <2>2, <2>3, <3>4, StepEndIs
    <3>. QED  BY <3>1, <3>2, <3>3, <3>4
  <2>. QED  BY <2>1, <2>4, <2>5 DEF Next
<1>. QED  BY <1>1, <1>2

-----------------------------------------------------------------------------
(* Within a call, and the result.                                         *)

\* What is admitted is a list, whatever the action.
LEMMA QuietOutcome ==
  ASSUME AdmittedSeq, outcome' = outcome
  PROVE  AdmittedSeq'
BY DEF AdmittedSeq

LEMMA FreshOutcome == ASSUME outcome' = NoOutcome PROVE AdmittedSeq'
<1>1. <<>> \in Seq([id : SeqId, cached : Nat])
  OBVIOUS
<1>. QED  BY <1>1 DEF AdmittedSeq, NoOutcome

\* When a call returns the driver sees what there is.
LEMMA ReturnSeen ==
  ASSUME SchedInv', SeenInv, Next, Remember, pc' = "idle", SchedInv
  PROVE  SeenInv'
<1>1. before' = Snapshot' /\ ViewInv'
  BY SeenBetween
<1>2. running' \in Seq(Running) /\ waiting' \in Seq(Pending)
  BY DEF SchedInv, TypeInv
<1>3. BatchView(running') \in Seq(BatchRecord) /\ QueueView(waiting') \in Seq(QueueRecord)
  BY <1>2, BatchViewFacts, QueueViewFacts
<1>4. BeforeType'
  BY <1>1, <1>3, SnapshotIsNext DEF BeforeType
<1>5. outcome' = outcome
  <2>1. CASE Client
    BY <2>1 DEF Client, Enqueue, FinishRunning, Fork, FinishWaiting
  <2>2. CASE Step
    BY <2>2, ReturningActions DEF ForkEnd, ReleaseEnd, StepEnd
  <2>. QED  BY <2>1, <2>2 DEF Next
<1>6. AdmittedSeq'
  BY <1>5, QuietOutcome DEF SeenInv
<1>. QED  BY <1>1, <1>4, <1>6 DEF SeenInv

\* Within a call it sees what there was when the call began.
LEMMA ClientSeen ==
  ASSUME SchedInv, SchedInv', BeforeType, AdmittedSeq, ViewInv, before' = before, Client,
         pc' # "idle"
  PROVE  ViewInv' /\ AdmittedSeq'
<1>1. PICK i \in DOMAIN running : FinishRunning(i) \/ \E n \in ForkNew : Fork(i, n)
  BY DEF Client, Enqueue, FinishWaiting, callVars
<1>2. outcome' = outcome
  BY <1>1 DEF FinishRunning, Fork
<1>. QED  BY <1>1, <1>2, FinishSeen, ForkSeen, QuietOutcome

LEMMA TableSeen ==
  ASSUME SchedInv, AdmittedSeq, ViewInv, before' = before,
         ForkBlock \/ Acquire \/ Fill \/ ReleaseBlock
  PROVE  ViewInv' /\ AdmittedSeq'
<1>1. /\ cur'.id = cur.id /\ cur'.num_tokens = cur.num_tokens
      /\ cur'.generated = cur.generated /\ cur'.max_new = cur.max_new
      /\ UNCHANGED <<waiting, running, todo, outcome>> /\ pc' = pc
  BY CurStep DEF SchedInv
<1>2. ViewInv'
  BY <1>1, QuietView
<1>. QED  BY <1>1, <1>2, QuietOutcome

LEMMA RegisterSeen ==
  ASSUME AdmittedSeq, ViewInv, before' = before, FillEnd \/ RegisterBlock
  PROVE  ViewInv' /\ AdmittedSeq'
<1>1. /\ UNCHANGED <<waiting, running, todo, outcome, cur>>
      /\ pc' = pc \/ {pc, pc'} = {"build", "register"}
  BY DEF FillEnd, RegisterBlock
<1>2. ViewInv'
  BY <1>1, QuietView
<1>. QED  BY <1>1, <1>2, QuietOutcome

LEMMA AdmissionSeen ==
  ASSUME SchedInv, BeforeType, AdmittedSeq, ViewInv, before' = before,
         StepBegin \/ Reserve \/ ReserveEnd \/ AdmitNext \/ AdmitEnd
  PROVE  ViewInv' /\ AdmittedSeq'
<1>1. CASE StepBegin
  <2>1. outcome' = NoOutcome
    BY <1>1 DEF StepBegin
  <2>. QED  BY <1>1, <2>1, ReserveSeen, FreshOutcome
<1>2. CASE Reserve \/ ReserveEnd
  <2>1. outcome' = outcome
    BY <1>2 DEF Reserve, ReserveEnd
  <2>. QED  BY <1>2, <2>1, ReserveSeen, QuietOutcome
<1>3. CASE AdmitNext \/ AdmitEnd
  <2>1. outcome' = outcome
    BY <1>3 DEF AdmitNext, AdmitEnd
  <2>. QED  BY <1>3, <2>1, AdmitSeen, AdmitEndSeen, QuietOutcome
<1>. QED  BY <1>1, <1>2, <1>3

LEMMA DecodeSeen ==
  ASSUME SchedInv, SchedInv', RoomInv', BeforeType, AdmittedSeq, ViewInv, before' = before,
         \/ DecodeSkip \/ CowReplace \/ PreemptEnd \/ ReleaseEnd
         \/ \E i \in DOMAIN running :
              AppendInPlace(i) \/ AppendFresh(i) \/ CowAllocate(i) \/ Preempt(i) \/ Retire(i),
         pc' # "idle"
  PROVE  ViewInv' /\ AdmittedSeq'
<1>1. CASE DecodeSkip \/ PreemptEnd \/ ReleaseEnd \/ \E i \in DOMAIN running : CowAllocate(i)
  <2>1. outcome' = outcome
    BY <1>1 DEF DecodeSkip, PreemptEnd, ReleaseEnd, CowAllocate
  <2>2. CASE DecodeSkip \/ PreemptEnd \/ \E i \in DOMAIN running : CowAllocate(i)
    BY <2>1, <2>2, SkipSeen, PreemptEndSeen, CowSeen, QuietOutcome
  <2>3. CASE ReleaseEnd
    <3>1. pc = "retire"
      BY <2>3 DEF ReleaseEnd
    <3>. QED  BY <2>1, <2>3, <3>1, RetiredSeen, QuietOutcome
  <2>. QED  BY <1>1, <2>2, <2>3
<1>2. CASE CowReplace \/ \E i \in DOMAIN running : AppendInPlace(i) \/ AppendFresh(i)
  BY <1>2, AppendSeen
<1>3. CASE \E i \in DOMAIN running : Preempt(i) \/ Retire(i)
  BY <1>3, PreemptSeen, RetireSeen
<1>. QED  BY <1>1, <1>2, <1>3

LEMMA SeenKept ==
  ASSUME SchedInv, SchedInv', RoomInv', SeenInv, [Next /\ Remember]_<<vars, before>>
  PROVE  SeenInv'
<1>1. CASE UNCHANGED <<vars, before>>
  <2>1. ViewInv'
    BY <1>1, QuietView DEF SeenInv, vars, callVars
  <2>2. AdmittedSeq'
    BY <1>1, QuietOutcome DEF SeenInv, vars
  <2>. QED  BY <1>1, <2>1, <2>2 DEF SeenInv, BeforeType
<1>2. CASE Next /\ Remember /\ pc' = "idle"
  BY <1>2, ReturnSeen
<1>3. CASE Next /\ Remember /\ pc' # "idle"
  <2>1. before' = before /\ BeforeType /\ AdmittedSeq /\ ViewInv
    BY <1>3 DEF Remember, SeenInv
  <2>2. ViewInv' /\ AdmittedSeq'
    <3>1. CASE Client  BY <1>3, <2>1, <3>1, ClientSeen
    <3>2. CASE ForkBlock \/ Acquire \/ Fill \/ ReleaseBlock  BY <2>1, <3>2, TableSeen
    <3>3. CASE FillEnd \/ RegisterBlock  BY <2>1, <3>3, RegisterSeen
    <3>4. CASE RegisterEnd  BY <2>1, <3>4, JoinSeen
    <3>5. CASE StepBegin \/ Reserve \/ ReserveEnd \/ AdmitNext \/ AdmitEnd
      BY <2>1, <3>5, AdmissionSeen
    <3>6. CASE \/ DecodeSkip \/ CowReplace \/ PreemptEnd \/ ReleaseEnd
               \/ \E i \in DOMAIN running :
                    \/ AppendInPlace(i) \/ AppendFresh(i) \/ CowAllocate(i)
                    \/ Preempt(i) \/ Retire(i)
      BY <1>3, <2>1, <3>6, DecodeSeen
    <3>7. CASE ForkEnd \/ StepEnd  BY <1>3, <3>7 DEF ForkEnd, StepEnd
    <3>. QED  BY <1>3, <3>1, <3>2, <3>3, <3>4, <3>5, <3>6, <3>7 DEF Next, Step
  <2>3. BeforeType'
    BY <2>1 DEF BeforeType
  <2>. QED  BY <2>2, <2>3 DEF SeenInv
<1>. QED  BY <1>1, <1>2, <1>3

LEMMA SeenInit == ASSUME InitB PROVE SeenInv /\ Abstract!Init
<1>1. before = Snapshot /\ pc = "idle" /\ waiting = <<>> /\ running = <<>> /\ outcome = NoOutcome
  BY DEF InitB, Init
<1>2. QueueView(waiting) = <<>> /\ BatchView(running) = <<>>
  BY <1>1 DEF QueueView, BatchView
<1>3. before.queue = <<>> /\ before.batch = <<>> /\ BeforeType
  BY <1>1, <1>2, SnapshotIs DEF BeforeType
<1>4. AdmittedSeq
  <2>1. <<>> \in Seq([id : SeqId, cached : Nat])
    OBVIOUS
  <2>. QED  BY <1>1, <2>1 DEF AdmittedSeq, NoOutcome
<1>5. ViewInv
  BY <1>1 DEF ViewInv
<1>. QED  BY <1>3, <1>4, <1>5 DEF SeenInv, Abstract!Init

(***************************************************************************)
(* scheduler.rs:93-96 and 267-277: the scheduler implements Batching.  A   *)
(* step of many small actions, whichever blocks they take, share, copy and *)
(* give back, is for its driver one step that admits some of the front of  *)
(* the queue or makes the newest yield to it, gives everybody else exactly *)
(* one token, and lets go of those who have them all.                      *)
(***************************************************************************)
THEOREM SchedulerImplementsBatching == SpecB => ImplementsBatching
<1> DEFINE I == SchedInv /\ RoomInv
<1>1. InitB => SeenInv /\ Abstract!Init
  BY SeenInit
<1>2. I /\ I' /\ SeenInv /\ [Next /\ Remember]_<<vars, before>>
        => SeenInv' /\ [Abstract!Next]_<<before.queue, before.batch>>
  BY SeenKept, AbstractStep
<1>3. SpecB => Spec
  <2>1. InitB => Init
    BY DEF InitB
  <2>2. [Next /\ Remember]_<<vars, before>> => [Next]_vars
    OBVIOUS
  <2>. QED  BY <2>1, <2>2, PTL DEF SpecB, Spec
<1>4. SpecB => []I
  <2>1. SchedInv /\ OwnInv /\ PrivInv /\ ChainInv /\ RoomInv => I
    OBVIOUS
  <2>. QED  BY <1>3, <2>1, RoomInvariant, PTL
<1>. HIDE DEF I
<1>. QED  BY <1>1, <1>2, <1>4, PTL DEF SpecB, ImplementsBatching, Abstract!Spec

=============================================================================
