---------------------------- MODULE EngineProofs ----------------------------
(***************************************************************************)
(* The engine implements a client of the scheduler, so all that is proved  *)
(* of the scheduler (SchedulerProofs) holds under it; the two always agree *)
(* on the sequences and on their lengths, a step with requests to serve    *)
(* serves some of them, what the model attends to is each sequence's own,  *)
(* and a server sees its requests served in the order they came            *)
(* (Generation).                                                           *)
(***************************************************************************)
EXTENDS Engine, SchedulerProofs

-----------------------------------------------------------------------------
(* The engine is a client of its scheduler.                                *)

LEMMA AskedFacts ==
  ASSUME NEW p \in Prompts
  PROVE  /\ p.tokens \in Seq(Token) /\ Len(p.tokens) \in Nat \ {0} /\ p.max_new \in Nat \ {0}
         /\ Asked(p) \in Requests
         /\ Asked(p).len = Len(p.tokens) /\ Asked(p).prompt = Chunks(p.tokens)
         /\ Asked(p).max_new = p.max_new + 1
<1>1. p \in [tokens : Seq(Token) \ {<<>>}, max_new : Nat \ {0}]
  BY EngineAssumption
<1>2. p.tokens \in Seq(Token) /\ p.tokens # <<>> /\ p.max_new \in Nat \ {0}
  BY <1>1
<1>3. Len(p.tokens) \in Nat \ {0}
  BY <1>2
<1>4. /\ Asked(p).len = Len(p.tokens) /\ Asked(p).prompt = Chunks(p.tokens)
      /\ Asked(p).max_new = p.max_new + 1
  BY DEF Asked, SchedulerBudget
<1>. QED  BY <1>2, <1>3, <1>4, EngineAssumption

LEMMA EngineAsks == AsksForTokens
<1>1. \A r \in Requests : \E p \in Prompts : r = Asked(p)
  BY EngineAssumption
<1>2. \A p \in Prompts : Asked(p).max_new > 0
  BY AskedFacts
<1>. QED  BY <1>1, <1>2, EngineAssumption DEF AsksForTokens

\* Every step of the engine, one that fails included, is one of the scheduler
\* or leaves it alone.
LEMMA EngineStepIsStep ==
  [EngineNext \/ ForwardFails \/ ScheduledBail]_engineVars => [Next]_vars
<1>1. ASSUME NEW p \in Prompts, AddRequest(p) PROVE Next
  BY <1>1, AskedFacts DEF AddRequest, Next, Client
<1>2. ASSUME NEW id, FinishSequence(id) PROVE Next
  BY <1>2 DEF FinishSequence, Next, Client
<1>3. ASSUME NEW id, Cancel(id) PROVE [Next]_vars
  BY <1>2, <1>3 DEF Cancel
<1>4. CASE StepStart \/ InScheduler
  BY <1>4 DEF StepStart, InScheduler, Next, Step
<1>5. CASE RetireRequest
  BY <1>2, <1>5 DEF RetireRequest
<1>6. CASE \/ ScheduledNothing \/ ScheduledBatch \/ WriteLayer \/ AttendLayer \/ Sample
           \/ StepReturns \/ ForwardFails \/ ScheduledBail
  BY <1>6 DEF ScheduledNothing, ScheduledBatch, WriteLayer, AttendLayer, Sample, StepReturns,
              ForwardFails, ScheduledBail
<1>7. CASE UNCHANGED engineVars
  BY <1>7 DEF engineVars
<1>. QED  BY <1>1, <1>3, <1>4, <1>5, <1>6, <1>7 DEF EngineNext, EngineStep

(***************************************************************************)
(* engine.rs:45-58: whatever the engine does, on a device that works and   *)
(* on one that fails in the middle of a step, its scheduler behaves as one *)
(* whose only client asks for the engine's prompts, so that everything     *)
(* proved of the scheduler holds under the engine.                         *)
(***************************************************************************)
THEOREM EngineDrivesScheduler == (EngineSpec => Spec) /\ (FailingSpec => Spec)
<1>1. EngineInit => Init
  BY DEF EngineInit
<1>2. [EngineNext]_engineVars => [Next]_vars
  BY EngineStepIsStep
<1>3. [EngineNext \/ ForwardFails \/ ScheduledBail]_engineVars => [Next]_vars
  BY EngineStepIsStep
<1>4. EngineSpec => Spec
  BY <1>1, <1>2, PTL DEF EngineSpec, Spec
<1>5. FailingSpec => Spec
  BY <1>1, <1>3, PTL DEF FailingSpec, Spec
<1>. QED  BY <1>4, <1>5

-----------------------------------------------------------------------------
(* Everything proved of the scheduler.                                     *)

BatchInv ==
  /\ SchedInv /\ OwnInv /\ PrivInv /\ DecodedInv /\ ChainInv /\ HoldInv /\ RoomInv /\ TokensInv

LEMMA BatchInvariant == Spec => []BatchInv
<1>1. Spec => [](SchedInv /\ TokensInv)
  BY EngineAsks, TokensInvariant
<1>. QED  BY <1>1, PrivateInvariant, HoldInvariant, RoomInvariant, PTL DEF BatchInv

-----------------------------------------------------------------------------
(* A scheduler without forks.                                              *)

\* What lies beyond t's prompt was filled for no prompt.
PromptOnly(t) == \A k \in DOMAIN t.blocks : k > Len(t.prompt) => holds[t.blocks[k]] = <<>>

\* Only blocks of a prompt are shared, so a token is never appended to a
\* shared block, and there is nothing to copy.
UnsharedInv ==
  /\ pc \notin {"fork", "cow"}
  /\ \A b \in Blocks : holds[b] = <<>> => ref_counts[b] <= 1
  /\ \A i \in DOMAIN running : PromptOnly(running[i]) /\ running[i].cached <= Len(running[i].prompt)
  /\ pc \in {"build", "register"} => PromptOnly(cur)
  /\ NothingToCopy

LEMMA NoSharedTail ==
  ASSUME SchedInv, OwnInv, UnsharedInv, NEW i \in DOMAIN running
  PROVE  ~needs_cow(running[i])
<1> DEFINE t == running[i]
<1>1. SUFFICES ASSUME last_block_has_room(t), ref_counts[TailOf(t)] > 1 PROVE FALSE
  BY DEF needs_cow, is_shared
<1>2. /\ t \in Running /\ HoldsWhatItNeeds(t) /\ Covered(t.prompt, t.num_tokens)
      /\ PromptOnly(t) /\ t.blocks # <<>>
  BY <1>1, TableFacts DEF SchedInv, TypeInv, PromptsCovered, OwnInv, TablesExact, UnsharedInv,
                          last_block_has_room
<1>3. Len(t.blocks) > Len(t.prompt)
  BY <1>1, <1>2, RoomBeyondPrompt
<1>. HIDE DEF t
<1>4. t.blocks \in Seq(Blocks) /\ Len(t.blocks) \in DOMAIN t.blocks
  <2>1. t.blocks \in Seq(Blocks)
    BY <1>2, RunningFacts DEF Running
  <2>. QED  BY <1>2, <2>1
<1>5. TailOf(t) \in Blocks /\ holds[TailOf(t)] = <<>>
  BY <1>2, <1>3, <1>4 DEF PromptOnly, TailOf
<1>6. ref_counts[TailOf(t)] \in Nat
  BY <1>5, AllocatorAssumption DEF SchedInv, AllocInv, AllocTypeOK
<1>. QED  BY <1>1, <1>5, <1>6 DEF UnsharedInv, t

\* What becomes of the counts: a block that is matched was filled for a prompt.
LEMMA CountsOfUnprompted ==
  ASSUME SchedInv, OwnInv, PrivInv, ChainInv, HoldInv, UnsharedInv, [Next]_vars, pc # "fork",
         NEW b \in Blocks, holds'[b] = <<>>
  PROVE  ref_counts'[b] <= 1
<1>. AllocInv /\ TypeInv
  BY DEF SchedInv
<1>1. ref_counts[b] \in Nat /\ ref_counts \in [Blocks -> 0 .. MaxRefCount] /\ MaxRefCount \in Nat
  BY AllocatorAssumption DEF AllocInv, AllocTypeOK
<1>2. \/ holds[b] = <<>>
      \/ \E x \in Blocks : Allocate(x) /\ b = x
  BY OnlyNewWritten
<1>3. ASSUME NEW x \in Blocks, Allocate(x) PROVE ref_counts'[b] <= 1
  <2>1. ref_counts' = [ref_counts EXCEPT ![x] = 1]
    BY <1>3 DEF Allocate
  <2>2. CASE b = x
    BY <1>1, <2>1, <2>2
  <2>3. CASE b # x
    <3>1. ref_counts'[b] = ref_counts[b]
      BY <1>1, <2>1, <2>3
    <3>2. holds[b] = <<>>
      <4>1. \A y \in Blocks : Allocate(y) => y = x
        BY <1>3 DEF Allocate, Evict
      <4>. QED  BY <1>2, <2>3, <4>1
    <3>. QED  BY <3>1, <3>2 DEF UnsharedInv
  <2>. QED  BY <2>2, <2>3
<1>4. ASSUME holds[b] = <<>>, Acquire PROVE ref_counts'[b] <= 1
  <2>1. pc = "build" /\ claim # <<>> /\ AcquireCached(Head(claim)) /\ Head(claim) \in Blocks
    BY <1>4, TableTypes DEF Acquire
  <2>2. Head(claim) \in DOMAIN by_block
    BY <2>1, ClaimCached DEF is_cached
  <2>3. Written(Head(claim))
    BY <2>2 DEF HoldInv
  <2>4. holds[Head(claim)] # <<>>
    <3>1. \A c \in DOMAIN by_block : \A k : Append(holds[c], k) # <<>>
      <4> TAKE c \in DOMAIN by_block
      <4> TAKE k
      <4>1. holds[c] \in Seq(Chunk)
        BY DEF TypeInv, AllocInv, AllocTypeOK
      <4>. QED  BY <4>1
    <3>2. \A k : <<k>> # <<>>
      OBVIOUS
    <3>. QED  BY <2>3, <3>1, <3>2 DEF Written
  <2>5. ref_counts'[b] = ref_counts[b]
    BY <1>1, <1>4, <2>1, <2>4 DEF AcquireCached, Incref, Reclaim
  <2>. QED  BY <1>4, <2>5 DEF UnsharedInv
<1>5. ASSUME holds[b] = <<>>, ReleaseBlock PROVE ref_counts'[b] <= 1
  <2>1. PICK x : Decref(x)
    BY <1>5 DEF ReleaseBlock
  <2>2. ref_counts' = [ref_counts EXCEPT ![x] = @ - 1]
    BY <2>1 DEF Decref
  <2>3. ref_counts'[b] <= ref_counts[b]
    BY <1>1, <2>2
  <2>4. ref_counts[b] <= 1 /\ ref_counts'[b] \in Int
    BY <1>1, <1>5, <2>2 DEF UnsharedInv
  <2>. QED  BY <1>1, <2>3, <2>4
<1>6. ASSUME holds[b] = <<>>, UNCHANGED ref_counts PROVE ref_counts'[b] <= 1
  BY <1>6 DEF UnsharedInv
<1>7. CASE Fill \/ \E i \in DOMAIN running : AppendFresh(i) \/ CowAllocate(i)
  BY <1>3, <1>7 DEF Fill, AppendFresh, CowAllocate
<1>8. CASE \/ UNCHANGED vars \/ Client
           \/ StepBegin \/ Reserve \/ ReserveEnd \/ AdmitNext \/ AdmitEnd
           \/ FillEnd \/ RegisterBlock \/ RegisterEnd \/ DecodeSkip
           \/ \E i \in DOMAIN running : AppendInPlace(i) \/ Preempt(i) \/ Retire(i)
           \/ PreemptEnd \/ ReleaseEnd \/ StepEnd \/ ForkEnd
  <2>1. UNCHANGED ref_counts
    BY <1>8 DEF vars, allocVars, Client, Enqueue, Fork, FinishRunning, FinishWaiting,
         StepBegin, Reserve, ReserveEnd, AdmitNext, AdmitEnd, FillEnd, RegisterBlock, RegisterEnd,
         DecodeSkip, AppendInPlace, Preempt, Retire, PreemptEnd, ReleaseEnd, StepEnd, ForkEnd,
         CacheBlock
  <2>. QED  BY <1>2, <1>3, <1>6, <2>1
<1>9. ~ForkBlock /\ ~CowReplace
  BY DEF ForkBlock, CowReplace, UnsharedInv
<1>10. CASE Acquire \/ ReleaseBlock
  BY <1>2, <1>3, <1>4, <1>5, <1>10
<1>. QED  BY <1>7, <1>8, <1>9, <1>10 DEF Next, Step

\* What lies beyond the prompt p in the table bs, after the step.
PromptOnlyNext(bs, p) == \A k \in DOMAIN bs : k > Len(p) => holds'[bs[k]] = <<>>

\* It stays so while its blocks are owned.
LEMMA PromptOnlyStays ==
  ASSUME SchedInv, [Next]_vars, NEW t, t.blocks \in Seq(Blocks), PromptOnly(t),
         \A b \in Blocks : In(b, t.blocks) => ref_counts[b] # 0
  PROVE  PromptOnlyNext(t.blocks, t.prompt)
<1>1. \A k \in DOMAIN t.blocks : t.blocks[k] \in Blocks /\ In(t.blocks[k], t.blocks)
  BY DEF In
<1>. QED  BY <1>1, HoldsStay DEF PromptOnly, PromptOnlyNext

LEMMA BatchPromptOnly ==
  ASSUME SchedInv, OwnInv, UnsharedInv, [Next]_vars, NEW i \in DOMAIN running
  PROVE  PromptOnlyNext(running[i].blocks, running[i].prompt)
<1>1. \A b \in Blocks : In(b, running[i].blocks) => ref_counts[b] # 0
  BY OwnedIsReferenced DEF SchedInv, OwnInv
<1>. QED  BY <1>1, PromptOnlyStays, TableTypes DEF SchedInv, UnsharedInv

LEMMA CurPromptOnly ==
  ASSUME SchedInv, OwnInv, UnsharedInv, [Next]_vars, pc \in {"build", "register"}
  PROVE  PromptOnlyNext(cur.blocks, cur.prompt)
<1>1. \A b \in Blocks : In(b, cur.blocks) => ref_counts[b] # 0
  BY CurOwns DEF SchedInv, OwnInv
<1>. QED  BY <1>1, PromptOnlyStays, TableTypes DEF SchedInv, UnsharedInv

\* One more block, of the prompt or filled for none.
LEMMA PromptOnlyGrows ==
  ASSUME NEW bs \in Seq(Blocks), NEW x \in Blocks, NEW p, PromptOnlyNext(bs, p),
         Len(bs) + 1 > Len(p) => holds'[x] = <<>>
  PROVE  PromptOnlyNext(Append(bs, x), p)
<1> DEFINE t == Append(bs, x)
<1>1. /\ Len(bs) \in Nat /\ DOMAIN bs = 1 .. Len(bs) /\ DOMAIN t = 1 .. Len(bs) + 1
      /\ t[Len(bs) + 1] = x /\ \A k \in 1 .. Len(bs) : t[k] = bs[k]
  OBVIOUS
<1>. HIDE DEF t
<1>2. ASSUME NEW k \in DOMAIN t, k > Len(p) PROVE holds'[t[k]] = <<>>
  <2>1. k \in DOMAIN bs \/ k = Len(bs) + 1
    BY <1>1
  <2>2. CASE k \in DOMAIN bs
    BY <1>1, <1>2, <2>2 DEF PromptOnlyNext
  <2>3. CASE k = Len(bs) + 1
    BY <1>1, <1>2, <2>3
  <2>. QED  BY <2>1, <2>2, <2>3
<1>3. PromptOnlyNext(t, p)
  BY <1>2 DEF PromptOnlyNext
<1>. QED  BY <1>3 DEF t

\* Appending leaves what a sequence was admitted with.
LEMMA AppendedCached ==
  ASSUME TypeInv, NEW i \in DOMAIN running, NEW bs, NEW cow, Appended(i, bs, cow)
  PROVE  running'[i].cached = running[i].cached
<1>1. running[i] \in Running /\ i \in DOMAIN running
  BY TableFacts DEF TypeInv
<1>. QED  BY <1>1 DEF Appended, Running, RunningWith

LEMMA UnsharedBatch ==
  ASSUME SchedInv, OwnInv, PrivInv, UnsharedInv, [Next]_vars, NEW j \in DOMAIN running'
  PROVE  /\ PromptOnlyNext(running'[j].blocks, running'[j].prompt)
         /\ running'[j].cached <= Len(running'[j].prompt)
<1>. TypeInv /\ pc # "fork" /\ pc # "cow"
  BY DEF SchedInv, UnsharedInv
<1>1. CASE \E k \in DOMAIN running : running'[j] = running[k]
  BY <1>1, BatchPromptOnly DEF UnsharedInv
<1>2. CASE (ForkEnd \/ RegisterEnd) /\ running'[j] = cur
  <2>1. pc = "register"
    BY <1>2 DEF ForkEnd, RegisterEnd
  <2>. QED  BY <1>2, <2>1, CurPromptOnly DEF PrivInv
<1>3. ASSUME NEW i \in DOMAIN running, AppendInPlace(i)
      PROVE  /\ PromptOnlyNext(running'[j].blocks, running'[j].prompt)
             /\ running'[j].cached <= Len(running'[j].prompt)
  <2>1. Appended(i, running[i].blocks, <<>>) /\ todo # <<>> /\ running[i].blocks \in Seq(Blocks)
    BY <1>3, TableTypes DEF AppendInPlace, Decoding
  <2>2. /\ DOMAIN running' = DOMAIN running
        /\ \A k \in DOMAIN running \ {i} : running'[k] = running[k]
        /\ running'[i].blocks = running[i].blocks /\ running'[i].prompt = running[i].prompt
        /\ running'[i].cached = running[i].cached
    BY <2>1, AppendedFacts, AppendedCached
  <2>. QED  BY <2>2, BatchPromptOnly DEF UnsharedInv
<1>4. ASSUME NEW i \in DOMAIN running, AppendFresh(i)
      PROVE  /\ PromptOnlyNext(running'[j].blocks, running'[j].prompt)
             /\ running'[j].cached <= Len(running'[j].prompt)
  <2>1. PICK x \in Blocks : /\ Appended(i, Append(running[i].blocks, x), <<>>) /\ todo # <<>>
                            /\ holds' = [holds EXCEPT ![x] = <<>>]
    BY <1>4 DEF AppendFresh, Decoding
  <2> DEFINE bs == Append(running[i].blocks, x)
  <2>2. bs \in Seq(Blocks) /\ holds'[x] = <<>> /\ running[i].blocks \in Seq(Blocks)
    BY <2>1, TableFacts DEF TypeInv
  <2>3. PromptOnlyNext(bs, running[i].prompt)
    BY <2>2, PromptOnlyGrows, BatchPromptOnly
  <2>. HIDE DEF bs
  <2>4. /\ DOMAIN running' = DOMAIN running
        /\ \A k \in DOMAIN running \ {i} : running'[k] = running[k]
        /\ running'[i].blocks = bs /\ running'[i].prompt = running[i].prompt
        /\ running'[i].cached = running[i].cached
    BY <2>1, <2>2, AppendedFacts, AppendedCached DEF bs
  <2>. QED  BY <2>3, <2>4, BatchPromptOnly DEF UnsharedInv
<1>5. CASE \E i \in DOMAIN running : AppendInPlace(i) \/ AppendFresh(i)
  BY <1>3, <1>4, <1>5
<1>6. CASE UNCHANGED running
  BY <1>1, <1>6
<1>7. ASSUME NEW n \in DOMAIN running, running' = RemoveAt(running, n)
      PROVE  \E k \in DOMAIN running : running'[j] = running[k]
  <2>1. \A i \in DOMAIN RemoveAt(running, n) :
          \E k \in DOMAIN running : RemoveAt(running, n)[i] = running[k]
    BY RemoveAtElements DEF TypeInv
  <2>. QED  BY <1>7, <2>1
<1>8. ASSUME NEW i \in DOMAIN running, FinishRunning(i) \/ Preempt(i) \/ Retire(i)
      PROVE  \E k \in DOMAIN running : running'[j] = running[k]
  <2>1. VictimIndex \in DOMAIN running
    BY VictimFacts
  <2>. QED  BY <1>7, <1>8, <2>1 DEF FinishRunning, Preempt, Retire
<1>9. CASE ForkEnd \/ RegisterEnd
  <2>1. running' = Append(running, cur) /\ pc = "register"
    BY <1>9 DEF ForkEnd, RegisterEnd
  <2>2. cur \in Running
    BY <2>1 DEF SchedInv, TypeInv, Distinct, Running, RunningWith, Held
  <2>3. (\E k \in DOMAIN running : running'[j] = running[k]) \/ running'[j] = cur
    BY <2>1, <2>2, AppendOrigin DEF TypeInv
  <2>. QED  BY <1>1, <1>2, <1>9, <2>3
<1>10. CASE \/ UNCHANGED vars \/ \E r \in Requests : Enqueue(r)
            \/ \E i \in DOMAIN running, n \in ForkNew : Fork(i, n)
            \/ \E i \in DOMAIN waiting : FinishWaiting(i)
            \/ StepBegin \/ Reserve \/ ReserveEnd \/ AdmitNext \/ AdmitEnd \/ Acquire \/ Fill
            \/ FillEnd \/ RegisterBlock \/ DecodeSkip
            \/ \E i \in DOMAIN running : CowAllocate(i)
            \/ ReleaseBlock \/ PreemptEnd \/ ReleaseEnd \/ StepEnd \/ ForkBlock
  <2>1. UNCHANGED running
    BY <1>10 DEF vars, Enqueue, Fork, FinishWaiting, StepBegin, Reserve, ReserveEnd, AdmitNext,
         AdmitEnd, Acquire, Fill, FillEnd, RegisterBlock, DecodeSkip, CowAllocate, ReleaseBlock,
         PreemptEnd, ReleaseEnd, StepEnd, ForkBlock
  <2>. QED  BY <1>6, <2>1
<1>11. ~CowReplace
  BY DEF CowReplace
<1>. QED  BY <1>1, <1>5, <1>8, <1>9, <1>10, <1>11 DEF Next, Client, Step

LEMMA UnsharedCur ==
  ASSUME SchedInv, OwnInv, PrivInv, ChainInv, UnsharedInv, [Next]_vars,
         pc' \in {"build", "register"}
  PROVE  PromptOnlyNext(cur'.blocks, cur'.prompt)
<1>. TypeInv
  BY DEF SchedInv
<1>1. CASE AdmitNext
  <2>1. cur'.blocks = <<>>
    BY <1>1 DEF AdmitNext
  <2>. QED  BY <2>1 DEF PromptOnlyNext
<1>2. CASE Acquire
  <2>1. pc = "build" /\ claim # <<>> /\ Head(claim) \in Blocks
        /\ cur'.blocks = Append(cur.blocks, Head(claim)) /\ cur'.prompt = cur.prompt
        /\ cur.blocks \in Seq(Blocks)
    BY <1>2, TableTypes, TableGrows DEF Acquire
  <2>2. Len(cur.blocks) + 1 <= Len(cur.prompt)
    <3>1. Len(cur.blocks) + Len(claim) = cur.cached /\ cur.cached <= Len(cur.prompt)
      BY <2>1 DEF PrivInv
    <3>2. PICK a, b, c, d \in Nat : a = Len(cur.blocks) /\ b = Len(claim) /\ c = cur.cached
                                    /\ d = Len(cur.prompt) /\ b # 0
      <4>1. cur.cached \in Nat /\ cur.prompt \in Seq(Chunk) /\ claim \in Seq(Blocks)
        BY DEF TypeInv, RunningWith
      <4>. QED  BY <2>1, <4>1
    <3>. QED  BY <3>1, <3>2
  <2>3. ~(Len(cur.blocks) + 1 > Len(cur.prompt))
    <3>1. Len(cur.blocks) \in Nat /\ Len(cur.prompt) \in Nat
      BY <2>1 DEF TypeInv, RunningWith
    <3>. QED  BY <2>2, <3>1
  <2>. QED  BY <2>1, <2>3, CurPromptOnly, PromptOnlyGrows
<1>3. CASE Fill
  <2>1. PICK x \in Blocks :
          /\ cur' = [cur EXCEPT !.blocks = Append(@, x)]
          /\ holds' = [holds EXCEPT ![x] =
                         IF Len(cur.blocks) < Len(cur.prompt)
                         THEN SubSeq(cur.prompt, 1, Len(cur.blocks) + 1) ELSE <<>>]
    BY <1>3 DEF Fill
  <2>2. /\ pc = "build" /\ cur'.blocks = Append(cur.blocks, x) /\ cur'.prompt = cur.prompt
        /\ cur.blocks \in Seq(Blocks) /\ Len(cur.prompt) \in Nat
    BY <1>3, <2>1, TableTypes DEF Fill, TypeInv, RunningWith
  <2>3. Len(cur.blocks) + 1 > Len(cur.prompt) => holds'[x] = <<>>
    <3>1. holds \in [Blocks -> Seq(Chunk)] /\ Len(cur.blocks) \in Nat
      BY <2>2 DEF TypeInv
    <3>2. Len(cur.blocks) + 1 > Len(cur.prompt) => ~(Len(cur.blocks) < Len(cur.prompt))
      BY <2>2, <3>1
    <3>. QED  BY <2>1, <3>1, <3>2
  <2>. QED  BY <2>2, <2>3, CurPromptOnly, PromptOnlyGrows
<1>4. CASE FillEnd \/ RegisterBlock \/ (UNCHANGED <<pc, cur>>)
  <2>1. pc \in {"build", "register"} /\ cur' = cur
    BY <1>4 DEF FillEnd, RegisterBlock
  <2>. QED  BY <2>1, CurPromptOnly
<1>5. CASE UNCHANGED vars
  BY <1>4, <1>5 DEF vars, callVars
<1>6. CASE \/ Client \/ StepBegin \/ Reserve \/ ReserveEnd \/ AdmitEnd \/ RegisterEnd \/ DecodeSkip
           \/ \E i \in DOMAIN running : AppendInPlace(i) \/ AppendFresh(i) \/ CowAllocate(i)
                                        \/ Preempt(i) \/ Retire(i)
           \/ CowReplace \/ ReleaseBlock \/ PreemptEnd \/ ReleaseEnd \/ StepEnd \/ ForkBlock \/ ForkEnd
  <2>1. UNCHANGED <<pc, cur>> \/ pc' \notin {"build", "register"}
    BY <1>6 DEF Client, Enqueue, Fork, FinishRunning, FinishWaiting, callVars, StepBegin, Reserve,
         ReserveEnd, AdmitEnd, RegisterEnd, DecodeSkip, AppendInPlace, AppendFresh, CowAllocate,
         Preempt, Retire, CowReplace, ReleaseBlock, PreemptEnd, ReleaseEnd, StepEnd, ForkBlock,
         ForkEnd, Decoding
  <2>. QED  BY <1>4, <2>1
<1>. QED  BY <1>1, <1>2, <1>3, <1>4, <1>5, <1>6 DEF Next, Step

LEMMA PhaseUnshared ==
  ASSUME SchedInv, OwnInv, UnsharedInv, [Next]_vars
  PROVE  pc' \notin {"fork", "cow"}
<1>1. \A i \in DOMAIN running : ~needs_cow(running[i])
  BY NoSharedTail
<1>2. \A n : n \notin ForkNew
  BY EngineAssumption
<1>. QED
  BY <1>1, <1>2 DEF UnsharedInv, Next, Client, Step, vars, callVars, Enqueue, Fork, FinishRunning,
     FinishWaiting, StepBegin, Reserve, ReserveEnd, AdmitNext, AdmitEnd, Acquire, Fill, FillEnd,
     RegisterBlock, RegisterEnd, DecodeSkip, AppendInPlace, AppendFresh, CowAllocate, Preempt,
     Retire, CowReplace, ReleaseBlock, PreemptEnd, ReleaseEnd, StepEnd, ForkBlock, ForkEnd

\* Only a copy, or a preemption of one that decoded before, changes the list.
LEMMA CopiesUnshared ==
  ASSUME SchedInv, OwnInv, DecodedInv, UnsharedInv, [Next]_vars
  PROVE  NothingToCopy'
<1>. NothingToCopy
  BY DEF UnsharedInv
<1>1. ASSUME outcome'.decoded = outcome.decoded PROVE NothingToCopy'
  BY <1>1 DEF NothingToCopy
<1>2. ASSUME NEW i \in DOMAIN running, NEW bs, Appended(i, bs, <<>>) PROVE NothingToCopy'
  <2>1. \A x, y : LET d == [id |-> x, cow |-> <<>>, slot |-> y] IN d.cow = <<>>
    OBVIOUS
  <2>2. PICK x, y : outcome' = [outcome EXCEPT !.decoded =
                                  Append(@, [id |-> x, cow |-> <<>>, slot |-> y])]
    BY <1>2 DEF Appended
  <2>3. PICK d : outcome' = [outcome EXCEPT !.decoded = Append(@, d)] /\ d.cow = <<>>
    BY <2>1, <2>2
  <2>4. outcome'.decoded = Append(outcome.decoded, d) /\ outcome.decoded \in Seq(Decoded)
    BY <2>3 DEF DecodedInv
  <2>5. \A k \in DOMAIN Append(outcome.decoded, d) :
          \/ k \in DOMAIN outcome.decoded /\ Append(outcome.decoded, d)[k] = outcome.decoded[k]
          \/ Append(outcome.decoded, d)[k] = d
    BY <2>4
  <2>. QED  BY <2>3, <2>4, <2>5 DEF NothingToCopy
<1>3. CASE StepBegin
  BY <1>3 DEF StepBegin, NoOutcome, NothingToCopy
<1>4. ASSUME NEW i \in DOMAIN running, AppendInPlace(i) \/ AppendFresh(i) PROVE NothingToCopy'
  BY <1>2, <1>4 DEF AppendInPlace, AppendFresh
<1>5. ASSUME NEW i \in DOMAIN running, Preempt(i) PROVE NothingToCopy'
  <2> DEFINE v == running[VictimIndex]
  <2>1. pc = "decode" /\ SlotsInv /\ In(v.id, todo)
    BY <1>5, VictimToVisit DEF Preempt, Decoding, DecodedInv, Stepping
  <2>2. \A k \in DOMAIN outcome.decoded : outcome.decoded[k].id # v.id
    BY <2>1 DEF SlotsInv
  <2>3. Retained(outcome.decoded, v.id) = outcome.decoded
    BY <2>2 DEF Retained
  <2>4. outcome'.decoded = Retained(outcome.decoded, v.id)
    BY <1>5 DEF Preempt, DecodedInv
  <2>. QED  BY <1>1, <2>3, <2>4
<1>6. CASE RegisterEnd \/ \E i \in DOMAIN running : Retire(i)
  <2>1. outcome'.decoded = outcome.decoded
    BY <1>6 DEF RegisterEnd, Retire, DecodedInv
  <2>. QED  BY <1>1, <2>1
<1>7. CASE \/ UNCHANGED vars \/ Client
           \/ Reserve \/ ReserveEnd \/ AdmitNext \/ AdmitEnd \/ Acquire \/ Fill \/ FillEnd
           \/ RegisterBlock \/ DecodeSkip \/ \E i \in DOMAIN running : CowAllocate(i)
           \/ ReleaseBlock \/ PreemptEnd \/ ReleaseEnd \/ StepEnd \/ ForkBlock \/ ForkEnd
  <2>1. UNCHANGED outcome
    BY <1>7 DEF vars, Client, Enqueue, Fork, FinishRunning, FinishWaiting, Reserve, ReserveEnd,
         AdmitNext, AdmitEnd, Acquire, Fill, FillEnd, RegisterBlock, DecodeSkip, CowAllocate,
         ReleaseBlock, PreemptEnd, ReleaseEnd, StepEnd, ForkBlock, ForkEnd
  <2>. QED  BY <1>1, <2>1
<1>8. ~CowReplace
  BY DEF CowReplace, UnsharedInv
<1>. QED  BY <1>3, <1>4, <1>5, <1>6, <1>7, <1>8 DEF Next, Step

LEMMA UnsharedKept ==
  ASSUME SchedInv, OwnInv, PrivInv, DecodedInv, ChainInv, HoldInv, UnsharedInv, [Next]_vars
  PROVE  UnsharedInv'
<1>1. pc' \notin {"fork", "cow"} /\ NothingToCopy'
  BY PhaseUnshared, CopiesUnshared
<1>2. \A b \in Blocks : holds'[b] = <<>> => ref_counts'[b] <= 1
  BY CountsOfUnprompted DEF UnsharedInv
<1>3. \A i \in DOMAIN running' : /\ PromptOnlyNext(running'[i].blocks, running'[i].prompt)
                                 /\ running'[i].cached <= Len(running'[i].prompt)
  BY UnsharedBatch
<1>4. pc' \in {"build", "register"} => PromptOnlyNext(cur'.blocks, cur'.prompt)
  BY UnsharedCur
<1>. QED  BY <1>1, <1>2, <1>3, <1>4 DEF UnsharedInv, PromptOnly, PromptOnlyNext

LEMMA UnsharedInit == Init => UnsharedInv
<1>1. Init => \A b \in Blocks : ref_counts[b] = 0
  BY DEF Init, AllocInit
<1>2. Init => running = <<>> /\ pc = "idle" /\ outcome.decoded = <<>>
  BY DEF Init, NoOutcome
<1>. QED  BY <1>1, <1>2 DEF UnsharedInv, NothingToCopy

LEMMA UnsharedInvariant == Spec => [](BatchInv /\ UnsharedInv)
<1>1. BatchInv /\ UnsharedInv /\ [Next]_vars => UnsharedInv'
  BY UnsharedKept DEF BatchInv
<1>. QED  BY <1>1, UnsharedInit, BatchInvariant, PTL DEF Spec

-----------------------------------------------------------------------------
(* What the engine and its scheduler know of each other.                   *)

\* What is always true of the engine's scheduler.
DrivenInv == BatchInv /\ UnsharedInv

EnginePhase ==
  /\ epc \in {"idle", "scheduling", "writing", "attending", "sampling", "retiring"}
  /\ epc = "scheduling" =>
       pc \in {"idle", "reserve", "admit", "build", "register", "decode", "preempt"}
  /\ epc \in {"idle", "retiring"} => pc \in {"idle", "finish"}
  /\ epc \in {"writing", "attending", "sampling"} => pc = "idle"
  /\ epc \in {"writing", "attending"} => layer \in Layers
  /\ \A id \in ended : epc = "retiring" /\ IsRunning(id)

\* What the engine asked for and has so far; the scheduler was asked for one
\* token more.
OfRequest(r) ==
  /\ r \in [tokens : Seq(Token), prompt_len : Nat, max_new : Nat]
  /\ 0 < r.prompt_len /\ r.prompt_len <= Len(r.tokens)

RequestsInv ==
  /\ DOMAIN requests \subseteq 1 .. next_id - 1
  /\ \A id \in DOMAIN requests :
       /\ OfRequest(requests[id])
       /\ target[id] = requests[id].prompt_len + requests[id].max_new + 1
       /\ id \notin ended => Len(requests[id].tokens) < requests[id].prompt_len + requests[id].max_new

\* The sequences of the scheduler, the one between its batch and its queue
\* included.
Known(id) ==
  \/ \E i \in DOMAIN running : running[i].id = id
  \/ \E j \in DOMAIN waiting : waiting[j].id = id
  \/ Moving /\ cur.id = id

\* The scheduler has a slot for the token that id samples in this step.
Ahead(id) ==
  \/ epc = "scheduling" /\ pc = "idle"
  \/ epc = "scheduling" /\ pc \in {"decode", "preempt"} /\ ~In(id, todo)
  \/ epc \in {"writing", "attending", "sampling"}

Length(id) == Len(requests[id].tokens)

MatchInv ==
  /\ \A id \in SeqId : id \in DOMAIN requests <=> Known(id)
  /\ \A j \in DOMAIN waiting : waiting[j].context_len = Length(waiting[j].id)
  /\ \A i \in DOMAIN running :
       running[i].num_tokens = IF Ahead(running[i].id) THEN Length(running[i].id) + 1
                                                       ELSE Length(running[i].id)
  /\ Moving => cur.num_tokens = Length(cur.id)

\* The same after the step.
KnownNext(id) ==
  \/ \E i \in DOMAIN running' : running'[i].id = id
  \/ \E j \in DOMAIN waiting' : waiting'[j].id = id
  \/ pc' \in {"build", "register", "preempt"} /\ cur'.id = id

AheadNext(id) ==
  \/ epc' = "scheduling" /\ pc' = "idle"
  \/ epc' = "scheduling" /\ pc' \in {"decode", "preempt"} /\ ~In(id, todo')
  \/ epc' \in {"writing", "attending", "sampling"}

LengthNext(id) == Len(requests'[id].tokens)

MatchNext ==
  /\ \A id \in SeqId : id \in DOMAIN requests' <=> KnownNext(id)
  /\ \A j \in DOMAIN waiting' : waiting'[j].context_len = LengthNext(waiting'[j].id)
  /\ \A i \in DOMAIN running' :
       running'[i].num_tokens = IF AheadNext(running'[i].id) THEN LengthNext(running'[i].id) + 1
                                                             ELSE LengthNext(running'[i].id)
  /\ pc' \in {"build", "register", "preempt"} => cur'.num_tokens = LengthNext(cur'.id)

LEMMA MatchPrimed == MatchNext => MatchInv'
<1>1. ASSUME NEW id PROVE KnownNext(id) <=> Known(id)'
  BY DEF Known, KnownNext, Moving
<1>2. \A i \in DOMAIN running' : AheadNext(running'[i].id) <=> Ahead(running[i].id)'
  BY DEF Ahead, AheadNext
<1>. QED  BY <1>1, <1>2 DEF MatchNext, MatchInv, Moving, Length, LengthNext

\* Nothing moves in the scheduler and nobody gets or loses a slot.
LEMMA MatchQuiet ==
  ASSUME MatchInv, UNCHANGED <<waiting, running, requests>>,
         pc' \in {"build", "register", "preempt"} <=> Moving,
         Moving => cur'.id = cur.id /\ cur'.num_tokens = cur.num_tokens,
         \A i \in DOMAIN running : AheadNext(running[i].id) <=> Ahead(running[i].id)
  PROVE  MatchInv'
<1>1. \A id : KnownNext(id) <=> Known(id)
  BY DEF Known, KnownNext
<1>2. MatchNext
  BY <1>1 DEF MatchNext, MatchInv, Moving, Length, LengthNext
<1>. QED  BY <1>2, MatchPrimed

\* RemoveAt loses one element and no other.
LEMMA RemoveAtKeeps ==
  ASSUME NEW S, NEW s \in Seq(S), NEW n \in DOMAIN s
  PROVE  \A k \in DOMAIN s \ {n} : \E j \in DOMAIN RemoveAt(s, n) : RemoveAt(s, n)[j] = s[k]
<1> DEFINE t == RemoveAt(s, n)
<1>1. /\ t \in Seq(S) /\ Len(t) = Len(s) - 1
      /\ \A j \in DOMAIN t : /\ j < n => j \in DOMAIN s /\ t[j] = s[j]
                             /\ j >= n => j + 1 \in DOMAIN s /\ t[j] = s[j + 1]
  BY RemoveAtFacts
<1>2. DOMAIN s = 1 .. Len(s) /\ DOMAIN t = 1 .. Len(s) - 1 /\ Len(s) \in Nat /\ n \in Nat
  BY <1>1
<1>. HIDE DEF t
<1>3. ASSUME NEW k \in DOMAIN s \ {n} PROVE \E j \in DOMAIN t : t[j] = s[k]
  <2>1. CASE k < n
    BY <1>1, <1>2, <2>1
  <2>2. CASE k > n
    <3>1. k - 1 \in DOMAIN t /\ k - 1 >= n /\ (k - 1) + 1 = k
      BY <1>2, <2>2
    <3>. QED  BY <1>1, <3>1
  <2>. QED  BY <1>2, <2>1, <2>2
<1>. QED  BY <1>3 DEF t

\* Who stays when one leaves the batch, or the queue.
LEMMA BatchWithout ==
  ASSUME TypeInv, Distinct, NEW n \in DOMAIN running, running' = RemoveAt(running, n)
  PROVE  /\ \A j \in DOMAIN running' : \E k \in DOMAIN running \ {n} : running'[j] = running[k]
         /\ \A id : (\E j \in DOMAIN running' : running'[j].id = id) <=>
                    ((\E k \in DOMAIN running : running[k].id = id) /\ id # running[n].id)
<1>0. running \in Seq(Running)
  BY DEF TypeInv
<1>1. \A k \in DOMAIN running \ {n} : \E j \in DOMAIN running' : running'[j] = running[k]
  BY <1>0, RemoveAtKeeps
<1>2. ASSUME NEW j \in DOMAIN running'
      PROVE  \E k \in DOMAIN running \ {n} : running'[j] = running[k]
  <2>1. /\ j < n => j \in DOMAIN running /\ running'[j] = running[j]
        /\ j >= n => j + 1 \in DOMAIN running /\ running'[j] = running[j + 1]
        /\ running' \in Seq(Running)
    BY <1>0, RemoveAtFacts
  <2>2. j \in Nat /\ n \in Nat
    BY <1>0, <2>1
  <2>. QED  BY <2>1, <2>2
<1>3. \A k \in DOMAIN running \ {n} : running[k].id # running[n].id
  BY DEF Distinct
<1>. QED  BY <1>1, <1>2, <1>3

LEMMA QueueWithout ==
  ASSUME TypeInv, Distinct, NEW n \in DOMAIN waiting, waiting' = RemoveAt(waiting, n)
  PROVE  /\ \A j \in DOMAIN waiting' : \E k \in DOMAIN waiting \ {n} : waiting'[j] = waiting[k]
         /\ \A id : (\E j \in DOMAIN waiting' : waiting'[j].id = id) <=>
                    ((\E k \in DOMAIN waiting : waiting[k].id = id) /\ id # waiting[n].id)
<1>0. waiting \in Seq(Pending)
  BY DEF TypeInv
<1>1. \A k \in DOMAIN waiting \ {n} : \E j \in DOMAIN waiting' : waiting'[j] = waiting[k]
  BY <1>0, RemoveAtKeeps
<1>2. ASSUME NEW j \in DOMAIN waiting'
      PROVE  \E k \in DOMAIN waiting \ {n} : waiting'[j] = waiting[k]
  <2>1. /\ j < n => j \in DOMAIN waiting /\ waiting'[j] = waiting[j]
        /\ j >= n => j + 1 \in DOMAIN waiting /\ waiting'[j] = waiting[j + 1]
        /\ waiting' \in Seq(Pending)
    BY <1>0, RemoveAtFacts
  <2>2. j \in Nat /\ n \in Nat
    BY <1>0, <2>1
  <2>. QED  BY <2>1, <2>2
<1>3. \A k \in DOMAIN waiting \ {n} : waiting[k].id # waiting[n].id
  BY DEF Distinct
<1>. QED  BY <1>1, <1>2, <1>3

-----------------------------------------------------------------------------
(* The scheduler's own steps.                                              *)

LEMMA RequestFacts ==
  ASSUME RequestsInv, NEW id \in DOMAIN requests
  PROVE  /\ requests[id].tokens \in Seq(Token) /\ Length(id) \in Nat \ {0}
         /\ requests[id].prompt_len \in Nat /\ requests[id].max_new \in Nat
         /\ id \notin ended => Length(id) < requests[id].prompt_len + requests[id].max_new
         /\ target[id] = requests[id].prompt_len + requests[id].max_new + 1
<1>1. OfRequest(requests[id])
  BY DEF RequestsInv
<1>2. requests[id].tokens \in Seq(Token) /\ Len(requests[id].tokens) \in Nat
  BY <1>1 DEF OfRequest
<1>3. requests[id].prompt_len \in Nat /\ requests[id].max_new \in Nat
      /\ 0 < requests[id].prompt_len /\ requests[id].prompt_len <= Len(requests[id].tokens)
  BY <1>1 DEF OfRequest
<1>4. Len(requests[id].tokens) # 0
  BY <1>2, <1>3
<1>. QED  BY <1>2, <1>3, <1>4 DEF RequestsInv, Length

LEMMA BatchRequests ==
  ASSUME TypeInv, MatchInv, NEW i \in DOMAIN running
  PROVE  running[i].id \in SeqId /\ running[i].id \in DOMAIN requests
<1>1. running[i].id \in SeqId
  BY TableTypes
<1>. QED  BY <1>1 DEF MatchInv, Known

\* The engine's budget is used up before the scheduler's.
LEMMA NeverRetires ==
  ASSUME DrivenInv, EnginePhase, RequestsInv, MatchInv, NEW i \in DOMAIN running, Retire(i)
  PROVE  FALSE
<1> DEFINE s == running[i]
<1>. TypeInv /\ TokensInv
  BY DEF DrivenInv, BatchInv, SchedInv
<1>1. pc = "decode" /\ todo = <<>> /\ s.generated >= s.max_new
  BY DEF Retire, Finished
<1>2. epc = "scheduling" /\ ended = {}
  BY <1>1 DEF EnginePhase
<1>3. Ahead(s.id)
  BY <1>1, <1>2 DEF Ahead, In
<1>4. s.id \in DOMAIN requests
  BY BatchRequests
<1>5. /\ s.num_tokens = Length(s.id) + 1
      /\ s.num_tokens + s.max_new = target[s.id] + s.generated
  BY <1>3 DEF MatchInv, TokensInv, Promised
<1>6. s \in Running
  BY TableFacts DEF TypeInv
<1>7. s.num_tokens \in Nat /\ s.max_new \in Nat /\ s.generated \in Nat
  BY <1>6, RunningFacts DEF Running
<1>8. PICK l, p, m \in Nat : /\ l = Length(s.id) /\ l < p + m /\ target[s.id] = p + m + 1
  BY <1>2, <1>4, RequestFacts
<1>9. PICK a, b, c \in Nat : a = s.num_tokens /\ b = s.max_new /\ c = s.generated
  BY <1>7
<1>10. c >= b /\ a = l + 1 /\ a + b = (p + m + 1) + c
  BY <1>1, <1>5, <1>8, <1>9
<1>. QED  BY <1>8, <1>9, <1>10

\* The head of the queue is on its way to the batch.
LEMMA MatchAdmit ==
  ASSUME DrivenInv, EnginePhase, MatchInv, InScheduler, AdmitNext
  PROVE  MatchInv'
<1>. TypeInv
  BY DEF DrivenInv, BatchInv, SchedInv
<1>1. /\ pc = "admit" /\ pc' = "build" /\ waiting # <<>> /\ waiting' = Tail(waiting)
      /\ UNCHANGED <<running, requests, epc>>
      /\ cur'.id = Head(waiting).id /\ cur'.num_tokens = Head(waiting).context_len
  BY DEF AdmitNext, InScheduler
<1>2. epc = "scheduling"
  BY <1>1 DEF EnginePhase
<1>3. \A id : ~Ahead(id) /\ ~AheadNext(id)
  BY <1>1, <1>2 DEF Ahead, AheadNext
<1>4. /\ 1 \in DOMAIN waiting /\ Head(waiting) = waiting[1]
      /\ \A j \in DOMAIN waiting' : j + 1 \in DOMAIN waiting /\ waiting'[j] = waiting[j + 1]
      /\ \A k \in DOMAIN waiting : k = 1 \/ (k - 1 \in DOMAIN waiting' /\ waiting'[k - 1] = waiting[k])
  <2>1. waiting \in Seq(Pending)
    BY DEF TypeInv
  <2>2. PICK s \in Seq(Pending) : s = waiting
    BY <2>1
  <2>3. \A k \in DOMAIN s : k = 1 \/ (k - 1 \in DOMAIN Tail(s) /\ Tail(s)[k - 1] = s[k])
    BY <1>1, <2>2
  <2>. QED  BY <1>1, <2>1, <2>2, <2>3, TailOrigin
<1>5. \A id : KnownNext(id) <=> Known(id)
  <2>1. ASSUME NEW id
        PROVE  (\E j \in DOMAIN waiting : waiting[j].id = id) <=>
               (cur'.id = id \/ \E j \in DOMAIN waiting' : waiting'[j].id = id)
    <3>1. ASSUME NEW j \in DOMAIN waiting, waiting[j].id = id, cur'.id # id
          PROVE  \E k \in DOMAIN waiting' : waiting'[k].id = id
      <4>1. j # 1
        BY <1>1, <1>4, <3>1
      <4>. QED  BY <1>4, <3>1, <4>1
    <3>2. ASSUME NEW j \in DOMAIN waiting', waiting'[j].id = id
          PROVE  \E k \in DOMAIN waiting : waiting[k].id = id
      BY <1>4, <3>2
    <3>. QED  BY <1>1, <1>4, <3>1, <3>2
  <2>. QED  BY <1>1, <2>1 DEF Known, KnownNext, Moving
<1>6. MatchNext
  BY <1>1, <1>3, <1>4, <1>5 DEF MatchNext, MatchInv, Length, LengthNext
<1>. QED  BY <1>6, MatchPrimed

LEMMA CurInBatch ==
  ASSUME SchedInv, Moving
  PROVE  cur \in Running
BY DEF SchedInv, TypeInv, Distinct, Running, RunningWith, Held, Moving

LEMMA MatchJoin ==
  ASSUME DrivenInv, EnginePhase, MatchInv, InScheduler, RegisterEnd
  PROVE  MatchInv'
<1>. SchedInv /\ TypeInv
  BY DEF DrivenInv, BatchInv, SchedInv
<1>1. /\ pc = "register" /\ pc' = "admit" /\ running' = Append(running, cur)
      /\ UNCHANGED <<waiting, requests, epc>>
  BY DEF RegisterEnd, InScheduler
<1>2. epc = "scheduling"
  BY <1>1 DEF EnginePhase
<1>3. \A id : ~Ahead(id) /\ ~AheadNext(id)
  BY <1>1, <1>2 DEF Ahead, AheadNext
<1>4. Moving /\ cur \in Running
  BY <1>1, CurInBatch DEF Moving
<1>5. /\ DOMAIN running' = DOMAIN running \cup {Len(running) + 1}
      /\ \A i \in DOMAIN running : running'[i] = running[i]
      /\ running'[Len(running) + 1] = cur
  BY <1>1, <1>4, AppendOrigin DEF TypeInv
<1>6. \A id : KnownNext(id) <=> Known(id)
  BY <1>1, <1>4, <1>5 DEF Known, KnownNext
<1>7. MatchNext
  BY <1>1, <1>3, <1>4, <1>5, <1>6 DEF MatchNext, MatchInv, Length, LengthNext
<1>. QED  BY <1>7, MatchPrimed

\* The visited sequence gets the slot of its next token.
LEMMA MatchAppend ==
  ASSUME DrivenInv, EnginePhase, RequestsInv, MatchInv, InScheduler,
         NEW i \in DOMAIN running, AppendInPlace(i) \/ AppendFresh(i)
  PROVE  MatchInv'
<1>. SchedInv /\ TypeInv
  BY DEF DrivenInv, BatchInv, SchedInv
<1>1. PICK bs \in Seq(Blocks) : Appended(i, bs, <<>>)
  <2>1. CASE AppendInPlace(i)
    BY <2>1, TableTypes DEF AppendInPlace
  <2>2. CASE AppendFresh(i)
    BY <2>2, TableFacts DEF AppendFresh
  <2>. QED  BY <2>1, <2>2
<1>2. /\ pc = "decode" /\ pc' = "decode" /\ todo # <<>> /\ running[i].id = Head(todo)
      /\ UNCHANGED <<waiting, requests, epc, cur>>
  BY DEF AppendInPlace, AppendFresh, Decoding, InScheduler
<1>3. epc = "scheduling" /\ VisitInv
  BY <1>2 DEF EnginePhase, SchedInv, BudgetInv, Stepping
<1>4. /\ ~In(Head(todo), Tail(todo)) /\ In(Head(todo), todo)
      /\ \A y : In(y, todo) <=> y = Head(todo) \/ In(y, Tail(todo))
  BY <1>2, <1>3, VisitedOnce, TailIn DEF TypeInv
<1>5. /\ DOMAIN running' = DOMAIN running
      /\ \A j \in DOMAIN running \ {i} : running'[j] = running[j]
      /\ running'[i].id = running[i].id /\ running'[i].num_tokens = running[i].num_tokens + 1
      /\ todo' = Tail(todo)
  BY <1>1, <1>2, AppendedFacts
<1>6. /\ ~Ahead(running[i].id) /\ AheadNext(running[i].id)
      /\ \A j \in DOMAIN running \ {i} : AheadNext(running[j].id) <=> Ahead(running[j].id)
  <2>1. \A j \in DOMAIN running \ {i} : running[j].id # Head(todo)
    BY <1>2 DEF SchedInv, Distinct
  <2>. QED  BY <1>2, <1>3, <1>4, <1>5, <2>1 DEF Ahead, AheadNext
<1>7. \A id : KnownNext(id) <=> Known(id)
  <2>1. \A id : (\E j \in DOMAIN running' : running'[j].id = id) <=>
                (\E j \in DOMAIN running : running[j].id = id)
    BY <1>5
  <2>. QED  BY <1>2, <2>1 DEF Known, KnownNext, Moving
<1>8. MatchNext
  BY <1>2, <1>5, <1>6, <1>7 DEF MatchNext, MatchInv, Length, LengthNext
<1>. QED  BY <1>8, MatchPrimed

\* Whoever is preempted has no slot yet: the loop visits it later.
LEMMA MatchPreempt ==
  ASSUME DrivenInv, EnginePhase, MatchInv, InScheduler, NEW i \in DOMAIN running, Preempt(i)
  PROVE  MatchInv'
<1> DEFINE n == VictimIndex
<1>. SchedInv /\ TypeInv /\ Distinct
  BY DEF DrivenInv, BatchInv, SchedInv
<1>1. /\ pc = "decode" /\ pc' = "preempt" /\ running' = RemoveAt(running, n) /\ cur' = running[n]
      /\ UNCHANGED <<waiting, requests, epc, todo>>
  BY DEF Preempt, Decoding, InScheduler
<1>2. n \in DOMAIN running /\ In(running[n].id, todo)
  BY VictimFacts, VictimToVisit
<1>3. epc = "scheduling"
  BY <1>1 DEF EnginePhase
<1>4. ~Ahead(running[n].id) /\ \A id : AheadNext(id) <=> Ahead(id)
  BY <1>1, <1>2, <1>3 DEF Ahead, AheadNext
<1>. HIDE DEF n
<1>5. /\ \A j \in DOMAIN running' : \E k \in DOMAIN running \ {n} : running'[j] = running[k]
      /\ \A id : (\E j \in DOMAIN running' : running'[j].id = id) <=>
                 ((\E k \in DOMAIN running : running[k].id = id) /\ id # running[n].id)
  BY <1>1, <1>2, BatchWithout
<1>6. \A id : KnownNext(id) <=> Known(id)
  BY <1>1, <1>2, <1>5 DEF Known, KnownNext, Moving
<1>7. MatchNext
  BY <1>1, <1>2, <1>4, <1>5, <1>6 DEF MatchNext, MatchInv, Length, LengthNext
<1>. QED  BY <1>7, MatchPrimed

LEMMA MatchRequeue ==
  ASSUME DrivenInv, EnginePhase, MatchInv, InScheduler, PreemptEnd
  PROVE  MatchInv'
<1>. SchedInv /\ TypeInv
  BY DEF DrivenInv, BatchInv, SchedInv
<1>1. /\ pc = "preempt" /\ pc' = "decode" /\ waiting' = <<Requeued(cur)>> \o waiting
      /\ UNCHANGED <<running, requests, epc, todo>>
  BY DEF PreemptEnd, InScheduler
<1>2. epc = "scheduling" /\ Moving
  BY <1>1 DEF EnginePhase, Moving
<1>3. \A id : AheadNext(id) <=> Ahead(id)
  BY <1>1, <1>2 DEF Ahead, AheadNext
<1> DEFINE p == Requeued(cur)
<1>4. p.id = cur.id /\ p.context_len = cur.num_tokens
  BY DEF Requeued
<1>5. waiting \in Seq(Pending) /\ waiting' = <<p>> \o waiting
  BY <1>1 DEF TypeInv
<1>. HIDE DEF p
<1>6. /\ 1 \in DOMAIN waiting' /\ waiting'[1] = p
      /\ \A k \in DOMAIN waiting : k + 1 \in DOMAIN waiting' /\ waiting'[k + 1] = waiting[k]
      /\ \A j \in DOMAIN waiting' : j = 1 \/ (j - 1 \in DOMAIN waiting /\ waiting'[j] = waiting[j - 1])
  <2>1. PICK s \in Seq(Pending) : s = waiting
    BY <1>5
  <2>2. /\ Len(<<p>> \o s) = Len(s) + 1 /\ Len(s) \in Nat /\ (<<p>> \o s)[1] = p
        /\ \A k \in 1 .. Len(s) : (<<p>> \o s)[k + 1] = s[k]
    BY <2>1
  <2>3. DOMAIN (<<p>> \o s) = 1 .. Len(s) + 1 /\ DOMAIN s = 1 .. Len(s)
    BY <2>1, <2>2
  <2>4. \A j \in 2 .. Len(s) + 1 : j - 1 \in 1 .. Len(s) /\ (j - 1) + 1 = j
    BY <2>2
  <2>. QED  BY <1>5, <2>1, <2>2, <2>3, <2>4
<1>7. \A id : KnownNext(id) <=> Known(id)
  <2>1. ASSUME NEW id
        PROVE  (\E j \in DOMAIN waiting' : waiting'[j].id = id) <=>
               (cur.id = id \/ \E j \in DOMAIN waiting : waiting[j].id = id)
    <3>1. ASSUME NEW j \in DOMAIN waiting', waiting'[j].id = id, cur.id # id
          PROVE  \E k \in DOMAIN waiting : waiting[k].id = id
      <4>1. j # 1
        BY <1>4, <1>6, <3>1
      <4>. QED  BY <1>6, <3>1, <4>1
    <3>2. ASSUME NEW j \in DOMAIN waiting, waiting[j].id = id
          PROVE  \E k \in DOMAIN waiting' : waiting'[k].id = id
      BY <1>6, <3>2
    <3>. QED  BY <1>4, <1>6, <3>1, <3>2
  <2>. QED  BY <1>1, <1>2, <2>1 DEF Known, KnownNext
<1>8. MatchNext
  BY <1>1, <1>2, <1>3, <1>4, <1>6, <1>7 DEF MatchNext, MatchInv, Length, LengthNext
<1>. QED  BY <1>8, MatchPrimed

\* The steps of the scheduler that happen under the engine.
LEMMA SchedulerSteps ==
  ASSUME DrivenInv, EnginePhase, RequestsInv, MatchInv, InScheduler
  PROVE  /\ UNCHANGED <<requests, epc, layer, ended, kv>>
         /\ pc # "idle" /\ (pc = "finish" \/ epc = "scheduling")
         /\ \/ Reserve \/ ReserveEnd \/ AdmitNext \/ AdmitEnd \/ Acquire \/ Fill \/ FillEnd
            \/ RegisterBlock \/ RegisterEnd \/ DecodeSkip
            \/ \E i \in DOMAIN running : AppendInPlace(i) \/ AppendFresh(i) \/ Preempt(i)
            \/ ReleaseBlock \/ PreemptEnd \/ ReleaseEnd \/ StepEnd
<1>1. \A i \in DOMAIN running : ~Retire(i) /\ ~CowAllocate(i)
  <2>1. \A i \in DOMAIN running : ~needs_cow(running[i])
    BY NoSharedTail DEF DrivenInv, BatchInv
  <2>. QED  BY <2>1, NeverRetires DEF CowAllocate
<1>2. ~StepBegin /\ ~CowReplace /\ ~ForkBlock /\ ~ForkEnd
  BY DEF InScheduler, StepBegin, CowReplace, ForkBlock, ForkEnd, DrivenInv, UnsharedInv
<1>3. Step /\ pc # "idle" /\ UNCHANGED <<requests, epc, layer, ended, kv>>
  BY DEF InScheduler
<1>4. pc = "finish" \/ epc = "scheduling"
  BY <1>3 DEF EnginePhase
<1>. QED  BY <1>1, <1>2, <1>3, <1>4 DEF Step

LEMMA MatchScheduler ==
  ASSUME DrivenInv, EnginePhase, RequestsInv, MatchInv, InScheduler
  PROVE  MatchInv'
<1>. SchedInv /\ TypeInv
  BY DEF DrivenInv, BatchInv, SchedInv
<1>1. CASE AdmitNext \/ RegisterEnd \/ PreemptEnd
  BY <1>1, MatchAdmit, MatchJoin, MatchRequeue
<1>2. CASE \E i \in DOMAIN running : AppendInPlace(i) \/ AppendFresh(i) \/ Preempt(i)
  BY <1>2, MatchAppend, MatchPreempt
<1>3. UNCHANGED <<requests, epc>> /\ pc # "idle" /\ (pc = "finish" \/ epc = "scheduling")
  BY SchedulerSteps
<1>4. CASE Reserve \/ ReserveEnd \/ AdmitEnd \/ StepEnd
  <2>1. UNCHANGED <<waiting, running, cur>>
    BY <1>4 DEF Reserve, ReserveEnd, AdmitEnd, StepEnd
  <2>2. pc \notin {"build", "register", "preempt"} /\ pc' \notin {"build", "register", "preempt"}
    BY <1>4 DEF Reserve, ReserveEnd, AdmitEnd, StepEnd
  <2>3. epc = "scheduling"
    BY <1>3, <1>4 DEF Reserve, ReserveEnd, AdmitEnd, StepEnd
  <2>4. \A i \in DOMAIN running : AheadNext(running[i].id) <=> Ahead(running[i].id)
    <3>1. CASE Reserve \/ ReserveEnd
      BY <1>3, <2>3, <3>1 DEF Ahead, AheadNext, Reserve, ReserveEnd
    <3>2. CASE AdmitEnd
      <4>1. pc = "admit" /\ pc' = "decode" /\ todo' = Ids(running)
        BY <3>2 DEF AdmitEnd
      <4>2. \A i \in DOMAIN running : i \in DOMAIN Ids(running) /\ Ids(running)[i] = running[i].id
        BY DEF Ids
      <4>3. \A i \in DOMAIN running : In(running[i].id, todo')
        BY <4>1, <4>2 DEF In
      <4>. QED  BY <1>3, <2>3, <4>1, <4>3 DEF Ahead, AheadNext
    <3>3. CASE StepEnd
      <4>1. pc = "decode" /\ pc' = "idle" /\ todo = <<>>
        BY <3>3 DEF StepEnd
      <4>2. \A id : ~In(id, todo)
        BY <4>1 DEF In
      <4>. QED  BY <1>3, <2>3, <4>1, <4>2 DEF Ahead, AheadNext
    <3>. QED  BY <1>4, <3>1, <3>2, <3>3
  <2>. QED  BY <1>3, <2>1, <2>2, <2>4, MatchQuiet DEF Moving
<1>5. CASE Acquire \/ Fill \/ ReleaseBlock
  <2>1. /\ cur'.id = cur.id /\ cur'.num_tokens = cur.num_tokens
        /\ UNCHANGED <<waiting, running, pc, todo>>
    BY <1>5, CurStep
  <2>2. \A id : AheadNext(id) <=> Ahead(id)
    BY <1>3, <2>1 DEF Ahead, AheadNext
  <2>. QED  BY <1>3, <2>1, <2>2, MatchQuiet DEF Moving
<1>6. CASE FillEnd \/ RegisterBlock
  <2>1. /\ UNCHANGED <<waiting, running, cur, todo>>
        /\ pc \in {"build", "register"} /\ pc' \in {"build", "register"}
    BY <1>6 DEF FillEnd, RegisterBlock
  <2>2. \A id : AheadNext(id) <=> Ahead(id)
    BY <1>3, <2>1 DEF Ahead, AheadNext
  <2>. QED  BY <1>3, <2>1, <2>2, MatchQuiet DEF Moving
<1>7. CASE DecodeSkip
  <2>1. /\ UNCHANGED <<waiting, running, cur, pc>> /\ pc = "decode"
        /\ todo # <<>> /\ todo' = Tail(todo) /\ \A i \in DOMAIN running : running[i].id # Head(todo)
    BY <1>7 DEF DecodeSkip, IsRunning
  <2>2. \A y : In(y, todo) <=> y = Head(todo) \/ In(y, Tail(todo))
    BY <2>1, TailIn DEF TypeInv
  <2>3. \A i \in DOMAIN running : AheadNext(running[i].id) <=> Ahead(running[i].id)
    BY <1>3, <2>1, <2>2 DEF Ahead, AheadNext
  <2>. QED  BY <1>3, <2>1, <2>3, MatchQuiet DEF Moving
<1>8. CASE ReleaseEnd
  <2>1. /\ UNCHANGED <<waiting, running, todo>> /\ pc \in {"retire", "finish"}
        /\ pc' = IF pc = "retire" THEN "decode" ELSE "idle"
    BY <1>8 DEF ReleaseEnd
  <2>2. pc = "finish" /\ epc \in {"idle", "retiring"}
    BY <2>1 DEF EnginePhase
  <2>3. \A id : AheadNext(id) <=> Ahead(id)
    BY <1>3, <2>1, <2>2 DEF Ahead, AheadNext
  <2>. QED  BY <1>3, <2>1, <2>2, <2>3, MatchQuiet DEF Moving
<1>. QED  BY <1>1, <1>2, <1>4, <1>5, <1>6, <1>7, <1>8, SchedulerSteps

LEMMA PhaseScheduler ==
  ASSUME DrivenInv, EnginePhase, RequestsInv, MatchInv, InScheduler
  PROVE  EnginePhase'
<1>1. /\ UNCHANGED <<requests, epc, layer, ended>>
      /\ pc # "idle" /\ (pc = "finish" \/ epc = "scheduling")
  BY SchedulerSteps
<1>2. CASE epc = "scheduling"
  <2>1. pc' \in {"idle", "reserve", "admit", "build", "register", "decode", "preempt"}
    BY <1>2, SchedulerSteps DEF EnginePhase, Reserve, ReserveEnd, AdmitNext, AdmitEnd, Acquire,
       Fill, FillEnd, RegisterBlock, RegisterEnd, DecodeSkip, AppendInPlace, AppendFresh,
       Preempt, ReleaseBlock, PreemptEnd, ReleaseEnd, StepEnd, Decoding
  <2>. QED  BY <1>1, <1>2, <2>1 DEF EnginePhase
<1>3. CASE pc = "finish"
  <2>1. ReleaseBlock \/ ReleaseEnd
    BY <1>3, SchedulerSteps DEF Reserve, ReserveEnd, AdmitNext, AdmitEnd, Acquire,
       Fill, FillEnd, RegisterBlock, RegisterEnd, DecodeSkip, AppendInPlace, AppendFresh,
       Preempt, PreemptEnd, StepEnd, Decoding
  <2>2. UNCHANGED running /\ pc' \in {"finish", "idle"}
    BY <1>3, <2>1 DEF ReleaseBlock, ReleaseEnd
  <2>3. epc \in {"idle", "retiring"}
    BY <1>3 DEF EnginePhase
  <2>. QED  BY <1>1, <2>2, <2>3 DEF EnginePhase, IsRunning
<1>. QED  BY <1>1, <1>2, <1>3

\* The scheduler gives no ids and changes no targets of its own accord.
LEMMA SchedulerGivesNoId ==
  ASSUME DrivenInv, EnginePhase, RequestsInv, MatchInv, InScheduler
  PROVE  UNCHANGED <<next_id, target>>
BY SchedulerSteps DEF Reserve, ReserveEnd, AdmitNext, AdmitEnd, Acquire, Fill, FillEnd,
   RegisterBlock, RegisterEnd, DecodeSkip, AppendInPlace, AppendFresh, Preempt, ReleaseBlock,
   PreemptEnd, ReleaseEnd, StepEnd, histVars

LEMMA DecidesScheduler ==
  ASSUME DrivenInv, EnginePhase, RequestsInv, MatchInv, EngineDecides, "finished" \in DOMAIN outcome,
         InScheduler
  PROVE  EngineDecides' /\ "finished" \in DOMAIN outcome'
<1>1. CASE \E i \in DOMAIN running : AppendInPlace(i) \/ AppendFresh(i) \/ Preempt(i)
  BY <1>1 DEF AppendInPlace, AppendFresh, Preempt, Appended, EngineDecides
<1>2. CASE RegisterEnd
  BY <1>2 DEF RegisterEnd, EngineDecides
<1>3. CASE \/ Reserve \/ ReserveEnd \/ AdmitNext \/ AdmitEnd \/ Acquire \/ Fill \/ FillEnd
           \/ RegisterBlock \/ DecodeSkip \/ ReleaseBlock \/ PreemptEnd \/ ReleaseEnd \/ StepEnd
  BY <1>3 DEF Reserve, ReserveEnd, AdmitNext, AdmitEnd, Acquire, Fill, FillEnd, RegisterBlock,
     DecodeSkip, ReleaseBlock, PreemptEnd, ReleaseEnd, StepEnd, EngineDecides
<1>. QED  BY <1>1, <1>2, <1>3, SchedulerSteps

-----------------------------------------------------------------------------
(* The engine's own steps.                                                 *)

LEMMA QueueTypes ==
  ASSUME TypeInv, NEW j \in DOMAIN waiting
  PROVE  /\ waiting[j] \in Pending /\ waiting[j].id \in SeqId /\ waiting[j].context_len \in Nat
         /\ waiting[j].max_new \in Nat /\ waiting[j].prompt \in Seq(Chunk)
<1>1. waiting \in Seq(Pending)
  BY DEF TypeInv
<1>2. waiting[j] \in Pending
  BY <1>1
<1>. QED  BY <1>2 DEF Pending

LEMMA AddFacts ==
  ASSUME DrivenInv, RequestsInv, NEW p \in Prompts, AddRequest(p)
  PROVE  /\ epc = "idle" /\ pc = "idle" /\ next_id \in SeqId /\ next_id \notin DOMAIN requests
         /\ DOMAIN requests' = DOMAIN requests \cup {next_id}
         /\ \A id \in DOMAIN requests : requests'[id] = requests[id]
         /\ requests'[next_id] \in [tokens : Seq(Token), prompt_len : Nat, max_new : Nat]
         /\ requests'[next_id].tokens = p.tokens
         /\ requests'[next_id].prompt_len = Len(p.tokens)
         /\ requests'[next_id].max_new = p.max_new
         /\ next_id' = next_id + 1
         /\ target'[next_id] = Len(p.tokens) + p.max_new + 1
         /\ \A id \in 1 .. next_id - 1 : target'[id] = target[id]
         /\ UNCHANGED <<epc, pc, running, outcome, todo, cur, layer, ended, kv>>
         /\ DOMAIN waiting' = DOMAIN waiting \cup {Len(waiting) + 1}
         /\ \A j \in DOMAIN waiting : waiting'[j] = waiting[j]
         /\ waiting'[Len(waiting) + 1].id = next_id
         /\ waiting'[Len(waiting) + 1].context_len = Len(p.tokens)
         /\ waiting'[Len(waiting) + 1].prompt = Chunks(p.tokens)
<1>. TypeInv /\ TypeInv'
  BY EngineStepIsStep, TypesKept DEF DrivenInv, BatchInv, SchedInv, EngineNext
<1> DEFINE r == Asked(p)
<1>1. /\ r.len = Len(p.tokens) /\ r.max_new = p.max_new + 1 /\ r.prompt = Chunks(p.tokens)
      /\ Len(p.tokens) \in Nat /\ p.max_new \in Nat
  BY AskedFacts
<1>. HIDE DEF r
<1>2. /\ epc = "idle" /\ pc = "idle" /\ NewId(r.len + r.max_new)
      /\ waiting' = Append(waiting, [id |-> next_id, context_len |-> r.len,
                                     max_new |-> r.max_new, prompt |-> r.prompt])
      /\ UNCHANGED <<epc, pc, running, outcome, todo, cur, layer, ended, kv>>
      /\ requests' = [id \in DOMAIN requests \cup {next_id} |->
                        IF id = next_id
                        THEN [tokens |-> p.tokens, prompt_len |-> Len(p.tokens),
                              max_new |-> p.max_new]
                        ELSE requests[id]]
  BY DEF AddRequest, Enqueue, Idle, callVars, r
<1>3. /\ next_id \in SeqId /\ next_id' = next_id + 1
      /\ target'[next_id] = r.len + r.max_new
      /\ \A id \in 1 .. next_id - 1 : target'[id] = target[id]
  <2>1. r.len + r.max_new \in Nat
    BY <1>1
  <2>. QED  BY <1>2, <2>1, NewIdFacts, NewTarget
<1>4. next_id \notin DOMAIN requests
  <2>1. next_id \notin 1 .. next_id - 1
    BY DEF TypeInv
  <2>. QED  BY <2>1 DEF RequestsInv
<1>5. /\ DOMAIN requests' = DOMAIN requests \cup {next_id}
      /\ \A id \in DOMAIN requests : requests'[id] = requests[id]
      /\ requests'[next_id] = [tokens |-> p.tokens, prompt_len |-> Len(p.tokens),
                               max_new |-> p.max_new]
  BY <1>2, <1>4
<1>6. /\ DOMAIN waiting' = DOMAIN waiting \cup {Len(waiting) + 1}
      /\ \A j \in DOMAIN waiting : waiting'[j] = waiting[j]
      /\ waiting'[Len(waiting) + 1] = [id |-> next_id, context_len |-> r.len,
                                       max_new |-> r.max_new, prompt |-> r.prompt]
  <2>1. waiting \in Seq(Pending)
    BY DEF TypeInv
  <2>. QED  BY <1>2, <2>1
<1>7. requests'[next_id] \in [tokens : Seq(Token), prompt_len : Nat, max_new : Nat]
  BY <1>1, <1>5, AskedFacts
<1>8. /\ waiting'[Len(waiting) + 1].id = next_id
      /\ waiting'[Len(waiting) + 1].context_len = Len(p.tokens)
      /\ waiting'[Len(waiting) + 1].prompt = Chunks(p.tokens)
  BY <1>1, <1>6
<1>9. /\ requests'[next_id].tokens = p.tokens /\ requests'[next_id].prompt_len = Len(p.tokens)
      /\ requests'[next_id].max_new = p.max_new
  BY <1>5
<1>10. target'[next_id] = Len(p.tokens) + p.max_new + 1
  BY <1>1, <1>3
<1>11. /\ DOMAIN waiting' = DOMAIN waiting \cup {Len(waiting) + 1}
       /\ \A j \in DOMAIN waiting : waiting'[j] = waiting[j]
  BY <1>6
<1>12. /\ DOMAIN requests' = DOMAIN requests \cup {next_id}
       /\ \A id \in DOMAIN requests : requests'[id] = requests[id]
  BY <1>5
<1>13. /\ epc = "idle" /\ pc = "idle"
       /\ UNCHANGED <<epc, pc, running, outcome, todo, cur, layer, ended, kv>>
  BY <1>2
<1>. QED  BY <1>3, <1>4, <1>7, <1>8, <1>9, <1>10, <1>11, <1>12, <1>13

LEMMA RequestsAdd ==
  ASSUME DrivenInv, RequestsInv, NEW p \in Prompts, AddRequest(p)
  PROVE  RequestsInv'
<1>1. next_id \in Nat
  BY DEF DrivenInv, BatchInv, SchedInv, TypeInv
<1>2. DOMAIN requests' \subseteq 1 .. next_id' - 1
  BY <1>1, AddFacts DEF RequestsInv, SeqId
<1>3. ASSUME NEW id \in DOMAIN requests
      PROVE  /\ OfRequest(requests'[id])
             /\ target'[id] = requests'[id].prompt_len + requests'[id].max_new + 1
             /\ id \notin ended' =>
                  Len(requests'[id].tokens) < requests'[id].prompt_len + requests'[id].max_new
  BY <1>3, AddFacts DEF RequestsInv
<1>4. /\ OfRequest(requests'[next_id])
      /\ target'[next_id] = requests'[next_id].prompt_len + requests'[next_id].max_new + 1
      /\ Len(requests'[next_id].tokens) < requests'[next_id].prompt_len + requests'[next_id].max_new
  <2>1. /\ requests'[next_id].tokens = p.tokens /\ requests'[next_id].prompt_len = Len(p.tokens)
        /\ requests'[next_id].max_new = p.max_new
        /\ target'[next_id] = Len(p.tokens) + p.max_new + 1
    BY AddFacts
  <2>2. p.tokens \in Seq(Token) /\ Len(p.tokens) \in Nat \ {0} /\ p.max_new \in Nat \ {0}
    BY AskedFacts
  <2>3. Len(p.tokens) < Len(p.tokens) + p.max_new /\ 0 < Len(p.tokens) /\ Len(p.tokens) <= Len(p.tokens)
    BY <2>2
  <2>4. requests'[next_id] \in [tokens : Seq(Token), prompt_len : Nat, max_new : Nat]
    BY AddFacts
  <2>. QED  BY <2>1, <2>2, <2>3, <2>4 DEF OfRequest
<1>. QED  BY <1>2, <1>3, <1>4, AddFacts DEF RequestsInv

LEMMA MatchAdd ==
  ASSUME DrivenInv, RequestsInv, MatchInv, NEW p \in Prompts, AddRequest(p)
  PROVE  MatchInv'
<1>1. /\ \A id : AheadNext(id) <=> Ahead(id)
      /\ pc' = "idle" /\ pc = "idle"
  BY AddFacts DEF Ahead, AheadNext
<1>2. \A id : KnownNext(id) <=> Known(id) \/ id = next_id
  BY <1>1, AddFacts DEF Known, KnownNext, Moving
<1>3. \A i \in DOMAIN running : running[i].id \in DOMAIN requests
  BY BatchRequests DEF DrivenInv, BatchInv, SchedInv
<1>4. \A j \in DOMAIN waiting : waiting[j].id \in DOMAIN requests
  <2>1. \A j \in DOMAIN waiting : waiting[j].id \in SeqId
    BY QueueTypes DEF DrivenInv, BatchInv, SchedInv
  <2>. QED  BY <2>1 DEF MatchInv, Known
<1>5. LengthNext(next_id) = Len(p.tokens) /\ \A id \in DOMAIN requests : LengthNext(id) = Length(id)
  BY AddFacts DEF Length, LengthNext
<1>6. MatchNext
  BY <1>1, <1>2, <1>3, <1>4, <1>5, AddFacts DEF MatchNext, MatchInv
<1>. QED  BY <1>6, MatchPrimed

\* A sequence leaves both at once.
LEMMA MatchFinish ==
  ASSUME DrivenInv, RequestsInv, MatchInv, epc \in {"idle", "retiring"}, UNCHANGED epc,
         NEW id \in DOMAIN requests, FinishSequence(id), requests' = Without(id)
  PROVE  MatchInv'
<1>. TypeInv /\ Distinct
  BY DEF DrivenInv, BatchInv, SchedInv
<1>1. pc = "idle" /\ pc' \in {"idle", "finish"} /\ \A x : ~Ahead(x) /\ ~AheadNext(x)
  BY DEF FinishSequence, FinishRunning, FinishWaiting, Ahead, AheadNext, callVars
<1>2. \A x : KnownNext(x) <=> Known(x) /\ x # id
  <2>1. ASSUME NEW n \in DOMAIN running, running[n].id = id, FinishRunning(n)
        PROVE  \A x : KnownNext(x) <=> Known(x) /\ x # id
    <3>1. running' = RemoveAt(running, n) /\ UNCHANGED waiting
      BY <2>1 DEF FinishRunning
    <3>2. \A j \in DOMAIN waiting : waiting[j].id # id
      BY <2>1 DEF Distinct
    <3>3. \A x : (\E j \in DOMAIN running' : running'[j].id = x) <=>
                  ((\E k \in DOMAIN running : running[k].id = x) /\ x # id)
      BY <2>1, <3>1, BatchWithout
    <3>. QED  BY <1>1, <3>1, <3>2, <3>3 DEF Known, KnownNext, Moving
  <2>2. ASSUME NEW n \in DOMAIN waiting, waiting[n].id = id, FinishWaiting(n)
        PROVE  \A x : KnownNext(x) <=> Known(x) /\ x # id
    <3>1. waiting' = RemoveAt(waiting, n) /\ UNCHANGED running
      BY <2>2 DEF FinishWaiting
    <3>2. \A j \in DOMAIN running : running[j].id # id
      BY <2>2 DEF Distinct
    <3>. QED  BY <1>1, <2>2, <3>1, <3>2, QueueWithout DEF Known, KnownNext, Moving
  <2>. QED  BY <2>1, <2>2 DEF FinishSequence
<1>3. /\ \A j \in DOMAIN running' : \E k \in DOMAIN running : running'[j] = running[k]
      /\ \A j \in DOMAIN waiting' : \E k \in DOMAIN waiting : waiting'[j] = waiting[k]
  BY BatchWithout, QueueWithout DEF FinishSequence, FinishRunning, FinishWaiting
<1>4. /\ DOMAIN requests' = DOMAIN requests \ {id}
      /\ \A x \in DOMAIN requests \ {id} : requests'[x] = requests[x] /\ LengthNext(x) = Length(x)
  BY DEF Without, Length, LengthNext
<1>5. \A x \in SeqId : x \in DOMAIN requests' <=> KnownNext(x)
  BY <1>2, <1>4 DEF MatchInv
<1>6. /\ \A j \in DOMAIN running' : KnownNext(running'[j].id) /\ running'[j].id \in SeqId
      /\ \A j \in DOMAIN waiting' : KnownNext(waiting'[j].id) /\ waiting'[j].id \in SeqId
  <2>1. /\ \A j \in DOMAIN waiting : waiting[j].id \in SeqId
        /\ \A j \in DOMAIN running : running[j].id \in SeqId
    BY TableTypes, QueueTypes
  <2>. QED  BY <1>3, <2>1 DEF KnownNext
<1>7. /\ \A j \in DOMAIN running' : LengthNext(running'[j].id) = Length(running'[j].id)
      /\ \A j \in DOMAIN waiting' : LengthNext(waiting'[j].id) = Length(waiting'[j].id)
  BY <1>4, <1>5, <1>6
<1>8. MatchNext
  BY <1>1, <1>3, <1>5, <1>7 DEF MatchNext, MatchInv
<1>. QED  BY <1>8, MatchPrimed

LEMMA FinishedFacts ==
  ASSUME TypeInv, Distinct, NEW id, FinishSequence(id)
  PROVE  /\ pc = "idle" /\ pc' \in {"idle", "finish"} /\ UNCHANGED <<next_id, target, outcome>>
         /\ \A x : IsRunning(x) /\ x # id => IsRunning(x)'
         /\ \A j \in DOMAIN running' : \E k \in DOMAIN running : running'[j] = running[k]
         /\ \A j \in DOMAIN waiting' : \E k \in DOMAIN waiting : waiting'[j] = waiting[k]
<1>1. pc = "idle" /\ pc' \in {"idle", "finish"} /\ UNCHANGED <<next_id, target, outcome>>
  BY DEF FinishSequence, FinishRunning, FinishWaiting, callVars, histVars
<1>2. ASSUME NEW n \in DOMAIN running, running[n].id = id, FinishRunning(n)
      PROVE  /\ \A x : IsRunning(x) /\ x # id => IsRunning(x)'
             /\ \A j \in DOMAIN running' : \E k \in DOMAIN running : running'[j] = running[k]
             /\ \A j \in DOMAIN waiting' : \E k \in DOMAIN waiting : waiting'[j] = waiting[k]
  <2>1. running' = RemoveAt(running, n) /\ UNCHANGED waiting
    BY <1>2 DEF FinishRunning
  <2>2. /\ \A j \in DOMAIN running' : \E k \in DOMAIN running \ {n} : running'[j] = running[k]
        /\ \A x : (\E j \in DOMAIN running' : running'[j].id = x) <=>
                  ((\E k \in DOMAIN running : running[k].id = x) /\ x # id)
    BY <1>2, <2>1, BatchWithout
  <2>. QED  BY <2>1, <2>2 DEF IsRunning
<1>3. ASSUME NEW n \in DOMAIN waiting, waiting[n].id = id, FinishWaiting(n)
      PROVE  /\ \A x : IsRunning(x) /\ x # id => IsRunning(x)'
             /\ \A j \in DOMAIN running' : \E k \in DOMAIN running : running'[j] = running[k]
             /\ \A j \in DOMAIN waiting' : \E k \in DOMAIN waiting : waiting'[j] = waiting[k]
  <2>1. waiting' = RemoveAt(waiting, n) /\ UNCHANGED running
    BY <1>3 DEF FinishWaiting
  <2>2. \A j \in DOMAIN waiting' : \E k \in DOMAIN waiting \ {n} : waiting'[j] = waiting[k]
    BY <1>3, <2>1, QueueWithout
  <2>. QED  BY <2>1, <2>2 DEF IsRunning
<1>. QED  BY <1>1, <1>2, <1>3 DEF FinishSequence

\* Between calls the scheduler has every request, so no cancellation misses.
LEMMA CancelFacts ==
  ASSUME DrivenInv, MatchInv, NEW id \in SeqId, Cancel(id)
  PROVE  /\ epc = "idle" /\ pc = "idle" /\ id \in DOMAIN requests /\ FinishSequence(id)
         /\ requests' = Without(id) /\ UNCHANGED <<epc, layer, ended, kv>>
<1>1. id \in DOMAIN requests /\ pc = "idle" /\ epc = "idle"
  BY DEF Cancel, Idle
<1>2. Known(id) /\ ~Moving
  BY <1>1 DEF MatchInv, Moving
<1>3. Scheduled(id)
  BY <1>2 DEF Known, Scheduled
<1>. QED  BY <1>1, <1>3 DEF Cancel

LEMMA RetireFacts ==
  ASSUME DrivenInv, MatchInv, RetireRequest
  PROVE  \E id \in ended :
           /\ epc = "retiring" /\ pc = "idle" /\ id \in DOMAIN requests /\ FinishSequence(id)
           /\ requests' = Without(id) /\ ended' = ended \ {id} /\ UNCHANGED <<epc, layer, kv>>
<1>1. PICK i \in DOMAIN running :
        /\ running[i].id \in ended /\ FinishSequence(running[i].id)
        /\ requests' = Without(running[i].id) /\ ended' = ended \ {running[i].id}
  BY DEF RetireRequest
<1>2. running[i].id \in DOMAIN requests
  BY BatchRequests DEF DrivenInv, BatchInv, SchedInv
<1>. QED  BY <1>1, <1>2 DEF RetireRequest

LEMMA RequestsWithout ==
  ASSUME DrivenInv, RequestsInv, NEW id \in DOMAIN requests, FinishSequence(id),
         requests' = Without(id), ended' = ended \ {id}
  PROVE  RequestsInv'
<1>1. UNCHANGED <<next_id, target>>
  BY FinishedFacts DEF DrivenInv, BatchInv, SchedInv
<1>2. /\ DOMAIN requests' = DOMAIN requests \ {id}
      /\ \A x \in DOMAIN requests \ {id} : requests'[x] = requests[x]
  BY DEF Without
<1>. QED  BY <1>1, <1>2 DEF RequestsInv

\* Every running sequence has one token more, for which it has the slot.
LEMMA SampleFacts ==
  ASSUME DrivenInv, EnginePhase, RequestsInv, MatchInv, Sample
  PROVE  /\ pc = "idle" /\ epc = "sampling" /\ epc' = "retiring" /\ ended = {}
         /\ UNCHANGED <<vars, layer, kv>>
         /\ DOMAIN requests' = DOMAIN requests
         /\ \A id \in DOMAIN requests :
              /\ requests'[id].prompt_len = requests[id].prompt_len
              /\ requests'[id].max_new = requests[id].max_new
              /\ ~IsRunning(id) => requests'[id] = requests[id]
         /\ \A i \in DOMAIN running : \E t \in Token :
              LET id == running[i].id IN
              /\ requests'[id].tokens = Append(requests[id].tokens, t)
              /\ requests'[id] \in [tokens : Seq(Token), prompt_len : Nat, max_new : Nat]
         /\ ended' = {running[i].id : i \in {j \in DOMAIN running : Stops(requests'[running[j].id])}}
<1>. TypeInv /\ Distinct
  BY DEF DrivenInv, BatchInv, SchedInv
<1>1. PICK next \in [DOMAIN running -> Token] :
        /\ requests' = [r \in DOMAIN requests |->
                          IF IsRunning(r)
                          THEN [requests[r] EXCEPT !.tokens = Append(@, next[Pos(r)])]
                          ELSE requests[r]]
        /\ ended' = {running[i].id : i \in {j \in DOMAIN running : Stops(requests'[running[j].id])}}
  BY DEF Sample
<1>2. pc = "idle" /\ epc = "sampling" /\ epc' = "retiring" /\ ended = {} /\ UNCHANGED <<vars, layer, kv>>
  BY DEF Sample, EnginePhase
<1>3. \A i \in DOMAIN running : Pos(running[i].id) \in DOMAIN running /\ IsRunning(running[i].id)
  BY DEF Pos, IsRunning
<1>4. \A i \in DOMAIN running : running[i].id \in DOMAIN requests
  BY BatchRequests
<1>5. ASSUME NEW id \in DOMAIN requests
      PROVE  /\ requests'[id].prompt_len = requests[id].prompt_len
             /\ requests'[id].max_new = requests[id].max_new
             /\ ~IsRunning(id) => requests'[id] = requests[id]
  BY <1>1
<1>6. ASSUME NEW i \in DOMAIN running
      PROVE  \E t \in Token :
               /\ requests'[running[i].id].tokens = Append(requests[running[i].id].tokens, t)
               /\ requests'[running[i].id] \in [tokens : Seq(Token), prompt_len : Nat, max_new : Nat]
  <2>1. PICK id \in DOMAIN requests : id = running[i].id /\ IsRunning(id) /\ Pos(id) \in DOMAIN running
    BY <1>3, <1>4
  <2>2. PICK t \in Token : t = next[Pos(id)]
    BY <2>1
  <2>3. PICK r \in [tokens : Seq(Token), prompt_len : Nat, max_new : Nat] : r = requests[id]
    BY DEF RequestsInv, OfRequest
  <2>4. requests'[id] = [r EXCEPT !.tokens = Append(@, t)]
    BY <1>1, <2>1, <2>2, <2>3
  <2>5. Append(r.tokens, t) \in Seq(Token)
    OBVIOUS
  <2>6. requests'[id].tokens = Append(r.tokens, t)
    BY <2>4
  <2>7. requests'[id] \in [tokens : Seq(Token), prompt_len : Nat, max_new : Nat]
    BY <2>4, <2>5
  <2>. QED  BY <2>1, <2>3, <2>6, <2>7
<1>7. DOMAIN requests' = DOMAIN requests
  BY <1>1
<1>. QED  BY <1>1, <1>2, <1>5, <1>6, <1>7

LEMMA RequestsSample ==
  ASSUME DrivenInv, EnginePhase, RequestsInv, MatchInv, Sample
  PROVE  RequestsInv'
<1>. TypeInv
  BY DEF DrivenInv, BatchInv, SchedInv
<1>1. UNCHANGED <<next_id, target>> /\ ended = {} /\ DOMAIN requests' = DOMAIN requests
  BY SampleFacts DEF vars, histVars
<1>2. ASSUME NEW id \in DOMAIN requests, ~IsRunning(id)
      PROVE  /\ OfRequest(requests'[id])
             /\ target'[id] = requests'[id].prompt_len + requests'[id].max_new + 1
             /\ Len(requests'[id].tokens) < requests'[id].prompt_len + requests'[id].max_new
  BY <1>1, <1>2, SampleFacts DEF RequestsInv
<1>3. ASSUME NEW i \in DOMAIN running
      PROVE  LET id == running[i].id IN
             /\ OfRequest(requests'[id])
             /\ target'[id] = requests'[id].prompt_len + requests'[id].max_new + 1
             /\ id \notin ended' =>
                  Len(requests'[id].tokens) < requests'[id].prompt_len + requests'[id].max_new
  <2> DEFINE id == running[i].id
  <2>1. id \in DOMAIN requests
    BY BatchRequests
  <2>2. PICK t \in Token :
          /\ requests'[id].tokens = Append(requests[id].tokens, t)
          /\ requests'[id] \in [tokens : Seq(Token), prompt_len : Nat, max_new : Nat]
    BY SampleFacts
  <2>3. /\ requests[id].tokens \in Seq(Token) /\ requests[id].prompt_len \in Nat
        /\ requests[id].max_new \in Nat /\ 0 < requests[id].prompt_len
        /\ requests[id].prompt_len <= Len(requests[id].tokens)
    BY <2>1 DEF RequestsInv, OfRequest
  <2>4. requests'[id].prompt_len = requests[id].prompt_len /\ requests'[id].max_new = requests[id].max_new
    BY <2>1, SampleFacts
  <2>5. PICK u \in Seq(Token) : u = requests[id].tokens
    BY <2>3
  <2>6. Append(u, t) \in Seq(Token) /\ Len(Append(u, t)) = Len(u) + 1 /\ Len(u) \in Nat
    BY <2>5
  <2>7. OfRequest(requests'[id])
    <3>1. PICK a, b \in Nat : a = Len(u) /\ b = requests[id].prompt_len
      BY <2>3, <2>6
    <3>2. b <= a + 1
      BY <2>3, <2>5, <3>1
    <3>. QED  BY <2>2, <2>3, <2>4, <2>5, <2>6, <3>1, <3>2 DEF OfRequest
  <2>8. id \notin ended' => ~Stops(requests'[id])
    BY SampleFacts
  <2>9. ~Stops(requests'[id]) =>
          Len(requests'[id].tokens) < requests'[id].prompt_len + requests'[id].max_new
    <3>1. PICK a, b, c \in Nat : /\ a = Len(requests'[id].tokens) /\ b = requests'[id].prompt_len
                                 /\ c = requests'[id].max_new
      BY <2>2, <2>3, <2>4, <2>5, <2>6
    <3>2. ~(a - b >= c) => a < b + c
      BY <3>1
    <3>. QED  BY <3>1, <3>2 DEF Stops, Generated
  <2>10. target'[id] = requests'[id].prompt_len + requests'[id].max_new + 1
    BY <1>1, <2>1, <2>4 DEF RequestsInv
  <2>. QED  BY <2>7, <2>8, <2>9, <2>10
<1>4. DOMAIN requests' \subseteq 1 .. next_id' - 1
  BY <1>1 DEF RequestsInv
<1>. QED  BY <1>1, <1>2, <1>3, <1>4 DEF RequestsInv, IsRunning

LEMMA MatchSample ==
  ASSUME DrivenInv, EnginePhase, RequestsInv, MatchInv, Sample
  PROVE  MatchInv'
<1>. TypeInv /\ Distinct
  BY DEF DrivenInv, BatchInv, SchedInv
<1>1. /\ UNCHANGED <<running, waiting, pc, cur, todo>> /\ pc = "idle"
      /\ epc = "sampling" /\ epc' = "retiring"
      /\ DOMAIN requests' = DOMAIN requests
  BY SampleFacts DEF vars, callVars
<1>2. (\A x : Ahead(x) /\ ~AheadNext(x)) /\ ~Moving
  BY <1>1 DEF Ahead, AheadNext, Moving
<1>3. \A x : KnownNext(x) <=> Known(x)
  BY <1>1 DEF Known, KnownNext, Moving
<1>4. ASSUME NEW i \in DOMAIN running
      PROVE  running[i].num_tokens = LengthNext(running[i].id)
  <2> DEFINE id == running[i].id
  <2>1. id \in DOMAIN requests /\ running[i].num_tokens = Length(id) + 1
    BY <1>2, BatchRequests DEF MatchInv
  <2>2. PICK t \in Token : requests'[id].tokens = Append(requests[id].tokens, t)
    BY SampleFacts
  <2>3. requests[id].tokens \in Seq(Token)
    BY <2>1, RequestFacts
  <2>4. LengthNext(id) = Length(id) + 1
    BY <2>2, <2>3 DEF Length, LengthNext
  <2>. QED  BY <2>1, <2>4
<1>5. ASSUME NEW j \in DOMAIN waiting
      PROVE  waiting[j].context_len = LengthNext(waiting[j].id)
  <2>1. waiting[j].id \in DOMAIN requests
    BY QueueTypes DEF MatchInv, Known
  <2>2. ~IsRunning(waiting[j].id)
    BY DEF IsRunning, Distinct
  <2>. QED  BY <2>1, <2>2, SampleFacts DEF MatchInv, Length, LengthNext
<1>6. MatchNext
  BY <1>1, <1>2, <1>3, <1>4, <1>5 DEF MatchNext, MatchInv, Moving
<1>. QED  BY <1>6, MatchPrimed

DecidesInv == "finished" \in DOMAIN outcome /\ EngineDecides

EngineInv == EnginePhase /\ RequestsInv /\ MatchInv /\ DecidesInv

\* A step of the engine that leaves its scheduler and its requests alone.
QuietStep ==
  \/ ScheduledNothing \/ ScheduledBatch \/ WriteLayer \/ AttendLayer \/ StepReturns
  \/ UNCHANGED engineVars

LEMMA QuietFacts ==
  ASSUME QuietStep
  PROVE  /\ UNCHANGED <<waiting, running, pc, cur, todo, outcome, next_id, target, requests, ended>>
         /\ \A i \in DOMAIN running : AheadNext(running[i].id) <=> Ahead(running[i].id)
<1>1. UNCHANGED <<vars, requests, ended>>
  BY DEF QuietStep, ScheduledNothing, ScheduledBatch, WriteLayer, AttendLayer, StepReturns, engineVars
<1>2. UNCHANGED <<waiting, running, pc, cur, todo, outcome, next_id, target>>
  BY <1>1 DEF vars, callVars, histVars
<1>3. CASE ScheduledNothing
  BY <1>1, <1>2, <1>3 DEF ScheduledNothing
<1>4. CASE ScheduledBatch \/ WriteLayer \/ AttendLayer
  <2>1. \/ epc = "scheduling" /\ pc = "idle" /\ epc' = "writing"
        \/ epc = "writing" /\ epc' = "attending"
        \/ epc = "attending" /\ epc' \in {"writing", "sampling"}
    BY <1>4 DEF ScheduledBatch, WriteLayer, AttendLayer
  <2>. QED  BY <1>1, <1>2, <2>1 DEF Ahead, AheadNext
<1>5. CASE StepReturns
  BY <1>1, <1>2, <1>5 DEF StepReturns, Ahead, AheadNext
<1>6. CASE UNCHANGED engineVars
  BY <1>1, <1>2, <1>6 DEF engineVars, Ahead, AheadNext
<1>. QED  BY <1>1, <1>2, <1>3, <1>4, <1>5, <1>6 DEF QuietStep

LEMMA PhaseQuiet ==
  ASSUME EnginePhase, QuietStep
  PROVE  EnginePhase'
<1>1. UNCHANGED <<running, pc, ended>>
  BY QuietFacts
<1>2. NumLayers \in Nat /\ NumLayers >= 1
  BY EngineAssumption
<1>3. CASE ScheduledNothing
  BY <1>1, <1>3 DEF ScheduledNothing, EnginePhase, IsRunning
<1>4. CASE ScheduledBatch
  BY <1>1, <1>2, <1>4 DEF ScheduledBatch, EnginePhase, IsRunning, Layers
<1>5. CASE WriteLayer
  BY <1>1, <1>5 DEF WriteLayer, EnginePhase, IsRunning
<1>6. CASE AttendLayer
  BY <1>1, <1>2, <1>6 DEF AttendLayer, EnginePhase, IsRunning, Layers
<1>7. CASE StepReturns
  BY <1>1, <1>7 DEF StepReturns, EnginePhase, IsRunning
<1>8. CASE UNCHANGED engineVars
  BY <1>1, <1>8 DEF engineVars, EnginePhase, IsRunning
<1>. QED  BY <1>3, <1>4, <1>5, <1>6, <1>7, <1>8 DEF QuietStep

LEMMA EngineKept ==
  ASSUME DrivenInv, EngineInv, [EngineNext]_engineVars
  PROVE  EngineInv'
<1>. SchedInv /\ TypeInv /\ Distinct /\ EnginePhase /\ RequestsInv /\ MatchInv /\ DecidesInv
  BY DEF DrivenInv, BatchInv, SchedInv, EngineInv
<1>1. ASSUME NEW p \in Prompts, AddRequest(p) PROVE EngineInv'
  <2>1. EnginePhase' /\ DecidesInv'
    BY <1>1, AddFacts DEF EnginePhase, DecidesInv, EngineDecides, IsRunning
  <2>. QED  BY <1>1, <2>1, RequestsAdd, MatchAdd DEF EngineInv
<1>2. ASSUME NEW id \in SeqId, Cancel(id) PROVE EngineInv'
  <2>1. /\ epc = "idle" /\ id \in DOMAIN requests /\ FinishSequence(id)
        /\ requests' = Without(id) /\ UNCHANGED <<epc, layer, ended, kv>>
    BY <1>2, CancelFacts
  <2>2. ended = {}
    BY <2>1 DEF EnginePhase
  <2>3. EnginePhase' /\ DecidesInv'
    BY <2>1, <2>2, FinishedFacts DEF EnginePhase, DecidesInv, EngineDecides
  <2>4. ended' = ended \ {id}
    BY <2>1, <2>2
  <2>. QED  BY <2>1, <2>3, <2>4, RequestsWithout, MatchFinish DEF EngineInv
<1>3. CASE RetireRequest
  <2>1. PICK id \in ended :
           /\ epc = "retiring" /\ pc = "idle" /\ id \in DOMAIN requests /\ FinishSequence(id)
           /\ requests' = Without(id) /\ ended' = ended \ {id} /\ UNCHANGED <<epc, layer, kv>>
    BY <1>3, RetireFacts
  <2>2. EnginePhase' /\ DecidesInv'
    BY <2>1, FinishedFacts DEF EnginePhase, DecidesInv, EngineDecides
  <2>. QED  BY <2>1, <2>2, RequestsWithout, MatchFinish DEF EngineInv
<1>4. CASE StepStart
  <2>1. /\ pc = "idle" /\ pc' = "reserve" /\ epc = "idle" /\ epc' = "scheduling"
        /\ UNCHANGED <<waiting, running, cur, next_id, target, requests, layer, ended, kv>>
        /\ outcome' = NoOutcome
    BY <1>4 DEF StepStart, StepBegin, Idle, histVars
  <2>2. \A x : ~Ahead(x) /\ ~AheadNext(x)
    BY <2>1 DEF Ahead, AheadNext
  <2>3. MatchInv'
    BY <2>1, <2>2, MatchQuiet DEF Moving
  <2>4. EnginePhase' /\ RequestsInv' /\ DecidesInv'
    BY <2>1 DEF EnginePhase, RequestsInv, DecidesInv, EngineDecides, NoOutcome
  <2>. QED  BY <2>3, <2>4 DEF EngineInv
<1>5. CASE InScheduler
  <2>1. UNCHANGED <<next_id, target, requests, ended>>
    BY <1>5, SchedulerGivesNoId, SchedulerSteps
  <2>2. RequestsInv'
    BY <2>1 DEF RequestsInv
  <2>. QED
    BY <1>5, <2>2, PhaseScheduler, MatchScheduler, DecidesScheduler DEF EngineInv, DecidesInv
<1>6. CASE Sample
  <2>1. /\ epc' = "retiring" /\ UNCHANGED <<running, pc, outcome, layer>> /\ pc = "idle"
        /\ ended' \subseteq {running[i].id : i \in DOMAIN running}
    BY <1>6, SampleFacts DEF vars, callVars
  <2>2. EnginePhase' /\ DecidesInv'
    BY <2>1 DEF EnginePhase, DecidesInv, EngineDecides, IsRunning
  <2>. QED  BY <1>6, <2>2, RequestsSample, MatchSample DEF EngineInv
<1>7. CASE QuietStep
  <2>1. RequestsInv' /\ DecidesInv'
    BY <1>7, QuietFacts DEF RequestsInv, DecidesInv, EngineDecides
  <2>2. MatchInv'
    BY <1>7, QuietFacts, MatchQuiet DEF Moving
  <2>. QED  BY <1>7, <2>1, <2>2, PhaseQuiet DEF EngineInv
<1>. QED
  BY <1>1, <1>2, <1>3, <1>4, <1>5, <1>6, <1>7 DEF EngineNext, EngineStep, QuietStep

LEMMA EngineInitInv == EngineInit => EngineInv
<1>. SUFFICES ASSUME EngineInit PROVE EngineInv
  OBVIOUS
<1>1. /\ Init /\ requests = <<>> /\ epc = "idle" /\ ended = {}
      /\ running = <<>> /\ waiting = <<>> /\ pc = "idle" /\ outcome = NoOutcome
  BY DEF EngineInit, Init
<1>2. EnginePhase /\ RequestsInv /\ DecidesInv
  BY <1>1 DEF EnginePhase, RequestsInv, DecidesInv, EngineDecides, NoOutcome
<1>3. MatchInv
  BY <1>1 DEF MatchInv, Known, Moving
<1>. QED  BY <1>2, <1>3 DEF EngineInv

LEMMA EngineInvariant == EngineSpec => [](DrivenInv /\ EngineInv)
<1>1. EngineSpec => []DrivenInv
  BY EngineDrivesScheduler, UnsharedInvariant, PTL DEF DrivenInv
<1>2. DrivenInv /\ EngineInv /\ [EngineNext]_engineVars => EngineInv'
  BY EngineKept
<1>. QED  BY <1>1, <1>2, EngineInitInv, PTL DEF EngineSpec

(***************************************************************************)
(* engine.rs:125 and 150-164: the engine and its scheduler never disagree, *)
(* whatever is asked, cancelled or preempted: no step bails, no            *)
(* cancellation misses, the scheduler never retires a sequence by itself   *)
(* and there is never a block to copy.                                     *)
(***************************************************************************)
THEOREM EngineStaysInStep == EngineSpec => []EngineMatchesScheduler
<1>1. DrivenInv /\ EngineInv => EngineMatchesScheduler
  <2>. SUFFICES ASSUME DrivenInv, EngineInv PROVE EngineMatchesScheduler
    OBVIOUS
  <2>. TypeInv /\ EnginePhase /\ RequestsInv /\ MatchInv
    BY DEF DrivenInv, BatchInv, SchedInv, EngineInv
  <2>1. SameSequences
    <3>. SUFFICES ASSUME Idle PROVE SameSequences
      BY DEF SameSequences
    <3>1. ~Moving /\ DOMAIN requests \subseteq SeqId
      <4>1. next_id - 1 \in Nat /\ next_id - 1 <= MaxSeqs /\ MaxSeqs \in Nat
        BY SchedulerAssumption DEF TypeInv
      <4>. QED  BY <4>1 DEF Idle, Moving, RequestsInv, SeqId
    <3>2. /\ ToSet(Ids(running)) = {running[i].id : i \in DOMAIN running}
          /\ ToSet(Ids(waiting)) = {waiting[i].id : i \in DOMAIN waiting}
      BY DEF ToSet, Ids
    <3>3. /\ \A i \in DOMAIN running : running[i].id \in SeqId
          /\ \A i \in DOMAIN waiting : waiting[i].id \in SeqId
      BY TableTypes, QueueTypes
    <3>4. \A id \in SeqId : id \in DOMAIN requests <=>
            id \in ToSet(Ids(running)) \cup ToSet(Ids(waiting))
      BY <3>1, <3>2 DEF MatchInv, Known
    <3>. QED  BY <3>1, <3>2, <3>3, <3>4 DEF SameSequences, MatchInv, Length
  <2>2. ASSUME epc = "scheduling", pc = "idle", NEW i \in DOMAIN running PROVE Expected(running[i])
    <3>1. running[i].id \in DOMAIN requests
      BY BatchRequests
    <3>2. Ahead(running[i].id)
      BY <2>2 DEF Ahead
    <3>. QED  BY <3>1, <3>2 DEF MatchInv, Expected, Length
  <2>3. EngineDecides /\ NothingToCopy
    BY DEF EngineInv, DecidesInv, DrivenInv, UnsharedInv
  <2>. QED  BY <2>1, <2>2, <2>3 DEF EngineMatchesScheduler
<1>. QED  BY <1>1, EngineInvariant, PTL

-----------------------------------------------------------------------------
(* A step with requests to serve serves some of them.                      *)

\* What was accepted could fit in the pool if it ran alone.
TargetsFit == \A id \in DOMAIN target : target[id] <= Capacity

WorkInv ==
  epc = "scheduling" /\ pc \in {"idle", "decode", "preempt"} /\ DOMAIN requests # {}
    => running # <<>>

RequestsAreFunction == requests = [id \in DOMAIN requests |-> requests[id]]

LEMMA TargetsFitKept ==
  ASSUME SchedInv, TargetsFit, [Next]_vars
  PROVE  TargetsFit'
<1>. TypeInv
  BY DEF SchedInv
<1>1. ASSUME NEW r \in Requests, Enqueue(r) PROVE TargetsFit'
  <2>1. r.len \in Nat /\ r.max_new \in Nat
    BY SchedulerAssumption DEF Request
  <2>2. NewId(r.len + r.max_new) /\ r.len + r.max_new \in Nat /\ r.len + r.max_new <= Capacity
    BY <1>1, <2>1 DEF Enqueue, CouldFit
  <2>3. /\ target'[next_id] = r.len + r.max_new
        /\ \A id \in 1 .. next_id - 1 : target'[id] = target[id]
        /\ next_id' = next_id + 1 /\ target' \in [1 .. next_id' - 1 -> Nat]
    BY <2>2, NewIdFacts, NewTarget
  <2>4. \A id \in 1 .. next_id' - 1 : id \in 1 .. next_id - 1 \/ id = next_id
    BY <2>3 DEF TypeInv
  <2>5. DOMAIN target = 1 .. next_id - 1 /\ DOMAIN target' = 1 .. next_id' - 1
    BY <2>3 DEF TypeInv
  <2>. QED  BY <2>2, <2>3, <2>4, <2>5 DEF TargetsFit, Capacity
<1>2. ~(\E i \in DOMAIN running, n \in ForkNew : Fork(i, n))
  BY EngineAssumption
<1>3. CASE ~\E r \in Requests : Enqueue(r)
  <2>1. target' = target
    BY <1>2, <1>3 DEF Next, Client, Step, vars, histVars, FinishRunning,
       FinishWaiting, StepBegin, Reserve, ReserveEnd, AdmitNext, AdmitEnd, Acquire, Fill, FillEnd,
       RegisterBlock, RegisterEnd, DecodeSkip, AppendInPlace, AppendFresh, CowAllocate, Preempt,
       Retire, CowReplace, ReleaseBlock, PreemptEnd, ReleaseEnd, StepEnd, ForkBlock, ForkEnd
  <2>. QED  BY <2>1 DEF TargetsFit, Capacity
<1>. QED  BY <1>1, <1>3

\* When nobody owns a block, all of them can be had.
LEMMA AllFree ==
  ASSUME AllocInv, \A b \in Blocks : ref_counts[b] = 0
  PROVE  NumBlocks <= num_free
<1> DEFINE m == Len(free_list)
           n == Len(evictable)
           f == [i \in 1 .. m + n |-> IF i <= m THEN free_list[i] ELSE evictable[i - m]]
<1>1. /\ free_list \in Seq(Blocks) /\ evictable \in Seq(Blocks) /\ m \in Nat /\ n \in Nat
      /\ DOMAIN free_list = 1 .. m /\ DOMAIN evictable = 1 .. n
  BY DEF AllocInv, AllocTypeOK
<1>2. \A b \in Blocks : In(b, free_list) \/ In(b, evictable)
  BY DEF AllocInv, PoolPartition
<1>3. ASSUME NEW i \in 1 .. m + n PROVE f[i] \in Blocks
  <2>1. CASE i <= m
    BY <1>1, <2>1
  <2>2. CASE i > m
    BY <1>1, <2>2
  <2>. QED  BY <1>1, <2>1, <2>2
<1>4. ASSUME NEW b \in Blocks PROVE \E i \in 1 .. m + n : f[i] = b
  <2>1. CASE In(b, free_list)
    <3>1. PICK i \in 1 .. m : free_list[i] = b
      BY <1>1, <2>1 DEF In
    <3>2. i \in 1 .. m + n /\ i <= m
      BY <1>1
    <3>. QED  BY <3>1, <3>2
  <2>2. CASE In(b, evictable)
    <3>1. PICK i \in 1 .. n : evictable[i] = b
      BY <1>1, <2>2 DEF In
    <3>2. m + i \in 1 .. m + n /\ ~(m + i <= m) /\ (m + i) - m = i
      BY <1>1
    <3>. QED  BY <3>1, <3>2
  <2>. QED  BY <1>2, <2>1, <2>2
<1>5. f \in Surjection(1 .. m + n, Blocks)
  BY <1>3, <1>4 DEF Surjection
<1>6. m + n \in Nat /\ IsFiniteSet(1 .. m + n) /\ Cardinality(1 .. m + n) = m + n
  <2>1. PICK k \in Nat : k = m + n
    BY <1>1
  <2>2. IsFiniteSet(1 .. k) /\ Cardinality(1 .. k) = k
    BY FS_Interval
  <2>. QED  BY <2>1, <2>2
<1>. HIDE DEF f
<1>7. Cardinality(Blocks) <= m + n
  BY <1>5, <1>6, FS_Surjection
<1>8. Cardinality(Blocks) = NumBlocks
  BY AllocatorAssumption, FS_Interval DEF Blocks
<1>. QED  BY <1>7, <1>8 DEF num_free

\* A table that has every block.
LEMMA WholePool ==
  ASSUME NEW bs \in Seq(Blocks), \A b \in Blocks : In(b, bs)
  PROVE  NumBlocks <= Len(bs)
<1>1. DOMAIN bs = 1 .. Len(bs) /\ Len(bs) \in Nat
  OBVIOUS
<1>2. bs \in Surjection(1 .. Len(bs), Blocks)
  <2>1. bs \in [1 .. Len(bs) -> Blocks]
    BY <1>1
  <2>. QED  BY <1>1, <2>1 DEF Surjection, In
<1>3. IsFiniteSet(1 .. Len(bs)) /\ Cardinality(1 .. Len(bs)) = Len(bs)
  BY <1>1, FS_Interval
<1>4. Cardinality(Blocks) <= Len(bs)
  BY <1>2, <1>3, FS_Surjection
<1>5. Cardinality(Blocks) = NumBlocks
  BY AllocatorAssumption, FS_Interval DEF Blocks
<1>. QED  BY <1>4, <1>5

\* Then the head of the queue has room in an empty pool.
LEMMA HeadFits ==
  ASSUME DrivenInv, TargetsFit, pc = "admit", running = <<>>, waiting # <<>>,
         NEW hit \in Matches(Matchable(Head(waiting)))
  PROVE  Fits(Head(waiting), hit)
<1> DEFINE p == Head(waiting)
           C == {i \in DOMAIN hit : In(hit[i], evictable)}
<1>. SchedInv /\ TypeInv /\ AllocInv /\ OwnInv /\ RoomInv /\ TokensInv
  BY DEF DrivenInv, BatchInv, SchedInv
<1>1. p = waiting[1] /\ 1 \in DOMAIN waiting
  <2>1. waiting \in Seq(Pending)
    BY DEF TypeInv
  <2>. QED  BY <2>1, TailOrigin
<1>2. /\ p \in Pending /\ p.id \in SeqId /\ p.context_len \in Nat /\ p.max_new \in Nat
      /\ p.prompt \in Seq(Chunk)
  BY <1>1, QueueTypes
<1>3. p.context_len + p.max_new = target[p.id] /\ p.max_new > 0 /\ Covered(p.prompt, p.context_len)
  BY <1>1 DEF TokensInv, SchedInv, PromptsCovered
<1>4. p.id \in DOMAIN target /\ target[p.id] \in Nat
  <2>1. p.id < next_id /\ target \in [1 .. next_id - 1 -> Nat] /\ next_id \in Nat /\ p.id \in Nat
        /\ p.id >= 1
    BY <1>1, <1>2 DEF SchedInv, IdsGiven, TypeInv, SeqId
  <2>. QED  BY <2>1
<1>5. p.context_len + 1 <= Capacity /\ Capacity \in Nat
  <2>1. Capacity \in Nat
    BY AllocatorAssumption, BlockTableAssumption DEF Capacity
  <2>. QED  BY <1>2, <1>3, <1>4, <2>1 DEF TargetsFit
<1>. HIDE DEF p
<1>6. reserved = 0
  <2>1. NeedOf(DOMAIN running) = {}
    BY DEF NeedOf
  <2>. QED  BY <2>1, FS_EmptySet DEF RoomInv
<1>7. NumBlocks <= num_free /\ num_free \in Nat /\ NumBlocks \in Nat
  <2>1. ASSUME NEW b \in Blocks PROVE ref_counts[b] = 0
    <3>1. ref_counts[b] = 0 \/ In(b, cur.blocks) \/ \E i \in DOMAIN running : In(b, running[i].blocks)
      BY CurOwns DEF OwnInv
    <3>2. cur.blocks = <<>>
      BY DEF OwnInv, LoopInv
    <3>. QED  BY <3>1, <3>2 DEF In
  <2>. QED  BY <2>1, AllFree, FreeChange, AllocatorAssumption
<1>8. hit \in Seq(Blocks) /\ DOMAIN hit = 1 .. Len(hit) /\ Len(hit) \in Nat
  BY <1>2, <1>3, HitFacts DEF p
<1>9. Cardinality(C) <= Len(hit) /\ Cardinality(C) \in Nat
  <2>1. C \subseteq 1 .. Len(hit) /\ IsFiniteSet(1 .. Len(hit)) /\ Cardinality(1 .. Len(hit)) = Len(hit)
    BY <1>8, FS_Interval
  <2>. HIDE DEF C
  <2>. QED  BY <2>1, FS_Subset, FS_CardinalityType
<1>10. CeilDiv(p.context_len - Len(hit) * BlockSize + 1, BlockSize)
         = blocks_for_tokens(p.context_len + 1) - Len(hit)
  BY <1>2, <1>8, CeilDivLess
<1>11. blocks_for_tokens(p.context_len + 1) <= NumBlocks /\ blocks_for_tokens(p.context_len + 1) \in Int
  <2>1. PICK n \in Nat : n = p.context_len + 1
    BY <1>2
  <2>2. n <= NumBlocks * BlockSize
    BY <1>5, <2>1 DEF Capacity
  <2>3. BlockSize \in Nat \ {0}
    BY BlockTableAssumption
  <2>4. PICK q \in Int : q = (n + BlockSize - 1) \div BlockSize
    BY <2>3
  <2>5. q * BlockSize <= n + BlockSize - 1
    <3>1. n + BlockSize - 1 \in Int
      BY <2>3
    <3>. QED  BY <2>3, <2>4, <3>1, DivFacts
  <2>6. q <= NumBlocks
    <3>1. SUFFICES ASSUME q >= NumBlocks + 1 PROVE FALSE
      BY <1>7, <2>4
    <3>2. q * BlockSize >= (NumBlocks + 1) * BlockSize
      BY <1>7, <2>3, <2>4, <3>1
    <3>3. PICK x, y \in Int : x = q * BlockSize /\ y = NumBlocks * BlockSize
      BY <1>7, <2>3, <2>4
    <3>4. (NumBlocks + 1) * BlockSize = y + BlockSize
      BY <1>7, <2>3, <3>3
    <3>. QED  BY <2>2, <2>3, <2>5, <3>2, <3>3, <3>4
  <2>. QED  BY <2>1, <2>4, <2>6 DEF blocks_for_tokens, CeilDiv
<1>12. Needed(p, hit) + reserved <= num_free
  <2>1. Needed(p, hit) = Cardinality(C) + (blocks_for_tokens(p.context_len + 1) - Len(hit))
    BY <1>10 DEF Needed
  <2>. HIDE DEF C
  <2>2. PICK c, l, k, f \in Int : /\ c = Cardinality(C) /\ l = Len(hit) /\ f = num_free
                                  /\ k = blocks_for_tokens(p.context_len + 1)
    <3>1. Cardinality(C) \in Int /\ Len(hit) \in Int /\ num_free \in Int
      BY <1>7, <1>8, <1>9
    <3>. QED  BY <1>11, <3>1
  <2>. QED  BY <1>6, <1>7, <1>9, <1>11, <2>1, <2>2
<1>. QED  BY <1>12 DEF Fits, p

\* One sequence that runs alone never preempts itself: its budget fits.
LEMMA NeverLeftEmpty ==
  ASSUME DrivenInv, TargetsFit, NEW i \in DOMAIN running, Preempt(i)
  PROVE  running' # <<>>
<1>. SchedInv /\ TypeInv /\ AllocInv /\ OwnInv /\ RoomInv /\ TokensInv
  BY DEF DrivenInv, BatchInv, SchedInv
<1>1. SUFFICES ASSUME running' = <<>> PROVE FALSE
  OBVIOUS
<1>2. /\ running \in Seq(Running) /\ Len(running) \in Nat /\ DOMAIN running = 1 .. Len(running)
      /\ running' = RemoveAt(running, VictimIndex) /\ VictimIndex \in DOMAIN running
  BY TableTypes, VictimFacts DEF Preempt
<1>3. DOMAIN running = {i}
  <2>1. Len(running') = Len(running) - 1
    BY <1>2, VictimFacts
  <2>2. Len(running') = 0
    BY <1>1
  <2>3. Len(running) = 1
    BY ONLY <2>1, <2>2, Len(running) \in Nat, <1>2
  <2>. QED  BY ONLY <1>2, <2>3, i \in DOMAIN running
<1> DEFINE s == running[i]
<1>4. /\ pc = "decode" /\ todo # <<>> /\ s.id = Head(todo) /\ ~CanAllocate
      /\ ~last_block_has_room(s) \/ needs_cow(s)
  BY DEF Preempt, Decoding
<1>5. ~last_block_has_room(s) /\ cur.blocks = <<>>
  BY <1>4, NoSharedTail DEF DrivenInv, BatchInv, OwnInv, LoopInv
<1>6. \A b \in Blocks : In(b, s.blocks)
  <2>1. ASSUME NEW b \in Blocks PROVE In(b, s.blocks)
    <3>1. ~In(b, free_list) /\ ~In(b, evictable)
      BY <1>4 DEF CanAllocate, In
    <3>2. ref_counts[b] # 0
      BY <3>1 DEF AllocInv, PoolPartition
    <3>3. ~In(b, cur.blocks)
      BY <1>5 DEF In
    <3>4. \E j \in DOMAIN running : In(b, running[j].blocks)
      BY <3>2, <3>3, CurOwns DEF OwnInv
    <3>. QED  BY <1>3, <3>4
  <2>. QED  BY <2>1
<1>7. /\ s \in Running /\ s.blocks \in Seq(Blocks) /\ s.num_tokens \in Nat /\ s.max_new \in Nat
      /\ s.generated \in Nat /\ s.id \in SeqId
  <2>1. s \in Running
    BY <1>2
  <2>. QED  BY <2>1, RunningFacts DEF Running
<1>8. Promised(s) /\ HasBudget(s)
  <2>1. In(s.id, todo)
    BY <1>4, TailIn DEF TypeInv
  <2>. QED  BY <1>4, <2>1 DEF TokensInv, Stepping
<1>9. target[s.id] \in Nat /\ target[s.id] <= Capacity
  <2>1. s.id < next_id /\ target \in [1 .. next_id - 1 -> Nat] /\ next_id \in Nat /\ s.id \in Nat
        /\ s.id >= 1
    BY <1>7 DEF SchedInv, IdsGiven, TypeInv, SeqId
  <2>. QED  BY <2>1 DEF TargetsFit
<1>10. HoldsWhatItNeeds(s) /\ NumBlocks <= Len(s.blocks) /\ Len(s.blocks) \in Nat
  BY <1>6, <1>7, WholePool DEF OwnInv, TablesExact
<1>. HIDE DEF s
<1>11. PICK n, k, t, g, m \in Nat : /\ n = s.num_tokens /\ k = Len(s.blocks) /\ t = target[s.id]
                                    /\ g = s.generated /\ m = s.max_new
  BY <1>7, <1>9, <1>10
<1>12. n < t
  BY <1>8, <1>11 DEF Promised, HasBudget
<1>13. BlockSize \in Nat \ {0} /\ NumBlocks \in Nat
  BY BlockTableAssumption, AllocatorAssumption
<1>14. k = (n + BlockSize - 1) \div BlockSize
  BY <1>10, <1>11 DEF HoldsWhatItNeeds, blocks_for_tokens, CeilDiv
<1>15. s.blocks = <<>> \/ n % BlockSize = 0
  BY <1>5, <1>11 DEF last_block_has_room
<1>16. CASE s.blocks = <<>>
  <2>1. k = 0
    BY <1>11, <1>16
  <2>2. NumBlocks = 0
    BY <1>10, <1>11, <1>13, <2>1
  <2>. QED  BY <1>9, <1>11, <1>12, <1>13, <2>2 DEF Capacity
<1>17. CASE n % BlockSize = 0
  <2>1. PICK q \in Int : q = n \div BlockSize /\ n = q * BlockSize
    BY <1>13, <1>17
  <2>2. k * BlockSize <= n + BlockSize - 1
    <3>1. n + BlockSize - 1 \in Int
      BY <1>13
    <3>. QED  BY <1>13, <1>14, <3>1, DivFacts
  <2>3. k <= q
    <3>1. SUFFICES ASSUME k >= q + 1 PROVE FALSE
      BY <2>1
    <3>2. k * BlockSize >= (q + 1) * BlockSize
      BY <1>13, <2>1, <3>1
    <3>3. (q + 1) * BlockSize = n + BlockSize
      BY <1>13, <2>1
    <3>4. PICK x \in Int : x = k * BlockSize
      BY <1>13
    <3>. QED  BY <1>13, <2>2, <3>2, <3>3, <3>4
  <2>4. NumBlocks * BlockSize <= q * BlockSize
    <3>1. NumBlocks <= q
      BY <1>10, <1>11, <1>13, <2>1, <2>3
    <3>. QED  BY <1>13, <2>1, <3>1
  <2>. QED  BY <1>9, <1>11, <1>12, <1>13, <2>1, <2>4 DEF Capacity
<1>. QED  BY <1>15, <1>16, <1>17

LEMMA RequestIds ==
  ASSUME TypeInv, RequestsInv
  PROVE  DOMAIN requests \subseteq SeqId
<1>1. next_id - 1 \in Nat /\ next_id - 1 <= MaxSeqs /\ MaxSeqs \in Nat
  BY SchedulerAssumption DEF TypeInv
<1>. QED  BY <1>1 DEF RequestsInv, SeqId

LEMMA WorkScheduler ==
  ASSUME DrivenInv, EngineInv, TargetsFit, WorkInv, InScheduler
  PROVE  WorkInv'
<1>. SchedInv /\ TypeInv /\ EnginePhase /\ RequestsInv /\ MatchInv
  BY DEF DrivenInv, BatchInv, SchedInv, EngineInv
<1>1. UNCHANGED <<requests, epc>> /\ (pc = "finish" \/ epc = "scheduling")
  BY SchedulerSteps
<1>2. CASE AdmitEnd
  <2>1. /\ pc = "admit" /\ UNCHANGED running
        /\ \/ ~BatchHasRoom
           \/ waiting = <<>>
           \/ /\ waiting # <<>>
              /\ \E hit \in Matches(Matchable(Head(waiting))) : ~Fits(Head(waiting), hit)
    BY <1>2 DEF AdmitEnd
  <2>2. SUFFICES ASSUME running = <<>>, NEW id \in DOMAIN requests PROVE FALSE
    BY <1>1, <2>1 DEF WorkInv
  <2>3. BatchHasRoom
    BY <2>2, SchedulerAssumption DEF BatchHasRoom
  <2>4. waiting # <<>>
    <3>1. Known(id) /\ ~Moving
      BY <2>1, <2>2, RequestIds DEF MatchInv, Moving
    <3>. QED  BY <2>2, <3>1 DEF Known
  <2>. QED  BY <2>1, <2>2, <2>3, <2>4, HeadFits
<1>3. ASSUME NEW i \in DOMAIN running, Preempt(i) PROVE WorkInv'
  BY <1>3, NeverLeftEmpty DEF WorkInv
<1>4. ASSUME NEW i \in DOMAIN running, AppendInPlace(i) \/ AppendFresh(i) PROVE WorkInv'
  <2>1. PICK j \in DOMAIN running, bs \in Seq(Blocks) : \E cow : Appended(j, bs, cow) /\ todo # <<>>
    BY <1>4, AppendStep
  <2>2. DOMAIN running' = DOMAIN running
    BY <2>1, AppendedFacts
  <2>3. running' # <<>>
    BY <1>4, <2>2
  <2>. QED  BY <2>3 DEF WorkInv
<1>5. CASE Reserve \/ ReserveEnd \/ AdmitNext \/ Acquire \/ Fill \/ FillEnd \/ RegisterBlock \/ RegisterEnd
  <2>1. pc' \in {"reserve", "admit", "build", "register"}
    BY <1>5 DEF Reserve, ReserveEnd, AdmitNext, Acquire, Fill, FillEnd, RegisterBlock, RegisterEnd
  <2>. QED  BY <2>1 DEF WorkInv
<1>6. CASE DecodeSkip \/ ReleaseBlock \/ PreemptEnd \/ ReleaseEnd \/ StepEnd
  <2>1. /\ UNCHANGED running
        /\ \/ pc \in {"decode", "preempt"}
           \/ pc = "finish"
           \/ pc = "retire"
    BY <1>6 DEF DecodeSkip, ReleaseBlock, PreemptEnd, ReleaseEnd, StepEnd
  <2>2. epc = "scheduling" => pc \in {"decode", "preempt"}
    BY <2>1 DEF EnginePhase
  <2>. QED  BY <1>1, <2>1, <2>2 DEF WorkInv
<1>. QED  BY <1>2, <1>3, <1>4, <1>5, <1>6, SchedulerSteps

LEMMA WorkKept ==
  ASSUME DrivenInv, EngineInv, TargetsFit, WorkInv, [EngineNext]_engineVars
  PROVE  WorkInv'
<1>. EnginePhase /\ RequestsInv /\ MatchInv
  BY DEF EngineInv
<1>1. CASE InScheduler
  BY <1>1, WorkScheduler
<1>2. CASE \/ \E p \in Prompts : AddRequest(p)
           \/ \E id \in SeqId : Cancel(id)
           \/ RetireRequest \/ Sample \/ ScheduledNothing \/ ScheduledBatch \/ WriteLayer
           \/ AttendLayer \/ StepReturns
  <2>1. epc' # "scheduling"
    BY <1>2 DEF AddRequest, Cancel, RetireRequest, Sample, ScheduledNothing, ScheduledBatch,
         WriteLayer, AttendLayer, StepReturns, Idle, EnginePhase
  <2>. QED  BY <2>1 DEF WorkInv
<1>3. CASE StepStart
  BY <1>3 DEF StepStart, StepBegin, WorkInv
<1>4. CASE UNCHANGED engineVars
  BY <1>4 DEF engineVars, vars, callVars, WorkInv
<1>. QED  BY <1>1, <1>2, <1>3, <1>4 DEF EngineNext, EngineStep

LEMMA FunctionKept ==
  ASSUME RequestsAreFunction, [EngineNext]_engineVars
  PROVE  RequestsAreFunction'
<1>1. CASE UNCHANGED requests
  BY <1>1 DEF RequestsAreFunction
<1>2. ASSUME NEW id, requests' = Without(id) PROVE RequestsAreFunction'
  BY <1>2 DEF RequestsAreFunction, Without
<1>3. ASSUME NEW p \in Prompts, AddRequest(p) PROVE RequestsAreFunction'
  BY <1>3 DEF RequestsAreFunction, AddRequest
<1>4. CASE Sample
  BY <1>4 DEF RequestsAreFunction, Sample
<1>5. CASE \/ StepStart \/ InScheduler \/ ScheduledNothing \/ ScheduledBatch
           \/ WriteLayer \/ AttendLayer \/ StepReturns \/ UNCHANGED engineVars
  BY <1>1, <1>5 DEF StepStart, InScheduler, ScheduledNothing, ScheduledBatch, WriteLayer,
     AttendLayer, StepReturns, engineVars
<1>6. CASE RetireRequest \/ \E id \in SeqId : Cancel(id)
  BY <1>2, <1>6 DEF RetireRequest, Cancel
<1>. QED  BY <1>3, <1>4, <1>5, <1>6 DEF EngineNext, EngineStep

LEMMA WorkInvariant ==
  EngineSpec => [](DrivenInv /\ EngineInv /\ TargetsFit /\ WorkInv /\ RequestsAreFunction)
<1>1. EngineInit => TargetsFit /\ WorkInv /\ RequestsAreFunction
  <2>. SUFFICES ASSUME EngineInit PROVE TargetsFit /\ WorkInv /\ RequestsAreFunction
    OBVIOUS
  <2>1. target = <<>> /\ requests = <<>> /\ epc = "idle"
    BY DEF EngineInit, Init
  <2>. QED  BY <2>1 DEF TargetsFit, WorkInv, RequestsAreFunction
<1>2. DrivenInv /\ TargetsFit /\ [EngineNext]_engineVars => TargetsFit'
  BY EngineStepIsStep, TargetsFitKept DEF DrivenInv, BatchInv
<1>3. DrivenInv /\ EngineInv /\ TargetsFit /\ WorkInv /\ [EngineNext]_engineVars => WorkInv'
  BY WorkKept
<1>4. RequestsAreFunction /\ [EngineNext]_engineVars => RequestsAreFunction'
  BY FunctionKept
<1>. QED  BY <1>1, <1>2, <1>3, <1>4, EngineInvariant, PTL DEF EngineSpec

(***************************************************************************)
(* engine.rs:125-147 and scheduler.rs:268-295: a step with requests to     *)
(* serve always runs some of them.  What was accepted fits in an empty     *)
(* pool, its own first token included, and a sequence alone in the batch   *)
(* never preempts itself.                                                  *)
(***************************************************************************)
THEOREM WorkIsConserved == EngineSpec => []WorkConserving
<1>1. WorkInv /\ RequestsAreFunction => WorkConserving
  <2>1. RequestsAreFunction /\ DOMAIN requests = {} => requests = <<>>
    BY DEF RequestsAreFunction
  <2>. QED  BY <2>1 DEF WorkInv, WorkConserving
<1>. QED  BY <1>1, WorkInvariant, PTL

-----------------------------------------------------------------------------
(* A prompt is the tokens it was cut from.                                 *)

\* The chunks c are the first blocks of the tokens t.
CutFrom(c, t) ==
  /\ Len(c) * BlockSize <= Len(t)
  /\ \A i \in 1 .. Len(c) * BlockSize :
       t[i] = c[((i - 1) \div BlockSize) + 1][((i - 1) % BlockSize) + 1]

\* The scheduler has the sequence id, with the prompt c.
HasPrompt(id, c) ==
  \/ \E i \in DOMAIN running : running[i].id = id /\ running[i].prompt = c
  \/ \E j \in DOMAIN waiting : waiting[j].id = id /\ waiting[j].prompt = c
  \/ Moving /\ cur.id = id /\ cur.prompt = c

CutInv ==
  \A id \in SeqId, c \in Seq(Chunk) : HasPrompt(id, c) => CutFrom(c, requests[id].tokens)

\* The same after the step.
HasPromptNext(id, c) ==
  \/ \E i \in DOMAIN running' : running'[i].id = id /\ running'[i].prompt = c
  \/ \E j \in DOMAIN waiting' : waiting'[j].id = id /\ waiting'[j].prompt = c
  \/ pc' \in {"build", "register", "preempt"} /\ cur'.id = id /\ cur'.prompt = c

LEMMA DivMod ==
  ASSUME NEW a \in Nat, NEW d \in Nat \ {0}
  PROVE  /\ a \div d \in Nat /\ a % d \in 0 .. d - 1 /\ a = (a \div d) * d + (a % d)
         /\ (a \div d) * d \in Nat
<1>1. a \div d \in Nat /\ a % d \in 0 .. d - 1
  OBVIOUS
<1>2. a = (a \div d) * d + (a % d)
  OBVIOUS
<1>3. (a \div d) * d \in Nat
  BY <1>1
<1>. QED  BY <1>1, <1>2, <1>3

\* Of two products the one with the larger factor is a whole factor larger.
LEMMA NextMultiple ==
  ASSUME NEW a \in Nat, NEW b \in Nat, NEW d \in Nat \ {0}, NEW m \in Nat,
         a * d <= m, m < b * d
  PROVE  a + 1 <= b
<1>1. SUFFICES ASSUME b <= a PROVE FALSE
  OBVIOUS
<1>2. b * d <= a * d
  BY <1>1
<1>3. a * d \in Nat /\ b * d \in Nat
  OBVIOUS
<1>. QED  BY <1>2, <1>3

LEMMA SmallerMultiple ==
  ASSUME NEW a \in Nat, NEW b \in Nat, NEW d \in Nat, a <= b
  PROVE  a * d <= b * d
<1>1. PICK e \in Nat : b = a + e
  <2>1. b = a + (b - a) /\ b - a \in Nat
    OBVIOUS
  <2>. QED  BY <2>1
<1>2. (a + e) * d = a * d + e * d /\ a * d \in Nat /\ e * d \in Nat
  OBVIOUS
<1>. QED  BY <1>1, <1>2

LEMMA ChunksCut ==
  ASSUME NEW p \in Prompts
  PROVE  CutFrom(Chunks(p.tokens), p.tokens)
<1> DEFINE B == BlockSize
<1>1. B \in Nat \ {0}
  BY BlockTableAssumption
<1>2. PICK t \in Seq(Token), l \in Nat : t = p.tokens /\ l = Len(t)
  BY AskedFacts
<1>3. PICK n \in Nat, x \in Nat : n = l \div B /\ x = n * B /\ x <= l
  <2>1. l \div B \in Nat /\ (l \div B) * B <= l /\ (l \div B) * B \in Nat
    BY <1>1, DivMod, DivFacts
  <2>. QED  BY <2>1
<1>4. Chunks(t) = [k \in 1 .. n |-> SubSeq(t, (k - 1) * B + 1, k * B)]
  BY <1>2, <1>3 DEF Chunks
<1>5. Len(Chunks(t)) = n
  BY <1>4
<1>. HIDE DEF B
<1>6. ASSUME NEW i \in 1 .. x
      PROVE  t[i] = Chunks(t)[((i - 1) \div B) + 1][((i - 1) % B) + 1]
  <2>1. PICK j \in Nat : j = i - 1 /\ j < x
    BY <1>3
  <2>2. PICK q \in Nat, r \in 0 .. B - 1, y \in Nat : q = j \div B /\ r = j % B /\ y = q * B /\ j = y + r
    <3>1. /\ j \div B \in Nat /\ j % B \in 0 .. B - 1 /\ j = (j \div B) * B + (j % B)
          /\ (j \div B) * B \in Nat
      BY <1>1, DivMod
    <3>. QED  BY <3>1, Zenon
  <2>3. q + 1 <= n
    <3>1. y <= j
      BY <1>1, <2>2
    <3>. QED  BY <1>1, <1>3, <2>1, <2>2, <3>1, NextMultiple
  <2>4. (q + 1) * B = y + B /\ (q + 1 - 1) * B = y
    BY <1>1, <2>2
  <2>5. y + B <= l
    <3>1. (q + 1) * B <= n * B
      BY <1>1, <1>3, <2>2, <2>3, SmallerMultiple
    <3>2. y + B <= x
      BY <1>3, <2>4, <3>1, Zenon
    <3>. QED  BY <1>1, <1>3, <2>2, <3>2
  <2>6. q + 1 \in 1 .. n
    BY <1>1, <1>3, <2>2, <2>3
  <2>7. Chunks(t)[q + 1] = SubSeq(t, y + 1, y + B)
    <3>1. \A k \in 1 .. n : Chunks(t)[k] = SubSeq(t, (k - 1) * B + 1, k * B)
      BY <1>4
    <3>2. Chunks(t)[q + 1] = SubSeq(t, (q + 1 - 1) * B + 1, (q + 1) * B)
      BY <2>6, <3>1
    <3>. QED  BY <2>4, <3>2, Zenon
  <2>8. SubSeq(t, y + 1, y + B)[r + 1] = t[y + 1 + r + 1 - 1]
    <3>1. /\ y + 1 \in 1 .. l + 1 /\ y + B \in y + 1 - 1 .. l
          /\ r + 1 \in 1 .. (y + B) - (y + 1) + 1
      BY <1>1, <1>2, <2>2, <2>5
    <3>2. \A k \in y + 1 .. y + B : t[k] \in Token
      <4>1. \A k \in y + 1 .. y + B : k \in 1 .. l
        BY <1>1, <2>2, <2>5
      <4>. QED  BY <1>2, <4>1
    <3>3. y + 1 \in Int /\ y + B \in Int
      BY <1>1, <2>2
    <3>. QED  BY <3>1, <3>2, <3>3, SubSeqProperties
  <2>9. y + 1 + r + 1 - 1 = i
    BY <1>1, <1>3, <2>1, <2>2
  <2>. QED  BY <2>1, <2>2, <2>7, <2>8, <2>9
<1>. QED  BY <1>2, <1>3, <1>5, <1>6 DEF CutFrom, B

LEMMA CutGrows ==
  ASSUME NEW c \in Seq(Chunk), NEW t \in Seq(Token), NEW x \in Token, CutFrom(c, t)
  PROVE  CutFrom(c, Append(t, x))
<1>1. PICK n \in Nat, l \in Nat : n = Len(c) * BlockSize /\ l = Len(t)
  <2>1. Len(c) \in Nat /\ BlockSize \in Nat
    BY BlockTableAssumption
  <2>. QED  BY <2>1
<1>2. n <= l
  BY <1>1 DEF CutFrom
<1>3. Len(Append(t, x)) = l + 1 /\ \A i \in 1 .. n : Append(t, x)[i] = t[i]
  BY <1>1, <1>2
<1>. QED  BY <1>1, <1>2, <1>3 DEF CutFrom

\* What the engine knows of a request only grows.
LEMMA TokensFollow ==
  ASSUME DrivenInv, EngineInv, [EngineNext]_engineVars, NEW id \in DOMAIN requests,
         id \in DOMAIN requests'
  PROVE  \/ requests'[id].tokens = requests[id].tokens
         \/ /\ Sample /\ IsRunning(id)
            /\ \E x \in Token : requests'[id].tokens = Append(requests[id].tokens, x)
<1>. TypeInv /\ EnginePhase /\ RequestsInv /\ MatchInv
  BY DEF DrivenInv, BatchInv, SchedInv, EngineInv
<1>1. ASSUME NEW p \in Prompts, AddRequest(p) PROVE requests'[id] = requests[id]
  BY <1>1, AddFacts
<1>2. ASSUME NEW x \in SeqId, Cancel(x) PROVE requests'[id] = requests[id]
  BY <1>2 DEF Cancel, Without
<1>3. CASE RetireRequest
  <2>1. PICK x : requests' = Without(x)
    BY <1>3 DEF RetireRequest
  <2>. QED  BY <2>1 DEF Without
<1>4. CASE Sample
  BY <1>4, SampleFacts DEF IsRunning
<1>5. CASE StepStart \/ InScheduler
  BY <1>5 DEF StepStart, InScheduler
<1>6. CASE QuietStep
  BY <1>6, QuietFacts
<1>. QED
  BY <1>1, <1>2, <1>3, <1>4, <1>5, <1>6 DEF EngineNext, EngineStep, QuietStep

\* The scheduler makes no prompts of its own.
LEMMA PromptsMove ==
  ASSUME DrivenInv, EngineInv, InScheduler, NEW id, NEW c, HasPromptNext(id, c)
  PROVE  HasPrompt(id, c)
<1>. SchedInv /\ TypeInv /\ EnginePhase /\ RequestsInv /\ MatchInv
  BY DEF DrivenInv, BatchInv, SchedInv, EngineInv
<1>. running \in Seq(Running) /\ waiting \in Seq(Pending)
  BY DEF TypeInv
<1>1. CASE AdmitNext
  <2>1. /\ waiting # <<>> /\ waiting' = Tail(waiting) /\ UNCHANGED running
        /\ cur'.id = Head(waiting).id /\ cur'.prompt = Head(waiting).prompt
    BY <1>1 DEF AdmitNext
  <2>2. /\ 1 \in DOMAIN waiting /\ Head(waiting) = waiting[1]
        /\ \A i \in DOMAIN Tail(waiting) : i + 1 \in DOMAIN waiting /\ Tail(waiting)[i] = waiting[i + 1]
    BY <2>1, TailOrigin
  <2>. QED  BY <2>1, <2>2 DEF HasPrompt, HasPromptNext
<1>2. CASE RegisterEnd
  <2>1. pc = "register" /\ pc' = "admit" /\ running' = Append(running, cur) /\ UNCHANGED waiting
    BY <1>2 DEF RegisterEnd
  <2>2. Moving /\ cur \in Running
    BY <2>1, CurInBatch DEF Moving
  <2>3. /\ DOMAIN running' = DOMAIN running \cup {Len(running) + 1}
        /\ \A i \in DOMAIN running : running'[i] = running[i]
        /\ running'[Len(running) + 1] = cur
    BY <2>1, <2>2, AppendOrigin
  <2>. QED  BY <2>1, <2>2, <2>3 DEF HasPrompt, HasPromptNext
<1>3. CASE \E i \in DOMAIN running : AppendInPlace(i) \/ AppendFresh(i)
  <2>1. PICK i \in DOMAIN running, bs \in Seq(Blocks) : \E cow : Appended(i, bs, cow) /\ todo # <<>>
    BY <1>3, AppendStep
  <2>2. /\ DOMAIN running' = DOMAIN running
        /\ \A j \in DOMAIN running \ {i} : running'[j] = running[j]
        /\ running'[i].id = running[i].id /\ running'[i].prompt = running[i].prompt
    BY <2>1, AppendedFacts
  <2>3. pc' = "decode" /\ UNCHANGED waiting
    BY <1>3 DEF AppendInPlace, AppendFresh, Decoding
  <2>. QED  BY <2>2, <2>3 DEF HasPrompt, HasPromptNext
<1>4. CASE \E i \in DOMAIN running : Preempt(i)
  <2>1. PICK i \in DOMAIN running : Preempt(i)
    BY <1>4
  <2>2. /\ running' = RemoveAt(running, VictimIndex) /\ cur' = running[VictimIndex]
        /\ UNCHANGED waiting
    BY <2>1 DEF Preempt
  <2>3. /\ VictimIndex \in DOMAIN running
        /\ \A j \in DOMAIN running' : j \in DOMAIN running /\ running'[j] = running[j]
    BY <2>2, VictimFacts
  <2>. QED  BY <2>2, <2>3 DEF HasPrompt, HasPromptNext
<1>5. CASE PreemptEnd
  <2>1. /\ pc = "preempt" /\ pc' = "decode" /\ waiting' = <<Requeued(cur)>> \o waiting
        /\ UNCHANGED running
    BY <1>5 DEF PreemptEnd
  <2> DEFINE p == Requeued(cur)
  <2>2. p.id = cur.id /\ p.prompt = cur.prompt
    BY DEF Requeued
  <2>. HIDE DEF p
  <2>3. \A j \in DOMAIN waiting' :
          waiting'[j] = p \/ (j - 1 \in DOMAIN waiting /\ waiting'[j] = waiting[j - 1])
    <3>1. waiting \in Seq(Pending \cup {p}) /\ p \in Pending \cup {p}
      OBVIOUS
    <3>. QED  BY <2>1, <3>1, ConsOrigin DEF p
  <2>. QED  BY <2>1, <2>2, <2>3 DEF HasPrompt, HasPromptNext, Moving
<1>6. CASE Acquire \/ Fill \/ ReleaseBlock
  <2>1. cur'.id = cur.id /\ cur'.prompt = cur.prompt /\ UNCHANGED <<waiting, running, pc>>
    BY <1>6, CurStep
  <2>. QED  BY <2>1 DEF HasPrompt, HasPromptNext, Moving
<1>7. CASE \/ Reserve \/ ReserveEnd \/ AdmitEnd \/ FillEnd \/ RegisterBlock \/ DecodeSkip
           \/ ReleaseEnd \/ StepEnd
  <2>1. UNCHANGED <<waiting, running>>
    BY <1>7 DEF Reserve, ReserveEnd, AdmitEnd, FillEnd, RegisterBlock, DecodeSkip, ReleaseEnd, StepEnd
  <2>2. pc' \in {"build", "register", "preempt"} => Moving /\ UNCHANGED cur
    BY <1>7 DEF Reserve, ReserveEnd, AdmitEnd, FillEnd, RegisterBlock, DecodeSkip, ReleaseEnd,
                StepEnd, Moving
  <2>. QED  BY <2>1, <2>2 DEF HasPrompt, HasPromptNext
<1>. QED  BY <1>1, <1>2, <1>3, <1>4, <1>5, <1>6, <1>7, SchedulerSteps

\* The engine cuts one for each request.
LEMMA PromptsFollow ==
  ASSUME DrivenInv, EngineInv, [EngineNext]_engineVars, NEW id, NEW c, HasPromptNext(id, c)
  PROVE  \/ HasPrompt(id, c)
         \/ \E p \in Prompts : AddRequest(p) /\ id = next_id /\ c = Chunks(p.tokens)
<1>. SchedInv /\ TypeInv /\ Distinct /\ EnginePhase /\ RequestsInv /\ MatchInv
  BY DEF DrivenInv, BatchInv, SchedInv, EngineInv
<1>1. ASSUME NEW p \in Prompts, AddRequest(p)
      PROVE  HasPrompt(id, c) \/ (id = next_id /\ c = Chunks(p.tokens))
  BY <1>1, AddFacts DEF HasPrompt, HasPromptNext
<1>2. ASSUME NEW x, FinishSequence(x) PROVE HasPrompt(id, c)
  BY <1>2, FinishedFacts DEF HasPrompt, HasPromptNext
<1>3. ASSUME NEW x \in SeqId, Cancel(x) PROVE HasPrompt(id, c)
  BY <1>2, <1>3, CancelFacts
<1>4. CASE RetireRequest
  BY <1>2, <1>4, RetireFacts
<1>5. CASE InScheduler
  BY <1>5, PromptsMove
<1>6. CASE StepStart
  BY <1>6 DEF StepStart, StepBegin, HasPrompt, HasPromptNext
<1>7. CASE Sample
  <2>1. UNCHANGED <<waiting, running, cur, pc>>
    BY <1>7, SampleFacts DEF vars, callVars
  <2>. QED  BY <2>1 DEF HasPrompt, HasPromptNext, Moving
<1>8. CASE QuietStep
  BY <1>8, QuietFacts DEF HasPrompt, HasPromptNext, Moving
<1>. QED
  BY <1>1, <1>3, <1>4, <1>5, <1>6, <1>7, <1>8 DEF EngineNext, EngineStep, QuietStep

LEMMA PromptKnown ==
  (\A id, c : HasPrompt(id, c) => Known(id))
BY DEF HasPrompt, Known

LEMMA CutKept ==
  ASSUME DrivenInv, EngineInv, CutInv, [EngineNext]_engineVars
  PROVE  CutInv'
<1>1. EngineInv' /\ MatchInv'
  BY EngineKept DEF EngineInv
<1>2. ASSUME NEW id \in SeqId, NEW c \in Seq(Chunk), HasPrompt(id, c)'
      PROVE  CutFrom(c, requests'[id].tokens)
  <2>1. HasPromptNext(id, c) /\ KnownNext(id)
    BY <1>2 DEF HasPrompt, HasPromptNext, KnownNext, Moving
  <2>2. id \in DOMAIN requests'
    <3>1. Known(id)'
      BY <2>1 DEF Known, KnownNext, Moving
    <3>. QED  BY <1>1, <3>1 DEF MatchInv
  <2>3. CASE HasPrompt(id, c)
    <3>1. id \in DOMAIN requests
      BY <2>3, PromptKnown DEF EngineInv, MatchInv
    <3>2. CutFrom(c, requests[id].tokens)
      BY <2>3 DEF CutInv
    <3>3. requests[id].tokens \in Seq(Token)
      BY <3>1, RequestFacts DEF EngineInv
    <3>. QED  BY <2>2, <3>1, <3>2, <3>3, TokensFollow, CutGrows
  <2>4. ASSUME NEW p \in Prompts, AddRequest(p), id = next_id, c = Chunks(p.tokens)
        PROVE  CutFrom(c, requests'[id].tokens)
    <3>1. requests'[id].tokens = p.tokens
      BY <2>4, AddFacts DEF EngineInv
    <3>. QED  BY <2>4, <3>1, ChunksCut
  <2>. QED  BY <2>1, <2>3, <2>4, PromptsFollow
<1>. QED  BY <1>2 DEF CutInv

-----------------------------------------------------------------------------
(* The cache.                                                              *)

\* The first n tokens of the chunks c.
Ctx(c, n) == [i \in 1 .. n |-> c[((i - 1) \div BlockSize) + 1][((i - 1) % BlockSize) + 1]]

\* In layer l of the cache f, b has the K/V of the last of the chunks h.
HasChunk(f, l, b, h) ==
  \A x \in Slots : f[<<l, b, x>>] = Ctx(h, (Len(h) - 1) * BlockSize + x + 1)

\* Beyond its prompt, s has the K/V of the first n of its tokens t.
HasTokens(f, l, s, t, n) ==
  \A p \in Len(s.prompt) * BlockSize .. n - 1 : f[<<l>> \o Place(s, p)] = SubSeq(t, 1, p + 1)

\* What the step under way is to write has not reached layer l; it has.
Unwritten(l) ==
  epc = "scheduling" \/ (epc = "writing" /\ l >= layer) \/ (epc = "attending" /\ l > layer)
Fed(l) ==
  epc = "sampling" \/ (epc = "writing" /\ l < layer) \/ (epc = "attending" /\ l <= layer)

AdmittedIn(o, id) == \E k \in DOMAIN o.admitted : o.admitted[k].id = id

AdmittedInv ==
  "admitted" \in DOMAIN outcome /\ outcome.admitted \in Seq([id : SeqId, cached : Nat])

\* b is of t and was not taken from the index.
NewIn(t, b) == \E k \in DOMAIN t.blocks : k > t.cached /\ t.blocks[k] = b

\* A sequence admitted in this step is to write b.
ToWrite(b) ==
  \/ \E i \in DOMAIN running : AdmittedIn(outcome, running[i].id) /\ NewIn(running[i], b)
  \/ pc \in {"build", "register"} /\ NewIn(cur, b)

(***************************************************************************)
(* A block filled for a prompt has the K/V of its chunk, or is about to    *)
(* get it from a sequence admitted in this step; and each sequence has the *)
(* K/V of what it was fed beyond its prompt, unless it was admitted in     *)
(* this step and feeds all of it again.                                    *)
(***************************************************************************)
SharedInv ==
  \A l \in Layers, b \in Blocks :
    holds[b] # <<>> => HasChunk(kv, l, b, holds[b]) \/ (Unwritten(l) /\ ToWrite(b))

OwnTokensInv ==
  \A l \in Layers : \A i \in DOMAIN running :
    LET s == running[i]
        t == requests[s.id].tokens
    IN  ~(Unwritten(l) /\ AdmittedIn(outcome, s.id)) =>
          HasTokens(kv, l, s, t, IF Fed(l) THEN Len(t) ELSE Len(t) - 1)

CacheInv == DOMAIN kv = Layers \X Blocks \X Slots /\ SharedInv /\ OwnTokensInv

\* All that is known of an engine between two of its steps.
WholeInv == DrivenInv /\ EngineInv /\ CutInv /\ AdmittedInv

LEMMA CtxIsTokens ==
  ASSUME NEW c \in Seq(Chunk), NEW t \in Seq(Token), CutFrom(c, t), NEW k \in 1 .. Len(c),
         NEW n \in Nat, n <= k * BlockSize
  PROVE  Ctx(SubSeq(c, 1, k), n) = SubSeq(t, 1, n)
<1> DEFINE B == BlockSize
<1>1. B \in Nat \ {0} /\ Len(c) \in Nat /\ Len(t) \in Nat /\ k \in Nat \ {0} /\ k <= Len(c)
  BY BlockTableAssumption
<1>2. PICK x, y \in Nat : x = Len(c) * B /\ y = k * B /\ y <= x /\ x <= Len(t)
  <2>1. k * B <= Len(c) * B /\ k * B \in Nat /\ Len(c) * B \in Nat
    BY <1>1, SmallerMultiple
  <2>. QED  BY <2>1 DEF CutFrom
<1>3. ASSUME NEW i \in 1 .. n
      PROVE  SubSeq(c, 1, k)[((i - 1) \div B) + 1][((i - 1) % B) + 1] = t[i]
  <2>1. PICK j \in Nat : j = i - 1 /\ j < y
    BY <1>2
  <2>2. PICK q \in Nat : q = j \div B /\ q * B <= j
    <3>1. B \in Nat \ {0}
      BY <1>1
    <3>. HIDE DEF B
    <3>2. PICK a \in Nat, r \in 0 .. B - 1, z \in Nat : a = j \div B /\ z = a * B /\ j = z + r
      <4>1. /\ j \div B \in Nat /\ j % B \in 0 .. B - 1 /\ j = (j \div B) * B + (j % B)
            /\ (j \div B) * B \in Nat
        BY <2>1, <3>1, DivMod
      <4>. QED  BY <4>1, Zenon
    <3>3. z <= j
      BY ONLY <3>2, r \in 0 .. B - 1, z \in Nat, B \in Nat \ {0}
    <3>. QED  BY <3>2, <3>3, Zenon
  <2>3. q + 1 <= k
    BY <1>1, <1>2, <2>1, <2>2, NextMultiple
  <2>4. SubSeq(c, 1, k)[q + 1] = c[q + 1]
    BY <1>1, <2>3
  <2>5. i \in 1 .. x
    BY <1>2
  <2>6. t[i] = c[((i - 1) \div B) + 1][((i - 1) % B) + 1]
    BY <1>2, <2>5 DEF CutFrom
  <2>. QED  BY <2>1, <2>2, <2>4, <2>6
<1>4. /\ SubSeq(t, 1, n) \in Seq(Token) /\ Len(SubSeq(t, 1, n)) = n
      /\ \A i \in 1 .. n : SubSeq(t, 1, n)[i] = t[i]
  BY <1>1, <1>2
<1>5. SubSeq(t, 1, n) = [i \in 1 .. n |-> t[i]]
  <2> DEFINE u == SubSeq(t, 1, n)
  <2>1. u = [i \in DOMAIN u |-> u[i]] /\ DOMAIN u = 1 .. n
    BY <1>4
  <2>. QED  BY <1>4, <2>1
<1>. QED  BY <1>3, <1>5 DEF Ctx

LEMMA KvTriple ==
  ASSUME NEW l, NEW b, NEW x
  PROVE  <<l>> \o <<b, x>> = <<l, b, x>>
<1> DEFINE S == {l, b, x}
           u == <<l>> \o <<b, x>>
           v == <<l, b, x>>
<1>1. <<l>> \in Seq(S) /\ <<b, x>> \in Seq(S) /\ v \in Seq(S)
  OBVIOUS
<1>2. u \in Seq(S) /\ Len(u) = 3 /\ Len(v) = 3
  BY <1>1
<1>3. u[1] = l /\ u[2] = b /\ u[3] = x
  BY <1>1
<1>4. \A i \in 1 .. 3 : u[i] = v[i]
  <2>1. \A i \in 1 .. 3 : i = 1 \/ i = 2 \/ i = 3
    OBVIOUS
  <2>. QED  BY <1>3, <2>1
<1>. HIDE DEF u, v, S
<1>5. u = v
  BY <1>1, <1>2, <1>4, SeqEqual
<1>. QED  BY <1>5 DEF u, v

LEMMA KvIndex ==
  ASSUME NEW l, NEW s, NEW p
  PROVE  <<l>> \o Place(s, p) = <<l, s.blocks[(p \div BlockSize) + 1], p % BlockSize>>
BY KvTriple DEF Place

\* The place of a position the table covers.
LEMMA PlaceFacts ==
  ASSUME NEW s \in Running, HoldsWhatItNeeds(s), NEW p \in Nat, p < s.num_tokens
  PROVE  /\ p \div BlockSize \in Nat /\ (p \div BlockSize) + 1 \in DOMAIN s.blocks
         /\ s.blocks[(p \div BlockSize) + 1] \in Blocks /\ p % BlockSize \in Slots
         /\ p = (p \div BlockSize) * BlockSize + (p % BlockSize)
<1> DEFINE B == BlockSize
           n == s.num_tokens
<1>1. B \in Nat \ {0} /\ n \in Nat /\ s.blocks \in Seq(Blocks)
  BY BlockTableAssumption, RunningFacts DEF Running
<1>. HIDE DEF B, n
<1>2. /\ p \div B \in Nat /\ p % B \in 0 .. B - 1 /\ p = (p \div B) * B + (p % B)
      /\ (p \div B) * B \in Nat
  BY <1>1, DivMod
<1>3. PICK q \in Nat, y \in Nat : q = p \div B /\ y = q * B /\ y <= p /\ y < n
  <2>1. PICK r \in 0 .. B - 1, y \in Nat : y = (p \div B) * B /\ p = y + r
    BY <1>2, Zenon
  <2>2. p < n
    BY DEF n
  <2>3. y <= p /\ y < n
    BY <1>1, <2>1, <2>2
  <2>. QED  BY <1>2, <2>1, <2>3, Zenon
<1>4. q + 1 <= Len(s.blocks)
  <2>1. Len(s.blocks) = (n + B - 1) \div B
    BY DEF HoldsWhatItNeeds, blocks_for_tokens, CeilDiv, B, n
  <2>2. PICK m \in Nat : m = n + B - 1
    BY <1>1
  <2>3. PICK d \in Nat : d = m \div B /\ m < d * B + B /\ d * B + B = (d + 1) * B
    <3>1. m \div B \in Nat /\ m < (m \div B) * B + B
      <4>1. PICK r \in 0 .. B - 1, z \in Nat : z = (m \div B) * B /\ m = z + r
        <5>1. m % B \in 0 .. B - 1 /\ m = (m \div B) * B + (m % B) /\ (m \div B) * B \in Nat
          BY <1>1, DivMod
        <5>. QED  BY <5>1, Zenon
      <4>2. m < z + B /\ m \div B \in Nat
        BY <1>1, <4>1, DivMod
      <4>. QED  BY <4>1, <4>2, Zenon
    <3>2. \A d \in Nat : d * B + B = (d + 1) * B
      BY <1>1
    <3>. QED  BY <3>1, <3>2
  <2>4. (q + 1) * B = y + B /\ y + B <= m
    <3>1. (q + 1) * B = q * B + B
      BY <1>1
    <3>. QED  BY <1>1, <1>3, <2>2, <3>1
  <2>5. q + 1 + 1 <= d + 1
    BY <1>1, <2>2, <2>3, <2>4, NextMultiple
  <2>. QED  BY <2>1, <2>2, <2>3, <2>5
<1>5. q + 1 \in DOMAIN s.blocks
  BY <1>1, <1>3, <1>4
<1>6. s.blocks[q + 1] \in Blocks
  BY <1>1, <1>5
<1>. QED  BY <1>2, <1>3, <1>5, <1>6 DEF B, Slots

LEMMA BatchFacts ==
  ASSUME WholeInv, NEW i \in DOMAIN running
  PROVE  LET s == running[i]
             t == requests[s.id].tokens
         IN  /\ s \in Running /\ HoldsWhatItNeeds(s) /\ NoRepeat(s.blocks) /\ PromptOnly(s)
             /\ s.id \in DOMAIN requests /\ t \in Seq(Token) /\ Len(t) \in Nat \ {0}
             /\ s.num_tokens \in Nat /\ Len(t) <= s.num_tokens
             /\ s.blocks \in Seq(Blocks) /\ s.prompt \in Seq(Chunk) /\ Len(s.prompt) \in Nat
             /\ s.cached \in Nat /\ s.cached <= Len(s.prompt)
             /\ HoldsPrompt(s.blocks, s.prompt) /\ CutFrom(s.prompt, t)
<1> DEFINE s == running[i]
           t == requests[s.id].tokens
<1>. DrivenInv /\ EngineInv /\ CutInv /\ SchedInv /\ TypeInv /\ OwnInv /\ HoldInv /\ UnsharedInv
     /\ RequestsInv /\ MatchInv
  BY DEF WholeInv, DrivenInv, EngineInv, BatchInv, SchedInv
<1>1. s \in Running /\ s.id \in DOMAIN requests /\ s.id \in SeqId
  BY BatchRequests DEF TypeInv
<1>2. /\ s.num_tokens \in Nat /\ s.blocks \in Seq(Blocks) /\ s.prompt \in Seq(Chunk)
      /\ s.cached \in Nat
  BY <1>1, RunningFacts DEF Running
<1>3. HoldsWhatItNeeds(s) /\ NoRepeat(s.blocks)
  BY DEF OwnInv, TablesExact
<1>4. PromptOnly(s) /\ s.cached <= Len(s.prompt)
  BY DEF UnsharedInv
<1>5. HoldsPrompt(s.blocks, s.prompt)
  BY DEF HoldInv
<1>6. t \in Seq(Token) /\ Len(t) \in Nat \ {0}
  BY <1>1, RequestFacts DEF Length
<1>7. Len(t) <= s.num_tokens
  <2>1. s.num_tokens = Len(t) \/ s.num_tokens = Len(t) + 1
    BY DEF MatchInv, Length
  <2>. HIDE DEF s, t
  <2>. QED  BY <1>6, <2>1
<1>8. CutFrom(s.prompt, t)
  <2>1. HasPrompt(s.id, s.prompt)
    BY DEF HasPrompt
  <2>. QED  BY <1>1, <1>2, <2>1 DEF CutInv
<1>9. Len(s.prompt) \in Nat
  BY <1>2
<1>. HIDE DEF s, t
<1>10. /\ s \in Running /\ HoldsWhatItNeeds(s) /\ NoRepeat(s.blocks) /\ PromptOnly(s)
       /\ s.id \in DOMAIN requests /\ t \in Seq(Token) /\ Len(t) \in Nat \ {0}
       /\ s.num_tokens \in Nat /\ Len(t) <= s.num_tokens
       /\ s.blocks \in Seq(Blocks) /\ s.prompt \in Seq(Chunk) /\ Len(s.prompt) \in Nat
       /\ s.cached \in Nat /\ s.cached <= Len(s.prompt)
       /\ HoldsPrompt(s.blocks, s.prompt) /\ CutFrom(s.prompt, t)
  BY <1>1, <1>2, <1>3, <1>4, <1>5, <1>6, <1>7, <1>8, <1>9
<1>. QED  BY <1>10 DEF s, t

\* A position within the k-th block.
LEMMA WithinBlock ==
  ASSUME NEW p \in Nat, NEW c \in Nat
  PROVE  /\ p < c * BlockSize => (p \div BlockSize) + 1 <= c
         /\ c * BlockSize <= p => c < (p \div BlockSize) + 1
<1> DEFINE B == BlockSize
<1>1. B \in Nat \ {0}
  BY BlockTableAssumption
<1>. HIDE DEF B
<1>2. PICK q \in Nat, r \in 0 .. B - 1, y \in Nat : q = p \div B /\ y = q * B /\ p = y + r
  <2>1. p \div B \in Nat /\ p % B \in 0 .. B - 1 /\ p = (p \div B) * B + (p % B)
        /\ (p \div B) * B \in Nat
    BY <1>1, DivMod
  <2>. QED  BY <2>1, Zenon
<1>3. PICK x \in Nat : x = c * B
  BY <1>1
<1>4. y <= p /\ p < y + B
  BY <1>1, <1>2
<1>5. ASSUME p < x PROVE q + 1 <= c
  BY <1>1, <1>2, <1>3, <1>4, <1>5, NextMultiple
<1>6. ASSUME x <= p PROVE c < q + 1
  <2>1. (q + 1) * B = y + B
    BY <1>1, <1>2
  <2>2. c + 1 <= q + 1
    <3>1. x < (q + 1) * B
      BY <1>1, <1>2, <1>3, <1>4, <1>6, <2>1
    <3>. QED  BY <1>1, <1>3, <3>1, NextMultiple
  <2>. QED  BY <2>2
<1>. QED  BY <1>2, <1>3, <1>5, <1>6 DEF B

\* A slot of a prompt's block is for the tokens up to its position.
LEMMA PromptSlot ==
  ASSUME WholeInv, NEW i \in DOMAIN running, NEW p \in Nat,
         p < Len(running[i].prompt) * BlockSize
  PROVE  LET s == running[i]
             h == holds[s.blocks[(p \div BlockSize) + 1]]
         IN  /\ p < s.num_tokens /\ h # <<>>
             /\ Ctx(h, (Len(h) - 1) * BlockSize + (p % BlockSize) + 1)
                  = SubSeq(requests[s.id].tokens, 1, p + 1)
<1> DEFINE s == running[i]
           t == requests[s.id].tokens
           B == BlockSize
<1>1. /\ s \in Running /\ HoldsWhatItNeeds(s) /\ t \in Seq(Token) /\ Len(t) \in Nat
      /\ s.num_tokens \in Nat /\ Len(t) <= s.num_tokens /\ s.prompt \in Seq(Chunk)
      /\ Len(s.prompt) \in Nat /\ HoldsPrompt(s.blocks, s.prompt) /\ CutFrom(s.prompt, t)
  BY BatchFacts
<1>2. B \in Nat \ {0} /\ p < Len(s.prompt) * B
  BY BlockTableAssumption
<1>3. p < s.num_tokens
  <2>1. Len(s.prompt) * B <= Len(t)
    BY <1>1 DEF CutFrom
  <2>. HIDE DEF s, t, B
  <2>2. Len(s.prompt) * B \in Nat
    BY <1>1, <1>2
  <2>. QED  BY <1>1, <1>2, <2>1, <2>2
<1>. HIDE DEF s, t
<1>4. PICK q \in Nat, r \in 0 .. B - 1 : q = p \div B /\ r = p % B /\ p = q * B + r
  BY <1>2, DivMod
<1>5. q + 1 \in DOMAIN s.blocks
  BY <1>1, <1>3, <1>4, PlaceFacts
<1>6. q + 1 \in 1 .. Len(s.prompt)
  BY <1>1, <1>2, <1>4, WithinBlock
<1> DEFINE h == SubSeq(s.prompt, 1, q + 1)
<1>7. holds[s.blocks[q + 1]] = h
  BY <1>1, <1>5, <1>6 DEF HoldsPrompt
<1>8. Len(h) = q + 1 /\ h # <<>>
  BY <1>1, <1>6
<1>9. Ctx(h, p + 1) = SubSeq(t, 1, p + 1)
  <2>1. p + 1 <= (q + 1) * B
    <3>. HIDE DEF B
    <3>1. (q + 1) * B = q * B + B /\ q * B \in Nat
      BY <1>2
    <3>. QED  BY <1>2, <1>4, <3>1
  <2>. QED  BY <1>1, <1>6, <2>1, CtxIsTokens
<1>10. (Len(h) - 1) * B + (p % B) + 1 = p + 1
  <2>1. Len(h) - 1 = q
    BY <1>8
  <2>. QED  BY <1>4, <2>1
<1>. HIDE DEF h
<1>11. /\ p < s.num_tokens /\ holds[s.blocks[(p \div B) + 1]] = h /\ h # <<>>
       /\ Ctx(h, (Len(h) - 1) * B + (p % B) + 1) = SubSeq(t, 1, p + 1)
  BY <1>3, <1>4, <1>7, <1>8, <1>9, <1>10
<1>. QED  BY <1>11 DEF s, t, B

\* Beyond the prompt a slot is for one position of one sequence.
LEMMA OwnSlot ==
  ASSUME WholeInv, NEW i \in DOMAIN running, NEW j \in DOMAIN running, NEW p \in Nat, NEW q \in Nat,
         Len(running[i].prompt) * BlockSize <= p, p < running[i].num_tokens,
         q < running[j].num_tokens, Place(running[i], p) = Place(running[j], q)
  PROVE  i = j /\ p = q
<1> DEFINE s == running[i]
           u == running[j]
           B == BlockSize
           b == s.blocks[(p \div B) + 1]
<1>. DrivenInv /\ SchedInv /\ AllocInv /\ TypeInv /\ Distinct /\ OwnInv /\ CountsExact /\ UnsharedInv
  BY DEF WholeInv, DrivenInv, BatchInv, SchedInv, OwnInv
<1>1. /\ s \in Running /\ HoldsWhatItNeeds(s) /\ NoRepeat(s.blocks) /\ PromptOnly(s)
      /\ s.blocks \in Seq(Blocks) /\ Len(s.prompt) \in Nat
      /\ u \in Running /\ HoldsWhatItNeeds(u)
  BY BatchFacts
<1>2. /\ (p \div B) + 1 \in DOMAIN s.blocks /\ b \in Blocks /\ p = (p \div B) * B + (p % B)
      /\ p \div B \in Nat
  BY <1>1, PlaceFacts
<1>3. /\ (q \div B) + 1 \in DOMAIN u.blocks /\ q = (q \div B) * B + (q % B)
      /\ q \div B \in Nat
  BY <1>1, PlaceFacts
<1>4. b = u.blocks[(q \div B) + 1] /\ p % B = q % B
  BY DEF Place
<1>5. holds[b] = <<>>
  <2>1. Len(s.prompt) < (p \div B) + 1
    BY <1>1, WithinBlock
  <2>. QED  BY <1>1, <1>2, <2>1 DEF PromptOnly
<1>6. In(b, s.blocks) /\ In(b, u.blocks)
  BY <1>2, <1>3, <1>4 DEF In
<1>7. ref_counts[b] = 1
  <2>1. ref_counts[b] # 0 /\ ref_counts[b] <= 1
    BY <1>2, <1>5, <1>6, OwnedIsReferenced DEF UnsharedInv
  <2>2. ref_counts[b] \in Nat
    BY <1>2, AllocatorAssumption DEF AllocInv, AllocTypeOK
  <2>. QED  BY <2>1, <2>2
<1>8. i = j
  BY <1>2, <1>6, <1>7, SoleTable
<1>. HIDE DEF B
<1>9. p \div B = q \div B
  <2>1. (p \div B) + 1 = (q \div B) + 1
    BY <1>1, <1>2, <1>3, <1>4, <1>8 DEF NoRepeat
  <2>. QED  BY <1>2, <1>3, <2>1
<1>10. p = q
  BY <1>2, <1>3, <1>4, <1>9
<1>. QED  BY <1>8, <1>10

\* The quotient and the remainder are what they are.
LEMMA DivUnique ==
  ASSUME NEW p \in Nat, NEW k \in Nat, NEW d \in Nat \ {0}, NEW x \in 0 .. d - 1, p = k * d + x
  PROVE  p \div d = k /\ p % d = x
<1>1. PICK q \in Nat, r \in 0 .. d - 1, y \in Nat : /\ q = p \div d /\ r = p % d
                                                    /\ y = q * d /\ p = y + r
  <2>1. p \div d \in Nat /\ p % d \in 0 .. d - 1 /\ p = (p \div d) * d + (p % d)
        /\ (p \div d) * d \in Nat
    BY DivMod
  <2>. QED  BY <2>1, Zenon
<1>2. PICK z \in Nat : z = k * d
  OBVIOUS
<1>3. (q + 1) * d = y + d /\ (k + 1) * d = z + d
  BY <1>1, <1>2
<1>4. q + 1 <= k + 1
  <2>1. y <= p /\ p < z + d
    BY <1>1, <1>2
  <2>. QED  BY <1>1, <1>3, <2>1, NextMultiple
<1>5. k + 1 <= q + 1
  <2>1. z <= p /\ p < y + d
    BY <1>1, <1>2
  <2>. QED  BY <1>1, <1>2, <1>3, <2>1, NextMultiple
<1>6. q = k
  BY <1>4, <1>5
<1>. QED  BY <1>1, <1>2, <1>6

LEMMA AttentionFromCache ==
  ASSUME WholeInv, CacheInv
  PROVE  AttentionReadsOwnContext
<1>1. SUFFICES ASSUME epc = "attending", NEW i \in DOMAIN running,
                      NEW p \in 0 .. Len(requests[running[i].id].tokens) - 1
               PROVE  kv[<<layer>> \o Place(running[i], p)]
                        = SubSeq(requests[running[i].id].tokens, 1, p + 1)
  BY DEF AttentionReadsOwnContext
<1> DEFINE s == running[i]
           t == requests[s.id].tokens
           b == s.blocks[(p \div BlockSize) + 1]
           x == p % BlockSize
<1>2. layer \in Layers /\ layer \in Nat
  BY <1>1 DEF WholeInv, EngineInv, EnginePhase, Layers
<1>3. Fed(layer) /\ ~Unwritten(layer)
  BY <1>1, <1>2 DEF Fed, Unwritten
<1>4. /\ s \in Running /\ HoldsWhatItNeeds(s) /\ s.num_tokens \in Nat /\ Len(t) <= s.num_tokens
      /\ Len(t) \in Nat /\ Len(s.prompt) \in Nat /\ BlockSize \in Nat
  BY BatchFacts, BlockTableAssumption
<1>5. p \in Nat /\ p < s.num_tokens /\ p <= Len(t) - 1
  <2>. HIDE DEF s, t
  <2>1. p \in 0 .. Len(t) - 1
    BY DEF s, t
  <2>. QED  BY <1>4, <2>1
<1>6. b \in Blocks /\ x \in Slots
  BY <1>4, <1>5, PlaceFacts
<1>7. CASE p < Len(s.prompt) * BlockSize
  <2>1. /\ holds[b] # <<>>
        /\ Ctx(holds[b], (Len(holds[b]) - 1) * BlockSize + x + 1) = SubSeq(t, 1, p + 1)
    BY <1>5, <1>7, PromptSlot
  <2>2. HasChunk(kv, layer, b, holds[b])
    BY <1>2, <1>3, <1>6, <2>1 DEF CacheInv, SharedInv
  <2>3. kv[<<layer, b, x>>] = Ctx(holds[b], (Len(holds[b]) - 1) * BlockSize + x + 1)
    BY <1>6, <2>2 DEF HasChunk
  <2>. QED  BY <2>1, <2>3, KvIndex
<1>8. CASE ~(p < Len(s.prompt) * BlockSize)
  <2>1. HasTokens(kv, layer, s, t, Len(t))
    BY <1>2, <1>3 DEF CacheInv, OwnTokensInv
  <2>2. p \in Len(s.prompt) * BlockSize .. Len(t) - 1
    <3>. HIDE DEF s, t
    <3>1. Len(s.prompt) * BlockSize \in Nat
      BY <1>4
    <3>. QED  BY <1>4, <1>5, <1>8, <3>1
  <2>. QED  BY <2>1, <2>2 DEF HasTokens
<1>. QED  BY <1>7, <1>8

-----------------------------------------------------------------------------
(* A layer is written.                                                     *)

\* A slot of the layer has what some sequence writes there, or what it had.
LEMMA WriteFacts ==
  ASSUME WriteLayer, NEW x \in DOMAIN kv
  PROVE  \/ /\ kv'[x] = kv[x]
            /\ x[1] = layer => \A i \in DOMAIN running : WritesTo(running[i], x) = {}
         \/ /\ x[1] = layer
            /\ \E i \in DOMAIN running : \E p \in WritesTo(running[i], x) :
                 kv'[x] = SubSeq(requests[running[i].id].tokens, 1, p + 1)
<1> DEFINE by == {i \in DOMAIN running : WritesTo(running[i], x) # {}}
           j == CHOOSE i \in by : TRUE
           q == CHOOSE p \in WritesTo(running[j], x) : TRUE
<1>1. kv'[x] = IF x[1] = layer /\ by # {}
               THEN SubSeq(requests[running[j].id].tokens, 1, q + 1) ELSE kv[x]
  BY DEF WriteLayer
<1>2. CASE x[1] = layer /\ by # {}
  <2>1. j \in by
    BY <1>2
  <2>2. q \in WritesTo(running[j], x)
    BY <2>1
  <2>. HIDE DEF j, q
  <2>. QED  BY <1>1, <1>2, <2>1, <2>2
<1>3. CASE ~(x[1] = layer /\ by # {})
  BY <1>1, <1>3
<1>. QED  BY <1>2, <1>3

\* What a sequence writes in this step.
LEMMA WritesFacts ==
  ASSUME WholeInv, NEW i \in DOMAIN running, NEW l, NEW b, NEW x
  PROVE  LET s == running[i]
             t == requests[s.id].tokens
         IN  /\ Start(s) \in Nat
             /\ AdmittedIn(outcome, s.id) => Start(s) = s.cached * BlockSize
             /\ ~AdmittedIn(outcome, s.id) => Start(s) = Len(t) - 1
             /\ \A p : p \in WritesTo(s, <<l, b, x>>) <=>
                       p \in Start(s) .. Len(t) - 1 /\ Place(s, p) = <<b, x>>
<1> DEFINE s == running[i]
           t == requests[s.id].tokens
<1>1. Len(t) \in Nat \ {0} /\ s.cached \in Nat /\ BlockSize \in Nat
  BY BatchFacts, BlockTableAssumption
<1>2. Start(s) = IF AdmittedIn(outcome, s.id) THEN s.cached * BlockSize ELSE Len(t) - 1
  BY DEF Start, AdmittedIn
<1>3. Start(s) \in Nat
  <2>1. s.cached * BlockSize \in Nat /\ Len(t) - 1 \in Nat
    <3>. HIDE DEF s, t
    <3>. QED  BY <1>1
  <2>. QED  BY <1>2, <2>1
<1>4. \A p : p \in WritesTo(s, <<l, b, x>>) <=>
             p \in Start(s) .. Len(t) - 1 /\ Place(s, p) = <<b, x>>
  BY DEF WritesTo, NewPositions
<1>. QED  BY <1>2, <1>3, <1>4

LEMMA WriteKeepsShared ==
  ASSUME WholeInv, CacheInv, WriteLayer, NEW l \in Layers, NEW b \in Blocks, holds[b] # <<>>
  PROVE  HasChunk(kv', l, b, holds[b]) \/ (l > layer /\ ToWrite(b))
<1>. EnginePhase
  BY DEF WholeInv, EngineInv
<1>0. /\ epc = "writing" /\ pc = "idle" /\ layer \in Nat /\ l \in Nat
      /\ DOMAIN kv = Layers \X Blocks \X Slots
  BY DEF EnginePhase, WriteLayer, Layers, CacheInv
<1>1. HasChunk(kv, l, b, holds[b]) \/ (l >= layer /\ ToWrite(b))
  BY <1>0 DEF CacheInv, SharedInv, Unwritten
<1>2. SUFFICES ASSUME ~(l > layer /\ ToWrite(b)), NEW x \in Slots
               PROVE  kv'[<<l, b, x>>] = Ctx(holds[b], (Len(holds[b]) - 1) * BlockSize + x + 1)
  BY DEF HasChunk
<1> DEFINE v == Ctx(holds[b], (Len(holds[b]) - 1) * BlockSize + x + 1)
<1>3. <<l, b, x>> \in DOMAIN kv
  BY <1>0
<1>4. ASSUME kv'[<<l, b, x>>] = kv[<<l, b, x>>],
             l = layer => \A i \in DOMAIN running : WritesTo(running[i], <<l, b, x>>) = {}
      PROVE  kv'[<<l, b, x>>] = v
  <2>1. CASE HasChunk(kv, l, b, holds[b])
    BY <1>4, <2>1 DEF HasChunk
  <2>2. CASE ~HasChunk(kv, l, b, holds[b])
    <3>1. l = layer /\ ToWrite(b)
      BY <1>0, <1>1, <1>2, <2>2
    <3>2. PICK i \in DOMAIN running : AdmittedIn(outcome, running[i].id) /\ NewIn(running[i], b)
      BY <1>0, <3>1 DEF ToWrite
    <3> DEFINE s == running[i]
               t == requests[s.id].tokens
    <3>3. PICK k \in DOMAIN s.blocks : k > s.cached /\ s.blocks[k] = b
      BY <3>2 DEF NewIn
    <3>4. /\ s \in Running /\ HoldsWhatItNeeds(s) /\ PromptOnly(s) /\ t \in Seq(Token)
          /\ Len(t) \in Nat /\ s.blocks \in Seq(Blocks) /\ Len(s.prompt) \in Nat
          /\ s.cached \in Nat /\ CutFrom(s.prompt, t)
      BY BatchFacts
    <3>5. k \in Nat \ {0} /\ k <= Len(s.prompt)
      BY <3>3, <3>4, <1>2 DEF PromptOnly
    <3>6. Start(s) = s.cached * BlockSize
      BY <3>2, WritesFacts
    <3>7. \A p : p \in WritesTo(s, <<l, b, x>>) <=>
                 p \in Start(s) .. Len(t) - 1 /\ Place(s, p) = <<b, x>>
      BY WritesFacts
    <3>8. Len(s.prompt) * BlockSize <= Len(t)
      BY <3>4 DEF CutFrom
    <3>9. \A p : ~(p \in WritesTo(s, <<l, b, x>>))
      BY <1>4, <3>1
    <3>. HIDE DEF s, t
    <3> DEFINE B == BlockSize
    <3>10. B \in Nat \ {0} /\ x \in 0 .. B - 1
      BY BlockTableAssumption DEF Slots
    <3>11. PICK m \in Nat : k = m + 1 /\ s.cached <= m
      <4>1. k - 1 \in Nat /\ k = (k - 1) + 1 /\ s.cached <= k - 1
        BY <3>3, <3>4, <3>5
      <4>. QED  BY <4>1
    <3>12. PICK c \in Nat, d \in Nat :
             c = s.cached * B /\ d = m * B /\ c <= d /\ d + B <= Len(t)
      <4>1. Len(s.prompt) * B <= Len(t)
        BY <3>8
      <4>. HIDE DEF B
      <4>2. s.cached * B \in Nat /\ m * B \in Nat /\ Len(s.prompt) * B \in Nat
        BY <3>4, <3>10
      <4>3. s.cached * B <= m * B /\ (m + 1) * B <= Len(s.prompt) * B
        BY <3>4, <3>5, <3>10, <3>11, SmallerMultiple
      <4>4. (m + 1) * B = m * B + B
        BY <3>10
      <4>5. m * B + B <= Len(t)
        BY <3>4, <3>10, <4>1, <4>2, <4>3, <4>4
      <4>. QED  BY <4>2, <4>3, <4>5, Zenon
    <3>13. PICK p \in Nat : p = d + x /\ p \in c .. Len(t) - 1
      <4>. HIDE DEF B
      <4>1. \A n \in Nat : d + B <= n => d + x \in Nat /\ d + x \in c .. n - 1
        <5>1. c <= d
          BY <3>12
        <5>. QED  BY <3>10, <5>1
      <4>2. d + x \in Nat /\ d + x \in c .. Len(t) - 1
        BY <3>4, <3>12, <4>1
      <4>. QED  BY <4>2
    <3>14. p \div B = m /\ p % B = x
      <4>. HIDE DEF B
      <4>1. p = m * B + x
        BY <3>12, <3>13
      <4>. QED  BY <3>10, <4>1, DivUnique
    <3>15. Place(s, p) = <<b, x>>
      BY <3>3, <3>11, <3>14 DEF Place
    <3>. QED  BY <3>6, <3>7, <3>9, <3>12, <3>13, <3>15
  <2>. QED  BY <2>1, <2>2
<1>5. ASSUME l = layer, NEW i \in DOMAIN running, NEW p \in WritesTo(running[i], <<l, b, x>>),
             kv'[<<l, b, x>>] = SubSeq(requests[running[i].id].tokens, 1, p + 1)
      PROVE  kv'[<<l, b, x>>] = v
  <2> DEFINE s == running[i]
             t == requests[s.id].tokens
  <2>1. /\ s \in Running /\ HoldsWhatItNeeds(s) /\ PromptOnly(s) /\ s.num_tokens \in Nat
        /\ Len(t) \in Nat /\ Len(t) <= s.num_tokens /\ Len(s.prompt) \in Nat
    BY BatchFacts
  <2>2. p \in Start(s) .. Len(t) - 1 /\ Place(s, p) = <<b, x>> /\ Start(s) \in Nat
    BY WritesFacts
  <2>3. p \in Nat /\ p < s.num_tokens
    <3>. HIDE DEF s, t
    <3>. QED  BY <2>1, <2>2
  <2>4. b = s.blocks[(p \div BlockSize) + 1] /\ x = p % BlockSize
    BY <2>2 DEF Place
  <2>5. (p \div BlockSize) + 1 \in DOMAIN s.blocks /\ p \div BlockSize \in Nat
    BY <2>1, <2>3, PlaceFacts
  <2>6. p < Len(s.prompt) * BlockSize
    <3>1. ~((p \div BlockSize) + 1 > Len(s.prompt))
      BY <1>2, <2>1, <2>4, <2>5 DEF PromptOnly
    <3>2. ~(Len(s.prompt) * BlockSize <= p)
      BY <2>1, <2>3, <2>5, <3>1, WithinBlock
    <3>3. Len(s.prompt) * BlockSize \in Nat
      BY <2>1, BlockTableAssumption
    <3>. HIDE DEF s
    <3>. QED  BY <2>3, <3>2, <3>3
  <2>7. v = SubSeq(t, 1, p + 1)
    BY <2>3, <2>4, <2>6, PromptSlot
  <2>. QED  BY <1>5, <2>7
<1>6. \/ /\ kv'[<<l, b, x>>] = kv[<<l, b, x>>]
         /\ l = layer => \A i \in DOMAIN running : WritesTo(running[i], <<l, b, x>>) = {}
      \/ /\ l = layer
         /\ \E i \in DOMAIN running : \E p \in WritesTo(running[i], <<l, b, x>>) :
              kv'[<<l, b, x>>] = SubSeq(requests[running[i].id].tokens, 1, p + 1)
  <2> DEFINE y == <<l, b, x>>
  <2>1. y \in DOMAIN kv /\ y[1] = l
    BY <1>3
  <2>. HIDE DEF y
  <2>2. \/ /\ kv'[y] = kv[y]
           /\ l = layer => \A i \in DOMAIN running : WritesTo(running[i], y) = {}
        \/ /\ l = layer
           /\ \E i \in DOMAIN running : \E p \in WritesTo(running[i], y) :
                kv'[y] = SubSeq(requests[running[i].id].tokens, 1, p + 1)
    BY <2>1, WriteFacts, Zenon
  <2>. QED  BY <2>2 DEF y
<1>. QED  BY <1>4, <1>5, <1>6

LEMMA WriteKeepsTokens ==
  ASSUME WholeInv, CacheInv, WriteLayer, NEW l \in Layers, NEW i \in DOMAIN running,
         ~(l > layer /\ AdmittedIn(outcome, running[i].id))
  PROVE  LET s == running[i]
             t == requests[s.id].tokens
         IN  HasTokens(kv', l, s, t, IF l <= layer THEN Len(t) ELSE Len(t) - 1)
<1> DEFINE s == running[i]
           t == requests[s.id].tokens
           n == IF l <= layer THEN Len(t) ELSE Len(t) - 1
<1>. EnginePhase
  BY DEF WholeInv, EngineInv
<1>0. /\ epc = "writing" /\ layer \in Nat /\ l \in Nat
      /\ DOMAIN kv = Layers \X Blocks \X Slots
  BY DEF EnginePhase, WriteLayer, Layers, CacheInv
<1>1. /\ s \in Running /\ HoldsWhatItNeeds(s) /\ s.num_tokens \in Nat /\ Len(t) \in Nat \ {0}
      /\ Len(t) <= s.num_tokens /\ Len(s.prompt) \in Nat /\ s.cached \in Nat
      /\ s.cached <= Len(s.prompt)
  BY BatchFacts
<1>2. PICK m \in Nat, c \in Nat : m = Len(s.prompt) * BlockSize /\ c = s.cached * BlockSize /\ c <= m
  <2>. HIDE DEF s, t
  <2>1. BlockSize \in Nat
    BY BlockTableAssumption
  <2>2. Len(s.prompt) * BlockSize \in Nat /\ s.cached * BlockSize \in Nat
    BY <1>1, <2>1
  <2>3. s.cached * BlockSize <= Len(s.prompt) * BlockSize
    BY <1>1, <2>1, SmallerMultiple
  <2>. QED  BY <2>2, <2>3
<1>3. ~(l >= layer /\ AdmittedIn(outcome, s.id)) =>
        HasTokens(kv, l, s, t, IF l < layer THEN Len(t) ELSE Len(t) - 1)
  BY <1>0 DEF CacheInv, OwnTokensInv, Unwritten, Fed
<1>4. /\ Start(s) \in Nat
      /\ AdmittedIn(outcome, s.id) => Start(s) = c
      /\ ~AdmittedIn(outcome, s.id) => Start(s) = Len(t) - 1
  BY <1>2, WritesFacts
<1>5. ASSUME NEW p \in m .. n - 1
      PROVE  kv'[<<l>> \o Place(s, p)] = SubSeq(t, 1, p + 1)
  <2> DEFINE b == s.blocks[(p \div BlockSize) + 1]
             x == p % BlockSize
             y == <<l, b, x>>
  <2>1. p \in Nat /\ m <= p /\ p < s.num_tokens /\ p <= Len(t) - 1 /\ (l > layer => p < Len(t) - 1)
    <3>. HIDE DEF s, t
    <3>. QED  BY <1>0, <1>1, <1>2
  <2>2. b \in Blocks /\ x \in Slots
    BY <1>1, <2>1, PlaceFacts
  <2>3. <<l>> \o Place(s, p) = y /\ Place(s, p) = <<b, x>>
    BY KvIndex DEF Place
  <2>4. y \in DOMAIN kv /\ y[1] = l
    BY <1>0, <2>2
  <2>5. ASSUME kv'[y] = kv[y],
               l = layer => \A j \in DOMAIN running : WritesTo(running[j], y) = {}
        PROVE  kv'[y] = SubSeq(t, 1, p + 1)
    <3>1. l = layer => p < Start(s)
      <4>1. ASSUME l = layer PROVE ~(p \in Start(s) .. Len(t) - 1)
        <5>1. \A z : z \in WritesTo(s, <<l, b, x>>) <=>
                     z \in Start(s) .. Len(t) - 1 /\ Place(s, z) = <<b, x>>
          BY WritesFacts
        <5>. QED  BY <2>3, <2>5, <4>1, <5>1
      <4>. HIDE DEF s, t
      <4>. QED  BY <1>1, <1>4, <2>1, <4>1
    <3>2. l = layer => ~AdmittedIn(outcome, s.id) /\ p < Len(t) - 1
      <4>. HIDE DEF s, t
      <4>1. l = layer /\ AdmittedIn(outcome, s.id) => FALSE
        BY <1>2, <1>4, <2>1, <3>1
      <4>. QED  BY <1>4, <3>1, <4>1
    <3>3. ~(l >= layer /\ AdmittedIn(outcome, s.id))
      BY <1>0, <3>2
    <3>4. HasTokens(kv, l, s, t, IF l < layer THEN Len(t) ELSE Len(t) - 1)
      BY <1>3, <3>3
    <3>5. p \in Len(s.prompt) * BlockSize .. (IF l < layer THEN Len(t) ELSE Len(t) - 1) - 1
      <4>. HIDE DEF s, t
      <4>1. m <= p /\ p <= (IF l < layer THEN Len(t) ELSE Len(t) - 1) - 1
        <5>1. CASE l < layer
          BY <1>1, <2>1, <5>1
        <5>2. CASE ~(l < layer)
          <6>1. p < Len(t) - 1
            BY <1>0, <2>1, <3>2, <5>2
          <6>. QED  BY <1>1, <2>1, <5>2, <6>1
        <5>. QED  BY <5>1, <5>2
      <4>2. p \in m .. (IF l < layer THEN Len(t) ELSE Len(t) - 1) - 1
        BY <1>1, <2>1, <4>1
      <4>. QED  BY <1>2, <4>2
    <3>6. kv[<<l>> \o Place(s, p)] = SubSeq(t, 1, p + 1)
      BY <3>4, <3>5 DEF HasTokens
    <3>. QED  BY <2>3, <2>5, <3>6
  <2>6. ASSUME l = layer, NEW j \in DOMAIN running, NEW q \in WritesTo(running[j], y),
               kv'[y] = SubSeq(requests[running[j].id].tokens, 1, q + 1)
        PROVE  kv'[y] = SubSeq(t, 1, p + 1)
    <3> DEFINE u == running[j]
               v == requests[u.id].tokens
    <3>1. q \in Start(u) .. Len(v) - 1 /\ Place(u, q) = <<b, x>> /\ Start(u) \in Nat
      BY WritesFacts
    <3>2. Len(v) \in Nat /\ u.num_tokens \in Nat /\ Len(v) <= u.num_tokens
      BY BatchFacts
    <3>3. q \in Nat /\ q < u.num_tokens
      <4>. HIDE DEF u, v
      <4>. QED  BY <3>1, <3>2
    <3>4. Place(s, p) = Place(u, q)
      BY <2>3, <3>1
    <3>5. i = j /\ p = q
      BY <1>2, <2>1, <3>3, <3>4, OwnSlot
    <3>. QED  BY <2>6, <3>5
  <2>7. kv'[y] = SubSeq(t, 1, p + 1)
    <3>. HIDE DEF y, t
    <3>1. \/ /\ kv'[y] = kv[y]
             /\ l = layer => \A j \in DOMAIN running : WritesTo(running[j], y) = {}
          \/ /\ l = layer
             /\ \E j \in DOMAIN running : \E q \in WritesTo(running[j], y) :
                  kv'[y] = SubSeq(requests[running[j].id].tokens, 1, q + 1)
      BY <2>4, WriteFacts, Zenon
    <3>. QED  BY <2>5, <2>6, <3>1
  <2>. QED  BY <2>3, <2>7
<1>6. HasTokens(kv', l, s, t, n)
  BY <1>2, <1>5 DEF HasTokens
<1>. QED  BY <1>6

\* The invariant after the step.
UnwrittenNext(l) ==
  epc' = "scheduling" \/ (epc' = "writing" /\ l >= layer') \/ (epc' = "attending" /\ l > layer')
FedNext(l) ==
  epc' = "sampling" \/ (epc' = "writing" /\ l < layer') \/ (epc' = "attending" /\ l <= layer')
ToWriteNext(b) ==
  \/ \E i \in DOMAIN running' : AdmittedIn(outcome', running'[i].id) /\ NewIn(running'[i], b)
  \/ pc' \in {"build", "register"} /\ NewIn(cur', b)

SharedNext ==
  \A l \in Layers, b \in Blocks :
    holds'[b] # <<>> => HasChunk(kv', l, b, holds'[b]) \/ (UnwrittenNext(l) /\ ToWriteNext(b))

OwnTokensNext ==
  \A l \in Layers : \A i \in DOMAIN running' :
    LET s == running'[i]
        t == requests'[s.id].tokens
    IN  ~(UnwrittenNext(l) /\ AdmittedIn(outcome', s.id)) =>
          HasTokens(kv', l, s, t, IF FedNext(l) THEN Len(t) ELSE Len(t) - 1)

LEMMA CachePrimed ==
  ASSUME DOMAIN kv' = Layers \X Blocks \X Slots, SharedNext, OwnTokensNext
  PROVE  CacheInv'
<1>1. \A l : /\ UnwrittenNext(l) <=> Unwritten(l)'
             /\ FedNext(l) <=> Fed(l)'
  BY DEF UnwrittenNext, Unwritten, FedNext, Fed
<1>2. \A b : ToWriteNext(b) <=> ToWrite(b)'
  BY DEF ToWriteNext, ToWrite, AdmittedIn, NewIn
<1>3. SharedInv'
  BY <1>1, <1>2 DEF SharedNext, SharedInv, HasChunk, Ctx
<1>4. OwnTokensInv'
  BY <1>1 DEF OwnTokensNext, OwnTokensInv, HasTokens, AdmittedIn, Place
<1>. QED  BY <1>3, <1>4 DEF CacheInv

LEMMA WriteKeepsCache ==
  ASSUME WholeInv, CacheInv, WriteLayer
  PROVE  CacheInv'
<1>1. /\ UNCHANGED <<running, requests, outcome, holds, layer, pc, cur>> /\ epc' = "attending"
      /\ DOMAIN kv' = DOMAIN kv
  BY DEF WriteLayer, vars, callVars, histVars
<1>2. layer \in Nat /\ \A l \in Layers : l \in Nat
  BY DEF WholeInv, EngineInv, EnginePhase, WriteLayer, Layers
<1>3. \A l \in Layers : (UnwrittenNext(l) <=> l > layer) /\ (FedNext(l) <=> l <= layer)
  BY <1>1 DEF UnwrittenNext, FedNext
<1>4. \A b : ToWriteNext(b) <=> ToWrite(b)
  BY <1>1 DEF ToWriteNext, ToWrite
<1>5. SharedNext
  BY <1>1, <1>3, <1>4, WriteKeepsShared DEF SharedNext
<1>6. OwnTokensNext
  <2>1. SUFFICES ASSUME NEW l \in Layers, NEW i \in DOMAIN running,
                        ~(l > layer /\ AdmittedIn(outcome, running[i].id))
                 PROVE  LET s == running[i]
                            t == requests[s.id].tokens
                        IN  HasTokens(kv', l, s, t, IF l <= layer THEN Len(t) ELSE Len(t) - 1)
    BY <1>1, <1>3 DEF OwnTokensNext
  <2>. QED  BY <2>1, WriteKeepsTokens
<1>. QED  BY <1>1, <1>5, <1>6, CachePrimed DEF CacheInv

LEMMA AppendPrefix ==
  ASSUME NEW S, NEW t \in Seq(S), NEW x \in S, NEW m \in Nat, m <= Len(t)
  PROVE  SubSeq(Append(t, x), 1, m) = SubSeq(t, 1, m)
<1> DEFINE v == Append(t, x)
           a == SubSeq(v, 1, m)
           b == SubSeq(t, 1, m)
<1>1. v \in Seq(S) /\ Len(v) = Len(t) + 1 /\ Len(t) \in Nat /\ \A i \in 1 .. Len(t) : v[i] = t[i]
  OBVIOUS
<1>2. b \in Seq(S) /\ Len(b) = m /\ \A i \in 1 .. m : b[i] = t[i]
  OBVIOUS
<1>. HIDE DEF v
<1>3. a \in Seq(S) /\ Len(a) = m /\ \A i \in 1 .. m : a[i] = v[i]
  BY <1>1
<1>4. \A i \in 1 .. m : a[i] = b[i]
  BY <1>1, <1>2, <1>3
<1>. HIDE DEF a, b
<1>5. a = b
  BY <1>2, <1>3, <1>4, SeqEqual
<1>. QED  BY <1>5 DEF a, b, v

-----------------------------------------------------------------------------
(* The other steps of the engine.                                          *)

\* No block is shared that a token is appended to, so no copy is made.
LEMMA NothingCopied ==
  ASSUME WholeInv
  PROVE  Copied = kv
<1> DEFINE D == outcome.decoded
           After(f, n) == LET cow == D[n].cow
                          IN  IF cow = <<>> THEN f
                              ELSE [x \in DOMAIN kv |-> IF x[2] = cow[2]
                                                        THEN f[<<x[1], cow[1], x[3]>>]
                                                        ELSE f[x]]
           Is(f) == f = [n \in 0 .. Len(D) |-> IF n = 0 THEN kv ELSE After(f[n - 1], n)]
           to == CHOOSE f : Is(f)
           same == [n \in 0 .. Len(D) |-> kv]
<1>1. Len(D) \in Nat /\ DOMAIN D = 1 .. Len(D)
  BY DEF WholeInv, DrivenInv, BatchInv, DecodedInv
<1>2. \A n \in 1 .. Len(D) : D[n].cow = <<>>
  BY <1>1 DEF WholeInv, DrivenInv, UnsharedInv, NothingToCopy
<1>3. Copied = to[Len(D)]
  BY DEF Copied
<1>4. \A f : \A n \in 1 .. Len(D) : After(f, n) = f
  BY <1>2
<1>. HIDE DEF D, After
<1>5. Is(same)
  <2>1. \A n \in 0 .. Len(D) : same[n] = IF n = 0 THEN kv ELSE After(same[n - 1], n)
    <3>1. ASSUME NEW n \in 0 .. Len(D), n # 0 PROVE After(same[n - 1], n) = kv
      <4>1. n \in 1 .. Len(D) /\ n - 1 \in 0 .. Len(D)
        BY <1>1, <3>1
      <4>. QED  BY <1>4, <4>1
    <3>. QED  BY <3>1
  <2>. QED  BY <2>1
<1>6. Is(to)
  <2>1. \E f : Is(f)
    BY <1>5
  <2>. HIDE DEF Is
  <2>. QED  BY <2>1
<1>. HIDE DEF to
<1> DEFINE Odd == {n \in 0 .. Len(D) : to[n] # kv}
<1>7. Odd = {}
  <2>1. SUFFICES ASSUME Odd # {} PROVE FALSE
    OBVIOUS
  <2>2. PICK n \in Odd : \A m \in Odd : n <= m
    <3>1. Odd \in SUBSET Nat
      BY <1>1
    <3>. HIDE DEF Odd
    <3>. QED  BY <2>1, <3>1, LeastNatural
  <2>3. to[n] = IF n = 0 THEN kv ELSE After(to[n - 1], n)
    BY <1>6
  <2>4. n # 0 /\ n \in 1 .. Len(D) /\ n - 1 \in 0 .. Len(D) /\ ~(n <= n - 1)
    BY <1>1, <2>2, <2>3
  <2>5. to[n - 1] = kv
    BY <2>2, <2>4
  <2>. QED  BY <1>4, <2>2, <2>3, <2>4, <2>5
<1>8. to[Len(D)] = kv
  BY <1>1, <1>7
<1>. QED  BY <1>3, <1>8

\* What a sequence has stays its own.
LEMMA TokensStay ==
  ASSUME NEW f, NEW l, NEW s, NEW u, NEW t, NEW v, NEW n, HasTokens(f, l, s, t, n),
         u.prompt = s.prompt,
         \A p \in Len(s.prompt) * BlockSize .. n - 1 :
           Place(u, p) = Place(s, p) /\ SubSeq(v, 1, p + 1) = SubSeq(t, 1, p + 1)
  PROVE  HasTokens(f, l, u, v, n)
BY DEF HasTokens

LEMMA CacheQuiet ==
  ASSUME CacheInv, UNCHANGED <<running, requests, outcome, holds, pc, cur, kv>>,
         \A l \in Layers : (Unwritten(l) <=> UnwrittenNext(l)) \/ (running = <<>> /\ pc = "idle"),
         \A l \in Layers : Fed(l) <=> FedNext(l)
  PROVE  CacheInv'
<1>1. \A b : ToWriteNext(b) <=> ToWrite(b)
  BY DEF ToWriteNext, ToWrite
<1>2. running = <<>> /\ pc = "idle" => \A b : ~ToWrite(b)
  BY DEF ToWrite
<1>3. SharedNext
  BY <1>1, <1>2 DEF CacheInv, SharedInv, SharedNext
<1>4. OwnTokensNext
  BY DEF CacheInv, OwnTokensInv, OwnTokensNext
<1>. QED  BY <1>3, <1>4, CachePrimed DEF CacheInv

LEMMA QuietKeepsCache ==
  ASSUME WholeInv, CacheInv,
         ScheduledNothing \/ ScheduledBatch \/ AttendLayer \/ StepReturns \/ UNCHANGED engineVars
  PROVE  CacheInv'
<1>1. UNCHANGED <<running, requests, outcome, holds, pc, cur>>
  BY DEF ScheduledNothing, ScheduledBatch, AttendLayer, StepReturns, engineVars, vars, callVars,
         histVars
<1>2. EnginePhase
  BY DEF WholeInv, EngineInv
<1>3. NumLayers \in Nat /\ \A l \in Layers : l \in Nat /\ 1 <= l /\ l <= NumLayers
  BY EngineAssumption DEF Layers
<1>4. CASE ScheduledNothing
  <2>1. epc = "scheduling" /\ epc' = "idle" /\ pc = "idle" /\ running = <<>> /\ UNCHANGED kv
    BY <1>4 DEF ScheduledNothing
  <2>. QED  BY <1>1, <2>1, CacheQuiet DEF Fed, FedNext
<1>5. CASE ScheduledBatch
  <2>1. epc = "scheduling" /\ epc' = "writing" /\ layer' = 1 /\ UNCHANGED kv
    BY <1>5, NothingCopied DEF ScheduledBatch
  <2>2. \A l \in Layers : Unwritten(l) /\ UnwrittenNext(l) /\ ~Fed(l) /\ ~FedNext(l)
    BY <1>3, <2>1 DEF Unwritten, UnwrittenNext, Fed, FedNext
  <2>. QED  BY <1>1, <2>1, <2>2, CacheQuiet
<1>6. CASE AttendLayer
  <2>1. epc = "attending" /\ layer \in Layers /\ UNCHANGED kv
    BY <1>2, <1>6 DEF AttendLayer, EnginePhase
  <2>2. \A l \in Layers : (Unwritten(l) <=> l > layer) /\ (Fed(l) <=> l <= layer)
    BY <2>1 DEF Unwritten, Fed
  <2>3. CASE layer < NumLayers
    <3>1. epc' = "writing" /\ layer' = layer + 1
      BY <1>6, <2>3 DEF AttendLayer
    <3>2. \A l \in Layers : (UnwrittenNext(l) <=> l >= layer + 1) /\ (FedNext(l) <=> l < layer + 1)
      BY <3>1 DEF UnwrittenNext, FedNext
    <3>3. \A l \in Layers : (l > layer <=> l >= layer + 1) /\ (l <= layer <=> l < layer + 1)
      BY <1>3, <2>1
    <3>. QED  BY <1>1, <2>1, <2>2, <3>2, <3>3, CacheQuiet
  <2>4. CASE ~(layer < NumLayers)
    <3>1. epc' = "sampling"
      BY <1>6, <2>4 DEF AttendLayer
    <3>2. \A l \in Layers : ~UnwrittenNext(l) /\ FedNext(l)
      BY <3>1 DEF UnwrittenNext, FedNext
    <3>3. \A l \in Layers : ~(l > layer) /\ l <= layer
      BY <1>3, <2>1, <2>4
    <3>. QED  BY <1>1, <2>1, <2>2, <3>2, <3>3, CacheQuiet
  <2>. QED  BY <2>3, <2>4
<1>7. CASE StepReturns
  <2>1. epc = "retiring" /\ epc' = "idle" /\ UNCHANGED kv
    BY <1>7 DEF StepReturns
  <2>. QED  BY <1>1, <2>1, CacheQuiet DEF Unwritten, UnwrittenNext, Fed, FedNext
<1>8. CASE UNCHANGED engineVars
  <2>1. UNCHANGED <<epc, layer, kv>>
    BY <1>8 DEF engineVars
  <2>. QED  BY <1>1, <2>1, CacheQuiet DEF Unwritten, UnwrittenNext, Fed, FedNext
<1>. QED  BY <1>4, <1>5, <1>6, <1>7, <1>8

LEMMA StartKeepsCache ==
  ASSUME WholeInv, CacheInv, StepStart
  PROVE  CacheInv'
<1>1. /\ UNCHANGED <<running, requests, holds, kv>> /\ epc = "idle" /\ epc' = "scheduling"
  BY DEF StepStart, Idle, StepBegin, histVars
<1>2. \A l : ~Unwritten(l) /\ ~Fed(l) /\ ~FedNext(l)
  BY <1>1 DEF Unwritten, Fed, FedNext
<1>3. SharedNext
  BY <1>1, <1>2 DEF CacheInv, SharedInv, SharedNext
<1>4. OwnTokensNext
  BY <1>1, <1>2 DEF CacheInv, OwnTokensInv, OwnTokensNext
<1>. QED  BY <1>1, <1>3, <1>4, CachePrimed DEF CacheInv

\* What was fed to the model stays; the sampled token is not yet fed.
LEMMA SampleKeepsCache ==
  ASSUME WholeInv, CacheInv, Sample
  PROVE  CacheInv'
<1>1. /\ UNCHANGED <<running, outcome, holds, pc, cur, kv>>
      /\ epc = "sampling" /\ epc' = "retiring"
  BY DEF Sample, vars, callVars, histVars
<1>2. \A l : ~Unwritten(l) /\ ~UnwrittenNext(l) /\ Fed(l) /\ ~FedNext(l)
  BY <1>1 DEF Unwritten, UnwrittenNext, Fed, FedNext
<1>3. SharedNext
  BY <1>1, <1>2 DEF CacheInv, SharedInv, SharedNext
<1>4. ASSUME NEW l \in Layers, NEW i \in DOMAIN running
      PROVE  LET s == running[i]
                 v == requests'[s.id].tokens
             IN  HasTokens(kv, l, s, v, Len(v) - 1)
  <2> DEFINE s == running[i]
             t == requests[s.id].tokens
             v == requests'[s.id].tokens
  <2>1. HasTokens(kv, l, s, t, Len(t))
    BY <1>2 DEF CacheInv, OwnTokensInv
  <2>2. t \in Seq(Token) /\ Len(t) \in Nat /\ Len(s.prompt) * BlockSize \in Nat
    BY BatchFacts, BlockTableAssumption
  <2>3. PICK x \in Token : v = Append(t, x)
    BY SampleFacts DEF WholeInv, EngineInv
  <2>. HIDE DEF t, v, s
  <2>4. Len(v) - 1 = Len(t)
    BY <2>2, <2>3
  <2>5. \A p \in Len(s.prompt) * BlockSize .. Len(t) - 1 : SubSeq(v, 1, p + 1) = SubSeq(t, 1, p + 1)
    <3>1. SUFFICES ASSUME NEW p \in Len(s.prompt) * BlockSize .. Len(t) - 1
                   PROVE  SubSeq(v, 1, p + 1) = SubSeq(t, 1, p + 1)
      OBVIOUS
    <3>2. PICK m \in Nat : m = p + 1 /\ m <= Len(t)
      <4>1. p \in Nat /\ p + 1 \in Nat /\ p + 1 <= Len(t)
        BY <2>2
      <4>. QED  BY <4>1
    <3>3. SubSeq(v, 1, m) = SubSeq(t, 1, m)
      BY <2>2, <2>3, <3>2, AppendPrefix
    <3>. QED  BY <3>2, <3>3
  <2>6. HasTokens(kv, l, s, v, Len(t))
    BY <2>1, <2>5, TokensStay
  <2>7. HasTokens(kv, l, s, v, Len(v) - 1)
    BY <2>4, <2>6
  <2>. QED  BY <2>7 DEF s, v
<1>5. OwnTokensNext
  BY <1>1, <1>2, <1>4 DEF OwnTokensNext
<1>. QED  BY <1>1, <1>3, <1>5, CachePrimed DEF CacheInv

LEMMA AddKeepsCache ==
  ASSUME WholeInv, CacheInv, NEW p \in Prompts, AddRequest(p)
  PROVE  CacheInv'
<1>1. /\ UNCHANGED <<running, outcome, holds, pc, cur, kv, epc>> /\ epc = "idle"
      /\ \A id \in DOMAIN requests : requests'[id] = requests[id]
  <2>1. \A id \in DOMAIN requests : requests'[id] = requests[id]
    BY AddFacts DEF WholeInv, EngineInv
  <2>. QED  BY <2>1 DEF AddRequest, Enqueue, Idle, callVars, histVars
<1>2. \A l : ~Unwritten(l) /\ ~UnwrittenNext(l) /\ ~Fed(l) /\ ~FedNext(l)
  BY <1>1 DEF Unwritten, UnwrittenNext, Fed, FedNext
<1>3. SharedNext
  BY <1>1, <1>2 DEF CacheInv, SharedInv, SharedNext
<1>4. \A i \in DOMAIN running : requests'[running[i].id] = requests[running[i].id]
  BY <1>1, BatchFacts
<1>5. OwnTokensNext
  BY <1>1, <1>2, <1>4 DEF CacheInv, OwnTokensInv, OwnTokensNext
<1>. QED  BY <1>1, <1>3, <1>5, CachePrimed DEF CacheInv

\* A request leaves, between two steps or as the step retires it.
LEMMA LeaveKeepsCache ==
  ASSUME WholeInv, CacheInv, EngineInv', NEW id, FinishSequence(id), requests' = Without(id),
         epc \in {"idle", "retiring"}, UNCHANGED <<epc, kv>>
  PROVE  CacheInv'
<1>. TypeInv /\ Distinct /\ MatchInv
  BY DEF WholeInv, DrivenInv, BatchInv, SchedInv, EngineInv
<1>1. UNCHANGED holds /\ \A j \in DOMAIN running' : \E k \in DOMAIN running : running'[j] = running[k]
  <2>1. \A j \in DOMAIN running' : \E k \in DOMAIN running : running'[j] = running[k]
    BY FinishedFacts
  <2>. QED  BY <2>1 DEF FinishSequence, FinishRunning, FinishWaiting, histVars
<1>2. \A l : ~Unwritten(l) /\ ~UnwrittenNext(l) /\ ~Fed(l) /\ ~FedNext(l)
  BY DEF Unwritten, UnwrittenNext, Fed, FedNext
<1>3. SharedNext
  BY <1>1, <1>2 DEF CacheInv, SharedInv, SharedNext
<1>4. ASSUME NEW l \in Layers, NEW j \in DOMAIN running'
      PROVE  LET s == running'[j]
                 t == requests'[s.id].tokens
             IN  HasTokens(kv, l, s, t, Len(t) - 1)
  <2>1. PICK k \in DOMAIN running : running'[j] = running[k]
    BY <1>1
  <2>2. running[k].id \in DOMAIN requests'
    <3>1. PICK x \in SeqId : x = running[k].id
      BY BatchRequests
    <3>2. Known(x)'
      BY <2>1, <3>1 DEF Known
    <3>. QED  BY <3>1, <3>2 DEF EngineInv, MatchInv
  <2>3. requests'[running[k].id] = requests[running[k].id]
    BY <2>2 DEF Without
  <2>4. HasTokens(kv, l, running[k], requests[running[k].id].tokens,
                  Len(requests[running[k].id].tokens) - 1)
    BY <1>2 DEF CacheInv, OwnTokensInv
  <2>. QED  BY <2>1, <2>3, <2>4
<1>5. OwnTokensNext
  BY <1>2, <1>4 DEF OwnTokensNext
<1>. QED  BY <1>3, <1>5, CachePrimed DEF CacheInv

-----------------------------------------------------------------------------
(* The scheduler's steps.                                                  *)

\* The table u continues s.
Continues(s, u) ==
  /\ u.id = s.id /\ u.prompt = s.prompt
  /\ \A k \in DOMAIN s.blocks : u.blocks[k] = s.blocks[k]

\* A block's prompt is still to be written, or was written already; and who
\* was not admitted in this step was there before it.
StepMoves ==
  /\ \A b \in Blocks :
       holds'[b] # <<>> => ToWriteNext(b) \/ (holds'[b] = holds[b] /\ ~ToWrite(b))
  /\ \A j \in DOMAIN running' :
       \/ AdmittedIn(outcome', running'[j].id)
       \/ \E i \in DOMAIN running : /\ Continues(running[i], running'[j])
                                    /\ ~AdmittedIn(outcome, running[i].id)

LEMMA MovesNothing ==
  ASSUME UNCHANGED <<running, holds, outcome>>,
         pc \in {"build", "register"} =>
           pc' \in {"build", "register"} /\ \A b : NewIn(cur, b) => NewIn(cur', b)
  PROVE  StepMoves
<1>1. \A b : ToWrite(b) => ToWriteNext(b)
  BY DEF ToWrite, ToWriteNext
<1>. QED  BY <1>1 DEF StepMoves, Continues

LEMMA NewGrows ==
  ASSUME NEW s, NEW u, s.blocks \in Seq(Blocks), NEW x \in Blocks,
         u.blocks = Append(s.blocks, x), u.cached = s.cached
  PROVE  /\ \A b : NewIn(s, b) => NewIn(u, b)
         /\ Len(s.blocks) + 1 \in DOMAIN u.blocks /\ u.blocks[Len(s.blocks) + 1] = x
         /\ \A k \in DOMAIN s.blocks : u.blocks[k] = s.blocks[k]
<1>1. /\ DOMAIN u.blocks = DOMAIN s.blocks \cup {Len(s.blocks) + 1}
      /\ \A i \in DOMAIN s.blocks : u.blocks[i] = s.blocks[i]
      /\ u.blocks[Len(s.blocks) + 1] = x
  BY AppendOrigin
<1>. QED  BY <1>1 DEF NewIn

LEMMA MovesFill ==
  ASSUME WholeInv, Fill
  PROVE  StepMoves
<1>. TypeInv /\ ChainInv
  BY DEF WholeInv, DrivenInv, BatchInv, SchedInv
<1>1. PICK x \in Blocks :
        /\ cur' = [cur EXCEPT !.blocks = Append(@, x)]
        /\ holds' = [holds EXCEPT ![x] =
                       IF Len(cur.blocks) < Len(cur.prompt)
                       THEN SubSeq(cur.prompt, 1, Len(cur.blocks) + 1) ELSE <<>>]
  BY DEF Fill
<1>2. /\ pc = "build" /\ pc' = "build" /\ claim = <<>> /\ UNCHANGED <<running, outcome>>
      /\ holds \in [Blocks -> Seq(Chunk)]
  BY DEF Fill, TypeInv
<1>3. /\ cur.blocks \in Seq(Blocks) /\ cur.cached \in Nat
      /\ cur'.blocks = Append(cur.blocks, x) /\ cur'.cached = cur.cached
  BY <1>1 DEF TypeInv, RunningWith
<1>4. cur.cached <= Len(cur.blocks)
  <2>1. Full = cur.blocks \o claim /\ Settled = cur.cached /\ Building
    BY <1>2 DEF Full, Settled, Building
  <2>2. Full = cur.blocks
    BY <1>2, <1>3, <2>1
  <2>3. Settled \in 0 .. Len(Full)
    BY <2>1 DEF ChainInv, BuildInv
  <2>. QED  BY <1>3, <2>1, <2>2, <2>3
<1>5. /\ \A b : NewIn(cur, b) => NewIn(cur', b)
      /\ Len(cur.blocks) + 1 \in DOMAIN cur'.blocks /\ cur'.blocks[Len(cur.blocks) + 1] = x
  BY <1>3, NewGrows
<1>6. NewIn(cur', x)
  <2>1. Len(cur.blocks) + 1 > cur'.cached
    BY <1>3, <1>4
  <2>. QED  BY <1>5, <2>1 DEF NewIn
<1>7. \A b : ToWrite(b) => ToWriteNext(b)
  BY <1>2, <1>5 DEF ToWrite, ToWriteNext
<1>8. ToWriteNext(x)
  BY <1>2, <1>6 DEF ToWriteNext
<1>9. \A b \in Blocks : b # x => holds'[b] = holds[b]
  BY <1>1, <1>2
<1>. QED  BY <1>2, <1>7, <1>8, <1>9 DEF StepMoves, Continues

LEMMA MovesJoin ==
  ASSUME WholeInv, RegisterEnd
  PROVE  StepMoves
<1>. TypeInv
  BY DEF WholeInv, DrivenInv, BatchInv, SchedInv
<1> DEFINE a == outcome.admitted
           e == [id |-> cur.id, cached |-> cur.cached]
<1>1. /\ pc = "register" /\ pc' = "admit" /\ running' = Append(running, cur) /\ UNCHANGED holds
      /\ outcome' = [outcome EXCEPT !.admitted = Append(@, e)]
  BY DEF RegisterEnd, histVars
<1>2. cur \in Running /\ running \in Seq(Running)
  BY <1>1, CurInBatch DEF Moving, TypeInv, WholeInv, DrivenInv, BatchInv, SchedInv
<1>3. e \in [id : SeqId, cached : Nat] /\ e.id = cur.id
  BY <1>2 DEF Running, RunningWith
<1>4. a \in Seq([id : SeqId, cached : Nat]) /\ outcome'.admitted = Append(a, e)
  BY <1>1 DEF WholeInv, AdmittedInv
<1>. HIDE DEF a, e
<1>5. /\ DOMAIN Append(a, e) = DOMAIN a \cup {Len(a) + 1}
      /\ \A k \in DOMAIN a : Append(a, e)[k] = a[k]
      /\ Append(a, e)[Len(a) + 1] = e
  BY <1>3, <1>4, AppendOrigin
<1>6. AdmittedIn(outcome', cur.id) /\ \A id : AdmittedIn(outcome, id) => AdmittedIn(outcome', id)
  BY <1>3, <1>4, <1>5 DEF AdmittedIn, a
<1>7. /\ DOMAIN running' = DOMAIN running \cup {Len(running) + 1}
      /\ \A i \in DOMAIN running : running'[i] = running[i]
      /\ running'[Len(running) + 1] = cur
  BY <1>1, <1>2, AppendOrigin
<1>8. \A b : ToWrite(b) => ToWriteNext(b)
  BY <1>1, <1>6, <1>7 DEF ToWrite, ToWriteNext
<1>9. ASSUME NEW j \in DOMAIN running', ~AdmittedIn(outcome', running'[j].id)
      PROVE  \E i \in DOMAIN running : /\ Continues(running[i], running'[j])
                                       /\ ~AdmittedIn(outcome, running[i].id)
  <2>1. j \in DOMAIN running
    BY <1>6, <1>7, <1>9
  <2>2. running'[j] = running[j] /\ ~AdmittedIn(outcome, running[j].id)
    BY <1>6, <1>7, <1>9, <2>1
  <2>. QED  BY <2>1, <2>2 DEF Continues
<1>. QED  BY <1>1, <1>8, <1>9 DEF StepMoves

LEMMA MovesAppend ==
  ASSUME WholeInv, NEW i \in DOMAIN running, AppendInPlace(i) \/ AppendFresh(i)
  PROVE  StepMoves
<1>. TypeInv
  BY DEF WholeInv, DrivenInv, BatchInv, SchedInv
<1>1. running[i].blocks \in Seq(Blocks) /\ holds \in [Blocks -> Seq(Chunk)]
  BY BatchFacts DEF TypeInv
<1>2. PICK bs \in Seq(Blocks) :
        /\ Appended(i, bs, <<>>)
        /\ \/ bs = running[i].blocks /\ UNCHANGED holds
           \/ \E x \in Blocks :
                bs = Append(running[i].blocks, x) /\ holds' = [holds EXCEPT ![x] = <<>>]
  <2>1. CASE AppendInPlace(i)
    BY <1>1, <2>1 DEF AppendInPlace, histVars
  <2>2. CASE AppendFresh(i)
    <3>1. PICK x \in Blocks : /\ Appended(i, Append(running[i].blocks, x), <<>>)
                              /\ holds' = [holds EXCEPT ![x] = <<>>]
      BY <2>2 DEF AppendFresh
    <3>2. Append(running[i].blocks, x) \in Seq(Blocks)
      BY <1>1
    <3>. QED  BY <3>1, <3>2
  <2>. QED  BY <2>1, <2>2
<1>3. pc = "decode" /\ todo # <<>>
  BY DEF AppendInPlace, AppendFresh, Decoding
<1>4. /\ DOMAIN running' = DOMAIN running
      /\ \A j \in DOMAIN running \ {i} : running'[j] = running[j]
      /\ running'[i].id = running[i].id /\ running'[i].blocks = bs
      /\ running'[i].prompt = running[i].prompt /\ running'[i].cached = running[i].cached
  BY <1>2, <1>3, AppendedFacts, AppendedCached
<1>5. /\ \A b : NewIn(running[i], b) => NewIn(running'[i], b)
      /\ Continues(running[i], running'[i])
  <2>1. CASE bs = running[i].blocks
    BY <1>4, <2>1 DEF NewIn, Continues
  <2>2. ASSUME NEW x \in Blocks, bs = Append(running[i].blocks, x)
        PROVE  /\ \A b : NewIn(running[i], b) => NewIn(running'[i], b)
               /\ Continues(running[i], running'[i])
    <3> DEFINE s == running[i]
               u == running'[i]
    <3>1. s.blocks \in Seq(Blocks) /\ u.blocks = Append(s.blocks, x) /\ u.cached = s.cached
      BY <1>1, <1>4, <2>2
    <3>. HIDE DEF s, u
    <3>2. /\ \A b : NewIn(s, b) => NewIn(u, b)
          /\ \A k \in DOMAIN s.blocks : u.blocks[k] = s.blocks[k]
      BY <3>1, NewGrows
    <3>. QED  BY <1>4, <3>2 DEF Continues, s, u
  <2>. QED  BY <1>2, <2>1, <2>2
<1>6. outcome'.admitted = outcome.admitted
  BY <1>2 DEF Appended, WholeInv, AdmittedInv
<1>7. \A id : AdmittedIn(outcome', id) <=> AdmittedIn(outcome, id)
  BY <1>6 DEF AdmittedIn
<1>8. \A b : ToWrite(b) => ToWriteNext(b)
  <2>1. SUFFICES ASSUME NEW b, NEW j \in DOMAIN running, AdmittedIn(outcome, running[j].id),
                        NEW k, NewIn(running[j], b)
                 PROVE  ToWriteNext(b)
    BY <1>3 DEF ToWrite
  <2>2. running'[j].id = running[j].id /\ NewIn(running'[j], b)
    BY <1>4, <1>5, <2>1
  <2>. QED  BY <1>4, <1>7, <2>1, <2>2 DEF ToWriteNext
<1>9. \A b \in Blocks : holds'[b] # <<>> => holds'[b] = holds[b]
  BY <1>1, <1>2
<1>10. \A j \in DOMAIN running : Continues(running[j], running'[j])
  BY <1>4, <1>5 DEF Continues
<1>11. \A j \in DOMAIN running : running'[j].id = running[j].id
  BY <1>10 DEF Continues
<1>. QED  BY <1>4, <1>7, <1>8, <1>9, <1>10, <1>11 DEF StepMoves

\* Nobody is preempted in a step that admitted someone.
LEMMA MovesPreempt ==
  ASSUME WholeInv, InScheduler, NEW i \in DOMAIN running, Preempt(i)
  PROVE  StepMoves
<1>. TypeInv
  BY DEF WholeInv, DrivenInv, BatchInv, SchedInv
<1>1. /\ pc = "decode" /\ pc' = "preempt" /\ UNCHANGED holds
      /\ running' = RemoveAt(running, VictimIndex)
      /\ outcome' = [outcome EXCEPT !.decoded = Retained(@, running[VictimIndex].id),
                                    !.preempted = Append(@, running[VictimIndex].id)]
  BY DEF Preempt, Decoding, histVars
<1>2. outcome'.admitted = outcome.admitted
  BY <1>1 DEF WholeInv, AdmittedInv
<1>3. RoomInv'
  BY RoomKept DEF InScheduler, Next, WholeInv, DrivenInv, BatchInv
<1>4. outcome'.admitted = <<>>
  BY <1>1, <1>3 DEF RoomInv, Stepping
<1>5. \A id : ~AdmittedIn(outcome, id)
  BY <1>2, <1>4 DEF AdmittedIn
<1>6. \A b : ~ToWrite(b)
  BY <1>1, <1>5 DEF ToWrite
<1>7. \A j \in DOMAIN running' : j \in DOMAIN running /\ running'[j] = running[j]
  BY <1>1, VictimFacts
<1>. QED  BY <1>1, <1>5, <1>6, <1>7 DEF StepMoves, Continues

LEMMA SchedulerMoves ==
  ASSUME WholeInv, InScheduler
  PROVE  StepMoves
<1>. DrivenInv /\ EngineInv /\ TypeInv /\ EnginePhase /\ RequestsInv /\ MatchInv
  BY DEF WholeInv, DrivenInv, BatchInv, SchedInv, EngineInv
<1>1. CASE Acquire
  <2>1. /\ cur' = [cur EXCEPT !.blocks = Append(@, Head(claim))] /\ claim # <<>>
        /\ UNCHANGED <<running, holds, outcome, pc>>
    BY <1>1 DEF Acquire, histVars
  <2>2. /\ cur.blocks \in Seq(Blocks) /\ Head(claim) \in Blocks
        /\ cur'.blocks = Append(cur.blocks, Head(claim)) /\ cur'.cached = cur.cached
    <3>1. cur \in RunningWith(SeqId \cup {0}) /\ claim \in Seq(Blocks)
      BY DEF TypeInv
    <3>2. cur.blocks \in Seq(Blocks) /\ Head(claim) \in Blocks
      BY <2>1, <3>1 DEF RunningWith
    <3>3. \A bs : [cur EXCEPT !.blocks = bs].blocks = bs
                /\ [cur EXCEPT !.blocks = bs].cached = cur.cached
      BY ONLY <3>1 DEF RunningWith
    <3>. QED  BY <2>1, <3>2, <3>3
  <2>3. \A b : NewIn(cur, b) => NewIn(cur', b)
    BY <2>2, NewGrows
  <2>. QED  BY <2>1, <2>3, MovesNothing
<1>2. CASE FillEnd \/ RegisterBlock
  <2>1. UNCHANGED <<running, holds, outcome, cur>> /\ pc' \in {"build", "register"}
    BY <1>2 DEF FillEnd, RegisterBlock, histVars
  <2>. QED  BY <2>1, MovesNothing
<1>3. CASE \/ Reserve \/ ReserveEnd \/ AdmitNext \/ AdmitEnd \/ DecodeSkip \/ ReleaseBlock
           \/ PreemptEnd \/ ReleaseEnd \/ StepEnd
  <2>1. UNCHANGED <<running, holds, outcome>> /\ pc \notin {"build", "register"}
    BY <1>3 DEF Reserve, ReserveEnd, AdmitNext, AdmitEnd, DecodeSkip, ReleaseBlock, PreemptEnd,
                ReleaseEnd, StepEnd, histVars
  <2>. QED  BY <2>1, MovesNothing
<1>. QED
  BY <1>1, <1>2, <1>3, SchedulerSteps, MovesFill, MovesJoin, MovesAppend, MovesPreempt

LEMMA SchedulerKeepsCache ==
  ASSUME WholeInv, CacheInv, InScheduler
  PROVE  CacheInv'
<1>. DrivenInv /\ EngineInv /\ TypeInv /\ EnginePhase /\ RequestsInv /\ MatchInv
  BY DEF WholeInv, DrivenInv, BatchInv, SchedInv, EngineInv
<1>1. UNCHANGED <<requests, epc, layer, kv>> /\ (pc = "finish" \/ epc = "scheduling")
  BY SchedulerSteps
<1>2. StepMoves
  BY SchedulerMoves
<1>3. CASE pc = "finish"
  <2>1. UNCHANGED <<running, holds>>
    BY <1>3, SchedulerSteps DEF Reserve, ReserveEnd, AdmitNext, AdmitEnd, Acquire, Fill, FillEnd,
       RegisterBlock, RegisterEnd, DecodeSkip, AppendInPlace, AppendFresh, Preempt, Decoding,
       ReleaseBlock, PreemptEnd, ReleaseEnd, StepEnd, histVars
  <2>2. \A l : ~Unwritten(l) /\ ~UnwrittenNext(l) /\ ~Fed(l) /\ ~FedNext(l)
    BY <1>1, <1>3 DEF EnginePhase, Unwritten, UnwrittenNext, Fed, FedNext
  <2>3. SharedNext
    BY <1>1, <2>1, <2>2 DEF CacheInv, SharedInv, SharedNext
  <2>4. OwnTokensNext
    BY <1>1, <2>1, <2>2 DEF CacheInv, OwnTokensInv, OwnTokensNext
  <2>. QED  BY <1>1, <2>3, <2>4, CachePrimed DEF CacheInv
<1>4. CASE epc = "scheduling"
  <2>1. \A l : Unwritten(l) /\ UnwrittenNext(l) /\ ~Fed(l) /\ ~FedNext(l)
    BY <1>1, <1>4 DEF Unwritten, UnwrittenNext, Fed, FedNext
  <2>2. SharedNext
    BY <1>1, <1>2, <2>1 DEF CacheInv, SharedInv, SharedNext, StepMoves
  <2>3. ASSUME NEW l \in Layers, NEW j \in DOMAIN running', ~AdmittedIn(outcome', running'[j].id)
        PROVE  LET u == running'[j]
                   t == requests[u.id].tokens
               IN  HasTokens(kv, l, u, t, Len(t) - 1)
    <3>1. PICK i \in DOMAIN running :
            Continues(running[i], running'[j]) /\ ~AdmittedIn(outcome, running[i].id)
      BY <1>2, <2>3 DEF StepMoves
    <3> DEFINE s == running[i]
               u == running'[j]
               t == requests[s.id].tokens
    <3>2. HasTokens(kv, l, s, t, Len(t) - 1)
      BY <2>1, <3>1 DEF CacheInv, OwnTokensInv
    <3>3. /\ s \in Running /\ HoldsWhatItNeeds(s) /\ s.num_tokens \in Nat /\ Len(t) \in Nat
          /\ Len(t) <= s.num_tokens /\ Len(s.prompt) * BlockSize \in Nat
      BY BatchFacts, BlockTableAssumption
    <3>4. ASSUME NEW p \in Len(s.prompt) * BlockSize .. (Len(t) - 1) - 1
          PROVE  Place(u, p) = Place(s, p)
      <4>1. p \in Nat /\ p < s.num_tokens
        <5>. HIDE DEF s, t
        <5>. QED  BY <3>3
      <4>2. (p \div BlockSize) + 1 \in DOMAIN s.blocks
        BY <3>3, <4>1, PlaceFacts
      <4>. QED  BY <3>1, <4>2 DEF Place, Continues
    <3>5. u.prompt = s.prompt /\ u.id = s.id
      BY <3>1 DEF Continues
    <3>6. HasTokens(kv, l, u, t, Len(t) - 1)
      BY <3>2, <3>4, <3>5, TokensStay
    <3>. QED  BY <3>5, <3>6
  <2>4. OwnTokensNext
    BY <1>1, <2>1, <2>3 DEF OwnTokensNext
  <2>. QED  BY <1>1, <2>2, <2>4, CachePrimed DEF CacheInv
<1>. QED  BY <1>1, <1>3, <1>4

-----------------------------------------------------------------------------
(* Every step.                                                             *)

LEMMA AdmittedKept ==
  ASSUME WholeInv, [EngineNext]_engineVars
  PROVE  AdmittedInv'
<1>. /\ DrivenInv /\ EngineInv /\ TypeInv /\ Distinct /\ EnginePhase /\ RequestsInv /\ MatchInv
     /\ AdmittedInv
  BY DEF WholeInv, DrivenInv, BatchInv, SchedInv, EngineInv
<1>1. CASE UNCHANGED outcome
  BY <1>1 DEF AdmittedInv
<1>2. CASE StepStart
  BY <1>2 DEF StepStart, StepBegin, NoOutcome, AdmittedInv
<1>3. CASE InScheduler
  <2>1. CASE RegisterEnd
    <3> DEFINE e == [id |-> cur.id, cached |-> cur.cached]
    <3>1. pc = "register" /\ outcome' = [outcome EXCEPT !.admitted = Append(@, e)]
      BY <2>1 DEF RegisterEnd
    <3>2. cur \in Running
      BY <3>1, CurInBatch DEF Moving, DrivenInv, BatchInv, SchedInv
    <3>3. e \in [id : SeqId, cached : Nat]
      BY <3>2 DEF Running, RunningWith
    <3>. HIDE DEF e
    <3>4. DOMAIN outcome' = DOMAIN outcome /\ outcome'.admitted = Append(outcome.admitted, e)
      BY <3>1 DEF AdmittedInv
    <3>. QED  BY <3>3, <3>4 DEF AdmittedInv
  <2>2. CASE \E i \in DOMAIN running : AppendInPlace(i) \/ AppendFresh(i) \/ Preempt(i)
    <3>1. PICK i \in DOMAIN running : AppendInPlace(i) \/ AppendFresh(i) \/ Preempt(i)
      BY <2>2
    <3>2. DOMAIN outcome' = DOMAIN outcome /\ outcome'.admitted = outcome.admitted
      BY <3>1 DEF AppendInPlace, AppendFresh, Appended, Preempt, AdmittedInv
    <3>. QED  BY <3>2 DEF AdmittedInv
  <2>3. CASE \/ Reserve \/ ReserveEnd \/ AdmitNext \/ AdmitEnd \/ Acquire \/ Fill \/ FillEnd
             \/ RegisterBlock \/ DecodeSkip \/ ReleaseBlock \/ PreemptEnd \/ ReleaseEnd \/ StepEnd
    <3>1. UNCHANGED outcome
      BY <2>3 DEF Reserve, ReserveEnd, AdmitNext, AdmitEnd, Acquire, Fill, FillEnd, RegisterBlock,
                  DecodeSkip, ReleaseBlock, PreemptEnd, ReleaseEnd, StepEnd
    <3>. QED  BY <1>1, <3>1
  <2>. QED  BY <1>3, <2>1, <2>2, <2>3, SchedulerSteps
<1>4. CASE Sample
  <2>1. UNCHANGED outcome
    BY <1>4 DEF Sample, vars
  <2>. QED  BY <1>1, <2>1
<1>5. ASSUME NEW p \in Prompts, AddRequest(p) PROVE AdmittedInv'
  <2>1. UNCHANGED outcome
    BY <1>5 DEF AddRequest, Enqueue
  <2>. QED  BY <1>1, <2>1
<1>6. ASSUME NEW id \in SeqId, Cancel(id) PROVE AdmittedInv'
  <2>1. UNCHANGED outcome
    BY <1>6, CancelFacts, FinishedFacts
  <2>. QED  BY <1>1, <2>1
<1>7. CASE RetireRequest
  <2>1. UNCHANGED outcome
    BY <1>7, RetireFacts, FinishedFacts
  <2>. QED  BY <1>1, <2>1
<1>8. CASE QuietStep
  <2>1. UNCHANGED outcome
    BY <1>8, QuietFacts
  <2>. QED  BY <1>1, <2>1
<1>. QED
  BY <1>2, <1>3, <1>4, <1>5, <1>6, <1>7, <1>8 DEF EngineNext, EngineStep, QuietStep

LEMMA CacheKept ==
  ASSUME WholeInv, CacheInv, [EngineNext]_engineVars
  PROVE  CacheInv'
<1>. DrivenInv /\ EngineInv /\ MatchInv
  BY DEF WholeInv, EngineInv
<1>0. EngineInv'
  BY EngineKept
<1>1. ASSUME NEW p \in Prompts, AddRequest(p) PROVE CacheInv'
  BY <1>1, AddKeepsCache
<1>2. ASSUME NEW id \in SeqId, Cancel(id) PROVE CacheInv'
  <2>1. FinishSequence(id) /\ requests' = Without(id) /\ epc = "idle" /\ UNCHANGED <<epc, kv>>
    BY <1>2, CancelFacts
  <2>. QED  BY <1>0, <2>1, LeaveKeepsCache
<1>3. CASE RetireRequest
  <2>1. PICK id : /\ FinishSequence(id) /\ requests' = Without(id)
                  /\ epc = "retiring" /\ UNCHANGED <<epc, kv>>
    BY <1>3, RetireFacts
  <2>. QED  BY <1>0, <2>1, LeaveKeepsCache
<1>4. CASE StepStart
  BY <1>4, StartKeepsCache
<1>5. CASE InScheduler
  BY <1>5, SchedulerKeepsCache
<1>6. CASE WriteLayer
  BY <1>6, WriteKeepsCache
<1>7. CASE Sample
  BY <1>7, SampleKeepsCache
<1>8. CASE ScheduledNothing \/ ScheduledBatch \/ AttendLayer \/ StepReturns \/ UNCHANGED engineVars
  BY <1>8, QuietKeepsCache
<1>. QED
  BY <1>1, <1>2, <1>3, <1>4, <1>5, <1>6, <1>7, <1>8 DEF EngineNext, EngineStep

LEMMA CacheInit == EngineInit => CutInv /\ AdmittedInv /\ CacheInv
<1>1. SUFFICES ASSUME EngineInit PROVE CutInv /\ AdmittedInv /\ CacheInv
  OBVIOUS
<1>2. /\ running = <<>> /\ waiting = <<>> /\ pc = "idle" /\ outcome = NoOutcome
      /\ holds = [b \in Blocks |-> <<>>]
      /\ kv = [x \in Layers \X Blocks \X Slots |-> <<>>]
  BY <1>1 DEF EngineInit, Init
<1>3. CutInv
  BY <1>2 DEF CutInv, HasPrompt, Moving
<1>4. AdmittedInv
  BY <1>2 DEF AdmittedInv, NoOutcome
<1>5. CacheInv
  BY <1>2 DEF CacheInv, SharedInv, OwnTokensInv
<1>. QED  BY <1>3, <1>4, <1>5

LEMMA CacheInvariant == EngineSpec => [](WholeInv /\ CacheInv)
<1> DEFINE I == CutInv /\ AdmittedInv /\ CacheInv
<1>1. EngineInit => I
  BY CacheInit
<1>2. DrivenInv /\ EngineInv /\ I /\ [EngineNext]_engineVars => I'
  BY CutKept, AdmittedKept, CacheKept DEF WholeInv
<1>3. DrivenInv /\ EngineInv /\ I => WholeInv /\ CacheInv
  BY DEF WholeInv
<1>. HIDE DEF I
<1>. QED  BY <1>1, <1>2, <1>3, EngineInvariant, PTL DEF EngineSpec

(***************************************************************************)
(* model.rs, SeqInput, and backend.rs:66-71: whatever was evicted,         *)
(* preempted, cancelled, shared or computed again before, a layer that     *)
(* attends reads for every sequence the K/V of that sequence's own tokens. *)
(***************************************************************************)
THEOREM AttentionReadsOwn == EngineSpec => []AttentionReadsOwnContext
BY AttentionFromCache, CacheInvariant, PTL

-----------------------------------------------------------------------------
(* What a filter keeps of a line.                                          *)

\* t is s at increasing positions up to m: those of the elements in K.
Picks(s, K, m, t, pos) ==
  /\ pos \in [1 .. Len(t) -> 1 .. m]
  /\ \A k, l \in 1 .. Len(t) : k < l => pos[k] < pos[l]
  /\ \A k \in 1 .. Len(t) : t[k] = s[pos[k]] /\ t[k] \in K
  /\ \A j \in 1 .. m : s[j] \in K => \E k \in 1 .. Len(t) : pos[k] = j

LEMMA KeepPicks ==
  ASSUME NEW S, NEW s \in Seq(S), NEW K
  PROVE  /\ Keep(s, K) \in Seq(S)
         /\ \E pos : Picks(s, K, Len(s), Keep(s, K), pos)
<1>1. PICK n \in Nat : n = Len(s)
  OBVIOUS
<1>2. PICK f :
        /\ f[0] = <<>> /\ f[n] = Keep(s, K)
        /\ \A m \in 1 .. n : f[m] = IF s[m] \in K THEN Append(f[m - 1], s[m]) ELSE f[m - 1]
  BY <1>1, KeepSteps
<1> DEFINE T == {m \in 0 .. n : f[m] \in Seq(S) /\ \E pos : Picks(s, K, m, f[m], pos)}
<1>4. 0 \in T
  <2>1. Picks(s, K, 0, <<>>, <<>>)
    BY DEF Picks
  <2>2. 0 \in 0 .. n /\ <<>> \in Seq(S)
    BY <1>1
  <2>. QED  BY <1>2, <2>1, <2>2
<1>5. ASSUME NEW m \in 0 .. n, m + 1 <= n, m \in T
      PROVE  m + 1 \in T
  <2>1. /\ m \in Nat /\ m + 1 \in 0 .. n /\ m + 1 # 0 /\ m + 1 - 1 = m
        /\ m + 1 \in DOMAIN s /\ s[m + 1] \in S
    BY <1>1, <1>5
  <2>2. f[m + 1] = IF s[m + 1] \in K THEN Append(f[m], s[m + 1]) ELSE f[m]
    BY ONLY <1>2, <2>1
  <2>3. f[m] \in Seq(S) /\ \E pos : Picks(s, K, m, f[m], pos)
    BY <1>5
  <2>4. PICK pos : Picks(s, K, m, f[m], pos)
    BY <2>3
  <2>5. PICK t \in Seq(S), l \in Nat : t = f[m] /\ l = Len(t)
    BY <2>3
  <2>6. /\ pos \in [1 .. l -> 1 .. m]
        /\ \A i, j \in 1 .. l : i < j => pos[i] < pos[j]
        /\ \A k \in 1 .. l : t[k] = s[pos[k]] /\ t[k] \in K
        /\ \A j \in 1 .. m : s[j] \in K => \E k \in 1 .. l : pos[k] = j
    BY <2>4, <2>5 DEF Picks
  <2>7. CASE s[m + 1] \in K
    <3> DEFINE u == Append(t, s[m + 1])
               by == [k \in 1 .. l + 1 |-> IF k = l + 1 THEN m + 1 ELSE pos[k]]
    <3>1. /\ u \in Seq(S) /\ Len(u) = l + 1 /\ u[l + 1] = s[m + 1]
          /\ \A k \in 1 .. l : u[k] = t[k]
      BY <2>1, <2>5
    <3>2. by \in [1 .. l + 1 -> 1 .. m + 1]
      BY <2>1, <2>6
    <3>3. by[l + 1] = m + 1 /\ \A k \in 1 .. l : by[k] = pos[k]
      OBVIOUS
    <3>. HIDE DEF u, by
    <3>9. /\ \A k \in 1 .. l + 1 : k \in 1 .. l \/ k = l + 1
          /\ \A k \in 1 .. l : k \in 1 .. l + 1 /\ k < l + 1 /\ ~(l + 1 < k)
          /\ \A k \in 1 .. m + 1 : k \in 1 .. m \/ k = m + 1
          /\ \A k \in 1 .. m : k < m + 1
          /\ l + 1 \in 1 .. l + 1 /\ ~(l + 1 < l + 1)
      BY ONLY <2>1, l \in Nat
    <3>4. \A i, j \in 1 .. l + 1 : i < j => by[i] < by[j]
      BY ONLY <2>6, <3>3, <3>9
    <3>5. \A k \in 1 .. l + 1 : u[k] = s[by[k]] /\ u[k] \in K
      BY ONLY <2>6, <2>7, <3>1, <3>3, <3>9
    <3>6. \A j \in 1 .. m + 1 : s[j] \in K => \E k \in 1 .. l + 1 : by[k] = j
      BY ONLY <2>6, <3>3, <3>9
    <3>7. Picks(s, K, m + 1, u, by)
      BY <3>1, <3>2, <3>4, <3>5, <3>6 DEF Picks
    <3>8. f[m + 1] = u
      BY <2>2, <2>5, <2>7 DEF u
    <3>. QED  BY <1>1, <2>1, <3>1, <3>7, <3>8
  <2>8. CASE s[m + 1] \notin K
    <3>1. pos \in [1 .. l -> 1 .. m + 1]
      BY <2>1, <2>6
    <3>3. \A j \in 1 .. m + 1 : j \in 1 .. m \/ j = m + 1
      BY <2>1
    <3>4. \A j \in 1 .. m + 1 : s[j] \in K => \E k \in 1 .. l : pos[k] = j
      BY ONLY <2>6, <2>8, <3>3
    <3>2. Picks(s, K, m + 1, t, pos)
      BY <2>5, <2>6, <3>1, <3>4 DEF Picks
    <3>. QED  BY <1>1, <2>1, <2>2, <2>5, <2>8, <3>2
  <2>. QED  BY <2>7, <2>8
<1>6. n \in T
  <2>. HIDE DEF T
  <2>1. 0 .. n \subseteq T
    BY ONLY <1>4, <1>5, n \in Nat, UpTo
  <2>. QED  BY ONLY <2>1, n \in Nat
<1>. QED  BY <1>1, <1>2, <1>6

\* Two increasing lines of the same numbers are the same.
Increasing(f, n) == \A i, j \in 1 .. n : i < j => f[i] < f[j]
Onto(f, n, g, m) == \A i \in 1 .. n : \E j \in 1 .. m : f[i] = g[j]

LEMMA SameIncreasing ==
  ASSUME NEW f, NEW g, NEW n \in Nat, NEW m \in Nat,
         \A i \in 1 .. n : f[i] \in Nat, \A i \in 1 .. m : g[i] \in Nat,
         Increasing(f, n), Increasing(g, m), Onto(f, n, g, m), Onto(g, m, f, n)
  PROVE  n = m /\ \A i \in 1 .. n : f[i] = g[i]
<1> DEFINE T == {k \in Nat : \/ k \in 1 .. n /\ (k > m \/ f[k] # g[k])
                             \/ k \in 1 .. m /\ (k > n \/ f[k] # g[k])}
<1>1. T = {}
  <2>. SUFFICES ASSUME T # {} PROVE FALSE
    OBVIOUS
  <2>1. PICK k \in T : \A l \in T : k <= l
    BY LeastNatural
  <2>2. /\ k \in Nat /\ 1 <= k
        /\ \/ k \in 1 .. n /\ (k > m \/ f[k] # g[k])
           \/ k \in 1 .. m /\ (k > n \/ f[k] # g[k])
    OBVIOUS
  <2>3. \A l \in 1 .. k - 1 : l \in 1 .. n /\ l \in 1 .. m /\ f[l] = g[l]
    <3>. SUFFICES ASSUME NEW l \in 1 .. k - 1 PROVE l \in 1 .. n /\ l \in 1 .. m /\ f[l] = g[l]
      OBVIOUS
    <3>1. l \in Nat /\ 1 <= l /\ l < k /\ l \notin T
      BY <2>1, <2>2
    <3>2. l <= n \/ l <= m
      BY <2>2, <3>1
    <3>3. l \in 1 .. n => l \in 1 .. m /\ f[l] = g[l]
      BY <3>1
    <3>4. l \in 1 .. m => l \in 1 .. n /\ f[l] = g[l]
      BY <3>1
    <3>. QED  BY <3>1, <3>2, <3>3, <3>4
  <2>. HIDE DEF T
  <2>4. CASE k \in 1 .. n
    <3>1. PICK j \in 1 .. m : f[k] = g[j]
      BY <2>4 DEF Onto
    <3>2. j >= k
      <4>. SUFFICES ASSUME j \in 1 .. k - 1 PROVE FALSE
        BY <2>2, <3>1
      <4>1. f[j] = f[k] /\ j \in 1 .. n /\ j < k
        BY <2>2, <2>3, <3>1
      <4>2. f[j] < f[k]
        BY <2>4, <4>1 DEF Increasing
      <4>. QED  BY <2>4, <4>1, <4>2
    <3>3. k \in 1 .. m /\ f[k] # g[k]
      BY <2>2, <2>4, <3>1, <3>2
    <3>4. PICK i \in 1 .. n : g[k] = f[i]
      BY <3>3 DEF Onto
    <3>5. i >= k
      <4>. SUFFICES ASSUME i \in 1 .. k - 1 PROVE FALSE
        BY <2>2, <3>4
      <4>1. g[i] = g[k] /\ i \in 1 .. m /\ i < k
        BY <2>2, <2>3, <3>4
      <4>2. g[i] < g[k]
        BY <3>3, <4>1 DEF Increasing
      <4>. QED  BY <3>3, <4>1, <4>2
    <3>6. j # k /\ i # k
      BY <3>1, <3>3, <3>4
    <3>7. g[k] < g[j] /\ f[k] < f[i]
      BY <2>4, <3>1, <3>2, <3>3, <3>4, <3>5, <3>6 DEF Increasing
    <3>8. g[k] \in Nat /\ f[k] \in Nat
      BY <2>4, <3>3
    <3>. QED  BY <3>1, <3>4, <3>7, <3>8
  <2>5. CASE k \in 1 .. m /\ ~(k \in 1 .. n)
    <3>1. PICK i \in 1 .. n : g[k] = f[i]
      BY <2>5 DEF Onto
    <3>2. i \in 1 .. k - 1
      BY <2>2, <2>5, <3>1
    <3>3. g[i] = g[k] /\ i \in 1 .. m /\ i < k
      BY <2>2, <2>3, <3>1, <3>2
    <3>4. g[i] < g[k]
      BY <2>5, <3>3 DEF Increasing
    <3>. QED  BY <2>5, <3>3, <3>4
  <2>. QED  BY <2>2, <2>4, <2>5
<1>2. \A k \in 1 .. n : k \in Nat /\ k \notin T /\ k <= m /\ f[k] = g[k]
  BY <1>1
<1>3. \A k \in 1 .. m : k \in Nat /\ k \notin T /\ k <= n
  BY <1>1
<1>4. n <= m /\ m <= n
  <2>1. n >= 1 => n \in 1 .. n
    OBVIOUS
  <2>2. m >= 1 => m \in 1 .. m
    OBVIOUS
  <2>. QED  BY <1>2, <1>3, <2>1, <2>2
<1>. QED  BY <1>2, <1>4

\* What an increasing line keeps is increasing, and what was to be kept.
KeptOf(s, K, t, n) ==
  /\ n = Len(t) /\ DOMAIN t = 1 .. n
  /\ \A k \in 1 .. n : t[k] \in K /\ \E j \in DOMAIN s : t[k] = s[j]
  /\ \A j \in DOMAIN s : s[j] \in K => \E k \in 1 .. n : t[k] = s[j]
  /\ \A k, l \in 1 .. n : k < l => \E i, j \in DOMAIN s : i < j /\ t[k] = s[i] /\ t[l] = s[j]

LEMMA KeepIncreasing ==
  ASSUME NEW S, NEW s \in Seq(S), NEW K
  PROVE  \E n \in Nat, t \in Seq(S) : t = Keep(s, K) /\ KeptOf(s, K, t, n)
<1>1. PICK t \in Seq(S) : t = Keep(s, K) /\ \E pos : Picks(s, K, Len(s), t, pos)
  BY KeepPicks
<1>2. PICK pos : Picks(s, K, Len(s), t, pos)
  BY <1>1
<1>3. PICK n \in Nat, m \in Nat : n = Len(t) /\ DOMAIN t = 1 .. n /\ m = Len(s) /\ DOMAIN s = 1 .. m
  OBVIOUS
<1>4. /\ pos \in [1 .. n -> 1 .. m]
      /\ \A k, l \in 1 .. n : k < l => pos[k] < pos[l]
      /\ \A k \in 1 .. n : t[k] = s[pos[k]] /\ t[k] \in K
      /\ \A j \in 1 .. m : s[j] \in K => \E k \in 1 .. n : pos[k] = j
  BY <1>2, <1>3 DEF Picks
<1>5. \A k \in 1 .. n : t[k] \in K /\ \E j \in DOMAIN s : t[k] = s[j]
  BY ONLY <1>3, <1>4
<1>6. \A j \in DOMAIN s : s[j] \in K => \E k \in 1 .. n : t[k] = s[j]
  BY ONLY <1>3, <1>4
<1>7. \A k, l \in 1 .. n : k < l => \E i, j \in DOMAIN s : i < j /\ t[k] = s[i] /\ t[l] = s[j]
  <2>. SUFFICES ASSUME NEW k \in 1 .. n, NEW l \in 1 .. n, k < l
                PROVE  \E i, j \in DOMAIN s : i < j /\ t[k] = s[i] /\ t[l] = s[j]
    OBVIOUS
  <2>1. /\ pos[k] \in DOMAIN s /\ pos[l] \in DOMAIN s /\ pos[k] < pos[l]
        /\ t[k] = s[pos[k]] /\ t[l] = s[pos[l]]
    BY <1>3, <1>4
  <2>. QED  BY ONLY <2>1
<1>. QED  BY ONLY <1>1, <1>3, <1>5, <1>6, <1>7, t \in Seq(S), n \in Nat DEF KeptOf

-----------------------------------------------------------------------------
(* The line of requests a server sees.                                     *)

\* What a server sees of the request id among the requests rq, and of those in
\* open.
Record(rq, id) == [id |-> id, left |-> rq[id].max_new - Generated(rq[id])]

Ordered(open) == Keep([k \in 1 .. MaxSeqs |-> k], open)

LineOf(rq, open) == [k \in DOMAIN Ordered(open) |-> Record(rq, Ordered(open)[k])]

\* s is the line of the requests in open.
IsLine(s, rq, open) ==
  \E n \in Nat :
    /\ s \in Seq({Record(rq, id) : id \in open}) /\ n = Len(s) /\ DOMAIN s = 1 .. n
    /\ \A i \in 1 .. n : s[i].id \in open /\ s[i] = Record(rq, s[i].id)
    /\ \A i, j \in 1 .. n : i < j => s[i].id < s[j].id
    /\ \A id \in open : \E i \in 1 .. n : s[i].id = id

LEMMA FromRecords ==
  ASSUME NEW rq, NEW open, NEW n \in Nat, NEW s \in Seq({Record(rq, id) : id \in open}), n = Len(s)
  PROVE  DOMAIN s = 1 .. n /\ \A i \in 1 .. n : s[i].id \in open /\ s[i] = Record(rq, s[i].id)
<1>1. DOMAIN s = 1 .. n /\ \A i \in 1 .. n : s[i] \in {Record(rq, id) : id \in open}
  OBVIOUS
<1>2. \A id : Record(rq, id).id = id
  BY DEF Record
<1>. QED  BY <1>1, <1>2

LEMMA LineOfIsLine ==
  ASSUME NEW rq, NEW open, open \subseteq SeqId
  PROVE  IsLine(LineOf(rq, open), rq, open)
<1> DEFINE ids == [k \in 1 .. MaxSeqs |-> k]
<1>1. MaxSeqs \in Nat /\ ids \in Seq(Nat) /\ DOMAIN ids = 1 .. MaxSeqs /\ \A k \in 1 .. MaxSeqs : ids[k] = k
  BY SchedulerAssumption
<1>. HIDE DEF ids
<1>12. PICK n \in Nat, t \in Seq(Nat) : t = Keep(ids, open) /\ KeptOf(ids, open, t, n)
  BY <1>1, KeepIncreasing
<1>2.   /\ t = Keep(ids, open) /\ n = Len(t) /\ DOMAIN t = 1 .. n
        /\ \A k \in 1 .. n : t[k] \in open /\ \E j \in DOMAIN ids : t[k] = ids[j]
        /\ \A j \in DOMAIN ids : ids[j] \in open => \E k \in 1 .. n : t[k] = ids[j]
        /\ \A k, l \in 1 .. n : k < l => \E i, j \in DOMAIN ids : i < j /\ t[k] = ids[i] /\ t[l] = ids[j]
  BY <1>12 DEF KeptOf
<1>3. \A k, l \in 1 .. n : k < l => t[k] < t[l]
  BY <1>1, <1>2
<1>4. \A id \in open : \E k \in 1 .. n : t[k] = id
  <2>1. \A id \in open : id \in DOMAIN ids /\ ids[id] = id
    BY <1>1 DEF SeqId
  <2>. QED  BY <1>2, <2>1
<1> DEFINE s == [k \in 1 .. n |-> Record(rq, t[k])]
<1>5. s = LineOf(rq, open)
  BY <1>2 DEF LineOf, Ordered, ids
<1>6. s \in Seq({Record(rq, id) : id \in open}) /\ Len(s) = n /\ DOMAIN s = 1 .. n
  <2>1. s \in [1 .. n -> {Record(rq, id) : id \in open}]
    BY <1>2
  <2>. QED  BY <2>1
<1>7. \A k \in 1 .. n : s[k].id = t[k] /\ s[k] = Record(rq, t[k])
  BY DEF Record
<1>. HIDE DEF s
<1>8. \A k \in 1 .. n : s[k].id \in open /\ s[k] = Record(rq, s[k].id)
  BY ONLY <1>2, <1>7
<1>9. \A i, j \in 1 .. n : i < j => s[i].id < s[j].id
  BY ONLY <1>3, <1>7
<1>10. \A id \in open : \E i \in 1 .. n : s[i].id = id
  BY ONLY <1>4, <1>7
<1>11. IsLine(s, rq, open)
  BY ONLY <1>6, <1>8, <1>9, <1>10, n \in Nat DEF IsLine
<1>. QED  BY <1>5, <1>11

LEMMA LineUnique ==
  ASSUME NEW rq, NEW open, open \subseteq SeqId, NEW s, NEW t, IsLine(s, rq, open), IsLine(t, rq, open)
  PROVE  s = t
<1>1. PICK n \in Nat :
    /\ s \in Seq({Record(rq, id) : id \in open}) /\ n = Len(s) /\ DOMAIN s = 1 .. n
    /\ \A i \in 1 .. n : s[i].id \in open /\ s[i] = Record(rq, s[i].id)
    /\ \A i, j \in 1 .. n : i < j => s[i].id < s[j].id
    /\ \A id \in open : \E i \in 1 .. n : s[i].id = id
  BY DEF IsLine
<1>2. PICK m \in Nat :
    /\ t \in Seq({Record(rq, id) : id \in open}) /\ m = Len(t) /\ DOMAIN t = 1 .. m
    /\ \A i \in 1 .. m : t[i].id \in open /\ t[i] = Record(rq, t[i].id)
    /\ \A i, j \in 1 .. m : i < j => t[i].id < t[j].id
    /\ \A id \in open : \E i \in 1 .. m : t[i].id = id
  BY DEF IsLine
<1> DEFINE f == [i \in 1 .. n |-> s[i].id]
           g == [i \in 1 .. m |-> t[i].id]
<1>3. (\A i \in 1 .. n : f[i] = s[i].id) /\ (\A i \in 1 .. m : g[i] = t[i].id)
  OBVIOUS
<1>. HIDE DEF f, g
<1>4. /\ \A i \in 1 .. n : f[i] \in Nat
      /\ \A i \in 1 .. m : g[i] \in Nat
  <2>1. open \subseteq Nat
    BY DEF SeqId
  <2>. QED  BY <1>1, <1>2, <1>3, <2>1
<1>5. Increasing(f, n) /\ Increasing(g, m)
  BY <1>1, <1>2, <1>3 DEF Increasing
<1>6. Onto(f, n, g, m) /\ Onto(g, m, f, n)
  <2>1. \A i \in 1 .. n : \E j \in 1 .. m : s[i].id = t[j].id
    BY <1>1, <1>2
  <2>2. \A j \in 1 .. m : \E i \in 1 .. n : t[j].id = s[i].id
    BY <1>1, <1>2
  <2>. QED  BY ONLY <1>3, <2>1, <2>2 DEF Onto
<1>7. n = m /\ \A i \in 1 .. n : f[i] = g[i]
  BY <1>4, <1>5, <1>6, SameIncreasing
<1>8. \A i \in 1 .. n : s[i] = t[i]
  <2> TAKE i \in 1 .. n
  <2>1. i \in 1 .. m /\ s[i].id = t[i].id
    BY <1>3, <1>7
  <2>2. s[i] = Record(rq, s[i].id) /\ t[i] = Record(rq, t[i].id)
    BY <1>1, <1>2, <2>1
  <2>. QED  BY ONLY <2>1, <2>2
<1>9. s = [i \in 1 .. n |-> s[i]] /\ t = [i \in 1 .. n |-> t[i]]
  BY <1>1, <1>2, <1>7
<1>. QED  BY <1>8, <1>9

LEMMA LineIs ==
  ASSUME NEW rq, NEW open, open \subseteq SeqId, NEW s, IsLine(s, rq, open)
  PROVE  LineOf(rq, open) = s
BY LineOfIsLine, LineUnique

\* The records that a line with other requests or after a step consists of.
LEMMA LineRecords ==
  ASSUME NEW rq, NEW rq2, NEW open, NEW s, IsLine(s, rq, open),
         \A id \in open : Record(rq2, id) = Record(rq, id)
  PROVE  IsLine(s, rq2, open)
<1>1. {Record(rq, id) : id \in open} = {Record(rq2, id) : id \in open}
  OBVIOUS
<1>. QED  BY <1>1 DEF IsLine

LEMMA LineGrows ==
  ASSUME NEW rq, NEW open, NEW s, NEW new \in Nat, IsLine(s, rq, open),
         \A id \in open : id \in Nat /\ id < new
  PROVE  IsLine(Append(s, Record(rq, new)), rq, open \cup {new})
<1>1. PICK n \in Nat :
    /\ s \in Seq({Record(rq, id) : id \in open}) /\ n = Len(s) /\ DOMAIN s = 1 .. n
    /\ \A i \in 1 .. n : s[i].id \in open /\ s[i] = Record(rq, s[i].id)
    /\ \A i, j \in 1 .. n : i < j => s[i].id < s[j].id
    /\ \A id \in open : \E i \in 1 .. n : s[i].id = id
  BY DEF IsLine
<1> DEFINE R == {Record(rq, id) : id \in open \cup {new}}
           t == Append(s, Record(rq, new))
<1>2. s \in Seq(R) /\ Record(rq, new) \in R
  <2>1. {Record(rq, id) : id \in open} \subseteq R
    OBVIOUS
  <2>. QED  BY <1>1, <2>1
<1>3. /\ t \in Seq(R) /\ Len(t) = n + 1 /\ DOMAIN t = 1 .. n + 1
      /\ t[n + 1] = Record(rq, new) /\ \A i \in 1 .. n : t[i] = s[i]
  <2>. HIDE DEF R
  <2>. QED  BY <1>1, <1>2
<1>4. Record(rq, new).id = new
  BY DEF Record
<1>. HIDE DEF t
<1>5. \A i \in 1 .. n + 1 : i \in 1 .. n \/ i = n + 1
  OBVIOUS
<1>6. \A i \in 1 .. n + 1 : t[i].id \in open \cup {new} /\ t[i] = Record(rq, t[i].id)
  BY ONLY <1>1, <1>3, <1>4, <1>5
<1>7. \A i, j \in 1 .. n + 1 : i < j => t[i].id < t[j].id
  <2>1. \A i, j \in 1 .. n + 1 : i < j => i \in 1 .. n
    OBVIOUS
  <2>2. \A i \in 1 .. n : t[i].id < new
    BY <1>1, <1>3
  <2>. QED  BY ONLY <1>1, <1>3, <1>4, <1>5, <2>1, <2>2
<1>8. \A id \in open \cup {new} : \E i \in 1 .. n + 1 : t[i].id = id
  <2>1. n + 1 \in 1 .. n + 1 /\ \A i \in 1 .. n : i \in 1 .. n + 1
    OBVIOUS
  <2>. QED  BY ONLY <1>1, <1>3, <1>4, <2>1
<1>10. n + 1 \in Nat /\ t \in Seq({Record(rq, id) : id \in open \cup {new}})
  BY <1>3
<1>. HIDE DEF R
<1>9. IsLine(t, rq, open \cup {new})
  BY ONLY <1>10, <1>3, <1>6, <1>7, <1>8 DEF IsLine
<1>. QED  BY <1>9 DEF t

LEMMA LineShrinks ==
  ASSUME NEW rq, NEW open, NEW left \in SUBSET open, NEW s, NEW K, IsLine(s, rq, open),
         \A id \in open : Record(rq, id) \in K <=> id \in left
  PROVE  IsLine(Keep(s, K), rq, left)
<1>1. PICK n \in Nat :
    /\ s \in Seq({Record(rq, id) : id \in open}) /\ n = Len(s) /\ DOMAIN s = 1 .. n
    /\ \A i \in 1 .. n : s[i].id \in open /\ s[i] = Record(rq, s[i].id)
    /\ \A i, j \in 1 .. n : i < j => s[i].id < s[j].id
    /\ \A id \in open : \E i \in 1 .. n : s[i].id = id
  BY DEF IsLine
<1>8. \E m \in Nat, t \in Seq({Record(rq, id) : id \in open}) : t = Keep(s, K) /\ KeptOf(s, K, t, m)
  BY <1>1, KeepIncreasing
<1>9. PICK m, t : m \in Nat /\ t = Keep(s, K) /\ KeptOf(s, K, t, m)
  BY <1>8
<1>2. /\ t = Keep(s, K) /\ m = Len(t) /\ DOMAIN t = 1 .. m /\ m \in Nat
      /\ \A k \in 1 .. m : t[k] \in K /\ \E j \in DOMAIN s : t[k] = s[j]
      /\ \A j \in DOMAIN s : s[j] \in K => \E k \in 1 .. m : t[k] = s[j]
      /\ \A k, l \in 1 .. m : k < l => \E i, j \in DOMAIN s : i < j /\ t[k] = s[i] /\ t[l] = s[j]
  BY <1>9 DEF KeptOf
<1>10. t = [k \in 1 .. m |-> t[k]]
  <2>1. Keep(s, K) \in Seq({Record(rq, id) : id \in open})
    BY <1>8
  <2>. QED  BY <1>2, <2>1
<1>3. \A k \in 1 .. m : t[k].id \in left /\ t[k] = Record(rq, t[k].id)
  BY <1>1, <1>2
<1>4. t \in Seq({Record(rq, id) : id \in left})
  <2>1. \A k \in 1 .. m : t[k] \in {Record(rq, id) : id \in left}
    BY ONLY <1>3
  <2>2. t \in [1 .. m -> {Record(rq, id) : id \in left}]
    BY ONLY <1>10, <2>1
  <2> DEFINE R == {Record(rq, id) : id \in left}
  <2>3. t \in [1 .. m -> R] /\ m \in Nat
    BY <1>2, <2>2
  <2>. HIDE DEF R
  <2>4. t \in Seq(R)
    BY ONLY <2>3
  <2>. QED  BY <2>4 DEF R
<1>5. \A k, l \in 1 .. m : k < l => t[k].id < t[l].id
  <2>. SUFFICES ASSUME NEW k \in 1 .. m, NEW l \in 1 .. m, k < l PROVE t[k].id < t[l].id
    OBVIOUS
  <2>1. PICK i, j \in DOMAIN s : i < j /\ t[k] = s[i] /\ t[l] = s[j]
    BY <1>2
  <2>. QED  BY <1>1, <2>1
<1>6. \A id \in left : \E k \in 1 .. m : t[k].id = id
  <2>. SUFFICES ASSUME NEW id \in left PROVE \E k \in 1 .. m : t[k].id = id
    OBVIOUS
  <2>1. PICK i \in 1 .. n : s[i].id = id
    BY <1>1
  <2>2. s[i] \in K /\ i \in DOMAIN s
    BY <1>1, <2>1
  <2>3. PICK k \in 1 .. m : t[k] = s[i]
    BY ONLY <1>2, <2>2
  <2>. QED  BY <2>1, <2>3
<1>7. IsLine(t, rq, left)
  BY <1>2, <1>3, <1>4, <1>5, <1>6 DEF IsLine
<1>. QED  BY <1>2, <1>7

\* The same requests in the same order, each with its own record after a step.
LEMMA LineServes ==
  ASSUME NEW rq, NEW rq2, NEW open, NEW s, NEW t, IsLine(s, rq, open),
         t = [i \in DOMAIN s |-> t[i]], \A i \in DOMAIN s : t[i] = Record(rq2, s[i].id)
  PROVE  IsLine(t, rq2, open)
<1>1. PICK n \in Nat :
    /\ s \in Seq({Record(rq, id) : id \in open}) /\ n = Len(s) /\ DOMAIN s = 1 .. n
    /\ \A i \in 1 .. n : s[i].id \in open /\ s[i] = Record(rq, s[i].id)
    /\ \A i, j \in 1 .. n : i < j => s[i].id < s[j].id
    /\ \A id \in open : \E i \in 1 .. n : s[i].id = id
  BY DEF IsLine
<1> DEFINE R == {Record(rq2, id) : id \in open}
<1>2. DOMAIN t = 1 .. n /\ \A i \in 1 .. n : t[i] = Record(rq2, s[i].id)
  BY <1>1
<1>3. \A id : Record(rq2, id).id = id
  BY DEF Record
<1>4. \A i \in 1 .. n : t[i].id = s[i].id /\ t[i] \in R
  BY <1>1, <1>2, <1>3
<1>5. t \in [1 .. n -> R]
  BY <1>1, <1>4
<1>. HIDE DEF R
<1>6. t \in Seq(R) /\ Len(t) = n
  BY ONLY <1>5, n \in Nat
<1>7. /\ \A i \in 1 .. n : t[i].id \in open /\ t[i] = Record(rq2, t[i].id)
      /\ \A i, j \in 1 .. n : i < j => t[i].id < t[j].id
      /\ \A id \in open : \E i \in 1 .. n : t[i].id = id
  BY ONLY <1>1, <1>2, <1>4
<1>8. IsLine(t, rq2, open)
  BY <1>2, <1>6, <1>7 DEF IsLine, R
<1>. QED  BY <1>8

LEMMA UnfinishedIs ==
  /\ Unfinished = LineOf(requests, DOMAIN requests \ ended)
  /\ Unfinished' = LineOf(requests', DOMAIN requests' \ ended')
<1>1. Oldest = Ordered(DOMAIN requests \ ended)
  BY DEF Oldest, Ordered
<1>2. Oldest' = Ordered(DOMAIN requests' \ ended')
  BY DEF Oldest, Ordered
<1>3. /\ \A id : Owed(id) = Record(requests, id)
      /\ \A id : Owed(id)' = Record(requests', id)
  BY DEF Owed, Record
<1>4. Unfinished = LineOf(requests, DOMAIN requests \ ended)
  BY <1>1, <1>3 DEF Unfinished, LineOf
<1>5. Unfinished' = LineOf(requests', DOMAIN requests' \ ended')
  BY <1>2, <1>3 DEF Unfinished, LineOf
<1>. QED  BY <1>4, <1>5

LEMMA KeepIsKeep ==
  ASSUME NEW s, NEW K
  PROVE  Server!Keep(s, K) = Keep(s, K)
BY DEF Server!Keep, Keep

-----------------------------------------------------------------------------
(* Every step serves the front of the line.                                *)

\* Nothing is forked, and a step that goes on has a batch to serve.
ServesInv ==
  /\ forked = {}
  /\ epc \in {"writing", "attending", "sampling"} => running # <<>>

LEMMA ServesKept ==
  ASSUME DrivenInv, EngineInv, ServesInv, [EngineNext]_engineVars
  PROVE  ServesInv'
<1>1. ForkNew = {}
  BY EngineAssumption
<1>2. [Next]_vars
  BY EngineStepIsStep
<1>3. forked' = forked
  BY <1>1, <1>2 DEF Next, Client, Step, Enqueue, Fork, FinishRunning, FinishWaiting, StepBegin, Reserve, ReserveEnd,
     AdmitNext, AdmitEnd, Acquire, Fill, FillEnd, RegisterBlock, RegisterEnd, DecodeSkip, AppendInPlace,
     AppendFresh, CowAllocate, CowReplace, Preempt, ReleaseBlock, PreemptEnd, Retire, ReleaseEnd, StepEnd,
     ForkBlock, ForkEnd, histVars, vars
<1>4. CASE /\ \/ \E p \in Prompts : AddRequest(p)
              \/ \E id \in SeqId : Cancel(id)
              \/ RetireRequest \/ StepStart \/ ScheduledNothing \/ Sample \/ StepReturns
  <2>1. epc' \notin {"writing", "attending", "sampling"}
    BY <1>4 DEF AddRequest, Cancel, RetireRequest, StepStart, ScheduledNothing, Sample, StepReturns, Idle
  <2>. QED  BY <1>3, <2>1 DEF ServesInv
<1>5. CASE InScheduler
  <2>1. epc' \notin {"writing", "attending", "sampling"}
    BY <1>5 DEF InScheduler, EngineInv, EnginePhase
  <2>. QED  BY <1>3, <2>1 DEF ServesInv
<1>6. CASE ScheduledBatch \/ WriteLayer \/ AttendLayer
  BY <1>3, <1>6 DEF ScheduledBatch, WriteLayer, AttendLayer, vars, ServesInv
<1>7. CASE UNCHANGED engineVars
  BY <1>3, <1>7 DEF engineVars, vars, ServesInv
<1>. QED  BY <1>4, <1>5, <1>6, <1>7 DEF EngineNext, EngineStep

ServedInv == DrivenInv /\ EngineInv /\ OrderInv /\ ServesInv

LEMMA ServedInvariant == EngineSpec => []ServedInv
<1>1. EngineInit => ServesInv
  BY DEF EngineInit, Init, ServesInv
<1>2. EngineSpec => []OrderInv
  BY EngineDrivesScheduler, OrderInvariant, PTL
<1>. QED  BY <1>1, <1>2, ServesKept, EngineInvariant, PTL DEF EngineSpec, ServedInv

\* Nobody waits who is older than one that runs.
LEMMA BatchLeads ==
  ASSUME ServedInv, epc = "sampling", NEW s, IsLine(s, requests, DOMAIN requests)
  PROVE  \E n \in Nat \ {0}, m \in Nat :
           /\ n = Len(running) /\ m = Len(s) /\ n <= m /\ DOMAIN s = 1 .. m /\ DOMAIN running = 1 .. n
           /\ \A i \in 1 .. n : s[i].id = running[i].id
           /\ \A i \in 1 .. m : ~(i <= n) => ~IsRunning(s[i].id)
           /\ \A i \in 1 .. m : s[i].id \in DOMAIN requests /\ s[i] = Record(requests, s[i].id)
           /\ \A id \in DOMAIN requests : \E i \in 1 .. m : s[i].id = id
<1>. TypeInv /\ Distinct /\ EnginePhase /\ RequestsInv /\ MatchInv /\ OrderInv /\ ServesInv
  BY DEF ServedInv, DrivenInv, BatchInv, SchedInv, EngineInv
<1>1. PICK m \in Nat :
    /\ s \in Seq({Record(requests, id) : id \in DOMAIN requests}) /\ m = Len(s) /\ DOMAIN s = 1 .. m
    /\ \A i \in 1 .. m : s[i].id \in DOMAIN requests /\ s[i] = Record(requests, s[i].id)
    /\ \A i, j \in 1 .. m : i < j => s[i].id < s[j].id
    /\ \A id \in DOMAIN requests : \E i \in 1 .. m : s[i].id = id
  BY DEF IsLine
<1>2. PICK n, w \in Nat : n = Len(running) /\ w = Len(waiting) /\ DOMAIN running = 1 .. n /\ DOMAIN waiting = 1 .. w
  BY DEF TypeInv
<1>3. n # 0
  BY <1>2 DEF ServesInv, TypeInv
<1>4. /\ \A i, j \in 1 .. n : i < j => running[i].id < running[j].id
      /\ \A i, j \in 1 .. w : i < j => waiting[i].id < waiting[j].id
      /\ \A i \in 1 .. n, j \in 1 .. w : running[i].id < waiting[j].id
  BY <1>2 DEF OrderInv, Older, ServesInv
<1>5. /\ \A i \in 1 .. n : running[i].id \in SeqId /\ running[i].id \in DOMAIN requests
      /\ \A j \in 1 .. w : waiting[j].id \in SeqId /\ waiting[j].id \in DOMAIN requests
  <2>1. \A j \in DOMAIN waiting : waiting[j].id \in SeqId /\ Known(waiting[j].id)
    BY QueueTypes DEF Known
  <2>. QED  BY <1>2, <2>1, BatchRequests DEF MatchInv
<1>6. \A id \in DOMAIN requests : \/ \E i \in 1 .. n : running[i].id = id
                                  \/ \E j \in 1 .. w : waiting[j].id = id
  <2>1. ~Moving
    BY DEF EnginePhase, Moving
  <2>. QED  BY <1>2, <2>1, RequestIds DEF MatchInv, Known
<1> DEFINE f == [i \in 1 .. m |-> s[i].id]
           g == [i \in 1 .. n + w |-> IF i <= n THEN running[i].id ELSE waiting[i - n].id]
<1>7. /\ \A i \in 1 .. m : f[i] = s[i].id
      /\ \A i \in 1 .. n : i \in 1 .. n + w /\ g[i] = running[i].id
      /\ \A i \in 1 .. w : n + i \in 1 .. n + w /\ g[n + i] = waiting[i].id
      /\ \A i \in 1 .. n + w : i \in 1 .. n \/ \E j \in 1 .. w : i = n + j
  <2>1. \A i \in 1 .. m : f[i] = s[i].id
    OBVIOUS
  <2>2. \A i \in 1 .. n : i \in 1 .. n + w /\ g[i] = running[i].id
    OBVIOUS
  <2>3. \A i \in 1 .. w : n + i \in 1 .. n + w /\ g[n + i] = waiting[i].id
    OBVIOUS
  <2>4. \A i \in 1 .. n + w : i \in 1 .. n \/ \E j \in 1 .. w : i = n + j
    <3>1. \A i \in 1 .. n + w : ~(i \in 1 .. n) => i - n \in 1 .. w /\ i = n + (i - n)
      OBVIOUS
    <3>. QED  BY <3>1
  <2>. QED  BY <2>1, <2>2, <2>3, <2>4
<1>. HIDE DEF f, g
<1>8. /\ \A i \in 1 .. m : f[i] \in Nat
      /\ \A i \in 1 .. n + w : g[i] \in Nat
  <2>1. SeqId \subseteq Nat /\ DOMAIN requests \subseteq SeqId
    BY RequestIds DEF SeqId
  <2>2. \A i \in 1 .. m : f[i] \in Nat
    BY ONLY <1>1, <1>7, <2>1
  <2>3. \A i \in 1 .. n : g[i] \in Nat
    BY ONLY <1>5, <1>7, <2>1
  <2>4. \A i \in 1 .. w : g[n + i] \in Nat
    BY ONLY <1>5, <1>7, <2>1
  <2>. QED  BY ONLY <1>7, <2>2, <2>3, <2>4
<1>9. Increasing(f, m)
  BY <1>1, <1>7 DEF Increasing
<1>10. Increasing(g, n + w)
  <2>. SUFFICES ASSUME NEW i \in 1 .. n + w, NEW j \in 1 .. n + w, i < j PROVE g[i] < g[j]
    BY DEF Increasing
  <2>1. CASE j \in 1 .. n
    <3>1. i \in 1 .. n
      BY <2>1
    <3>. QED  BY <1>4, <1>7, <2>1, <3>1
  <2>2. CASE i \in 1 .. n /\ ~(j \in 1 .. n)
    BY <1>4, <1>7, <2>2
  <2>3. CASE ~(i \in 1 .. n)
    <3>1. ~(j \in 1 .. n)
      BY <2>3
    <3>2. PICK k \in 1 .. w, l \in 1 .. w : i = n + k /\ j = n + l
      BY <1>7, <2>3, <3>1
    <3>3. k < l
      BY <3>2
    <3>. QED  BY <1>4, <1>7, <3>2, <3>3
  <2>. QED  BY <2>1, <2>2, <2>3
<1>11. Onto(f, m, g, n + w)
  <2>. SUFFICES ASSUME NEW i \in 1 .. m PROVE \E j \in 1 .. n + w : f[i] = g[j]
    BY DEF Onto
  <2>1. s[i].id \in DOMAIN requests
    BY <1>1
  <2>. QED  BY <1>6, <1>7, <2>1
<1>12. Onto(g, n + w, f, m)
  <2>. SUFFICES ASSUME NEW i \in 1 .. n + w PROVE \E j \in 1 .. m : g[i] = f[j]
    BY DEF Onto
  <2>1. g[i] \in DOMAIN requests
    BY <1>5, <1>7
  <2>2. PICK j \in 1 .. m : s[j].id = g[i]
    BY <1>1, <2>1
  <2>. QED  BY <1>7, <2>2
<1>13. m = n + w /\ \A i \in 1 .. m : f[i] = g[i]
  <2>1. n + w \in Nat
    OBVIOUS
  <2>. QED  BY <1>8, <1>9, <1>10, <1>11, <1>12, <2>1, SameIncreasing
<1>14. \A i \in 1 .. n : s[i].id = running[i].id
  BY <1>7, <1>13
<1>15. \A i \in 1 .. m : ~(i <= n) => ~IsRunning(s[i].id)
  <2>. SUFFICES ASSUME NEW i \in 1 .. m, ~(i <= n) PROVE ~IsRunning(s[i].id)
    OBVIOUS
  <2>1. PICK j \in 1 .. w : i = n + j
    BY <1>7, <1>13
  <2>2. s[i].id = waiting[j].id
    BY <1>7, <1>13, <2>1
  <2>. QED  BY <1>2, <2>2 DEF IsRunning, Distinct
<1>16. n <= m
  BY <1>13
<1>. QED  BY <1>1, <1>2, <1>3, <1>14, <1>15, <1>16

\* A step that leaves the records of the open requests alone.
LEMMA LineStays ==
  ASSUME DOMAIN requests \ ended \subseteq SeqId,
         DOMAIN requests' \ ended' = DOMAIN requests \ ended,
         \A id \in DOMAIN requests \ ended : requests'[id] = requests[id]
  PROVE  Unfinished' = Unfinished
<1> DEFINE open == DOMAIN requests \ ended
<1>1. IsLine(Unfinished, requests, open)
  BY UnfinishedIs, LineOfIsLine
<1>2. \A id \in open : Record(requests', id) = Record(requests, id)
  BY DEF Record
<1>3. IsLine(Unfinished, requests', open)
  BY <1>1, <1>2, LineRecords
<1>. QED  BY <1>3, LineIs, UnfinishedIs

LEMMA AddServes ==
  ASSUME ServedInv, NEW p \in Prompts, AddRequest(p)
  PROVE  Server!Next
<1>. TypeInv /\ EnginePhase /\ RequestsInv /\ DrivenInv
  BY DEF ServedInv, DrivenInv, BatchInv, SchedInv, EngineInv
<1> DEFINE open == DOMAIN requests
<1>1. /\ epc = "idle" /\ ended = {} /\ ended' = {} /\ next_id \in SeqId /\ next_id \notin open
      /\ DOMAIN requests' = open \cup {next_id}
      /\ \A id \in open : requests'[id] = requests[id]
  BY AddFacts DEF EnginePhase
<1>2. IsLine(Unfinished, requests, open) /\ open \subseteq SeqId
  BY <1>1, UnfinishedIs, LineOfIsLine, RequestIds
<1>3. IsLine(Unfinished, requests', open)
  BY <1>1, <1>2, LineRecords DEF Record
<1>4. next_id \in Nat /\ \A id \in open : id \in Nat /\ id < next_id
  BY DEF RequestsInv, TypeInv
<1>5. IsLine(Append(Unfinished, Record(requests', next_id)), requests', open \cup {next_id})
  BY <1>3, <1>4, LineGrows
<1>6. open \cup {next_id} \subseteq SeqId /\ DOMAIN requests' \ ended' = open \cup {next_id}
  BY <1>1, <1>2
<1>7. Unfinished' = Append(Unfinished, Record(requests', next_id))
  BY <1>5, <1>6, LineIs, UnfinishedIs
<1>8. Record(requests', next_id) = [id |-> next_id, left |-> p.max_new]
  <2>1. /\ requests'[next_id].tokens = p.tokens /\ requests'[next_id].prompt_len = Len(p.tokens)
        /\ requests'[next_id].max_new = p.max_new
    BY AddFacts
  <2>2. Len(p.tokens) \in Nat /\ p.max_new \in Nat
    BY AskedFacts
  <2>3. p.max_new - (Len(p.tokens) - Len(p.tokens)) = p.max_new
    BY <2>2
  <2>. QED  BY <2>1, <2>3 DEF Record, Generated
<1>9. Server!add_request(next_id, p.max_new)
  BY <1>7, <1>8 DEF Server!add_request
<1>. QED  BY <1>1, <1>9 DEF Server!Next

LEMMA CancelServes ==
  ASSUME ServedInv, NEW id \in SeqId, Cancel(id)
  PROVE  Server!Next
<1>. TypeInv /\ EnginePhase /\ RequestsInv /\ MatchInv /\ DrivenInv
  BY DEF ServedInv, DrivenInv, BatchInv, SchedInv, EngineInv
<1> DEFINE open == DOMAIN requests
           left == open \ {id}
           line == Unfinished
           K == {r \in ToSet(line) : r.id # id}
<1>1. /\ epc = "idle" /\ id \in open /\ requests' = Without(id) /\ ended' = ended /\ ended = {}
  BY CancelFacts DEF EnginePhase
<1>2. DOMAIN requests' = left /\ \A x \in left : requests'[x] = requests[x]
  BY <1>1 DEF Without
<1>3. IsLine(line, requests, open) /\ open \subseteq SeqId
  BY <1>1, UnfinishedIs, LineOfIsLine, RequestIds
<1>4. /\ \A x \in open : \E i \in DOMAIN line : line[i] = Record(requests, x)
      /\ \A x : Record(requests, x).id = x
  BY <1>3 DEF IsLine, Record
<1>5. \A x \in open : Record(requests, x) \in K <=> x \in left
  BY <1>4 DEF ToSet
<1>6. IsLine(Keep(line, K), requests, left)
  <2>. HIDE DEF K, line
  <2>. QED  BY <1>3, <1>5, LineShrinks
<1>7. IsLine(Keep(line, K), requests', left)
  <2>. HIDE DEF K, line
  <2>. QED  BY <1>2, <1>6, LineRecords DEF Record
<1>8. Unfinished' = Keep(line, K)
  <2>1. left \subseteq SeqId /\ DOMAIN requests' \ ended' = left
    BY <1>1, <1>2, <1>3
  <2>. HIDE DEF K, line
  <2>. QED  BY <1>7, <2>1, LineIs, UnfinishedIs
<1>9. Server!cancel(id)
  BY <1>8, KeepIsKeep DEF Server!cancel, ToSet, Server!ToSet
<1>10. Server!Holds(id)
  BY <1>1, <1>4 DEF Server!Holds
<1>. QED  BY <1>9, <1>10 DEF Server!Next

\* Everyone in the batch has one token more, and who has stopped leaves.
LEMMA SampleServes ==
  ASSUME ServedInv, Sample
  PROVE  Server!Next
<1>. TypeInv /\ Distinct /\ EnginePhase /\ RequestsInv /\ MatchInv /\ DrivenInv
  BY DEF ServedInv, DrivenInv, BatchInv, SchedInv, EngineInv
<1>1. /\ epc = "sampling" /\ ended = {} /\ DOMAIN requests' = DOMAIN requests
      /\ ended' = {running[i].id : i \in {j \in DOMAIN running : Stops(requests'[running[j].id])}}
      /\ \A id \in DOMAIN requests :
           /\ requests'[id].prompt_len = requests[id].prompt_len
           /\ requests'[id].max_new = requests[id].max_new
           /\ ~IsRunning(id) => requests'[id] = requests[id]
  BY SampleFacts
<1> DEFINE open == DOMAIN requests
           line == Unfinished
<1>2. IsLine(line, requests, open) /\ open \subseteq SeqId
  BY <1>1, UnfinishedIs, LineOfIsLine, RequestIds
<1>. HIDE DEF line
<1>3. PICK n \in Nat \ {0}, m \in Nat :
        /\ n = Len(running) /\ m = Len(line) /\ n <= m /\ DOMAIN line = 1 .. m /\ DOMAIN running = 1 .. n
        /\ \A i \in 1 .. n : line[i].id = running[i].id
        /\ \A i \in 1 .. m : ~(i <= n) => ~IsRunning(line[i].id)
        /\ \A i \in 1 .. m : line[i].id \in open /\ line[i] = Record(requests, line[i].id)
        /\ \A id \in open : \E i \in 1 .. m : line[i].id = id
  <2>1. epc = "sampling" /\ IsLine(line, requests, DOMAIN requests)
    BY <1>1, <1>2
  <2>. QED  BY ONLY ServedInv, <2>1, BatchLeads
<1> DEFINE after == [i \in DOMAIN line |-> [line[i] EXCEPT !.left = IF i <= n THEN @ - 1 ELSE @]]
           Stop(id) == Last(requests'[id].tokens) \in StopTokens
           stopped == {running[i].id : i \in {j \in 1 .. n : Stop(running[j].id)}}
\* What is left of each.
<1>4. ASSUME NEW i \in 1 .. n
      PROVE  /\ after[i] = Record(requests', line[i].id)
             /\ Stops(requests'[line[i].id]) <=> line[i].left = 1 \/ Stop(line[i].id)
  <2> DEFINE id == line[i].id
  <2>0. i \in 1 .. m /\ i <= n /\ i \in DOMAIN running /\ id = running[i].id /\ id \in open
    BY <1>3
  <2>1. PICK t \in Token : requests'[id].tokens = Append(requests[id].tokens, t)
    BY <2>0, SampleFacts
  <2>2. PICK u \in Seq(Token), a, b \in Nat :
          /\ u = requests[id].tokens /\ a = requests[id].prompt_len /\ b = requests[id].max_new
          /\ Len(u) < a + b
    BY <1>1, <2>0, RequestFacts DEF Length
  <2>3. PICK l \in Nat : l = Len(u) /\ Len(Append(u, t)) = l + 1
    OBVIOUS
  <2>4. Generated(requests[id]) = l - a /\ Generated(requests'[id]) = (l + 1) - a
    BY <1>1, <2>0, <2>1, <2>2, <2>3 DEF Generated
  <2>5. line[i] = [id |-> id, left |-> b - (l - a)]
    BY <1>3, <2>0, <2>2, <2>4 DEF Record
  <2>6. Record(requests', id) = [id |-> id, left |-> b - ((l + 1) - a)]
    BY <1>1, <2>0, <2>2, <2>4 DEF Record
  <2>7. b - (l - a) - 1 = b - ((l + 1) - a)
    BY ONLY a \in Nat, b \in Nat, l \in Nat
  <2>8. after[i] = [line[i] EXCEPT !.left = @ - 1]
    BY <1>3, <2>0
  <2>. HIDE DEF after, id
  <2>9. after[i] = [id |-> id, left |-> b - (l - a) - 1]
    BY <2>5, <2>8
  <2>10. after[i] = Record(requests', id)
    BY <2>6, <2>7, <2>9
  <2>11. (l + 1) - a >= b <=> b - (l - a) = 1
    <3>1. l < a + b
      BY <2>2, <2>3
    <3>. QED  BY ONLY <3>1, a \in Nat, b \in Nat, l \in Nat
  <2>12. line[i].left = b - (l - a)
    BY <2>5
  <2>13. Stops(requests'[id]) <=> (l + 1) - a >= b \/ Stop(id)
    BY <1>1, <2>0, <2>2, <2>4 DEF Stops
  <2>. QED  BY <2>10, <2>11, <2>12, <2>13 DEF id
<1>5. ASSUME NEW i \in 1 .. m, ~(i <= n)
      PROVE  after[i] = Record(requests', line[i].id)
  <2>1. requests'[line[i].id] = requests[line[i].id]
    BY <1>1, <1>3, <1>5
  <2>2. after[i] = [line[i] EXCEPT !.left = @]
    BY <1>3, <1>5
  <2>3. line[i] = Record(requests, line[i].id)
    BY <1>3
  <2>. HIDE DEF after
  <2>4. after[i] = line[i]
    BY <2>2, <2>3 DEF Record
  <2>. QED  BY <2>1, <2>3, <2>4 DEF Record
<1>6. IsLine(after, requests', open)
  <2>1. after = [i \in DOMAIN line |-> after[i]]
    OBVIOUS
  <2>. HIDE DEF after
  <2>2. \A i \in DOMAIN line : after[i] = Record(requests', line[i].id)
    <3>1. \A i \in 1 .. m : i \in 1 .. n \/ ~(i <= n)
      OBVIOUS
    <3>. QED  BY <1>3, <1>4, <1>5, <3>1
  <2>. QED  BY <1>2, <2>1, <2>2, LineServes
<1>. HIDE DEF after, stopped, Stop
\* Who leaves.
<1>7. ended' = {line[i].id : i \in {j \in DOMAIN line : Server!Ends(j, n, stopped)}}
  <2>1. ASSUME NEW i \in 1 .. n
        PROVE  line[i].id \in stopped <=> Stop(line[i].id)
    <3>1. \A j \in 1 .. n : running[j].id = running[i].id => j = i
      BY <1>3 DEF Distinct
    <3>. QED  BY <1>3, <3>1 DEF stopped
  <2>2. \A i \in DOMAIN line : Server!Ends(i, n, stopped) <=> i \in 1 .. n /\ Stops(requests'[line[i].id])
    <3>. SUFFICES ASSUME NEW i \in 1 .. m
                  PROVE  Server!Ends(i, n, stopped) <=> i \in 1 .. n /\ Stops(requests'[line[i].id])
      BY <1>3
    <3>1. CASE i <= n
      <4>1. i \in 1 .. n
        BY <3>1
      <4>. QED  BY <1>4, <2>1, <3>1, <4>1 DEF Server!Ends, line
    <3>2. CASE ~(i <= n)
      BY <3>2 DEF Server!Ends
    <3>. QED  BY <3>1, <3>2
  <2>3. 1 .. n \subseteq 1 .. m
    BY <1>3
  <2> DEFINE L == {line[i].id : i \in {j \in DOMAIN line : Server!Ends(j, n, stopped)}}
  <2>4. ASSUME NEW x \in ended' PROVE x \in L
    <3>1. PICK i \in 1 .. n : x = running[i].id /\ Stops(requests'[running[i].id])
      BY <1>1, <1>3, <2>4
    <3>2. i \in DOMAIN line /\ x = line[i].id /\ Server!Ends(i, n, stopped)
      BY <1>3, <2>2, <2>3, <3>1
    <3>. QED  BY <3>2
  <2>5. ASSUME NEW x \in L PROVE x \in ended'
    <3>1. PICK i \in DOMAIN line : x = line[i].id /\ Server!Ends(i, n, stopped)
      BY <2>5
    <3>2. i \in DOMAIN running /\ x = running[i].id /\ Stops(requests'[running[i].id])
      BY <1>3, <2>2, <3>1
    <3>. QED  BY <1>1, <3>2
  <2>. HIDE DEF L
  <2>6. ended' = L
    BY ONLY <2>4, <2>5
  <2>. QED  BY <2>6 DEF L
<1> DEFINE left == open \ ended'
           K == {r \in ToSet(after) : r.id \notin ended'}
<1>8. \A x \in open : Record(requests', x) \in K <=> x \in left
  <2>1. /\ \A x \in open : \E i \in DOMAIN after : after[i] = Record(requests', x)
        /\ \A x : Record(requests', x).id = x
    BY <1>6 DEF IsLine, Record
  <2>. QED  BY <2>1 DEF ToSet
<1>9. IsLine(Keep(after, K), requests', left)
  <2>1. left \in SUBSET open
    OBVIOUS
  <2>. HIDE DEF K, left
  <2>. QED  BY <1>6, <1>8, <2>1, LineShrinks
<1>10. Unfinished' = Keep(after, K)
  <2>1. left \subseteq SeqId /\ DOMAIN requests' \ ended' = left
    BY <1>1, <1>2
  <2>. HIDE DEF K, left
  <2>. QED  BY <1>9, <2>1, LineIs, UnfinishedIs
<1>11. Server!Served(n, stopped) = Keep(after, K)
  BY <1>7, KeepIsKeep DEF Server!Served, ToSet, Server!ToSet, after, line
<1>12. Server!step(n, stopped)
  BY <1>3, <1>10, <1>11 DEF Server!step, line
<1>13. stopped \in SUBSET {line[i].id : i \in 1 .. n}
  BY <1>3 DEF stopped
<1>14. n \in 1 .. Len(line)
  BY <1>3
<1>. QED  BY <1>12, <1>13, <1>14 DEF Server!Next, line

(***************************************************************************)
(* engine.rs and README.md, "Admission is strict FIFO": for every pool,    *)
(* batch size, vocabulary and set of prompts, what a server sees of the    *)
(* engine is a line of requests in the order they came, of which each step *)
(* that completes gives one token to the oldest, to at least one and to no *)
(* younger one before an older; preemption loses no token and no request.  *)
(***************************************************************************)
THEOREM EngineServesInOrder == EngineSpec => ImplementsGeneration
<1>1. EngineInit => Server!Init
  <2>. SUFFICES ASSUME EngineInit PROVE Server!Init
    OBVIOUS
  <2>1. DOMAIN requests \ ended = {}
    BY DEF EngineInit
  <2>2. IsLine(Unfinished, requests, {})
    BY <2>1, UnfinishedIs, LineOfIsLine
  <2>3. Len(Unfinished) = 0 /\ Unfinished \in Seq({})
    <3>1. PICK n \in Nat : /\ Unfinished \in Seq({}) /\ n = Len(Unfinished)
                           /\ \A i \in 1 .. n : Unfinished[i].id \in {}
      BY <2>2 DEF IsLine
    <3>2. ~(1 \in 1 .. n)
      BY <3>1
    <3>. QED  BY <3>1, <3>2
  <2>. QED  BY <2>3 DEF Server!Init
<1>2. ServedInv /\ [EngineNext]_engineVars => [Server!Next]_Unfinished
  <2>. SUFFICES ASSUME ServedInv, [EngineNext]_engineVars PROVE [Server!Next]_Unfinished
    OBVIOUS
  <2>. TypeInv /\ EnginePhase /\ RequestsInv /\ MatchInv /\ DrivenInv
    BY DEF ServedInv, DrivenInv, BatchInv, SchedInv, EngineInv
  <2>1. DOMAIN requests \subseteq SeqId
    BY RequestIds
  <2>2. CASE RetireRequest
    <3>1. PICK id \in ended : requests' = Without(id) /\ ended' = ended \ {id} /\ id \in DOMAIN requests
      BY <2>2, RetireFacts
    <3>2. /\ DOMAIN requests' \ ended' = DOMAIN requests \ ended
          /\ \A x \in DOMAIN requests \ ended : requests'[x] = requests[x]
      BY <3>1 DEF Without
    <3>. QED  BY <2>1, <3>2, LineStays
  <2>3. CASE StepStart \/ InScheduler \/ QuietStep
    <3>1. UNCHANGED <<requests, ended>>
      BY <2>3, QuietFacts, SchedulerSteps DEF StepStart, InScheduler
    <3>. QED  BY <2>1, <3>1, LineStays
  <2>. QED
    BY <2>2, <2>3, AddServes, CancelServes, SampleServes DEF EngineNext, EngineStep, QuietStep
<1>. QED  BY <1>1, <1>2, ServedInvariant, PTL DEF EngineSpec, ImplementsGeneration, Server!Spec

=============================================================================
