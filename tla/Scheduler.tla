------------------------------ MODULE Scheduler ------------------------------
(***************************************************************************)
(* Continuous batching over the block pool                                 *)
(* (src/crates/paged-kv-core/src/scheduler.rs), with the block tables of   *)
(* its sequences (block_table.rs).                                         *)
(*                                                                         *)
(* A call on the scheduler holds &mut self, so calls do not interleave:    *)
(* add, fork, finish and step begin only when pc is "idle".  Inside a call *)
(* one action is one iteration of one of its loops and makes at most one   *)
(* call on the allocator; pc says which loop runs.  cur is the local       *)
(* variable that holds a sequence while its table is built or given back.  *)
(* X_Y is X with the mistake Y, as in BlockAllocator.                      *)
(***************************************************************************)
EXTENDS BlockTable

CONSTANTS
  MaxBatchSize,  \* the most sequences that run at once
  Requests,      \* the requests a client may add
  ForkNew,       \* the max_new_tokens a client may ask of a fork
  MaxSeqs        \* how many sequences clients create: bounds the model

\* prompt is the full chunks of the prompt (chunks_exact); it is empty for a
\* request added by length only.
Request == [len : Nat, prompt : Seq(Chunk), max_new : Nat]

ASSUME SchedulerAssumption ==
  /\ MaxBatchSize \in Nat \ {0}
  /\ MaxBatchSize <= MaxRefCount
  /\ Requests \subseteq Request
  /\ \A r \in Requests : Len(r.prompt) * BlockSize <= r.len
  /\ ForkNew \subseteq Nat
  /\ MaxSeqs \in Nat

SeqId == 1 .. MaxSeqs
Capacity == NumBlocks * BlockSize

VARIABLES
  waiting,    \* the queue of PendingSeq
  running,    \* the batch of RunningSeq, newest last
  pc,         \* the loop the current call is in
  cur,        \* the RunningSeq being built or given back
  claim,      \* the blocks cur has still to reference or to register
  parent,     \* the entry under which cur's next block is registered
  reserved,   \* blocks set aside for the running sequences' next tokens
  todo,       \* the ids the current loop has still to visit
  outcome,    \* the StepOutcome of the current or the latest step
  next_id,    \* history: the next unused id
  target,     \* history: id -> context length it finishes with
  forked,     \* history: the ids that were created by fork_sequence
  holds       \* history: block -> the prompt chunks whose K/V it was filled for

callVars == <<pc, cur, claim, parent, reserved, todo>>
histVars == <<next_id, target, forked, holds>>
vars == <<allocVars, waiting, running, callVars, outcome, histVars>>

-----------------------------------------------------------------------------

Pending == [id : SeqId, context_len : Nat, max_new : Nat, prompt : Seq(Chunk)]

RunningWith(ids) ==
  [id : ids, blocks : Seq(Blocks), num_tokens : Nat, max_new : Nat,
   generated : Nat, prompt : Seq(Chunk), cached : Nat]

Running == RunningWith(SeqId)

NoSeq == [id |-> 0, blocks |-> <<>>, num_tokens |-> 0, max_new |-> 0,
          generated |-> 0, prompt |-> <<>>, cached |-> 0]

NoOutcome == [admitted |-> <<>>, decoded |-> <<>>, preempted |-> <<>>, finished |-> <<>>]

Ids(s) == [i \in DOMAIN s |-> s[i].id]
IsRunning(id) == \E i \in DOMAIN running : running[i].id = id

\* running.iter().position(|s| s.id == id)
Pos(id) == CHOOSE i \in DOMAIN running : running[i].id = id

Init ==
  /\ AllocInit
  /\ waiting = <<>> /\ running = <<>>
  /\ pc = "idle" /\ cur = NoSeq /\ claim = <<>> /\ parent = Root
  /\ reserved = 0 /\ todo = <<>> /\ outcome = NoOutcome
  /\ next_id = 1 /\ target = <<>> /\ forked = {}
  /\ holds = [b \in Blocks |-> <<>>]

-----------------------------------------------------------------------------
(* Requests, forks and cancellations.                                      *)

\* The next id is given to a sequence that ends with n tokens of context.
NewId(n) ==
  /\ next_id <= MaxSeqs
  /\ next_id' = next_id + 1
  /\ target' = Append(target, n)

CouldFit(r) == r.len + r.max_new <= Capacity

\* add_request and add_prompt: what could never fit is turned away.
Enqueue(r) ==
  /\ pc = "idle"
  /\ CouldFit(r)
  /\ waiting' = Append(waiting, [id |-> next_id, context_len |-> r.len,
                                 max_new |-> r.max_new, prompt |-> r.prompt])
  /\ NewId(r.len + r.max_new)
  /\ UNCHANGED <<allocVars, running, callVars, outcome, forked, holds>>

BatchHasRoom == Len(running) < MaxBatchSize

\* fork_sequence of the i-th running sequence.
Fork(i, n) ==
  /\ pc = "idle"
  /\ BatchHasRoom
  /\ cur' = [id |-> next_id, blocks |-> <<>>, num_tokens |-> running[i].num_tokens,
             max_new |-> n, generated |-> 0, prompt |-> running[i].prompt, cached |-> 0]
  /\ claim' = running[i].blocks
  /\ pc' = "fork"
  /\ NewId(running[i].num_tokens + n)
  /\ forked' = forked \cup {next_id}
  /\ UNCHANGED <<allocVars, waiting, running, parent, reserved, todo, outcome, holds>>

ForkBlock_NoIncref ==
  /\ pc = "fork" /\ claim # <<>>
  /\ cur' = [cur EXCEPT !.blocks = Append(@, Head(claim))]
  /\ claim' = Tail(claim)
  /\ UNCHANGED <<allocVars, waiting, running, pc, parent, reserved, todo, outcome, histVars>>

\* BlockTable::fork, one block.
ForkBlock ==
  /\ pc = "fork" /\ claim # <<>>
  /\ Incref(Head(claim))
  /\ cur' = [cur EXCEPT !.blocks = Append(@, Head(claim))]
  /\ claim' = Tail(claim)
  /\ UNCHANGED <<waiting, running, pc, parent, reserved, todo, outcome, histVars>>

ForkEnd ==
  /\ pc = "fork" /\ claim = <<>>
  /\ running' = Append(running, cur)
  /\ cur' = NoSeq
  /\ pc' = "idle"
  /\ UNCHANGED <<allocVars, waiting, claim, parent, reserved, todo, outcome, histVars>>

FinishRunning_KeepsBlocks(i) ==
  /\ pc = "idle"
  /\ running' = RemoveAt(running, i)
  /\ UNCHANGED <<allocVars, waiting, callVars, outcome, histVars>>

\* finish_sequence: a running sequence gives its blocks back.
FinishRunning(i) ==
  /\ pc = "idle"
  /\ cur' = running[i]
  /\ running' = RemoveAt(running, i)
  /\ pc' = "finish"
  /\ UNCHANGED <<allocVars, waiting, claim, parent, reserved, todo, outcome, histVars>>

\* finish_sequence: a waiting sequence is dropped from the queue.
FinishWaiting(i) ==
  /\ pc = "idle"
  /\ waiting' = RemoveAt(waiting, i)
  /\ UNCHANGED <<allocVars, running, callVars, outcome, histVars>>

-----------------------------------------------------------------------------
(* step, admission.                                                        *)

StepBegin ==
  /\ pc = "idle"
  /\ pc' = "reserve"
  /\ reserved' = 0
  /\ todo' = Ids(running)
  /\ outcome' = NoOutcome
  /\ UNCHANGED <<allocVars, waiting, running, cur, claim, parent, histVars>>

\* The sum of what every running sequence's next token takes.
Reserve ==
  /\ pc = "reserve" /\ todo # <<>>
  /\ reserved' = reserved + blocks_needed(running[Pos(Head(todo))], 1)
  /\ todo' = Tail(todo)
  /\ UNCHANGED <<allocVars, waiting, running, pc, cur, claim, parent, outcome, histVars>>

ReserveEnd ==
  /\ pc = "reserve" /\ todo = <<>>
  /\ pc' = "admit"
  /\ UNCHANGED <<allocVars, waiting, running, cur, claim, parent, reserved, todo,
                 outcome, histVars>>

\* The prompt chunks that may be matched: the last token is always computed.
Matchable(p) ==
  SubSeq(p.prompt, 1, IF p.context_len <= Len(p.prompt) * BlockSize
                      THEN (p.context_len - 1) \div BlockSize
                      ELSE Len(p.prompt))

Needed_NoFirstToken(p, hit) ==
  Cardinality({i \in DOMAIN hit : In(hit[i], evictable)})
    + CeilDiv(p.context_len - Len(hit) * BlockSize, BlockSize)

\* Reclaiming an unowned block takes a free block; so does each new block,
\* counting the sequence's own first decoded token.
Needed(p, hit) ==
  Cardinality({i \in DOMAIN hit : In(hit[i], evictable)})
    + CeilDiv(p.context_len - Len(hit) * BlockSize + 1, BlockSize)

Fits_LeavesOneFree(p, hit) == Needed(p, hit) + reserved < num_free
Fits(p, hit) == Needed(p, hit) + reserved <= num_free

\* The front of the queue has room: it leaves the queue.
AdmitNext ==
  /\ pc = "admit"
  /\ BatchHasRoom
  /\ waiting # <<>>
  /\ \E hit \in Matches(Matchable(Head(waiting))) :
       LET p == Head(waiting) IN
       /\ Fits(p, hit)
       /\ claim' = hit
       /\ parent' = LastEntry(hit)
       /\ cur' = [id |-> p.id, blocks |-> <<>>, num_tokens |-> p.context_len,
                  max_new |-> p.max_new, generated |-> 0, prompt |-> p.prompt,
                  cached |-> Len(hit)]
  /\ waiting' = Tail(waiting)
  /\ pc' = "build"
  /\ UNCHANGED <<allocVars, running, reserved, todo, outcome, histVars>>

\* The batch is full, the queue empty, or its front has no room: strict FIFO.
AdmitEnd ==
  /\ pc = "admit"
  /\ \/ ~BatchHasRoom
     \/ waiting = <<>>
     \/ /\ waiting # <<>>
        /\ \E hit \in Matches(Matchable(Head(waiting))) : ~Fits(Head(waiting), hit)
  /\ pc' = "decode"
  /\ todo' = Ids(running)
  /\ UNCHANGED <<allocVars, waiting, running, cur, claim, parent, reserved,
                 outcome, histVars>>

\* One matched block.
Acquire ==
  /\ pc = "build" /\ claim # <<>>
  /\ AcquireCached(Head(claim))
  /\ cur' = [cur EXCEPT !.blocks = Append(@, Head(claim))]
  /\ claim' = Tail(claim)
  /\ UNCHANGED <<waiting, running, pc, parent, reserved, todo, outcome, histVars>>

\* append_many over the computed tokens: one block of them.
Fill ==
  /\ pc = "build" /\ claim = <<>>
  /\ ~HoldsWhatItNeeds(cur)
  /\ \E b \in Blocks :
       /\ Allocate(b)
       /\ cur' = [cur EXCEPT !.blocks = Append(@, b)]
       /\ holds' = [holds EXCEPT ![b] =
                      IF Len(cur.blocks) < Len(cur.prompt)
                      THEN SubSeq(cur.prompt, 1, Len(cur.blocks) + 1) ELSE <<>>]
  /\ UNCHANGED <<waiting, running, pc, claim, parent, reserved, todo, outcome,
                 next_id, target, forked>>

\* cache_prompt starts after the reused blocks.
FillEnd ==
  /\ pc = "build" /\ claim = <<>>
  /\ HoldsWhatItNeeds(cur)
  /\ claim' = IF PrefixCaching THEN SubSeq(cur.blocks, cur.cached + 1, Len(cur.prompt))
                               ELSE <<>>
  /\ pc' = "register"
  /\ UNCHANGED <<allocVars, waiting, running, cur, parent, reserved, todo,
                 outcome, histVars>>

\* cache_prompt, one block.
RegisterBlock ==
  /\ pc = "register" /\ claim # <<>>
  /\ LET chunk == cur.prompt[Len(cur.prompt) - Len(claim) + 1]
         k == [parent |-> parent, tokens |-> chunk]
     IN  /\ CacheBlock(Head(claim), k)
         /\ parent' = CachedEntry(Head(claim), k)
  /\ claim' = Tail(claim)
  /\ UNCHANGED <<waiting, running, pc, cur, reserved, todo, outcome, histVars>>

\* The sequence joins the batch, and its next token is reserved too.
RegisterEnd ==
  /\ pc = "register" /\ claim = <<>>
  /\ reserved' = reserved + blocks_needed(cur, 1)
  /\ outcome' = [outcome EXCEPT !.admitted = Append(@, [id |-> cur.id, cached |-> cur.cached])]
  /\ running' = Append(running, cur)
  /\ cur' = NoSeq
  /\ pc' = "admit"
  /\ UNCHANGED <<allocVars, waiting, claim, parent, todo, histVars>>

-----------------------------------------------------------------------------
(* step, decode and preemption.                                            *)

\* The i-th running sequence is the one decode visits now.
Decoding(i) == pc = "decode" /\ todo # <<>> /\ running[i].id = Head(todo)

\* It was preempted earlier in this loop.
DecodeSkip ==
  /\ pc = "decode" /\ todo # <<>>
  /\ ~IsRunning(Head(todo))
  /\ todo' = Tail(todo)
  /\ UNCHANGED <<allocVars, waiting, running, pc, cur, claim, parent, reserved,
                 outcome, histVars>>

\* A token was appended: the i-th sequence now holds the blocks bs.  cow is
\* the pair to copy, if any.
Appended(i, bs, cow) ==
  LET t == [running[i] EXCEPT !.blocks = bs, !.num_tokens = @ + 1, !.generated = @ + 1]
  IN  /\ running' = [running EXCEPT ![i] = t]
      /\ outcome' = [outcome EXCEPT !.decoded =
                       Append(@, [id |-> t.id, cow |-> cow,
                                  slot |-> slot_for_position(t, t.num_tokens - 1)])]
      /\ todo' = Tail(todo)

\* append into a tail no one shares.
AppendInPlace(i) ==
  /\ Decoding(i)
  /\ last_block_has_room(running[i]) /\ ~needs_cow(running[i])
  /\ Appended(i, running[i].blocks, <<>>)
  /\ UNCHANGED <<allocVars, waiting, pc, cur, claim, parent, reserved, histVars>>

\* append when the tail is full.
AppendFresh(i) ==
  /\ Decoding(i)
  /\ ~last_block_has_room(running[i])
  /\ \E b \in Blocks :
       /\ Allocate(b)
       /\ Appended(i, Append(running[i].blocks, b), <<>>)
       /\ holds' = [holds EXCEPT ![b] = <<>>]
  /\ UNCHANGED <<waiting, pc, cur, claim, parent, reserved, next_id, target, forked>>

\* append into a shared tail: first the copy's block is allocated ...
CowAllocate(i) ==
  /\ Decoding(i)
  /\ needs_cow(running[i])
  /\ \E b \in Blocks :
       /\ Allocate(b)
       /\ cur' = [NoSeq EXCEPT !.blocks = <<b>>]
       /\ holds' = [holds EXCEPT ![b] = <<>>]
  /\ pc' = "cow"
  /\ UNCHANGED <<waiting, running, claim, parent, reserved, todo, outcome,
                 next_id, target, forked>>

CopyPair_Swapped(src, dst) == <<dst, src>>
CopyPair(src, dst) == <<src, dst>>

\* ... then the shared tail is released and replaced.
CowReplace ==
  /\ pc = "cow"
  /\ LET i == Pos(Head(todo))
         src == TailOf(running[i])
         dst == Head(cur.blocks)
     IN  /\ Decref(src)
         /\ Appended(i, [running[i].blocks EXCEPT ![Len(running[i].blocks)] = dst],
                     CopyPair(src, dst))
  /\ cur' = NoSeq
  /\ pc' = "decode"
  /\ UNCHANGED <<waiting, claim, parent, reserved, histVars>>

\* Vec::retain: s without the entries of id.
Retained(s, id) ==
  IF \E k \in DOMAIN s : s[k].id = id THEN SelectSeq(s, LAMBDA d : d.id # id) ELSE s

VictimIndex_Oldest == 1
VictimIndex == Len(running)

\* append finds no block: the newest sequence yields, possibly the i-th itself.
Preempt(i) ==
  /\ Decoding(i)
  /\ ~last_block_has_room(running[i]) \/ needs_cow(running[i])
  /\ ~CanAllocate
  /\ LET victim == running[VictimIndex] IN
       /\ cur' = victim
       /\ outcome' = [outcome EXCEPT
                        !.decoded = Retained(@, victim.id),
                        !.preempted = Append(@, victim.id)]
  /\ running' = RemoveAt(running, VictimIndex)
  /\ pc' = "preempt"
  /\ UNCHANGED <<allocVars, waiting, claim, parent, reserved, todo, histVars>>

ReleaseBlock_HeadFirst ==
  /\ pc \in {"preempt", "retire", "finish"} /\ cur.blocks # <<>>
  /\ Decref(Head(cur.blocks))
  /\ cur' = [cur EXCEPT !.blocks = Tail(@)]
  /\ UNCHANGED <<waiting, running, pc, claim, parent, reserved, todo, outcome, histVars>>

\* BlockTable::free, one block, the tail first.
ReleaseBlock ==
  /\ pc \in {"preempt", "retire", "finish"} /\ cur.blocks # <<>>
  /\ Decref(TailOf(cur))
  /\ cur' = [cur EXCEPT !.blocks = SubSeq(@, 1, Len(@) - 1)]
  /\ UNCHANGED <<waiting, running, pc, claim, parent, reserved, todo, outcome, histVars>>

Requeued_FullBudget(s) ==
  [id |-> s.id, context_len |-> s.num_tokens, max_new |-> s.max_new, prompt |-> s.prompt]

\* What a preempted sequence waits with: its whole context and what is left
\* to generate.
Requeued(s) ==
  [id |-> s.id, context_len |-> s.num_tokens, max_new |-> s.max_new - s.generated,
   prompt |-> s.prompt]

PreemptEnd_BackOfQueue ==
  /\ pc = "preempt" /\ cur.blocks = <<>>
  /\ waiting' = Append(waiting, Requeued(cur))
  /\ cur' = NoSeq
  /\ pc' = "decode"
  /\ UNCHANGED <<allocVars, running, claim, parent, reserved, todo, outcome, histVars>>

\* The victim goes to the front of the queue.
PreemptEnd ==
  /\ pc = "preempt" /\ cur.blocks = <<>>
  /\ waiting' = <<Requeued(cur)>> \o waiting
  /\ cur' = NoSeq
  /\ pc' = "decode"
  /\ UNCHANGED <<allocVars, running, claim, parent, reserved, todo, outcome, histVars>>

-----------------------------------------------------------------------------
(* step, retirement.                                                       *)

Finished(i) == running[i].generated >= running[i].max_new

\* retire_finished: the next sequence in batch order that has all its tokens.
Retire(i) ==
  /\ pc = "decode" /\ todo = <<>>
  /\ Finished(i) /\ \A j \in 1 .. i - 1 : ~Finished(j)
  /\ cur' = running[i]
  /\ running' = RemoveAt(running, i)
  /\ outcome' = [outcome EXCEPT !.finished = Append(@, running[i].id)]
  /\ pc' = "retire"
  /\ UNCHANGED <<allocVars, waiting, claim, parent, reserved, todo, histVars>>

\* Its blocks, or those of a finished sequence, are all released.
ReleaseEnd ==
  /\ pc \in {"retire", "finish"} /\ cur.blocks = <<>>
  /\ pc' = IF pc = "retire" THEN "decode" ELSE "idle"
  /\ cur' = NoSeq
  /\ UNCHANGED <<allocVars, waiting, running, claim, parent, reserved, todo,
                 outcome, histVars>>

StepEnd ==
  /\ pc = "decode" /\ todo = <<>>
  /\ \A i \in DOMAIN running : ~Finished(i)
  /\ pc' = "idle"
  /\ UNCHANGED <<allocVars, waiting, running, cur, claim, parent, reserved, todo,
                 outcome, histVars>>

-----------------------------------------------------------------------------

Client ==
  \/ \E r \in Requests : Enqueue(r)
  \/ \E i \in DOMAIN running : FinishRunning(i) \/ \E n \in ForkNew : Fork(i, n)
  \/ \E i \in DOMAIN waiting : FinishWaiting(i)

\* What a driver that keeps calling step makes happen.
Step ==
  \/ StepBegin \/ Reserve \/ ReserveEnd
  \/ AdmitNext \/ AdmitEnd \/ Acquire \/ Fill \/ FillEnd \/ RegisterBlock \/ RegisterEnd
  \/ DecodeSkip
  \/ \E i \in DOMAIN running :
       AppendInPlace(i) \/ AppendFresh(i) \/ CowAllocate(i) \/ Preempt(i) \/ Retire(i)
  \/ CowReplace \/ ReleaseBlock \/ PreemptEnd \/ ReleaseEnd \/ StepEnd
  \/ ForkBlock \/ ForkEnd

Next == Client \/ Step

Spec == Init /\ [][Next]_vars

\* The worker thread and the simulation call step again and again while there
\* is work; clients owe nothing.
FairSpec == Spec /\ WF_vars(Step)

-----------------------------------------------------------------------------
(* Properties.                                                             *)

Phase == {"idle", "fork", "finish", "reserve", "admit", "build", "register",
          "decode", "cow", "preempt", "retire"}

\* Every variable has the type of its Rust field or local variable, unsigned
\* ones are not below zero, and (check_invariants) the batch is not too large.
SchedTypeOK ==
  /\ AllocTypeOK
  /\ waiting \in Seq(Pending)
  /\ running \in Seq(Running)
  /\ Len(running) <= MaxBatchSize
  /\ pc \in Phase
  /\ cur \in RunningWith(SeqId \cup {0})
  /\ claim \in Seq(Blocks) /\ parent \in Entry
  /\ reserved \in Nat /\ todo \in Seq(SeqId)
  /\ next_id \in 1 .. MaxSeqs + 1
  /\ target \in [1 .. next_id - 1 -> Nat]
  /\ forked \subseteq SeqId
  /\ holds \in [Blocks -> Seq(Chunk)]

\* How many tables refer to b, the one under construction included.
References(b) ==
  Cardinality({i \in DOMAIN running : In(b, running[i].blocks)})
    + (IF In(b, cur.blocks) THEN 1 ELSE 0)

(***************************************************************************)
(* block_table.rs:204-242 (check_ownership), at every step of every call   *)
(* and not only between calls: a block's count is the number of tables     *)
(* that refer to it, so none leaks when a sequence is preempted, retired   *)
(* or cancelled, and none is given away while a table still reads it.  No  *)
(* table has a block twice, and each has exactly the blocks it needs.      *)
(***************************************************************************)
OwnershipExact ==
  /\ \A b \in Blocks : ref_counts[b] = References(b)
  /\ \A i \in DOMAIN running :
       NoRepeat(running[i].blocks) /\ HoldsWhatItNeeds(running[i])
  /\ NoRepeat(cur.blocks)

\* A call on the scheduler that takes one step of the batch is under way.
Stepping == pc \in {"decode", "cow", "preempt", "retire"}

(***************************************************************************)
(* block_table.rs:3-4 and allocator.rs:11-12, "a block is copied only when *)
(* written while shared": the slot a step hands out for writing lies in a  *)
(* block no other table reads and the prefix index does not serve, and it  *)
(* stays so until the step returns, whatever else the step does.           *)
(***************************************************************************)
WritesArePrivate ==
  Stepping =>
    \A k \in DOMAIN outcome.decoded : \A i \in DOMAIN running :
      running[i].id = outcome.decoded[k].id =>
        LET slot == outcome.decoded[k].slot
        IN  /\ slot = slot_for_position(running[i], running[i].num_tokens - 1)
            /\ ref_counts[slot.block] = 1
            /\ ~is_cached(slot.block)

(***************************************************************************)
(* The copies of a step, done in order before any token is written (the    *)
(* default copy_blocks of backend.rs): no copy overwrites what a later one *)
(* still reads or has as its destination.                                  *)
(***************************************************************************)
CopiesSafeInOrder ==
  \A k, l \in DOMAIN outcome.decoded :
    LET c == outcome.decoded[k].cow
        d == outcome.decoded[l].cow
    IN  (k < l /\ c # <<>> /\ d # <<>>) => c[2] # d[1] /\ c[2] # d[2]

(***************************************************************************)
(* backend.rs:592 of paged-kv-cuda, where all pairs are copied by one      *)
(* kernel launch: "Copy-on-write never writes a block another pair reads." *)
(***************************************************************************)
CopiesSafeInParallel ==
  \A k, l \in DOMAIN outcome.decoded :
    LET c == outcome.decoded[k].cow
        d == outcome.decoded[l].cow
    IN  (k # l /\ c # <<>> /\ d # <<>>) => c[2] # d[1] /\ c[2] # d[2]

(***************************************************************************)
(* scheduler.rs:279-284: the blocks reserved at admission never under-     *)
(* count what the same step's decode takes, so a step that admits a        *)
(* sequence preempts nobody and no prefill is wasted.                      *)
(***************************************************************************)
AdmissionNeverPreempts ==
  outcome.admitted = <<>> \/ outcome.preempted = <<>>

\* The requests in the order they would next be served: batch, then queue.
Line ==
  Ids(running) \o (IF pc \in {"build", "register", "preempt"} THEN <<cur.id>> ELSE <<>>)
    \o Ids(waiting)

(***************************************************************************)
(* scheduler.rs:93-96, "Admission is strict FIFO ... the newest sequence   *)
(* is preempted": a request never overtakes one that arrived before it, in *)
(* the queue or in the batch, through any number of preemptions.  Forks    *)
(* join the batch directly and are outside the order.                      *)
(***************************************************************************)
ArrivalOrder ==
  \A i, j \in DOMAIN Line :
    (i < j /\ Line[i] \notin forked /\ Line[j] \notin forked) => Line[i] < Line[j]

(***************************************************************************)
(* No token is lost or generated twice over a preemption: context and      *)
(* remaining budget always add up to the length the sequence was asked to  *)
(* reach, and a sequence retires exactly at that length.                   *)
(***************************************************************************)
TokenBudget ==
  /\ \A i \in DOMAIN waiting : waiting[i].context_len + waiting[i].max_new = target[waiting[i].id]
  /\ \A i \in DOMAIN running :
       running[i].num_tokens + running[i].max_new = target[running[i].id] + running[i].generated
  /\ pc = "retire" => cur.num_tokens = target[cur.id]

(***************************************************************************)
(* prefix_cache.rs:1-2: a block a sequence shares through the index was    *)
(* filled for the same tokens at the same place in the same prefix, though *)
(* blocks have been evicted, refilled and registered anew in between.      *)
(***************************************************************************)
PromptBlocksHoldPrompt ==
  \A i \in DOMAIN running : \A k \in DOMAIN running[i].prompt :
    holds[running[i].blocks[k]] = SubSeq(running[i].prompt, 1, k)

(***************************************************************************)
(* block_table.rs:193-195, "a sequence's later blocks are evicted before   *)
(* its prefix": a registered block's parent is registered too, so every    *)
(* block the cache keeps can still be found from the root.                 *)
(***************************************************************************)
PrefixesReachable ==
  \A b \in DOMAIN by_block :
    \/ by_block[b].key.parent = Root
    \/ \E c \in DOMAIN by_block : by_block[c].entry = by_block[b].key.parent

Live(id) == \/ \E i \in DOMAIN waiting : waiting[i].id = id
            \/ IsRunning(id)
            \/ cur.id = id

(***************************************************************************)
(* README.md, "it resumes once blocks free up": while step keeps being     *)
(* called every sequence leaves the scheduler, retired or cancelled.       *)
(***************************************************************************)
EverySequenceEnds == \A id \in SeqId : Live(id) ~> ~Live(id)

=============================================================================
