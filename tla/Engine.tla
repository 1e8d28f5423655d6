------------------------------- MODULE Engine -------------------------------
(***************************************************************************)
(* Greedy generation (src/crates/paged-kv-model/src/engine.rs) and the     *)
(* part of the model's forward pass that touches the cache (model.rs).     *)
(* The engine owns the scheduler: it adds, cancels and steps only between  *)
(* its own calls, and never forks.  epc is the place inside Engine::step.  *)
(*                                                                         *)
(* The K/V of a token depends on the tokens before it and on no others, so *)
(* the entry of position p is modelled as the first p + 1 tokens of its    *)
(* sequence.  It stays so as long as attention reads nothing else, which   *)
(* AttentionReadsOwnContext says.                                          *)
(***************************************************************************)
EXTENDS Scheduler, Filter

CONSTANTS
  Token,          \* the vocabulary
  StopTokens,     \* stop_at
  NumLayers,
  Prompts         \* the prompts and budgets clients ask for: [tokens, max_new]

\* prompt.chunks_exact(block_size)
Chunks(tokens) ==
  [k \in 1 .. Len(tokens) \div BlockSize |-> SubSeq(tokens, (k - 1) * BlockSize + 1, k * BlockSize)]

\* One spare token: the engine, not the scheduler, decides when to stop.
SchedulerBudget_Exact(max_new) == max_new
SchedulerBudget(max_new) == max_new + 1

\* What the engine asks of its scheduler for p.
Asked(p) ==
  [len |-> Len(p.tokens), prompt |-> Chunks(p.tokens), max_new |-> SchedulerBudget(p.max_new)]

\* The engine is the scheduler's only client.
ASSUME EngineAssumption ==
  /\ StopTokens \subseteq Token
  /\ NumLayers \in Nat \ {0}
  /\ Prompts \subseteq [tokens : Seq(Token) \ {<<>>}, max_new : Nat \ {0}]
  /\ Chunk = [1 .. BlockSize -> Token]
  /\ Requests = {Asked(p) : p \in Prompts}
  /\ ForkNew = {}

Layers == 1 .. NumLayers
Slots == 0 .. BlockSize - 1

VARIABLES
  requests,   \* id -> [tokens, prompt_len, max_new]
  epc,        \* "idle", "scheduling", "writing", "attending", "sampling", "retiring"
  layer,      \* the layer the forward pass is in
  ended,      \* the requests that stopped in this step and are still to be removed
  kv          \* <<layer, block, slot>> -> the tokens whose K/V is there

engineVars == <<vars, requests, epc, layer, ended, kv>>

EngineInit ==
  /\ Init
  /\ requests = <<>> /\ epc = "idle" /\ layer = 0 /\ ended = {}
  /\ kv = [x \in Layers \X Blocks \X Slots |-> <<>>]

Idle == epc = "idle" /\ pc = "idle"

\* An empty prompt or no budget is refused before the scheduler sees it, and
\* what the scheduler refuses leaves no request behind.
AddRequest(p) ==
  /\ Idle
  /\ Enqueue(Asked(p))
  /\ requests' = [id \in DOMAIN requests \cup {next_id} |->
                    IF id = next_id
                    THEN [tokens |-> p.tokens, prompt_len |-> Len(p.tokens), max_new |-> p.max_new]
                    ELSE requests[id]]
  /\ UNCHANGED <<epc, layer, ended, kv>>

Without(id) == [r \in DOMAIN requests \ {id} |-> requests[r]]

Scheduled(id) ==
  \/ \E i \in DOMAIN running : running[i].id = id
  \/ \E i \in DOMAIN waiting : waiting[i].id = id

\* finish_sequence: it is running, or it is waiting.
FinishSequence(id) ==
  \/ \E i \in DOMAIN running : running[i].id = id /\ FinishRunning(i)
  \/ \E i \in DOMAIN waiting : waiting[i].id = id /\ FinishWaiting(i)

\* finish_sequence fails when the scheduler has no such sequence.
Cancel(id) ==
  /\ Idle
  /\ id \in DOMAIN requests
  /\ IF Scheduled(id) THEN FinishSequence(id) ELSE UNCHANGED vars
  /\ requests' = Without(id)
  /\ UNCHANGED <<epc, layer, ended, kv>>

-----------------------------------------------------------------------------
(* Engine::step.                                                           *)

StepStart ==
  /\ Idle
  /\ StepBegin
  /\ epc' = "scheduling"
  /\ UNCHANGED <<requests, layer, ended, kv>>

\* The next action of a call on the scheduler that is under way.
InScheduler ==
  /\ pc # "idle"
  /\ Step
  /\ UNCHANGED <<requests, epc, layer, ended, kv>>

\* scheduler.step has returned: every running sequence must be a request with
\* one slot more than it has known tokens, or the step bails.
Expected(s) == s.id \in DOMAIN requests /\ s.num_tokens = Len(requests[s.id].tokens) + 1

ScheduledBail ==
  /\ epc = "scheduling" /\ pc = "idle"
  /\ \E i \in DOMAIN running : ~Expected(running[i])
  /\ epc' = "idle"
  /\ UNCHANGED <<vars, requests, layer, ended, kv>>

\* Nothing runs: there is nothing to feed to the model.
ScheduledNothing ==
  /\ epc = "scheduling" /\ pc = "idle"
  /\ running = <<>>
  /\ epc' = "idle"
  /\ UNCHANGED <<vars, requests, layer, ended, kv>>

\* The cache after the copies of the step, in order.
Copied ==
  LET to[n \in 0 .. Len(outcome.decoded)] ==
        IF n = 0 THEN kv
        ELSE LET cow == outcome.decoded[n].cow
             IN  IF cow = <<>> THEN to[n - 1]
                 ELSE [x \in DOMAIN kv |-> IF x[2] = cow[2]
                                           THEN to[n - 1][<<x[1], cow[1], x[3]>>]
                                           ELSE to[n - 1][x]]
  IN  to[Len(outcome.decoded)]

ScheduledBatch ==
  /\ epc = "scheduling" /\ pc = "idle"
  /\ running # <<>>
  /\ \A i \in DOMAIN running : Expected(running[i])
  /\ kv' = Copied
  /\ epc' = "writing" /\ layer' = 1
  /\ UNCHANGED <<vars, requests, ended>>

\* Where the tokens fed to the model start: after what the prefix cache has,
\* if the sequence was admitted in this step, else at the last one.
Start_IgnoresPreemption(s) ==
  IF s.generated = 1 /\ Len(requests[s.id].tokens) = requests[s.id].prompt_len
  THEN s.cached * BlockSize
  ELSE Len(requests[s.id].tokens) - 1
Start(s) ==
  IF \E k \in DOMAIN outcome.admitted : outcome.admitted[k].id = s.id
  THEN s.cached * BlockSize
  ELSE Len(requests[s.id].tokens) - 1

\* The positions (from 0) whose K/V a sequence writes in this step.
NewPositions(s) == Start(s) .. Len(requests[s.id].tokens) - 1

Place(s, p) == <<s.blocks[(p \div BlockSize) + 1], p % BlockSize>>

\* The positions of s that it writes to the slot x of a layer.
WritesTo(s, x) == {p \in NewPositions(s) : Place(s, p) = <<x[2], x[3]>>}

\* write_kv_batch for all sequences of the batch: it precedes every read.
WriteLayer ==
  /\ epc = "writing"
  /\ kv' = [x \in DOMAIN kv |->
               LET by == {i \in DOMAIN running : WritesTo(running[i], x) # {}}
               IN  IF x[1] = layer /\ by # {}
                   THEN LET s == running[CHOOSE i \in by : TRUE]
                            p == CHOOSE p \in WritesTo(s, x) : TRUE
                        IN  SubSeq(requests[s.id].tokens, 1, p + 1)
                   ELSE kv[x]]
  /\ epc' = "attending"
  /\ UNCHANGED <<vars, requests, layer, ended>>

\* paged_attention of this layer, and on to the next.
AttendLayer ==
  /\ epc = "attending"
  /\ IF layer < NumLayers THEN epc' = "writing" /\ layer' = layer + 1
                          ELSE epc' = "sampling" /\ UNCHANGED layer
  /\ UNCHANGED <<vars, requests, ended, kv>>

\* A write or an attention fails on the device: the step returns the error.
ForwardFails ==
  /\ epc \in {"writing", "attending"}
  /\ epc' = "idle"
  /\ UNCHANGED <<vars, requests, layer, ended, kv>>

Generated(r) == Len(r.tokens) - r.prompt_len
Stops(r) == Generated(r) >= r.max_new \/ Last(r.tokens) \in StopTokens

\* argmax: one token for every running sequence.
Sample ==
  /\ epc = "sampling"
  /\ \E next \in [DOMAIN running -> Token] :
       LET id(i) == running[i].id
           after == [r \in DOMAIN requests |->
                       IF IsRunning(r)
                       THEN [requests[r] EXCEPT !.tokens = Append(@, next[Pos(r)])]
                       ELSE requests[r]]
       IN  /\ requests' = after
           /\ ended' = {id(i) : i \in {j \in DOMAIN running : Stops(after[id(j)])}}
  /\ epc' = "retiring"
  /\ UNCHANGED <<vars, layer, kv>>

\* finish_sequence and removal for the next request that stopped, in the
\* order of the batch.
RetireRequest ==
  /\ epc = "retiring" /\ pc = "idle"
  /\ \E i \in DOMAIN running :
       LET id == running[i].id IN
       /\ id \in ended /\ \A j \in 1 .. i - 1 : running[j].id \notin ended
       /\ FinishSequence(id)
       /\ requests' = Without(id)
       /\ ended' = ended \ {id}
  /\ UNCHANGED <<epc, layer, kv>>

StepReturns ==
  /\ epc = "retiring" /\ pc = "idle" /\ ended = {}
  /\ epc' = "idle"
  /\ UNCHANGED <<vars, requests, layer, ended, kv>>

EngineStep ==
  \/ StepStart \/ InScheduler
  \/ ScheduledNothing \/ ScheduledBatch
  \/ WriteLayer \/ AttendLayer
  \/ Sample \/ RetireRequest \/ StepReturns

EngineNext ==
  \/ \E p \in Prompts : AddRequest(p)
  \/ \E id \in SeqId : Cancel(id)
  \/ EngineStep

\* The engine on a device that works, on which no step bails
\* (EngineMatchesScheduler), and on one that may fail.
EngineSpec == EngineInit /\ [][EngineNext]_engineVars
FailingSpec == EngineInit /\ [][EngineNext \/ ForwardFails \/ ScheduledBail]_engineVars

-----------------------------------------------------------------------------
(* Properties.                                                             *)

(***************************************************************************)
(* model.rs, SeqInput, and backend.rs:66-71: when a layer attends, every   *)
(* slot a sequence reads holds the K/V of that sequence's own token at     *)
(* that position, computed after its own previous tokens: whoever wrote    *)
(* it, in this step or in an earlier one, and whatever was evicted,        *)
(* preempted, cancelled or shared in between.                              *)
(***************************************************************************)
AttentionReadsOwnContext ==
  epc = "attending" =>
    \A i \in DOMAIN running :
      LET tokens == requests[running[i].id].tokens
      IN  \A p \in 0 .. Len(tokens) - 1 :
            kv[<<layer>> \o Place(running[i], p)] = SubSeq(tokens, 1, p + 1)

\* Between calls both hold the same sequences.
SameSequences ==
  Idle =>
    /\ DOMAIN requests = ToSet(Ids(running)) \cup ToSet(Ids(waiting))
    /\ \A i \in DOMAIN waiting : waiting[i].context_len = Len(requests[waiting[i].id].tokens)

\* engine.rs:92, "the engine, not the scheduler, decides when to stop".
EngineDecides == outcome.finished = <<>>

NothingToCopy == \A k \in DOMAIN outcome.decoded : outcome.decoded[k].cow = <<>>

(***************************************************************************)
(* engine.rs:125 and 150-164: the engine and its scheduler never disagree. *)
(* Between calls they hold the same sequences; after the scheduler's step  *)
(* each of the batch has one slot more than known tokens, so no step bails *)
(* and no cancellation misses its sequence; the scheduler's budget never   *)
(* runs out first, whatever was preempted; and as the engine does not fork *)
(* there is never anything to copy.                                        *)
(***************************************************************************)
EngineMatchesScheduler ==
  /\ SameSequences
  /\ (epc = "scheduling" /\ pc = "idle") => \A i \in DOMAIN running : Expected(running[i])
  /\ EngineDecides /\ NothingToCopy

\* What a server sees of a request: how many tokens it may still get.
Owed(id) == [id |-> id, left |-> requests[id].max_new - Generated(requests[id])]

\* The requests that have not stopped, the oldest first.
Oldest == Keep([k \in 1 .. MaxSeqs |-> k], DOMAIN requests \ ended)
Unfinished == [k \in DOMAIN Oldest |-> Owed(Oldest[k])]

Server == INSTANCE Generation WITH
  Id <- SeqId, Budget <- {p.max_new : p \in Prompts}, line <- Unfinished

(***************************************************************************)
(* README.md, "Admission is strict FIFO ... This prevents large requests   *)
(* from starving": every step that completes gives one token to each of    *)
(* the oldest requests, to at least one, and to no younger one before an   *)
(* older one; preemption loses no token and no request.                    *)
(***************************************************************************)
ImplementsGeneration == Server!Spec

(***************************************************************************)
(* A step with requests to serve always runs some of them: nothing the     *)
(* pool can hold waits while nothing runs.                                 *)
(***************************************************************************)
WorkConserving ==
  (epc = "scheduling" /\ pc = "idle" /\ requests # <<>>) => running # <<>>
=============================================================================
