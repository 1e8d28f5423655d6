----------------------------- MODULE Simulation -----------------------------
(***************************************************************************)
(* One session of the dashboard server                                     *)
(* (src/crates/paged-kv-server/src/sim.rs): a scheduler driven by traffic  *)
(* and commands, with the records it keeps about every sequence, its       *)
(* totals, its history and its event log.  The scheduler is what Scheduler *)
(* is shown to implement, Batching; so events and totals that count blocks *)
(* or copies are left out, and a prompt is its length.                     *)
(*                                                                         *)
(* advance is a sequence of steps here (at); a command is one step, or for *)
(* Step the start of an advance.  Nothing else of the session runs in      *)
(* between.  What a call returns is appended to replies.                   *)
(***************************************************************************)
EXTENDS Integers, Sequences, FiniteSets, SequencesExt

CONSTANTS
  MaxBatchSize, max_waiting, capacity_tokens,    \* SimConfig
  system_prompts,                  \* their lengths; the first has index 0
  HISTORY_LEN, EVENT_LOG_LEN, TRAFFIC_QUEUE_LIMIT,
  TrafficEvery, ForkEvery,         \* 3 and 5 in the code
  TrafficLen, TrafficNew,          \* 4..23 and 4..31
  Commands,                        \* what the client may send
  MaxTick, MaxId                   \* bounds of the model: no tick and no sequence after

NoPrompt == -1
NoParent == 0
NoSeq == 0
PromptIds == 0 .. Len(system_prompts) - 1

Command == [type : {"add_request"}, system_prompt : Int, prompt_len : Nat, max_new_tokens : Nat]
             \cup [type : {"fork"}, seq_id : Nat]
             \cup [type : {"pause", "resume", "step", "reset"}]
             \cup [type : {"set_traffic", "set_prefix_caching"}, enabled : BOOLEAN]

ASSUME SimAssumption ==
  /\ MaxBatchSize \in Nat /\ max_waiting \in Nat /\ capacity_tokens \in Nat
  /\ system_prompts \in Seq(Nat)
  /\ HISTORY_LEN \in Nat \ {0} /\ EVENT_LOG_LEN \in Nat \ {0} /\ TRAFFIC_QUEUE_LIMIT \in Nat
  /\ TrafficEvery \in Nat \ {0} /\ ForkEvery \in Nat \ {0}
  /\ TrafficLen \subseteq Nat \ {0} /\ TrafficNew \subseteq Nat \ {0}
  /\ Commands \subseteq Command
  /\ MaxTick \in Nat /\ MaxId \in Nat

VARIABLES
  queue, batch,        \* the scheduler, see Batching
  tick, paused, traffic, prefix_caching, next_id,
  meta,                \* id -> [parent, origin, system_prompt, preempted]
  totals, history, events,
  at,                  \* where advance is: "idle", "traffic", "fork", "step"
  fresh,               \* the events advance has collected
  replies              \* messages for the client, not yet sent

records == <<next_id, meta, totals>>
controls == <<paused, traffic, prefix_caching>>
simVars == <<queue, batch, tick, controls, records, history, events, at, fresh, replies>>

B == INSTANCE Batching WITH Id <- 1 .. MaxId, Length <- Nat

-----------------------------------------------------------------------------
(* What is shown.                                                          *)

Metrics(t, q, b) == [tick |-> t, running |-> Len(b), waiting |-> Len(q)]
metrics == Metrics(tick, queue, batch)

Zero == [submitted |-> 0, admitted |-> 0, finished |-> 0, preempted |-> 0, forks |-> 0,
         tokens_generated |-> 0]

\* A sequence with what the session knows of it.
View(s, m) == [seq |-> s, meta |-> m[s.id]]
Views(seqs, m) == [i \in DOMAIN seqs |-> View(seqs[i], m)]

snapshot ==
  [tick |-> tick, paused |-> paused, traffic |-> traffic, prefix_caching |-> prefix_caching,
   running |-> Views(batch, meta), waiting |-> Views(queue, meta),
   metrics |-> metrics, totals |-> totals]

Ack(id, result) == [type |-> "ack", id |-> id, result |-> result]
OkSeq(id) == [status |-> "ok", seq_id |-> id]
Ok == OkSeq(NoSeq)
Rejected == [status |-> "rejected"]

\* Messages show the state after the change they report.
InitMessage == [type |-> "init", snapshot |-> snapshot, history |-> history, events |-> events]
StateMessage(shown, new) == [type |-> "state", snapshot |-> shown, events |-> new]
TickMessage(shown, new) == [type |-> "tick", snapshot |-> shown, events |-> new]

Reply(messages) == replies' = replies \o messages

Latest(s, n) == SubSeq(s, Len(s) - (IF Len(s) < n THEN Len(s) ELSE n) + 1, Len(s))

\* The oldest events make room.
Log(new) == events' = Latest(events \o new, EVENT_LOG_LEN)

-----------------------------------------------------------------------------

SimInit ==
  /\ queue = <<>> /\ batch = <<>> /\ tick = 0
  /\ next_id = 1 /\ meta = <<>> /\ totals = Zero
  /\ history = <<Metrics(0, <<>>, <<>>)>> /\ events = <<>>
  /\ paused = FALSE /\ traffic = TRUE /\ prefix_caching = TRUE
  /\ at = "idle" /\ fresh = <<>>

Extend(f, id, value) == [i \in DOMAIN f \cup {id} |-> IF i = id THEN value ELSE f[i]]

Event(id, kind) == [tick |-> tick, seq_id |-> id, kind |-> kind]

PrefixLen(sp) == IF sp = NoPrompt THEN 0 ELSE system_prompts[sp + 1]

CanSubmit_NoQueueLimit(sp, len, new) ==
  /\ len > 0 /\ new > 0
  /\ sp \in PromptIds \cup {NoPrompt}
  /\ PrefixLen(sp) + len + new <= capacity_tokens

\* submit refuses: an empty request, an unknown prompt, too long, a full queue.
CanSubmit(sp, len, new) ==
  /\ len > 0 /\ new > 0
  /\ sp \in PromptIds \cup {NoPrompt}
  /\ PrefixLen(sp) + len + new <= capacity_tokens
  /\ Len(queue) < max_waiting

\* submit, which adds one event.
submit(origin, sp, len, new) ==
  /\ CanSubmit(sp, len, new)
  /\ B!Submit(next_id, PrefixLen(sp) + len, new)
  /\ next_id' = next_id + 1
  /\ meta' = Extend(meta, next_id, [parent |-> NoParent, origin |-> origin,
                                    system_prompt |-> sp, preempted |-> FALSE])
  /\ totals' = [totals EXCEPT !.submitted = @ + 1]

Remaining(s) == IF s.max_new > s.generated THEN s.max_new - s.generated ELSE 0

CanFork(i) == Remaining(batch[i]) > 0 /\ Len(batch) < MaxBatchSize

\* fork of a running sequence.
fork(i, origin) ==
  /\ CanFork(i)
  /\ B!ForkSequence(i, next_id, Remaining(batch[i]))
  /\ next_id' = next_id + 1
  /\ meta' = Extend(meta, next_id, [parent |-> batch[i].id, origin |-> origin,
                                    system_prompt |-> meta[batch[i].id].system_prompt,
                                    preempted |-> FALSE])
  /\ totals' = [totals EXCEPT !.forks = @ + 1]

-----------------------------------------------------------------------------
(* advance.                                                                *)

\* Its first line; the caller has said who may call it.
Start ==
  /\ tick < MaxTick
  /\ tick' = tick + 1
  /\ at' = IF traffic THEN "traffic" ELSE "step"
  /\ fresh' = <<>>

\* generate_traffic: a request every third tick, unless too many wait.
TrafficRequest ==
  /\ at = "traffic" /\ at' = "fork"
  /\ IF tick % TrafficEvery = 0 /\ Len(queue) < TRAFFIC_QUEUE_LIMIT
     THEN \E sp \in PromptIds \cup {NoPrompt}, len \in TrafficLen, new \in TrafficNew :
            IF CanSubmit(sp, len, new) /\ next_id <= MaxId
            THEN /\ submit("traffic", sp, len, new)
                 /\ fresh' = Append(fresh, Event(next_id, "submitted"))
            ELSE UNCHANGED <<queue, batch, records, fresh>>
     ELSE UNCHANGED <<queue, batch, records, fresh>>
  /\ UNCHANGED <<tick, controls, history, events, replies>>

\* A fork of some running sequence every fifth tick.
TrafficFork ==
  /\ at = "fork" /\ at' = "step"
  /\ IF tick % ForkEvery = 0 /\ batch # <<>>
     THEN \E i \in DOMAIN batch :
            IF CanFork(i) /\ next_id <= MaxId
            THEN /\ fork(i, "traffic")
                 /\ fresh' = Append(fresh, Event(next_id, "forked"))
            ELSE UNCHANGED <<queue, batch, records, fresh>>
     ELSE UNCHANGED <<queue, batch, records, fresh>>
  /\ UNCHANGED <<tick, controls, history, events, replies>>

\* The ids of a step's outcome that admits a and preempts p.
AdmittedIds(a) == [k \in 1 .. a |-> queue[k].id]
PreemptedIds(p) == [k \in 1 .. p |-> batch[Len(batch) + 1 - k].id]
FinishedIds(a, p) ==
  LET over == B!Keep(B!Decoded(a, p), {s \in ToSet(B!Decoded(a, p)) : B!Finished(s)})
  IN  [k \in DOMAIN over |-> over[k].id]

EventsOf(ids, kind) == [k \in DOMAIN ids |-> Event(ids[k], kind)]

StepEvents_FinishedFirst(a, p) ==
  EventsOf(FinishedIds(a, p), "finished") \o EventsOf(AdmittedIds(a), "admitted") \o
  EventsOf(PreemptedIds(p), "preempted")
StepEvents(a, p) ==
  EventsOf(AdmittedIds(a), "admitted") \o EventsOf(PreemptedIds(p), "preempted") \o
  EventsOf(FinishedIds(a, p), "finished")

record_meta_KeepsFinished(a, p) ==
  meta' = [id \in DOMAIN meta |->
             [meta[id] EXCEPT !.preempted = @ \/ id \in ToSet(PreemptedIds(p))]]

\* record_step, for the records of the sequences.
record_meta(a, p) ==
  meta' = [id \in DOMAIN meta \ ToSet(FinishedIds(a, p)) |->
             [meta[id] EXCEPT !.preempted = @ \/ id \in ToSet(PreemptedIds(p))]]

\* record_step, for the totals.
record_totals(a, p) ==
  totals' = [totals EXCEPT
    !.admitted = @ + a,
    !.preempted = @ + p,
    !.finished = @ + Len(FinishedIds(a, p)),
    !.tokens_generated = @ + Len(B!Decoded(a, p))]

\* The oldest point makes room.
Remember(m) == history' = Latest(Append(history, m), HISTORY_LEN)

\* scheduler.step and what advance makes of it.
SchedulerStep(a, p) ==
  /\ at = "step" /\ at' = "idle"
  /\ B!Step(a, p)
  /\ record_meta(a, p)
  /\ record_totals(a, p)
  /\ UNCHANGED <<tick, controls, next_id>>
  /\ LET all == fresh \o StepEvents(a, p) IN
     /\ Remember(metrics')
     /\ Log(all)
     /\ Reply(<<TickMessage(snapshot', all)>>)
  /\ fresh' = <<>>

AdvanceStep ==
  \/ TrafficRequest \/ TrafficFork
  \/ \E a \in 0 .. Len(queue), p \in 0 .. Len(batch) : SchedulerStep(a, p)

-----------------------------------------------------------------------------
(* Commands.                                                               *)

RejectWhen(id, refused) ==
  /\ refused
  /\ Reply(<<Ack(id, Rejected)>>)
  /\ UNCHANGED <<queue, batch, tick, controls, records, history, events, at, fresh>>

\* The id of the sequence it made, and the state with its event.
Created(id, kind) ==
  LET new == <<Event(next_id, kind)>>
  IN  /\ Log(new)
      /\ UNCHANGED <<tick, controls, history, at, fresh>>
      /\ Reply(<<Ack(id, OkSeq(next_id)), StateMessage(snapshot', new)>>)

AddRequest(id, c) ==
  /\ c.type = "add_request"
  /\ \/ RejectWhen(id, ~CanSubmit(c.system_prompt, c.prompt_len, c.max_new_tokens))
     \/ /\ next_id <= MaxId
        /\ submit("user", c.system_prompt, c.prompt_len, c.max_new_tokens)
        /\ Created(id, "submitted")

ForkRunning(id, c) ==
  /\ c.type = "fork"
  /\ \/ RejectWhen(id, ~\E i \in DOMAIN batch : batch[i].id = c.seq_id /\ CanFork(i))
     \/ /\ next_id <= MaxId
        /\ \E i \in DOMAIN batch : batch[i].id = c.seq_id /\ fork(i, "user")
        /\ Created(id, "forked")

Changed(id) ==
  /\ UNCHANGED <<queue, batch, tick, prefix_caching, records, history, events, at, fresh>>
  /\ Reply(<<Ack(id, Ok), StateMessage(snapshot', <<>>)>>)

Pause(id, c) == c.type = "pause" /\ paused' = TRUE /\ UNCHANGED traffic /\ Changed(id)
Resume(id, c) == c.type = "resume" /\ paused' = FALSE /\ UNCHANGED traffic /\ Changed(id)
SetTraffic(id, c) ==
  c.type = "set_traffic" /\ traffic' = c.enabled /\ UNCHANGED paused /\ Changed(id)

\* The ack goes first; the tick follows when advance is through.
StepOnce(id, c) ==
  /\ c.type = "step"
  /\ \/ RejectWhen(id, ~paused)
     \/ /\ paused
        /\ Start
        /\ Reply(<<Ack(id, Ok)>>)
        /\ UNCHANGED <<queue, batch, controls, records, history, events>>

\* Everything but the controls starts over.
restart(caching) ==
  /\ queue' = <<>> /\ batch' = <<>> /\ tick' = 0
  /\ next_id' = 1 /\ meta' = <<>> /\ totals' = Zero
  /\ history' = <<Metrics(0, <<>>, <<>>)>> /\ events' = <<>>
  /\ prefix_caching' = caching
  /\ UNCHANGED <<paused, traffic>>

Restarted(id, caching) ==
  /\ restart(caching)
  /\ Reply(<<Ack(id, Ok), InitMessage'>>)
  /\ UNCHANGED <<at, fresh>>

Reset(id, c) == c.type = "reset" /\ Restarted(id, prefix_caching)
SetPrefixCaching(id, c) == c.type = "set_prefix_caching" /\ Restarted(id, c.enabled)

handle(id, c) ==
  /\ at = "idle"
  /\ \/ AddRequest(id, c) \/ ForkRunning(id, c) \/ Pause(id, c) \/ Resume(id, c) \/ StepOnce(id, c)
     \/ Reset(id, c) \/ SetTraffic(id, c) \/ SetPrefixCaching(id, c)

-----------------------------------------------------------------------------
(* The session alone: any command, and a tick unless paused, whenever what *)
(* the last call returned has been taken.                                  *)

Calm == at = "idle" /\ replies = <<>>

Tick ==
  /\ Calm /\ ~paused
  /\ Start
  /\ UNCHANGED <<queue, batch, controls, records, history, events, replies>>

Sent ==
  /\ at = "idle" /\ replies # <<>>
  /\ replies' = Tail(replies)
  /\ UNCHANGED <<queue, batch, tick, controls, records, history, events, at, fresh>>

SimNext ==
  \/ Tick \/ AdvanceStep \/ Sent
  \/ Calm /\ \E c \in Commands : handle(0, c)

SimAlone == SimInit /\ replies = <<>>

SimSpec == SimAlone /\ [][SimNext]_simVars

-----------------------------------------------------------------------------
(* Properties.                                                             *)

Ids(seqs) == {seqs[i].id : i \in DOMAIN seqs}
IdSeq(seqs) == [i \in DOMAIN seqs |-> seqs[i].id]

\* What was submitted or preempted was admitted or waits; what was admitted or
\* forked ended, yielded or runs.
TotalsBalance ==
  /\ totals.submitted + totals.preempted = totals.admitted + Len(queue)
  /\ totals.admitted + totals.forks = totals.finished + totals.preempted + Len(batch)

MetaExact ==
  /\ IsInjective(IdSeq(batch \o queue))
  /\ DOMAIN meta = Ids(batch \o queue)

(***************************************************************************)
(* The totals account for every sequence there is, through preemption,     *)
(* forks and restarts (sim.rs:322, 378 and 428-430), and the session has a *)
(* record of exactly the sequences the scheduler holds, which are all      *)
(* different; so meta(id) never falls back to its default (sim.rs:445) and *)
(* a record never outlives its sequence.                                   *)
(***************************************************************************)
BooksExact == TotalsBalance /\ MetaExact

(***************************************************************************)
(* Whoever waits and is not marked as preempted is behind everyone who is, *)
(* in the order of arrival, and there are at most max_waiting of them,     *)
(* however many were preempted (sim.rs:297 and 417).                       *)
(***************************************************************************)
QueueOrder ==
  \A i \in DOMAIN queue : ~meta[queue[i].id].preempted =>
    /\ Len(queue) - i < max_waiting
    /\ \A j \in i + 1 .. Len(queue) : ~meta[queue[j].id].preempted /\ queue[i].id < queue[j].id

(***************************************************************************)
(* The latest event of a sequence that the log still has says where it is, *)
(* so a reader of the log is never told a stale story (sim.rs:386-426).    *)
(***************************************************************************)
LogTellsState ==
  at = "idle" =>
    \A i \in DOMAIN events :
      LET e == events[i] IN
      (\A j \in i + 1 .. Len(events) : events[j].seq_id # e.seq_id) =>
        CASE e.kind \in {"submitted", "preempted"} -> e.seq_id \in Ids(queue)
          [] e.kind \in {"admitted", "forked"}     -> e.seq_id \in Ids(batch)
          [] e.kind = "finished"                   -> e.seq_id \notin DOMAIN meta

=============================================================================
