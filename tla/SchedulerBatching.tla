-------------------------- MODULE SchedulerBatching --------------------------
(***************************************************************************)
(* Scheduler implements Batching: seen between its calls, a step of many   *)
(* small actions is one Step.  before is a history variable, what the      *)
(* queue and the batch were when the current call began.                   *)
(***************************************************************************)
EXTENDS Scheduler

VARIABLE before

\* What waiting_snapshot and running_snapshot tell of one sequence, as far as
\* Batching shows it.
Queued(w) == [id |-> w.id, len |-> w.context_len, max_new |-> w.max_new]
Batched(t) == [id |-> t.id, len |-> t.num_tokens, generated |-> t.generated, max_new |-> t.max_new]

QueueSnapshot == [i \in DOMAIN waiting |-> Queued(waiting[i])]
BatchSnapshot == [i \in DOMAIN running |-> Batched(running[i])]
Snapshot == [queue |-> QueueSnapshot, batch |-> BatchSnapshot]

Remember == before' = IF pc' = "idle" THEN Snapshot' ELSE before

InitB == Init /\ before = Snapshot
SpecB == InitB /\ [][Next /\ Remember]_<<vars, before>>

Abstract == INSTANCE Batching WITH
  Id <- SeqId,
  Length <- 0 .. Capacity \cup ForkNew,
  queue <- before.queue,
  batch <- before.batch

(***************************************************************************)
(* scheduler.rs:93-96 and 267-277: whatever happens to blocks inside a     *)
(* call, what a driver sees of a step is that some of the front of the     *)
(* queue joined, or some of the newest yielded to the front of the queue   *)
(* in their order, that everybody else got exactly one token, and that who *)
(* has them all is gone.  Nothing else is lost, moved or advanced.         *)
(***************************************************************************)
ImplementsBatching == Abstract!Spec
=============================================================================
