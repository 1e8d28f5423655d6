------------------------------ MODULE Batching ------------------------------
(***************************************************************************)
(* What the scheduler promises its drivers                                 *)
(* (src/crates/paged-kv-core/src/scheduler.rs), without blocks: a queue, a *)
(* batch, and a step that either admits some of the queue's front or makes *)
(* some of the batch's end yield, and gives all the others one token each. *)
(***************************************************************************)
EXTENDS Integers, Sequences, SequencesExt, Filter

CONSTANTS
  MaxBatchSize,
  Id,      \* the ids of sequences
  Length   \* how long a prompt may be, and how much a client may ask for

VARIABLES
  queue,   \* [id, len, max_new], the front first
  batch    \* [id, len, generated, max_new], the newest last

Init == queue = <<>> /\ batch = <<>>

Drop(s, n) == SubSeq(s, 1, Len(s) - n)
First(s, n) == SubSeq(s, 1, n)

\* add_request or add_prompt.
Submit(id, len, max_new) ==
  /\ queue' = Append(queue, [id |-> id, len |-> len, max_new |-> max_new])
  /\ UNCHANGED batch

\* fork_sequence of batch[i].
ForkSequence(i, child, max_new) ==
  /\ Len(batch) < MaxBatchSize
  /\ batch' = Append(batch, [id |-> child, len |-> batch[i].len, generated |-> 0,
                             max_new |-> max_new])
  /\ UNCHANGED queue

\* finish_sequence of a running or of a waiting one.
Finish(i) == batch' = RemoveAt(batch, i) /\ UNCHANGED queue
FinishQueued(i) == queue' = RemoveAt(queue, i) /\ UNCHANGED batch

\* A step that admits a and preempts p, a = 0 or p = 0.
Possible(a, p) ==
  /\ a <= Len(queue) /\ Len(batch) + a <= MaxBatchSize
  /\ p <= Len(batch)
  /\ a = 0 \/ p = 0

Admitted(a) ==
  [k \in 1 .. a |-> [id |-> queue[k].id, len |-> queue[k].len, generated |-> 0,
                     max_new |-> queue[k].max_new]]

\* Every sequence that runs and does not yield, with its new token.
Decoded(a, p) ==
  LET staying == Drop(batch, p) \o Admitted(a)
  IN  [k \in DOMAIN staying |->
         [staying[k] EXCEPT !.len = @ + 1, !.generated = @ + 1]]

Finished(s) == s.generated >= s.max_new

\* The victims keep their order, ahead of everyone who waits.
Victims(p) ==
  LET from == Len(batch) - p
  IN  [k \in 1 .. p |-> LET s == batch[from + k]
                        IN  [id |-> s.id, len |-> s.len, max_new |-> s.max_new - s.generated]]

Step(a, p) ==
  /\ Possible(a, p)
  /\ batch' = Keep(Decoded(a, p), {s \in ToSet(Decoded(a, p)) : ~Finished(s)})
  /\ queue' = Victims(p) \o SubSeq(queue, a + 1, Len(queue))

Next ==
  \/ \E id \in Id, len, max_new \in Length : Submit(id, len, max_new)
  \/ \E i \in DOMAIN batch :
       \/ Finish(i)
       \/ \E child \in Id, max_new \in Length : ForkSequence(i, child, max_new)
  \/ \E i \in DOMAIN queue : FinishQueued(i)
  \/ \E a \in 0 .. Len(queue), p \in 0 .. Len(batch) : Step(a, p)

Spec == Init /\ [][Next]_<<queue, batch>>
=============================================================================
