---------------------------- MODULE MCScheduler ----------------------------
(* Instances of Scheduler for TLC.                                         *)
EXTENDS Scheduler

\* One added by its length only, one whose first block is found again through
\* the index, and one that can never fit in three blocks of three tokens.
MixedRequests == {[len |-> 1, prompt |-> <<>>, max_new |-> 4],
                  [len |-> 4, prompt |-> <<"a">>, max_new |-> 2],
                  [len |-> 4, prompt |-> <<>>, max_new |-> 6]}

\* One request, which fits in a pool of two blocks of two tokens.
OneRequest == {[len |-> 1, prompt |-> <<>>, max_new |-> 3]}

\* One-token prompts with budget left after a step.
ShortRequests == {[len |-> 1, prompt |-> <<>>, max_new |-> 3]}
=============================================================================
