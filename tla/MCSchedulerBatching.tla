------------------------- MODULE MCSchedulerBatching -------------------------
(* An instance of Scheduler, seen through Batching too, for TLC.           *)
EXTENDS SchedulerBatching

CONSTANTS a, b   \* the contents of a full block

\* Prompts that share their first block, one that is exactly that block, and
\* one that starts otherwise.
PrefixRequests == {[len |-> 2, prompt |-> <<a>>, max_new |-> 2],
                   [len |-> 5, prompt |-> <<a, b>>, max_new |-> 2],
                   [len |-> 4, prompt |-> <<a, a>>, max_new |-> 1],
                   [len |-> 3, prompt |-> <<b>>, max_new |-> 2]}
==============================================================================
