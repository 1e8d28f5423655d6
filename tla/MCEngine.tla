------------------------------ MODULE MCEngine ------------------------------
(* Instances of Engine for TLC: blocks of two tokens.                      *)
EXTENDS Engine

MCChunk == [1 .. BlockSize -> Token]

\* Prompts that share a block, one of exactly that block, one ending in the
\* middle of a block, and one whose K/V lies in the same places otherwise.
SharedPrompts == {[tokens |-> <<1, 1>>, max_new |-> 2],
                  [tokens |-> <<1, 1, 1>>, max_new |-> 1],
                  [tokens |-> <<2, 1, 1>>, max_new |-> 2]}

MCRequests == {Asked(p) : p \in Prompts}

OnePrompt == {[tokens |-> <<1, 1, 1>>, max_new |-> 1]}
=============================================================================
