------------------------------- MODULE Filter -------------------------------
(***************************************************************************)
(* What Vec::retain leaves of a list (scheduler.rs, engine.rs).  It is a   *)
(* recursive function and not SelectSeq because the proofs, which cannot   *)
(* expand SelectSeq, reason about it.                                      *)
(***************************************************************************)
EXTENDS Integers, Sequences

\* The elements of s that are in K, in the order of s.
Keep(s, K) ==
  LET kept[i \in 0 .. Len(s)] ==
        IF i = 0 THEN <<>> ELSE IF s[i] \in K THEN Append(kept[i - 1], s[i]) ELSE kept[i - 1]
  IN  kept[Len(s)]
=============================================================================
