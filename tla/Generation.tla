----------------------------- MODULE Generation -----------------------------
(***************************************************************************)
(* What the engine promises a server                                       *)
(* (src/crates/paged-kv-model/src/engine.rs): requests in the order they   *)
(* came, of which every step serves some at the front, and at least one.   *)
(***************************************************************************)
EXTENDS Integers, Sequences, SequencesExt, Filter

CONSTANTS
  Id,       \* the ids of requests
  Budget    \* the max_new_tokens a request may have

VARIABLE line   \* [id, left], the oldest request first

Init == line = <<>>

Holds(id) == \E i \in DOMAIN line : line[i].id = id

add_request(id, max_new) == line' = Append(line, [id |-> id, left |-> max_new])

cancel(id) == line' = Keep(line, {r \in ToSet(line) : r.id # id})

\* A step gives the first n requests one token each; those in stopped sampled
\* a stop token.
Ends(i, n, stopped) == i <= n /\ (line[i].left = 1 \/ line[i].id \in stopped)

Served(n, stopped) ==
  LET after == [i \in DOMAIN line |-> [line[i] EXCEPT !.left = IF i <= n THEN @ - 1 ELSE @]]
      ended == {line[i].id : i \in {j \in DOMAIN line : Ends(j, n, stopped)}}
  IN  Keep(after, {r \in ToSet(after) : r.id \notin ended})

step(n, stopped) ==
  /\ n \in 1 .. Len(line)
  /\ line' = Served(n, stopped)

Next ==
  \/ \E id \in Id, max_new \in Budget : add_request(id, max_new)
  \/ \E id \in Id : Holds(id) /\ cancel(id)
  \/ \E n \in 1 .. Len(line) : \E stopped \in SUBSET {line[i].id : i \in 1 .. n} :
       step(n, stopped)

Spec == Init /\ [][Next]_line
=============================================================================
