------------------------------ MODULE MCServing ------------------------------
(* Instances of Serving.                                                   *)
EXTENDS Serving

A(legal, len, max, stream) == [legal |-> legal, len |-> len, max_tokens |-> max, stream |-> stream]

\* Collected and streamed, the default, refused, exactly the context.
SomeAsks == {A(TRUE, 1, 1, FALSE), A(TRUE, 1, NoMax, TRUE), A(FALSE, 1, 1, FALSE), A(TRUE, 2, 3, FALSE)}
=============================================================================
