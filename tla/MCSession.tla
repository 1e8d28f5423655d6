------------------------------ MODULE MCSession ------------------------------
(* Instances of Session.                                                   *)
EXTENDS Session

NoPrompts == <<>>

Add(len, new) ==
  [type |-> "add_request", system_prompt |-> NoPrompt, prompt_len |-> len, max_new_tokens |-> new]
Plain(type) == [type |-> type]

SomeCommands ==
  {Add(1, 1), [type |-> "fork", seq_id |-> 1]}
     \cup {Plain(t) : t \in {"pause", "resume", "step", "reset"}}
=============================================================================
