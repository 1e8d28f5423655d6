---------------------------- MODULE MCSimulation ----------------------------
(* Instances of Simulation.                                                *)
EXTENDS Simulation

OnePrompt == <<1>>

Add(sp, len, new) ==
  [type |-> "add_request", system_prompt |-> sp, prompt_len |-> len, max_new_tokens |-> new]
Plain(type) == [type |-> type]
Switch(type, on) == [type |-> type, enabled |-> on]

SomeCommands ==
  {Add(0, 1, 1), Add(NoPrompt, 1, 3), Add(1, 1, 1), [type |-> "fork", seq_id |-> 1],
   Switch("set_traffic", FALSE), Switch("set_prefix_caching", FALSE)}
     \cup {Plain(t) : t \in {"pause", "resume", "step", "reset"}}
=============================================================================
