------------------------------- MODULE Serving -------------------------------
(***************************************************************************)
(* The inference server: HTTP handlers that run concurrently               *)
(* (src/crates/paged-kv-serve/src/api.rs) and the one thread that owns the *)
(* engine (worker.rs), joined by a channel of submissions and by one       *)
(* channel of events per request.  Of the engine it uses what Engine is    *)
(* shown to implement, Generation.                                         *)
(*                                                                         *)
(* A handler runs without interruption up to an atomic access or an await; *)
(* the worker up to a receive, a look at a channel or a send.  A client    *)
(* may disconnect whenever its handler or its stream waits.                *)
(***************************************************************************)
EXTENDS Integers, Sequences, FiniteSets, SequencesExt

CONSTANTS
  Client,            \* the HTTP requests, each made at most once
  Asks,              \* what they may ask: [legal, len, max_tokens, stream]
  NoMax,             \* max_tokens is not set
  default_max_tokens, max_context, max_in_flight,   \* ServerOptions
  Capacity,          \* num_blocks * block_size of the engine's pool
  StepFails          \* whether a step of the engine may fail

Ask == [legal : BOOLEAN, len : Nat, max_tokens : Nat \cup {NoMax}, stream : BOOLEAN]

ASSUME ServingAssumption ==
  /\ IsFiniteSet(Client)
  /\ NoMax \notin Nat
  /\ Asks \subseteq Ask
  /\ default_max_tokens \in Nat /\ max_context \in Nat
  /\ max_in_flight \in Nat /\ Capacity \in Nat
  /\ StepFails \in BOOLEAN

VARIABLES
  phase,       \* client -> where its handler or stream is
  ask,         \* client -> what it asked
  status,      \* client -> the answer it got
  in_flight,   \* the shared counter
  router,      \* whether the router exists and accepts connections
  inbox,       \* the channel to the worker
  events,      \* client -> its event channel
  live,        \* the requests the worker has an event sender of
  line,        \* what the engine serves, see Generation
  wpc,         \* "loop", "drain", "drop", "step", "send", "fail", "report", "stopped"
  left,        \* drop: whom of live it has not looked at; fail: not yet told
  todo,        \* send: the messages of a step that are not sent yet
  gauge,       \* running_requests + waiting_requests as last reported
  done,        \* client -> the outcomes counted for it (request_done)
  late         \* history: client -> the steps that served it after it left

apiVars == <<phase, ask, status, in_flight, router>>
workerVars == <<live, line, wpc, left, todo, gauge, late>>
vars == <<apiVars, workerVars, inbox, events, done>>

Gen == INSTANCE Generation WITH Id <- Client, Budget <- Nat

NoAsk == [legal |-> FALSE, len |-> 0, max_tokens |-> NoMax, stream |-> FALSE]

Init ==
  /\ phase = [c \in Client |-> "new"]
  /\ ask = [c \in Client |-> NoAsk]
  /\ status = [c \in Client |-> "none"]
  /\ in_flight = 0 /\ router = TRUE
  /\ inbox = <<>> /\ events = [c \in Client |-> <<>>]
  /\ live = {} /\ line = <<>> /\ wpc = "loop" /\ left = {} /\ todo = <<>> /\ gauge = 0
  /\ done = [c \in Client |-> <<>>] /\ late = [c \in Client |-> 0]

\* max_tokens.unwrap_or(default_max_tokens)
MaxTokens(c) == IF ask[c].max_tokens = NoMax THEN default_max_tokens ELSE ask[c].max_tokens

-----------------------------------------------------------------------------
(* Handlers.                                                               *)

\* A request reaches its handler.
Arrive(c, a) ==
  /\ router /\ phase[c] = "new"
  /\ ask' = [ask EXCEPT ![c] = a]
  /\ phase' = [phase EXCEPT ![c] = "arrived"]
  /\ UNCHANGED <<status, in_flight, router, workerVars, inbox, events, done>>

\* Sampling settings, tokenizer, chat template; empty; too long.
Acceptable(c) ==
  /\ ask[c].legal
  /\ ask[c].len > 0 /\ MaxTokens(c) > 0
  /\ ask[c].len + MaxTokens(c) <= max_context

Answer(c, s) ==
  /\ status' = [status EXCEPT ![c] = s]
  /\ phase' = [phase EXCEPT ![c] = "answered"]

Refuse(c) ==
  /\ phase[c] = "arrived" /\ ~Acceptable(c)
  /\ Answer(c, "400")
  /\ UNCHANGED <<ask, in_flight, router, workerVars, inbox, events, done>>

\* in_flight.fetch_add
CountIn(c) ==
  /\ phase[c] = "arrived" /\ Acceptable(c)
  /\ in_flight' = in_flight + 1
  /\ phase' = [phase EXCEPT ![c] = IF in_flight >= max_in_flight THEN "over" ELSE "counted"]
  /\ UNCHANGED <<ask, status, router, workerVars, inbox, events, done>>

TooMany_NoDecrement(c) ==
  /\ phase[c] = "over"
  /\ Answer(c, "429")
  /\ done' = [done EXCEPT ![c] = Append(@, "rejected")]
  /\ UNCHANGED <<ask, in_flight, router, workerVars, inbox, events>>

\* in_flight.fetch_sub, and 429.
TooMany(c) ==
  /\ phase[c] = "over"
  /\ in_flight' = in_flight - 1
  /\ Answer(c, "429")
  /\ done' = [done EXCEPT ![c] = Append(@, "rejected")]
  /\ UNCHANGED <<ask, router, workerVars, inbox, events>>

\* submit.send: the worker is there as long as a handler is (SubmitIsHeard).
Submit(c) ==
  /\ phase[c] = "counted"
  /\ inbox' = Append(inbox, c)
  /\ phase' = [phase EXCEPT ![c] = "waiting"]
  /\ UNCHANGED <<ask, status, in_flight, router, workerVars, events, done>>

Final(e) == e \in {"stop", "length", "failed"}

\* What a client gets for a final event: a failure is 400 when the response
\* was collected, and an error event in a stream.
Verdict(c, e) ==
  IF e # "failed" THEN "200" ELSE IF ask[c].stream THEN "stream error" ELSE "400"

Received(c) == events' = [events EXCEPT ![c] = Tail(@)]

\* rx.recv(): a token.
ReadToken(c) ==
  /\ phase[c] = "waiting" /\ events[c] # <<>> /\ Head(events[c]) = "token"
  /\ Received(c)
  /\ UNCHANGED <<apiVars, workerVars, inbox, done>>

\* rx.recv(): the end.  A collected response is returned and the guard is
\* dropped; a stream keeps it until it is polled again.
ReadFinal(c) ==
  /\ phase[c] = "waiting" /\ events[c] # <<>> /\ Final(Head(events[c]))
  /\ status' = [status EXCEPT ![c] = Verdict(c, Head(events[c]))]
  /\ Received(c)
  /\ IF ask[c].stream
     THEN phase' = [phase EXCEPT ![c] = "ending"] /\ UNCHANGED in_flight
     ELSE phase' = [phase EXCEPT ![c] = "answered"] /\ in_flight' = in_flight - 1
  /\ UNCHANGED <<ask, router, workerVars, inbox, done>>

\* Phase::Done: the stream ends and is dropped, and the guard with it.
EndStream(c) ==
  /\ phase[c] = "ending"
  /\ phase' = [phase EXCEPT ![c] = "answered"]
  /\ in_flight' = in_flight - 1
  /\ UNCHANGED <<ask, status, router, workerVars, inbox, events, done>>

\* The client goes away: the handler or the stream is dropped, and with it the
\* guard and the receiver.
Disconnect(c) ==
  /\ phase[c] \in {"waiting", "ending"}
  /\ phase' = [phase EXCEPT ![c] = "gone"]
  /\ in_flight' = in_flight - 1
  /\ UNCHANGED <<ask, status, router, workerVars, inbox, events, done>>

HoldsState_Answered(c) == phase[c] \notin {"new", "gone"}

\* The handlers and streams that hold the shared state, and with it a sender.
HoldsState(c) == phase[c] \notin {"new", "answered", "gone"}

\* Graceful shutdown stops accepting; the router is dropped.
Shutdown ==
  /\ router
  /\ router' = FALSE
  /\ UNCHANGED <<phase, ask, status, in_flight, workerVars, inbox, events, done>>

\* events.is_closed(): the receiver was dropped.
Closed(c) == phase[c] \in {"answered", "gone"}

-----------------------------------------------------------------------------
(* The worker.                                                             *)

\* Every sender: the router's and each handler's.
Senders == router \/ \E c \in Client : HoldsState(c)

Send(c, e) == IF Closed(c) THEN events[c] ELSE Append(events[c], e)

\* add_request of the engine, which asks for one spare token (Engine).
EngineTakes(c) == ask[c].len + MaxTokens(c) + 1 <= Capacity

\* admit of the next submission.
Admit ==
  LET c == Head(inbox) IN
  /\ inbox # <<>>
  /\ inbox' = Tail(inbox)
  /\ IF EngineTakes(c)
     THEN /\ Gen!add_request(c, MaxTokens(c))
          /\ live' = live \cup {c}
          /\ UNCHANGED <<events, done>>
     ELSE /\ events' = [events EXCEPT ![c] = Send(c, "failed")]
          /\ done' = [done EXCEPT ![c] = Append(@, "error")]
          /\ UNCHANGED <<live, line>>

\* Top of the loop with nothing live: rx.recv() blocks.
Recv ==
  /\ wpc = "loop" /\ live = {}
  /\ Admit
  /\ wpc' = "drain"
  /\ UNCHANGED <<apiVars, left, todo, gauge, late>>

\* rx.recv() fails: every sender is gone and the channel is empty.
Stop ==
  /\ wpc = "loop" /\ live = {} /\ inbox = <<>> /\ ~Senders
  /\ wpc' = "stopped"
  /\ UNCHANGED <<apiVars, live, line, left, todo, gauge, late, inbox, events, done>>

Loop ==
  /\ wpc = "loop" /\ live # {}
  /\ wpc' = "drain"
  /\ UNCHANGED <<apiVars, live, line, left, todo, gauge, late, inbox, events, done>>

\* while let Ok(submit) = rx.try_recv()
TryRecv ==
  /\ wpc = "drain"
  /\ Admit
  /\ UNCHANGED <<apiVars, wpc, left, todo, gauge, late>>

DrainEnd_NoDrop ==
  /\ wpc = "drain" /\ inbox = <<>>
  /\ wpc' = "drop" /\ left' = {}
  /\ UNCHANGED <<apiVars, live, line, todo, gauge, late, inbox, events, done>>

DrainEnd ==
  /\ wpc = "drain" /\ inbox = <<>>
  /\ wpc' = "drop" /\ left' = live
  /\ UNCHANGED <<apiVars, live, line, todo, gauge, late, inbox, events, done>>

DropNext_NotFromEngine(c) ==
  /\ wpc = "drop" /\ c \in left
  /\ left' = left \ {c}
  /\ IF Closed(c)
     THEN /\ live' = live \ {c}
          /\ done' = [done EXCEPT ![c] = Append(@, "cancelled")]
     ELSE UNCHANGED <<live, done>>
  /\ UNCHANGED <<apiVars, wpc, line, todo, gauge, late, inbox, events>>

\* drop_disconnected, for one live request, in whatever order the map has.
DropNext(c) ==
  /\ wpc = "drop" /\ c \in left
  /\ left' = left \ {c}
  /\ IF Closed(c)
     THEN /\ live' = live \ {c}
          /\ Gen!cancel(c)
          /\ done' = [done EXCEPT ![c] = Append(@, "cancelled")]
     ELSE UNCHANGED <<live, line, done>>
  /\ UNCHANGED <<apiVars, wpc, todo, gauge, late, inbox, events>>

DropEnd ==
  /\ wpc = "drop" /\ left = {}
  /\ wpc' = IF live # {} THEN "step" ELSE "report"
  /\ UNCHANGED <<apiVars, live, line, left, todo, gauge, late, inbox, events, done>>

\* What a step that sampled the first n of the line sends: first the tokens,
\* except stop tokens, then who is finished and why.
Messages(n, stopped) ==
  LET sampled == [i \in 1 .. n |-> line[i].id]
      tokens  == Gen!Keep(sampled, ToSet(sampled) \ stopped)
      ended   == Gen!Keep(sampled, {line[i].id : i \in {j \in 1 .. n : Gen!Ends(j, n, stopped)}})
  IN  [i \in DOMAIN tokens |-> [to |-> tokens[i], event |-> "token"]] \o
      [i \in DOMAIN ended  |-> [to |-> ended[i],
                                event |-> IF ended[i] \in stopped THEN "stop" ELSE "length"]]

\* engine.step() returned.
StepOk(n, stopped) ==
  /\ wpc = "step"
  /\ Gen!step(n, stopped)
  /\ todo' = Messages(n, stopped)
  /\ late' = [c \in Client |->
                IF phase[c] = "gone" /\ \E i \in 1 .. n : line[i].id = c
                THEN late[c] + 1 ELSE late[c]]
  /\ wpc' = "send"
  /\ UNCHANGED <<apiVars, live, left, gauge, inbox, events, done>>

\* The next message; who gets a final one is live no longer, and counted.
SendNext ==
  /\ wpc = "send" /\ todo # <<>>
  /\ LET c == Head(todo).to
         e == Head(todo).event
     IN  IF c \notin live THEN UNCHANGED <<events, live, done>>
         ELSE /\ events' = [events EXCEPT ![c] = Send(c, e)]
              /\ IF Final(e)
                 THEN /\ live' = live \ {c}
                      /\ done' = [done EXCEPT ![c] = Append(@, "finished")]
                 ELSE UNCHANGED <<live, done>>
  /\ todo' = Tail(todo)
  /\ UNCHANGED <<apiVars, wpc, line, left, gauge, late, inbox>>

SendEnd ==
  /\ wpc = "send" /\ todo = <<>>
  /\ wpc' = "report"
  /\ UNCHANGED <<apiVars, live, line, left, todo, gauge, late, inbox, events, done>>


\* engine.step() failed.
StepFailed ==
  /\ StepFails /\ wpc = "step"
  /\ wpc' = "fail" /\ left' = live
  /\ UNCHANGED <<apiVars, live, line, todo, gauge, late, inbox, events, done>>

\* Everyone is told, cancelled and counted.
FailNext(c) ==
  /\ wpc = "fail" /\ c \in left
  /\ left' = left \ {c}
  /\ live' = live \ {c}
  /\ Gen!cancel(c)
  /\ events' = [events EXCEPT ![c] = Send(c, "failed")]
  /\ done' = [done EXCEPT ![c] = Append(@, "error")]
  /\ UNCHANGED <<apiVars, wpc, todo, gauge, late, inbox>>

FailEnd ==
  /\ wpc = "fail" /\ left = {}
  /\ wpc' = "report"
  /\ UNCHANGED <<apiVars, live, line, left, todo, gauge, late, inbox, events, done>>

Report_OnlyWhenLive ==
  /\ wpc = "report"
  /\ gauge' = IF live = {} THEN gauge ELSE Len(line)
  /\ wpc' = "loop"
  /\ UNCHANGED <<apiVars, live, line, left, todo, late, inbox, events, done>>

\* metrics.engine: also after a cancellation that leaves nothing to step.
Report ==
  /\ wpc = "report"
  /\ gauge' = Len(line)
  /\ wpc' = "loop"
  /\ UNCHANGED <<apiVars, live, line, left, todo, late, inbox, events, done>>

-----------------------------------------------------------------------------

\* What the runtime does for a handler or a stream without the client's help.
Handler(c) ==
  \/ Refuse(c) \/ CountIn(c) \/ TooMany(c) \/ Submit(c)

\* What happens only when the client keeps reading its response.
Reading(c) == ReadToken(c) \/ ReadFinal(c) \/ EndStream(c)

Worker ==
  \/ Recv \/ Stop \/ Loop \/ TryRecv
  \/ DrainEnd \/ (\E c \in Client : DropNext(c)) \/ DropEnd
  \/ \E n \in 1 .. Len(line) : \E stopped \in SUBSET {line[i].id : i \in 1 .. n} :
       StepOk(n, stopped)
  \/ SendNext \/ SendEnd
  \/ StepFailed \/ (\E c \in Client : FailNext(c)) \/ FailEnd
  \/ Report

Next ==
  \/ \E c \in Client :
       \/ \E a \in Asks : Arrive(c, a)
       \/ Handler(c) \/ Reading(c) \/ Disconnect(c)
  \/ Shutdown
  \/ Worker

Spec == Init /\ [][Next]_vars

\* The runtime polls every handler that can go on, and the thread runs; no
\* client has to read, to stay or to leave.
FairSpec == Spec /\ WF_vars(Worker) /\ \A c \in Client : WF_vars(Handler(c))

\* Moreover clients that stay read.
ReadingSpec == FairSpec /\ \A c \in Client : WF_vars(Reading(c))

-----------------------------------------------------------------------------
(* Properties.                                                             *)

Guards == {c \in Client : phase[c] \in {"counted", "waiting", "ending"}}
Refusing == {c \in Client : phase[c] = "over"}

\* Handlers that race on the counter let no more than max_in_flight through.
CapRespected == Cardinality(Guards) <= max_in_flight

(***************************************************************************)
(* However requests end, the counter is the guards there are and the       *)
(* requests on their way to a 429 (api.rs:240 "Decrements the in-flight    *)
(* count however the request ends"), and the limit holds (api.rs:33).      *)
(***************************************************************************)
InFlightExact == in_flight = Cardinality(Guards) + Cardinality(Refusing) /\ CapRespected

(***************************************************************************)
(* A handler that has been let in finds the worker there, so it never      *)
(* answers 503 (api.rs:291).                                               *)
(***************************************************************************)
SubmitIsHeard == \A c \in Client : phase[c] = "counted" => wpc # "stopped"

(***************************************************************************)
(* The engine holds exactly the requests somebody is served for: what      *)
(* leaves the worker's map leaves the engine, after a disconnect and after *)
(* a failed step too (worker.rs:130 "Frees the blocks of requests whose    *)
(* client went away, queued or not").  While a step is told, the map also  *)
(* has those whose final message is still to be sent.                      *)
(***************************************************************************)
EngineHoldsLive ==
  live = {line[i].id : i \in DOMAIN line}
           \cup {todo[i].to : i \in {j \in DOMAIN todo : Final(todo[j].event)}}

\* The outcome of a request is counted once: when it is answered, or has left
\* the channel and the worker after its client went away.
CountedOnce ==
  \A c \in Client :
    LET over == \/ status[c] \in {"200", "429", "stream error"}
                \/ phase[c] = "gone" /\ c \notin live /\ \A i \in DOMAIN inbox : inbox[i] # c
    IN  Len(done[c]) <= 1 /\ (over => Len(done[c]) = 1)

\* A worker that sleeps has reported an empty engine.
IdleGauge == wpc = "loop" /\ live = {} => gauge = 0 /\ line = <<>>

(***************************************************************************)
(* The metrics tell the truth whatever races: one outcome per request, and *)
(* no load when there is none (worker.rs:101 "Also after a cancellation    *)
(* that leaves nothing to step").                                          *)
(***************************************************************************)
MetricsExact == CountedOnce /\ IdleGauge

(***************************************************************************)
(* A client that went away costs at most the step that was about to run    *)
(* (README.md:272 "When a client disconnects, its request is cancelled and *)
(* its blocks are freed at once, queued or running").                      *)
(***************************************************************************)
GoneServedAtMostOnce == \A c \in Client : late[c] <= 1


(***************************************************************************)
(* Once the router is gone the worker finishes what it has and stops       *)
(* (worker.rs:50 "dropping every sender stops it").                        *)
(***************************************************************************)
ShutdownStops == ~router ~> wpc = "stopped"

=============================================================================
