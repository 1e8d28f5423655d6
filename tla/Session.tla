------------------------------- MODULE Session -------------------------------
(***************************************************************************)
(* A session of the dashboard and the page that shows it: the loop of the  *)
(* server over one WebSocket (src/crates/paged-kv-server/src/ws.rs), the   *)
(* two directions of the socket, and in the browser the hook and the       *)
(* reducer (src/web/src/hooks/useSimulation.ts, state/simulation.ts).      *)
(*                                                                         *)
(* Time is a countdown to each of the two timers of the loop, in steps of  *)
(* which Interval and IdleTimeout are multiples.  A connection that breaks *)
(* is one the page leaves: what it has not read is lost.                   *)
(***************************************************************************)
EXTENDS Simulation

CONSTANTS
  Interval, IdleTimeout,   \* tick_interval and IDLE_TIMEOUT
  PAGE_HISTORY_LEN, PAGE_EVENT_LOG_LEN,   \* simulation.ts:3 and 4: what sim.rs:16 and 17 say
  Unreadable,              \* a text that does not parse
  MaxCommand               \* bound: commands a page sends

ASSUME SessionAssumption ==
  /\ Interval \in Nat \ {0} /\ IdleTimeout \in Nat \ {0}
  /\ PAGE_HISTORY_LEN = HISTORY_LEN /\ PAGE_EVENT_LOG_LEN = EVENT_LOG_LEN
  /\ Unreadable \notin Command
  /\ MaxCommand \in Nat

VARIABLES
  loop,          \* "open", or "over" when run has returned
  tick_left, idle_left,   \* until the ticker and the idle timer fire
  up, down,      \* the texts in flight
  left,          \* whether the page has closed or lost its socket
  connection,    \* "connecting", "open", "closed" (a code not retried), "lost"
  session,       \* what the page shows, or NoSession
  pending, next_cmd,      \* commands without an ack, and the next id
  since          \* history: time since the latest tick of the ticker or resume

timers == <<tick_left, idle_left>>
page == <<connection, session, pending, next_cmd>>
serverVars == <<simVars, loop, timers, since>>
vars == <<simVars, loop, timers, since, up, down, left, page>>

NoSession == [snapshot |-> "none"]
CLOSE_IDLE == 4000

Init ==
  /\ SimInit /\ replies = <<InitMessage>>
  /\ loop = "open" /\ tick_left = Interval /\ idle_left = IdleTimeout /\ since = 0
  /\ up = <<>> /\ down = <<>> /\ left = FALSE
  /\ connection = "connecting" /\ session = NoSession
  /\ pending = {} /\ next_cmd = 1

-----------------------------------------------------------------------------
(* run.                                                                    *)

\* The loop is back at select!.
Selecting == loop = "open" /\ at = "idle" /\ replies = <<>>

\* ticker.tick(), with MissedTickBehavior::Delay.
TickerFires ==
  /\ Selecting /\ ~paused /\ tick_left = 0
  /\ Start
  /\ tick_left' = Interval /\ since' = 0
  /\ UNCHANGED <<queue, batch, controls, records, history, events, replies>>
  /\ UNCHANGED <<loop, idle_left, up, down, left, page>>

InAdvance ==
  /\ AdvanceStep
  /\ UNCHANGED <<loop, timers, since, up, down, left, page>>

ErrorMessage == [type |-> "error"]

Resumes == paused /\ ~paused'

ResetTicker_Never == UNCHANGED tick_left

\* Otherwise the first tick after resuming fires immediately.
ResetTicker == tick_left' = IF Resumes THEN Interval ELSE tick_left

\* socket.recv(): a text.
RecvText ==
  /\ Selecting /\ up # <<>>
  /\ LET m == Head(up) IN
     IF m.command = Unreadable
     THEN /\ Reply(<<ErrorMessage>>)
          /\ UNCHANGED <<queue, batch, tick, controls, records, history, events, at, fresh>>
     ELSE handle(m.id, m.command)
  /\ ResetTicker
  /\ since' = IF Resumes THEN 0 ELSE since
  /\ up' = Tail(up)
  /\ idle_left' = IdleTimeout
  /\ UNCHANGED <<loop, down, left, page>>

\* socket.recv(): the page is gone.
RecvEnd ==
  /\ Selecting /\ up = <<>> /\ left
  /\ loop' = "over"
  /\ UNCHANGED <<simVars, timers, since, up, down, left, page>>

\* send of the next reply.
SendReply ==
  /\ loop = "open" /\ at = "idle" /\ replies # <<>>
  /\ down' = Append(down, Head(replies))
  /\ replies' = Tail(replies)
  /\ UNCHANGED <<queue, batch, tick, controls, records, history, events, at, fresh>>
  /\ UNCHANGED <<loop, timers, since, up, left, page>>

\* send fails; run returns with whatever else it had to send.
SendFails ==
  /\ loop = "open" /\ at = "idle" /\ replies # <<>> /\ left
  /\ loop' = "over"
  /\ UNCHANGED <<simVars, timers, since, up, down, left, page>>

IdleFires_OnlyPaused ==
  /\ Selecting /\ idle_left = 0 /\ paused
  /\ down' = Append(down, [type |-> "close", code |-> CLOSE_IDLE])
  /\ loop' = "over"
  /\ UNCHANGED <<simVars, timers, since, up, left, page>>

\* The idle timer, which only a text resets.
IdleFires ==
  /\ Selecting /\ idle_left = 0
  /\ down' = Append(down, [type |-> "close", code |-> CLOSE_IDLE])
  /\ loop' = "over"
  /\ UNCHANGED <<simVars, timers, since, up, left, page>>

Less(n) == IF n = 0 THEN 0 ELSE n - 1

Time ==
  /\ loop = "open" /\ tick_left + idle_left > 0
  /\ tick_left' = Less(tick_left) /\ idle_left' = Less(idle_left)
  /\ since' = IF since < Interval THEN since + 1 ELSE since
  /\ UNCHANGED <<simVars, loop, up, down, left, page>>

-----------------------------------------------------------------------------
(* The page.                                                               *)

\* send, while the session is shown as open.
SendCommand(c) ==
  /\ ~left /\ connection = "open" /\ next_cmd <= MaxCommand
  /\ up' = Append(up, [id |-> next_cmd, command |-> c])
  /\ pending' = pending \cup {next_cmd}
  /\ next_cmd' = next_cmd + 1
  /\ UNCHANGED <<serverVars, down, left, connection, session>>

appendCapped(items, added, cap) == Latest(items \o added, cap)

applyMessage_NoEventsFromState(s, m) ==
  CASE m.type = "init"  -> [snapshot |-> m.snapshot,
                            history |-> Latest(m.history, PAGE_HISTORY_LEN),
                            events |-> Latest(m.events, PAGE_EVENT_LOG_LEN)]
    [] m.type = "tick"  -> [snapshot |-> m.snapshot,
                            history |-> appendCapped(s.history, <<m.snapshot.metrics>>, PAGE_HISTORY_LEN),
                            events |-> appendCapped(s.events, m.events, PAGE_EVENT_LOG_LEN)]
    [] m.type = "state" -> [s EXCEPT !.snapshot = m.snapshot]
    [] OTHER            -> s

\* The reducer, for the messages that change the session.
applyMessage(s, m) ==
  CASE m.type = "init"  -> [snapshot |-> m.snapshot,
                            history |-> Latest(m.history, PAGE_HISTORY_LEN),
                            events |-> Latest(m.events, PAGE_EVENT_LOG_LEN)]
    [] m.type = "tick"  -> [snapshot |-> m.snapshot,
                            history |-> appendCapped(s.history, <<m.snapshot.metrics>>, PAGE_HISTORY_LEN),
                            events |-> appendCapped(s.events, m.events, PAGE_EVENT_LOG_LEN)]
    [] m.type = "state" -> [s EXCEPT !.snapshot = m.snapshot,
                                     !.events = appendCapped(@, m.events, PAGE_EVENT_LOG_LEN)]
    [] OTHER            -> s

\* The session shown when all of ms have arrived.
Applied(s, ms) ==
  LET after[i \in 0 .. Len(ms)] == IF i = 0 THEN s ELSE applyMessage(after[i - 1], ms[i])
  IN  after[Len(ms)]

\* onmessage.
OnMessage ==
  /\ ~left /\ down # <<>> /\ Head(down).type # "close"
  /\ LET m == Head(down) IN
     /\ pending' = IF m.type = "ack" THEN pending \ {m.id} ELSE pending
     /\ session' = applyMessage(session, m)
     /\ connection' = IF m.type = "init" THEN "open" ELSE connection
  /\ down' = Tail(down)
  /\ UNCHANGED <<serverVars, up, left, next_cmd>>

OnClose_KeepsPending ==
  /\ ~left
  /\ \/ down # <<>> /\ Head(down).type = "close" /\ connection' = "closed"
     \/ down = <<>> /\ loop = "over" /\ connection' = "lost"
  /\ left' = TRUE
  /\ UNCHANGED <<serverVars, up, down, session, pending, next_cmd>>

\* onclose: with a code, or because the socket was dropped.  Every pending
\* command is resolved as rejected.
OnClose ==
  /\ ~left
  /\ \/ down # <<>> /\ Head(down).type = "close" /\ connection' = "closed"
     \/ down = <<>> /\ loop = "over" /\ connection' = "lost"
  /\ left' = TRUE /\ pending' = {}
  /\ UNCHANGED <<serverVars, up, down, session, next_cmd>>

\* The network or the browser ends the connection.
Break ==
  /\ ~left
  /\ left' = TRUE /\ connection' = "lost" /\ pending' = {}
  /\ UNCHANGED <<serverVars, up, down, session, next_cmd>>

-----------------------------------------------------------------------------

Server == TickerFires \/ InAdvance \/ RecvText \/ RecvEnd \/ SendReply \/ SendFails

Next ==
  \/ Server \/ IdleFires \/ Time
  \/ OnMessage \/ OnClose \/ Break
  \/ \E c \in Commands \cup {Unreadable} : SendCommand(c)

Spec == Init /\ [][Next]_vars

\* The runtime polls the task and time passes; of the branches of select! that
\* are ready one is taken at random, so none is passed over for ever.
FairSpec ==
  /\ Spec
  /\ WF_vars(Server) /\ WF_vars(Time) /\ SF_vars(IdleFires) /\ SF_vars(RecvText)
  /\ WF_vars(OnMessage) /\ WF_vars(OnClose)

-----------------------------------------------------------------------------
(* Properties.                                                             *)

(***************************************************************************)
(* The page converges to the session: what it shows, with every message    *)
(* still under way applied, is what the server would send to a page that   *)
(* connects now (protocol.rs:144 "replaces all client state", 151, 156).   *)
(***************************************************************************)
MirrorConverges ==
  at = "idle" /\ ~left =>
    Applied(session, down \o replies)
      = [snapshot |-> snapshot, history |-> history, events |-> events]

(***************************************************************************)
(* Between two ticks of the ticker, and between a resume and the next      *)
(* tick, a whole interval passes (ws.rs:84 "Otherwise the first tick after *)
(* resuming fires immediately").                                           *)
(***************************************************************************)
TicksSpaced ==
  [][Selecting /\ ~paused /\ at' # "idle" /\ up' = up => since = Interval]_vars

(***************************************************************************)
(* A readable command is settled: by its ack, or because the connection    *)
(* closes, by the idle timer too (useSimulation.ts:52).                    *)
(***************************************************************************)
CommandsSettled ==
  \A id \in 1 .. MaxCommand :
    (\E i \in DOMAIN up : up[i].id = id /\ up[i].command # Unreadable) ~> id \notin pending

(***************************************************************************)
(* The session of a page that falls silent ends, paused or not (ws.rs:95   *)
(* "Closed after 30 minutes without input.").                              *)
(***************************************************************************)
SilentSessionEnds == <>(loop = "over")

=============================================================================
