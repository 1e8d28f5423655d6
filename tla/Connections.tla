----------------------------- MODULE Connections -----------------------------
(***************************************************************************)
(* Pages of the dashboard and their WebSockets: the hook that opens,       *)
(* retries and closes them (src/web/src/hooks/useSimulation.ts) and the    *)
(* server that gives each a session while it has permits                   *)
(* (src/crates/paged-kv-server/src/ws.rs).  A session is only its answers  *)
(* here: init first, then an ack per command; Session has the rest.        *)
(*                                                                         *)
(* close() is asynchronous in a browser: onclose runs later.  A socket     *)
(* that is closing delivers no message.                                    *)
(***************************************************************************)
EXTENDS Integers, Sequences, FiniteSets, SequencesExt

CONSTANTS
  Page,
  Development,             \* the pages of development builds
  MAX_SESSIONS,
  MaxSockets, MaxCommand   \* bounds: sockets in all, commands per page

ASSUME ConnectionsAssumption ==
  /\ IsFiniteSet(Page) /\ Development \subseteq Page /\ MAX_SESSIONS \in Nat
  /\ MaxSockets \in Nat /\ MaxCommand \in Nat

VARIABLES
  sockets,      \* each [page, effect, browser, server, up, down], in order of creation
  permits,      \* the semaphore
  current,      \* page -> socket.current, None if null
  effect,       \* page -> the running effect, None before the page and after
  retryTimer,   \* page -> whether the running effect will connect again
  connection,   \* page -> what it shows
  session,      \* page -> whether it has the state of a session to show
  pending, next_cmd        \* page -> its commands without an ack, the next id

vars == <<sockets, permits, current, effect, retryTimer, connection, session, pending, next_cmd>>

None == 0
CLOSE_TRY_AGAIN_LATER == 1013
CLOSE_IDLE == 4000
CLOSE_INTERNAL_ERROR == 1011
CLOSE_ABNORMAL == 1006    \* what a browser reports without a close frame

Init ==
  /\ sockets = <<>> /\ permits = MAX_SESSIONS
  /\ current = [p \in Page |-> None] /\ effect = [p \in Page |-> None]
  /\ retryTimer = [p \in Page |-> FALSE]
  /\ connection = [p \in Page |-> "connecting"]
  /\ session = [p \in Page |-> FALSE]
  /\ pending = [p \in Page |-> {}] /\ next_cmd = [p \in Page |-> 1]

-----------------------------------------------------------------------------
(* The hook.                                                               *)

NewSocket(p, e) ==
  [page |-> p, effect |-> e, browser |-> "connecting", server |-> "none",
   up |-> <<>>, down |-> <<>>]

\* socket.current?.close(), on the sockets there are.
Closed(socks, n) ==
  IF n = None \/ socks[n].browser = "closed" THEN socks
  ELSE [socks EXCEPT ![n].browser = "closing"]

\* The effect's connect.
Connect(p, e) ==
  /\ Len(sockets) < MaxSockets
  /\ sockets' = Append(sockets, NewSocket(p, e))
  /\ current' = [current EXCEPT ![p] = Len(sockets) + 1]

\* The effect runs: once, as in a production build.
Mount(p) ==
  /\ p \notin Development /\ effect[p] = None
  /\ Connect(p, 1)
  /\ effect' = [effect EXCEPT ![p] = 1]
  /\ UNCHANGED <<permits, retryTimer, connection, session, pending, next_cmd>>

\* The first mount of a development build: StrictMode runs the effect, cleans it
\* up and runs it again at once, so the first socket is closing already.
MountTwice(p) ==
  /\ p \in Development /\ effect[p] = None /\ Len(sockets) + 2 <= MaxSockets
  /\ sockets' = sockets \o <<[NewSocket(p, 1) EXCEPT !.browser = "closing"], NewSocket(p, 2)>>
  /\ current' = [current EXCEPT ![p] = Len(sockets) + 2]
  /\ effect' = [effect EXCEPT ![p] = 2]
  /\ UNCHANGED <<permits, retryTimer, connection, session, pending, next_cmd>>

\* reconnect: the effect is cleaned up and runs again.  The page offers it while
\* the connection is closed, and nowhere else.
Reconnect(p) ==
  /\ effect[p] # None /\ connection[p] = "closed"
  /\ Len(sockets) < MaxSockets
  /\ connection' = [connection EXCEPT ![p] = "connecting"]
  /\ retryTimer' = [retryTimer EXCEPT ![p] = FALSE]
  /\ effect' = [effect EXCEPT ![p] = @ + 1]
  /\ sockets' = Append(Closed(sockets, current[p]), NewSocket(p, effect[p] + 1))
  /\ current' = [current EXCEPT ![p] = Len(sockets) + 1]
  /\ UNCHANGED <<permits, session, pending, next_cmd>>

\* A socket's effect has been cleaned up.
disposed(n) == sockets[n].effect # effect[sockets[n].page]

Resolve_Forgets(p) == UNCHANGED pending

\* Every pending command is resolved as rejected.
Resolve(p) == pending' = [pending EXCEPT ![p] = {}]

\* The codes after which a retry would not help.
Retries(code) == code \notin {CLOSE_TRY_AGAIN_LATER, CLOSE_IDLE}

\* onclose of socket n, the page's current one or not.
OnClose(n, code) ==
  LET p == sockets[n].page IN
  /\ current' = [current EXCEPT ![p] = None]
  /\ Resolve(p)
  /\ IF disposed(n) THEN UNCHANGED <<connection, retryTimer>>
     ELSE /\ connection' = [connection EXCEPT ![p] = IF Retries(code) THEN "retrying" ELSE "closed"]
          /\ retryTimer' = [retryTimer EXCEPT ![p] = Retries(code)]
  /\ UNCHANGED <<effect, session, next_cmd>>

\* The timer of a retry.
RetryFires(p) ==
  /\ retryTimer[p]
  /\ Connect(p, effect[p])
  /\ retryTimer' = [retryTimer EXCEPT ![p] = FALSE]
  /\ connection' = [connection EXCEPT ![p] = "connecting"]
  /\ UNCHANGED <<permits, effect, session, pending, next_cmd>>

\* send looks at the socket alone.  The page has something to send from its first
\* init on: a form and the fork buttons stay while the hook retries, so a command
\* can be on its way before the init of its session, or on a socket the server
\* turns away.
Send(p) ==
  /\ session[p] /\ next_cmd[p] <= MaxCommand
  /\ current[p] # None /\ sockets[current[p]].browser = "open"
  /\ pending' = [pending EXCEPT ![p] = @ \cup {next_cmd[p]}]
  /\ next_cmd' = [next_cmd EXCEPT ![p] = @ + 1]
  /\ sockets' = [sockets EXCEPT ![current[p]].up = Append(@, next_cmd[p])]
  /\ UNCHANGED <<permits, current, effect, retryTimer, connection, session>>

\* onmessage of socket n.
OnMessage(n) ==
  LET s == sockets[n] IN
  /\ s.browser = "open" /\ s.down # <<>> /\ Head(s.down).type \in {"init", "ack"}
  /\ sockets' = [sockets EXCEPT ![n].down = Tail(@)]
  /\ IF Head(s.down).type = "ack"
     THEN /\ pending' = [pending EXCEPT ![s.page] = @ \ {Head(s.down).id}]
          /\ UNCHANGED <<connection, session>>
     ELSE /\ connection' = [connection EXCEPT ![s.page] = "open"]
          /\ session' = [session EXCEPT ![s.page] = TRUE]
          /\ UNCHANGED pending
  /\ UNCHANGED <<permits, current, effect, retryTimer, next_cmd>>

-----------------------------------------------------------------------------
(* The server.                                                             *)

CloseFrame(code) == [type |-> "close", code |-> code]

Upgrade_NoPermit(n) ==
  /\ sockets[n].server = "none"
  /\ sockets' = [sockets EXCEPT ![n].server = "session", ![n].down = <<[type |-> "init"]>>,
                                ![n].browser = IF @ = "connecting" THEN "open" ELSE @]
  /\ permits' = IF permits > 0 THEN permits - 1 ELSE permits
  /\ UNCHANGED <<current, effect, retryTimer, connection, session, pending, next_cmd>>

Upgrade_WaitsForPermit(n) ==
  /\ sockets[n].server = "none" /\ permits > 0
  /\ sockets' = [sockets EXCEPT ![n].server = "session", ![n].down = <<[type |-> "init"]>>,
                                ![n].browser = IF @ = "connecting" THEN "open" ELSE @]
  /\ permits' = permits - 1
  /\ UNCHANGED <<current, effect, retryTimer, connection, session, pending, next_cmd>>

\* upgrade: with a permit the session starts by sending its state.  The request
\* may get through although the browser has given up.
Upgrade(n) ==
  /\ sockets[n].server = "none"
  /\ sockets' = [sockets EXCEPT
       ![n].server = IF permits > 0 THEN "session" ELSE "over",
       ![n].down = <<IF permits > 0 THEN [type |-> "init"] ELSE CloseFrame(CLOSE_TRY_AGAIN_LATER)>>,
       ![n].browser = IF @ = "connecting" THEN "open" ELSE @]
  /\ permits' = IF permits > 0 THEN permits - 1 ELSE permits
  /\ UNCHANGED <<current, effect, retryTimer, connection, session, pending, next_cmd>>

Recv(n) ==
  /\ sockets[n].server = "session" /\ sockets[n].up # <<>>
  /\ sockets' = [sockets EXCEPT ![n].up = Tail(@),
                                ![n].down = Append(@, [type |-> "ack", id |-> Head(sockets[n].up)])]
  /\ UNCHANGED <<permits, current, effect, retryTimer, connection, session, pending, next_cmd>>

\* run returns, and with it the permit.
Ends(n, down) ==
  /\ sockets[n].server = "session"
  /\ sockets' = [sockets EXCEPT ![n].server = "over", ![n].up = <<>>, ![n].down = down]
  /\ permits' = permits + 1
  /\ UNCHANGED <<current, effect, retryTimer, connection, session, pending, next_cmd>>

\* The idle timer, or an internal error.
CloseSession(n, code) == Ends(n, Append(sockets[n].down, CloseFrame(code)))

\* The browser has closed, or a send fails.
PeerGone(n) == sockets[n].browser \in {"closing", "closed"} /\ Ends(n, <<>>)

-----------------------------------------------------------------------------
(* The browser and the network.                                            *)

\* A close frame arrives.
FrameCloses(n) ==
  /\ sockets[n].browser = "open" /\ sockets[n].down # <<>> /\ Head(sockets[n].down).type = "close"
  /\ OnClose(n, Head(sockets[n].down).code)
  /\ sockets' = [sockets EXCEPT ![n].browser = "closed", ![n].down = <<>>]
  /\ UNCHANGED permits

\* close() is through.
CloseDone(n) ==
  /\ sockets[n].browser = "closing"
  /\ OnClose(n, CLOSE_ABNORMAL)
  /\ sockets' = [sockets EXCEPT ![n].browser = "closed", ![n].down = <<>>]
  /\ UNCHANGED permits

\* No connection, or it is lost.
Breaks(n) ==
  /\ sockets[n].browser \in {"connecting", "open"}
  /\ OnClose(n, CLOSE_ABNORMAL)
  /\ sockets' = [sockets EXCEPT ![n].browser = "closed", ![n].down = <<>>]
  /\ UNCHANGED permits

Network(n) == Upgrade(n) \/ OnMessage(n) \/ FrameCloses(n) \/ CloseDone(n) \/ Recv(n) \/ PeerGone(n)

Next ==
  \/ \E p \in Page : Mount(p) \/ MountTwice(p) \/ Reconnect(p) \/ RetryFires(p) \/ Send(p)
  \/ \E n \in DOMAIN sockets :
       \/ Network(n) \/ Breaks(n)
       \/ \E code \in {CLOSE_IDLE, CLOSE_INTERNAL_ERROR} : CloseSession(n, code)

Spec == Init /\ [][Next]_vars

\* Timers fire, and what is sent arrives unless the connection breaks.
FairSpec ==
  /\ Spec
  /\ \A p \in Page : WF_vars(RetryFires(p))
  /\ \A n \in 1 .. MaxSockets : WF_vars(n \in DOMAIN sockets /\ Network(n))

-----------------------------------------------------------------------------
(* Properties.                                                             *)

Message == [type : {"init"}] \cup [type : {"ack"}, id : Nat] \cup [type : {"close"}, code : Nat]

Socket == [page : Page, effect : Nat, browser : {"connecting", "open", "closing", "closed"},
           server : {"none", "session", "over"}, up : Seq(Nat), down : Seq(Message)]

\* The semaphore neither overflows nor goes below zero, and every reference is
\* to a socket there is.
ConnectionsTypeOK ==
  /\ sockets \in Seq(Socket)
  /\ permits \in 0 .. MAX_SESSIONS
  /\ current \in [Page -> 0 .. Len(sockets)]
  /\ effect \in [Page -> Nat]
  /\ next_cmd \in [Page -> Nat]

(***************************************************************************)
(* Every permit is free or held by a session, however sockets end (lib.rs: *)
(* "One permit per open session.").                                        *)
(***************************************************************************)
PermitsExact ==
  permits + Cardinality({n \in DOMAIN sockets : sockets[n].server = "session"}) = MAX_SESSIONS

\* The others are closed.
OneSocketPerPage ==
  \A n \in DOMAIN sockets :
    sockets[n].page \notin Development /\ sockets[n].browser # "closed"
      => current[sockets[n].page] = n

\* Where a page shows an open session, a command can go out.
OpenMeansConnected ==
  \A p \in Page \ Development : connection[p] = "open" =>
    current[p] # None /\ sockets[current[p]].browser = "open"

CloseUnderWay(s) == \E i \in DOMAIN s.down : s.down[i].type = "close"

\* The socket is open, and command id, its ack, or the close that rejects it, is
\* on the way.
Answerable(s, id) ==
  /\ s.browser = "open"
  /\ \/ s.server = "session" /\ id \in ToSet(s.up)
     \/ \E i \in DOMAIN s.down : s.down[i].type = "ack" /\ s.down[i].id = id
     \/ CloseUnderWay(s)

\* No command waits for an ack that cannot come.
PendingOnCurrent ==
  \A p \in Page : \A id \in pending[p] :
    current[p] # None /\ Answerable(sockets[current[p]], id)

(***************************************************************************)
(* However sockets close, break, are turned away and are retried, every    *)
(* command that waits will be answered or rejected: those sent before the  *)
(* init of their session too, and those of a development build, where the  *)
(* socket that closes may not be the one they went out on                  *)
(* (useSimulation.ts:51).  In a production build the current socket is the *)
(* only one, and open while the page says so.                              *)
(***************************************************************************)
CurrentSocket == OneSocketPerPage /\ OpenMeansConnected /\ PendingOnCurrent

(***************************************************************************)
(* A page never hangs: it opens, shows why it is closed, or would try      *)
(* again if the model had another socket.                                  *)
(***************************************************************************)
PageSettles ==
  \A p \in Page :
    effect[p] # None /\ connection[p] \in {"connecting", "retrying"}
      ~> connection[p] \in {"open", "closed"} \/ (retryTimer[p] /\ Len(sockets) = MaxSockets)

=============================================================================
