-------------------------- MODULE ConnectionsProofs --------------------------
(***************************************************************************)
(* For every number of pages, sockets and permits, in production and       *)
(* development builds: a permit is free or is held by a session, however   *)
(* sockets open, close, break and are replaced, and every command that     *)
(* waits will be answered or rejected.                                     *)
(***************************************************************************)
EXTENDS Connections, FiniteSetTheorems, SequenceTheorems, TLAPS

InSession(n) == sockets[n].server = "session"
Sessions == {n \in DOMAIN sockets : InSession(n)}

ConnInv == ConnectionsTypeOK /\ PermitsExact

-----------------------------------------------------------------------------
(* What a step does to the sockets.                                        *)

\* What the invariant says of a socket.
LEMMA SocketFacts ==
  ASSUME ConnectionsTypeOK
  PROVE  /\ sockets \in Seq(Socket) /\ DOMAIN sockets = 1 .. Len(sockets) /\ Len(sockets) \in Nat
         /\ \A n \in DOMAIN sockets : sockets[n] \in Socket
BY LenProperties, ElementOfSeq DEF ConnectionsTypeOK

LEMMA SessionsFinite ==
  ASSUME ConnectionsTypeOK
  PROVE  IsFiniteSet(Sessions) /\ Cardinality(Sessions) \in Nat
<1>1. IsFiniteSet(1 .. Len(sockets)) /\ Sessions \subseteq 1 .. Len(sockets)
  BY SocketFacts, FS_Interval DEF Sessions
<1>. QED  BY <1>1, FS_Subset, FS_CardinalityType

\* A socket changes into t.
LEMMA SocketChanges ==
  ASSUME ConnectionsTypeOK, NEW n \in DOMAIN sockets, NEW t \in Socket,
         sockets' = [sockets EXCEPT ![n] = t]
  PROVE  /\ sockets' \in Seq(Socket) /\ Len(sockets') = Len(sockets)
         /\ Sessions' = IF t.server = "session" THEN Sessions \cup {n} ELSE Sessions \ {n}
<1>1. /\ sockets' \in Seq(Socket) /\ Len(sockets') = Len(sockets)
      /\ \A m \in 1 .. Len(sockets) : sockets'[m] = IF m = n THEN t ELSE sockets[m]
      /\ n \in 1 .. Len(sockets)
  BY SocketFacts, ExceptSeq
<1>2. DOMAIN sockets' = DOMAIN sockets /\ DOMAIN sockets = 1 .. Len(sockets)
  BY <1>1, SocketFacts, LenProperties
<1>. QED  BY <1>1, <1>2 DEF Sessions, InSession

\* A socket is added, and another may begin to close.
LEMMA SocketAdded ==
  ASSUME ConnectionsTypeOK, NEW socks \in Seq(Socket), Len(socks) = Len(sockets),
         \A m \in DOMAIN sockets : socks[m].server = sockets[m].server,
         NEW t \in Socket, t.server = "none", sockets' = Append(socks, t)
  PROVE  /\ sockets' \in Seq(Socket) /\ Len(sockets') = Len(sockets) + 1
         /\ Sessions' = Sessions
<1>1. /\ sockets' \in Seq(Socket) /\ Len(sockets') = Len(sockets) + 1
      /\ \A m \in 1 .. Len(sockets) : sockets'[m] = socks[m]
      /\ sockets'[Len(sockets) + 1] = t
  BY AppendProperties, SocketFacts
<1>2. /\ DOMAIN sockets' = DOMAIN sockets \cup {Len(sockets) + 1}
      /\ DOMAIN sockets = 1 .. Len(sockets)
  BY <1>1, SocketFacts, LenProperties
<1>. QED  BY <1>1, <1>2 DEF Sessions, InSession

\* close() leaves the server's side alone.
LEMMA ClosedFacts ==
  ASSUME ConnectionsTypeOK, NEW n \in 0 .. Len(sockets)
  PROVE  /\ Closed(sockets, n) \in Seq(Socket) /\ Len(Closed(sockets, n)) = Len(sockets)
         /\ \A m \in DOMAIN sockets : Closed(sockets, n)[m].server = sockets[m].server
<1>1. CASE n = None \/ sockets[n].browser = "closed"
  BY <1>1, SocketFacts DEF Closed
<1>2. CASE ~(n = None \/ sockets[n].browser = "closed")
  <2> DEFINE t == [sockets[n] EXCEPT !.browser = "closing"]
  <2>1. n \in 1 .. Len(sockets) /\ n \in DOMAIN sockets
    BY <1>2, SocketFacts DEF None
  <2>2. t \in Socket /\ t.server = sockets[n].server
    BY <2>1, SocketFacts DEF Socket
  <2>3. Closed(sockets, n) = [sockets EXCEPT ![n] = t]
    BY <1>2 DEF Closed
  <2>. HIDE DEF t
  <2>. QED  BY <2>1, <2>2, <2>3, SocketFacts, ExceptSeq
<1>. QED  BY <1>1, <1>2

-----------------------------------------------------------------------------
(* Every step keeps the invariant.                                         *)

\* The session of a socket is as before.
LEMMA SameSessions ==
  ASSUME ConnInv, NEW n \in DOMAIN sockets, NEW t \in Socket, t.server = sockets[n].server,
         sockets' = [sockets EXCEPT ![n] = t], permits' = permits,
         current' \in [Page -> 0 .. Len(sockets)], effect' \in [Page -> Nat],
         next_cmd' \in [Page -> Nat]
  PROVE  ConnInv'
<1>1. ConnectionsTypeOK /\ PermitsExact
  BY DEF ConnInv
<1>2. sockets' \in Seq(Socket) /\ Len(sockets') = Len(sockets) /\ Sessions' = Sessions
  BY <1>1, SocketChanges DEF Sessions, InSession
<1>3. ConnectionsTypeOK'
  BY <1>1, <1>2 DEF ConnectionsTypeOK
<1>4. PermitsExact'
  BY <1>1, <1>2 DEF PermitsExact, Sessions, InSession
<1>. QED  BY <1>3, <1>4 DEF ConnInv

\* The hook opens sockets.
LEMMA PageSteps ==
  ASSUME ConnInv, NEW p \in Page, Mount(p) \/ Reconnect(p) \/ RetryFires(p)
  PROVE  ConnInv'
<1>1. /\ ConnectionsTypeOK /\ PermitsExact /\ effect \in [Page -> Nat]
      /\ current \in [Page -> 0 .. Len(sockets)] /\ next_cmd \in [Page -> Nat]
  BY DEF ConnInv, ConnectionsTypeOK
<1>2. \A e \in Nat : NewSocket(p, e) \in Socket /\ NewSocket(p, e).server = "none"
  BY DEF NewSocket, Socket
<1>3. PICK e \in Nat, n \in 0 .. Len(sockets) :
        /\ sockets' = Append(Closed(sockets, n), NewSocket(p, e))
        /\ current' = [current EXCEPT ![p] = Len(sockets) + 1]
  <2>1. Closed(sockets, None) = sockets
    BY DEF Closed
  <2>2. None \in 0 .. Len(sockets)
    BY <1>1, SocketFacts DEF None
  <2>3. CASE Mount(p)
    BY <2>1, <2>2, <2>3 DEF Mount, Connect
  <2>4. CASE Reconnect(p)
    <3>1. effect[p] + 1 \in Nat /\ current[p] \in 0 .. Len(sockets)
      BY <1>1
    <3>. QED  BY <2>4, <3>1 DEF Reconnect
  <2>5. CASE RetryFires(p)
    <3>1. effect[p] \in Nat
      BY <1>1
    <3>2. /\ sockets' = Append(Closed(sockets, None), NewSocket(p, effect[p]))
          /\ current' = [current EXCEPT ![p] = Len(sockets) + 1]
      BY <2>1, <2>5 DEF RetryFires, Connect
    <3>. QED  BY ONLY <2>2, <3>1, <3>2
  <2>. QED  BY <2>3, <2>4, <2>5
<1>4. permits' = permits /\ next_cmd' = next_cmd /\ effect' \in [Page -> Nat]
  <2>1. permits' = permits /\ next_cmd' = next_cmd
    BY DEF Mount, Reconnect, RetryFires
  <2>2. effect' \in {effect, [effect EXCEPT ![p] = 1], [effect EXCEPT ![p] = @ + 1]}
    BY DEF Mount, Reconnect, RetryFires
  <2>3. effect[p] \in Nat
    BY <1>1
  <2>4. [effect EXCEPT ![p] = 1] \in [Page -> Nat] /\ [effect EXCEPT ![p] = @ + 1] \in [Page -> Nat]
    BY ONLY <1>1, <2>3
  <2>. QED  BY ONLY <1>1, <2>1, <2>2, <2>4
<1>5. /\ sockets' \in Seq(Socket) /\ Len(sockets') = Len(sockets) + 1
      /\ Sessions' = Sessions
  BY <1>1, <1>2, <1>3, ClosedFacts, SocketAdded
<1>6. current' \in [Page -> 0 .. Len(sockets')]
  BY <1>1, <1>3, <1>5, SocketFacts
<1>7. ConnectionsTypeOK'
  BY <1>1, <1>4, <1>5, <1>6 DEF ConnectionsTypeOK
<1>8. PermitsExact'
  BY <1>1, <1>4, <1>5 DEF PermitsExact, Sessions, InSession
<1>. QED  BY <1>7, <1>8 DEF ConnInv

LEMMA SendStep == ASSUME ConnInv, NEW p \in Page, Send(p) PROVE ConnInv'
<1> DEFINE n == current[p]
           t == [sockets[n] EXCEPT !.up = Append(@, next_cmd[p])]
<1>1. /\ ConnectionsTypeOK /\ effect \in [Page -> Nat]
      /\ current \in [Page -> 0 .. Len(sockets)] /\ next_cmd \in [Page -> Nat]
  BY DEF ConnInv, ConnectionsTypeOK
<1>2. n \in DOMAIN sockets
  BY <1>1, SocketFacts DEF Send, None
<1>3. sockets[n] \in Socket /\ next_cmd[p] \in Nat
  BY <1>1, <1>2, SocketFacts
<1>4. t \in Socket /\ t.server = sockets[n].server
  <2>1. Append(sockets[n].up, next_cmd[p]) \in Seq(Nat)
    BY <1>3, AppendProperties DEF Socket
  <2>. QED  BY <1>3, <2>1 DEF Socket
<1>5. sockets' = [sockets EXCEPT ![n] = t]
  BY DEF Send
<1>6. /\ permits' = permits /\ effect' = effect /\ current' = current
      /\ next_cmd' \in [Page -> Nat]
  BY <1>1 DEF Send
<1>. HIDE DEF n, t
<1>. QED  BY <1>1, <1>2, <1>4, <1>5, <1>6, SameSessions

\* A socket that closes in the browser.
LEMMA CloseSteps ==
  ASSUME ConnInv, NEW n \in DOMAIN sockets, FrameCloses(n) \/ CloseDone(n) \/ Breaks(n)
  PROVE  ConnInv'
<1> DEFINE t == [sockets[n] EXCEPT !.browser = "closed", !.down = <<>>]
<1>1. /\ ConnectionsTypeOK /\ effect \in [Page -> Nat]
      /\ current \in [Page -> 0 .. Len(sockets)] /\ next_cmd \in [Page -> Nat]
      /\ sockets[n] \in Socket /\ 0 \in 0 .. Len(sockets)
  BY SocketFacts DEF ConnInv, ConnectionsTypeOK
<1>2. t \in Socket /\ t.server = sockets[n].server
  <2>1. <<>> \in Seq(Message)
    OBVIOUS
  <2>. QED  BY <1>1, <2>1 DEF Socket
<1>3. sockets' = [sockets EXCEPT ![n] = t] /\ permits' = permits
  BY DEF FrameCloses, CloseDone, Breaks
<1>4. \E code : OnClose(n, code)
  BY DEF FrameCloses, CloseDone, Breaks
<1>5. /\ current' = [current EXCEPT ![sockets[n].page] = None]
      /\ effect' = effect /\ next_cmd' = next_cmd
  BY <1>4 DEF OnClose
<1>6. current' \in [Page -> 0 .. Len(sockets)]
  BY <1>1, <1>5 DEF None
<1>. HIDE DEF t
<1>. QED  BY <1>1, <1>2, <1>3, <1>5, <1>6, SameSessions

\* A message is taken in by the browser, or a command by the session.
LEMMA MessageSteps ==
  ASSUME ConnInv, NEW n \in DOMAIN sockets, OnMessage(n) \/ Recv(n)
  PROVE  ConnInv'
<1>1. /\ ConnectionsTypeOK /\ effect \in [Page -> Nat]
      /\ current \in [Page -> 0 .. Len(sockets)] /\ next_cmd \in [Page -> Nat]
      /\ sockets[n] \in Socket
  BY SocketFacts DEF ConnInv, ConnectionsTypeOK
<1>2. /\ permits' = permits /\ effect' = effect /\ current' = current /\ next_cmd' = next_cmd
  BY DEF OnMessage, Recv
<1>3. sockets[n].down \in Seq(Message) /\ sockets[n].up \in Seq(Nat)
  BY <1>1 DEF Socket
<1>4. CASE OnMessage(n)
  <2> DEFINE t == [sockets[n] EXCEPT !.down = Tail(@)]
  <2>1. sockets' = [sockets EXCEPT ![n] = t] /\ sockets[n].down # <<>>
    BY <1>4 DEF OnMessage
  <2>2. Tail(sockets[n].down) \in Seq(Message)
    BY <1>3, <2>1, HeadTailProperties
  <2>3. t \in Socket /\ t.server = sockets[n].server
    BY <1>1, <2>2 DEF Socket
  <2>. HIDE DEF t
  <2>. QED  BY <1>1, <1>2, <2>1, <2>3, SameSessions
<1>5. CASE Recv(n)
  <2> DEFINE ack == [type |-> "ack", id |-> Head(sockets[n].up)]
             t == [sockets[n] EXCEPT !.up = Tail(@), !.down = Append(@, ack)]
  <2>1. sockets' = [sockets EXCEPT ![n] = t] /\ sockets[n].up # <<>>
    BY <1>5 DEF Recv
  <2>2. /\ Tail(sockets[n].up) \in Seq(Nat) /\ ack \in Message
    BY <1>3, <2>1, HeadTailProperties DEF Message
  <2>3. Append(sockets[n].down, ack) \in Seq(Message)
    BY <1>3, <2>2, AppendProperties
  <2>. HIDE DEF ack
  <2>4. t \in Socket /\ t.server = sockets[n].server
    BY <1>1, <2>2, <2>3 DEF Socket
  <2>. HIDE DEF t
  <2>. QED  BY <1>1, <1>2, <2>1, <2>4, SameSessions
<1>. QED  BY <1>4, <1>5

\* The server takes a permit for a session, or closes the socket.
LEMMA UpgradeStep == ASSUME ConnInv, NEW n \in DOMAIN sockets, Upgrade(n) PROVE ConnInv'
<1> DEFINE server == IF permits > 0 THEN "session" ELSE "over"
           down == <<IF permits > 0 THEN [type |-> "init"] ELSE CloseFrame(CLOSE_TRY_AGAIN_LATER)>>
           browser == IF sockets[n].browser = "connecting" THEN "open" ELSE sockets[n].browser
           t == [sockets[n] EXCEPT !.server = server, !.down = down, !.browser = browser]
<1>1. /\ ConnectionsTypeOK /\ PermitsExact /\ sockets[n] \in Socket
      /\ MAX_SESSIONS \in Nat /\ permits \in 0 .. MAX_SESSIONS
  BY SocketFacts, ConnectionsAssumption DEF ConnInv, ConnectionsTypeOK
<1>2. /\ sockets' = [sockets EXCEPT ![n] = t] /\ sockets[n].server = "none"
      /\ permits' = IF permits > 0 THEN permits - 1 ELSE permits
      /\ current' = current /\ effect' = effect /\ next_cmd' = next_cmd
  BY DEF Upgrade
<1>3. t \in Socket /\ t.server = server
  <2>1. down \in Seq(Message)
    BY DEF Message, CloseFrame, CLOSE_TRY_AGAIN_LATER
  <2>2. browser \in {"connecting", "open", "closing", "closed"}
        /\ server \in {"none", "session", "over"}
    BY <1>1 DEF Socket
  <2>. HIDE DEF down, browser, server
  <2>. QED  BY <1>1, <2>1, <2>2 DEF Socket
<1>. HIDE DEF t
<1>4. /\ sockets' \in Seq(Socket) /\ Len(sockets') = Len(sockets)
      /\ Sessions' = IF permits > 0 THEN Sessions \cup {n} ELSE Sessions \ {n}
  BY <1>1, <1>2, <1>3, SocketChanges
<1>5. n \notin Sessions /\ Sessions \ {n} = Sessions
  BY <1>2 DEF Sessions, InSession
<1>6. Cardinality(Sessions) \in Nat /\ Cardinality(Sessions \cup {n}) = Cardinality(Sessions) + 1
  BY <1>1, <1>5, SessionsFinite, FS_AddElement
<1>7. permits + Cardinality(Sessions) = MAX_SESSIONS
  BY <1>1 DEF PermitsExact, Sessions, InSession
<1>8. permits' + Cardinality(Sessions') = MAX_SESSIONS
  <2>1. CASE permits > 0
    <3>1. Sessions' = Sessions \cup {n} /\ permits' = permits - 1
      BY <1>2, <1>4, <2>1
    <3>. QED  BY <1>1, <1>6, <1>7, <3>1
  <2>2. CASE ~(permits > 0)
    <3>1. Sessions' = Sessions /\ permits' = permits
      BY <1>2, <1>4, <1>5, <2>2
    <3>. QED  BY <1>7, <3>1
  <2>. QED  BY <2>1, <2>2
<1>9. PermitsExact'
  BY <1>8 DEF PermitsExact, Sessions, InSession
<1>10. ConnectionsTypeOK'
  <2>1. permits' \in 0 .. MAX_SESSIONS
    BY <1>1, <1>2
  <2>. QED  BY <1>1, <1>2, <1>4, <2>1 DEF ConnectionsTypeOK
<1>. QED  BY <1>9, <1>10 DEF ConnInv

\* A session ends, for whatever reason, and its permit returns.
LEMMA EndStep ==
  ASSUME ConnInv, NEW n \in DOMAIN sockets, NEW down \in Seq(Message), Ends(n, down)
  PROVE  ConnInv'
<1> DEFINE t == [sockets[n] EXCEPT !.server = "over", !.up = <<>>, !.down = down]
<1>1. /\ ConnectionsTypeOK /\ PermitsExact /\ sockets[n] \in Socket
      /\ MAX_SESSIONS \in Nat /\ permits \in 0 .. MAX_SESSIONS
  BY SocketFacts, ConnectionsAssumption DEF ConnInv, ConnectionsTypeOK
<1>2. /\ sockets' = [sockets EXCEPT ![n] = t] /\ sockets[n].server = "session"
      /\ permits' = permits + 1
      /\ current' = current /\ effect' = effect /\ next_cmd' = next_cmd
  BY DEF Ends
<1>3. t \in Socket /\ t.server = "over"
  <2>1. <<>> \in Seq(Nat)
    OBVIOUS
  <2>. QED  BY <1>1, <2>1 DEF Socket
<1>. HIDE DEF t
<1>4. sockets' \in Seq(Socket) /\ Len(sockets') = Len(sockets) /\ Sessions' = Sessions \ {n}
  BY <1>1, <1>2, <1>3, SocketChanges
<1>5. n \in Sessions
  BY <1>2 DEF Sessions, InSession
<1>6. /\ Cardinality(Sessions) \in Nat /\ IsFiniteSet(Sessions \ {n})
      /\ Cardinality(Sessions \ {n}) = Cardinality(Sessions) - 1
  BY <1>1, <1>5, SessionsFinite, FS_RemoveElement
<1>7. Cardinality(Sessions \ {n}) \in Nat
  BY <1>6, FS_CardinalityType
<1>8. permits + Cardinality(Sessions) = MAX_SESSIONS
  BY <1>1 DEF PermitsExact, Sessions, InSession
<1>9. permits' + Cardinality(Sessions') = MAX_SESSIONS /\ permits' \in 0 .. MAX_SESSIONS
  <2>1. Cardinality(Sessions') = Cardinality(Sessions) - 1 /\ Cardinality(Sessions') \in Nat
    BY <1>4, <1>6, <1>7
  <2>2. /\ MAX_SESSIONS \in Nat /\ permits \in Nat /\ permits' = permits + 1
        /\ Cardinality(Sessions) \in Nat
    BY <1>1, <1>2, <1>6
  <2>. QED  BY ONLY <1>8, <2>1, <2>2
<1>10. PermitsExact'
  BY <1>9 DEF PermitsExact, Sessions, InSession
<1>11. ConnectionsTypeOK'
  BY <1>1, <1>2, <1>4, <1>9 DEF ConnectionsTypeOK
<1>. QED  BY <1>10, <1>11 DEF ConnInv

\* A development build mounts a page with a socket that closes and one that stays.
LEMMA MountTwiceStep == ASSUME ConnInv, NEW p \in Page, MountTwice(p) PROVE ConnInv'
<1> DEFINE a == [NewSocket(p, 1) EXCEPT !.browser = "closing"]
           b == NewSocket(p, 2)
<1>1. /\ ConnectionsTypeOK /\ PermitsExact /\ effect \in [Page -> Nat]
      /\ current \in [Page -> 0 .. Len(sockets)] /\ next_cmd \in [Page -> Nat]
  BY DEF ConnInv, ConnectionsTypeOK
<1>2. a \in Socket /\ b \in Socket /\ a.server = "none" /\ b.server = "none"
  <2>1. NewSocket(p, 1) \in Socket /\ NewSocket(p, 1).server = "none"
    BY DEF NewSocket, Socket
  <2>2. a \in Socket /\ a.server = "none"
    BY <2>1 DEF Socket
  <2>. QED  BY <2>2 DEF NewSocket, Socket
<1>3. /\ sockets' = sockets \o <<a, b>> /\ permits' = permits /\ next_cmd' = next_cmd
      /\ current' = [current EXCEPT ![p] = Len(sockets) + 2]
      /\ effect' = [effect EXCEPT ![p] = 2]
  BY DEF MountTwice
<1>. HIDE DEF a, b
<1>4. PICK l \in Nat : l = Len(sockets) /\ DOMAIN sockets = 1 .. l
  BY <1>1, SocketFacts
<1>5. /\ sockets' \in Seq(Socket) /\ Len(sockets') = l + 2
      /\ sockets'[l + 1] = a /\ sockets'[l + 2] = b
      /\ \A m \in 1 .. l : sockets'[m] = sockets[m]
  <2>1. sockets \in Seq(Socket) /\ <<a, b>> \in Seq(Socket) /\ Len(<<a, b>>) = 2
    BY <1>1, <1>2 DEF ConnectionsTypeOK
  <2>. QED  BY <1>3, <1>4, <2>1, ConcatProperties
<1>6. DOMAIN sockets' = 1 .. l + 2 /\ \A m \in 1 .. l + 2 : m \in 1 .. l \/ m = l + 1 \/ m = l + 2
  BY <1>5
<1>7. Sessions' = Sessions
  BY <1>2, <1>4, <1>5, <1>6 DEF Sessions, InSession
<1>8. current' \in [Page -> 0 .. Len(sockets')] /\ effect' \in [Page -> Nat]
  BY <1>1, <1>3, <1>4, <1>5
<1>9. ConnectionsTypeOK'
  BY <1>1, <1>3, <1>5, <1>8 DEF ConnectionsTypeOK
<1>10. PermitsExact'
  BY <1>1, <1>3, <1>7 DEF PermitsExact, Sessions, InSession
<1>. QED  BY <1>9, <1>10 DEF ConnInv

LEMMA ConnNextInv == ConnInv /\ [Next]_vars => ConnInv'
<1> SUFFICES ASSUME ConnInv, [Next]_vars PROVE ConnInv'
  OBVIOUS
<1>1. CASE UNCHANGED vars
  BY <1>1 DEF vars, ConnInv, ConnectionsTypeOK, PermitsExact
<1>2. ASSUME NEW p \in Page, Mount(p) \/ MountTwice(p) \/ Reconnect(p) \/ RetryFires(p) \/ Send(p)
      PROVE  ConnInv'
  BY <1>2, PageSteps, MountTwiceStep, SendStep
<1>3. ASSUME NEW n \in DOMAIN sockets, PeerGone(n) \/ \E code \in Nat : CloseSession(n, code)
      PROVE  ConnInv'
  <2>1. sockets[n].down \in Seq(Message)
    BY SocketFacts DEF ConnInv, Socket
  <2>2. \A code \in Nat : Append(sockets[n].down, CloseFrame(code)) \in Seq(Message)
    <3> TAKE code \in Nat
    <3>1. CloseFrame(code) \in Message
      BY DEF CloseFrame, Message
    <3>. QED  BY <2>1, <3>1, AppendProperties
  <2>3. <<>> \in Seq(Message)
    OBVIOUS
  <2>. QED  BY <1>3, <2>2, <2>3, EndStep DEF PeerGone, CloseSession
<1>4. ASSUME NEW n \in DOMAIN sockets, Network(n) \/ Breaks(n) PROVE ConnInv'
  BY <1>3, <1>4, UpgradeStep, MessageSteps, CloseSteps DEF Network
<1>5. CLOSE_IDLE \in Nat /\ CLOSE_INTERNAL_ERROR \in Nat
  BY DEF CLOSE_IDLE, CLOSE_INTERNAL_ERROR
<1>. QED  BY <1>1, <1>2, <1>3, <1>4, <1>5 DEF Next

LEMMA ConnInit == Init => ConnInv
<1> SUFFICES ASSUME Init PROVE ConnInv
  OBVIOUS
<1>1. Cardinality({n \in DOMAIN sockets : sockets[n].server = "session"}) = 0
  <2>1. {n \in DOMAIN sockets : sockets[n].server = "session"} = {}
    BY DEF Init
  <2>. QED  BY <2>1, FS_EmptySet
<1>2. PermitsExact
  BY <1>1, ConnectionsAssumption DEF Init, PermitsExact
<1>3. ConnectionsTypeOK
  <2>1. sockets \in Seq(Socket) /\ Len(sockets) = 0
    BY EmptySeq DEF Init
  <2>. QED  BY <2>1, ConnectionsAssumption DEF Init, ConnectionsTypeOK, None
<1>. QED  BY <1>2, <1>3 DEF ConnInv

-----------------------------------------------------------------------------
(* The result.                                                             *)

(***************************************************************************)
(* One permit per open session (lib.rs:19 of paged-kv-server): none is     *)
(* lost and none is given twice, for any number of pages and sockets, and  *)
(* also if pages open a socket while another one is closing.               *)
(***************************************************************************)
THEOREM PermitsReturn == Spec => []PermitsExact
<1>1. ConnInv => PermitsExact
  BY DEF ConnInv
<1>. QED  BY <1>1, ConnInit, ConnNextInv, PTL DEF Spec

-----------------------------------------------------------------------------
(* The current socket.                                                     *)

HookTypes ==
  /\ connection \in [Page -> {"connecting", "open", "retrying", "closed"}]
  /\ retryTimer \in [Page -> BOOLEAN]
  /\ pending \in [Page -> SUBSET Nat]

\* An open socket has a session, or is being closed.
Served(s) == s.browser = "open" => s.server = "session" \/ CloseUnderWay(s)

\* A socket that is not closed is the current one, of the effect that runs,
\* unless the effect ran twice; the server sends nothing before the upgrade.
SocketInv(n) ==
  /\ sockets[n].page \notin Development /\ sockets[n].browser # "closed" =>
       /\ sockets[n].browser \in {"connecting", "open"}
       /\ current[sockets[n].page] = n /\ sockets[n].effect = effect[sockets[n].page]
  /\ effect[sockets[n].page] # None
  /\ sockets[n].server = "none" => sockets[n].down = <<>>
  /\ Served(sockets[n])

\* A page that waits to retry, or does not retry, has no current socket.
PageInv(p) ==
  /\ current[p] # None =>
       /\ sockets[current[p]].page = p
       /\ connection[p] \in {"connecting", "open"} /\ ~retryTimer[p]
  /\ p \notin Development /\ connection[p] = "open" =>
       current[p] # None /\ sockets[current[p]].browser = "open"
  /\ effect[p] = None => current[p] = None /\ connection[p] = "connecting" /\ ~retryTimer[p]

PendingInv(p) ==
  pending[p] # {} =>
    current[p] # None /\ \A id \in pending[p] : Answerable(sockets[current[p]], id)

CurrentInv ==
  /\ HookTypes
  /\ \A n \in DOMAIN sockets : SocketInv(n)
  /\ \A p \in Page : PageInv(p) /\ PendingInv(p)

\* A page without a socket opens one.
LEMMA OpensSocket ==
  ASSUME ConnInv, CurrentInv, NEW p \in Page, NEW e \in Nat \ {None}, current[p] = None,
         sockets' = Append(sockets, NewSocket(p, e)),
         current' = [current EXCEPT ![p] = Len(sockets) + 1],
         effect' = [effect EXCEPT ![p] = e],
         \A q \in Page \ {p} : connection'[q] = connection[q] /\ retryTimer'[q] = retryTimer[q],
         connection'[p] = "connecting", ~retryTimer'[p], HookTypes', pending' = pending
  PROVE  CurrentInv'
<1>1. /\ ConnectionsTypeOK /\ HookTypes
      /\ current \in [Page -> 0 .. Len(sockets)] /\ effect \in [Page -> Nat]
  BY DEF ConnInv, ConnectionsTypeOK, CurrentInv
<1>2. PICK l \in Nat : l = Len(sockets) /\ DOMAIN sockets = 1 .. l
  BY <1>1, SocketFacts
<1>3. /\ DOMAIN sockets' = 1 .. l + 1 /\ sockets'[l + 1] = NewSocket(p, e)
      /\ \A n \in 1 .. l : sockets'[n] = sockets[n]
  <2>1. sockets \in Seq(Socket)
    BY <1>1 DEF ConnectionsTypeOK
  <2>. QED  BY <1>2, <2>1
<1>4. \A k \in 1 .. l + 1 : k \in 1 .. l \/ k = l + 1
  BY ONLY l \in Nat
<1>5. /\ current'[p] = l + 1 /\ effect'[p] = e /\ l + 1 # None /\ e # None
      /\ \A q \in Page \ {p} : current'[q] = current[q] /\ effect'[q] = effect[q]
  BY <1>1, <1>2 DEF None
<1>6. \A n \in 1 .. l : sockets[n] \in Socket /\ sockets[n].page \in Page
  BY <1>1, <1>2, SocketFacts DEF Socket
<1>7. \A n \in 1 .. l : SocketInv(n) /\ n # None
  BY <1>2 DEF CurrentInv, None
<1>8. \A n \in DOMAIN sockets' : SocketInv(n)'
  <2> SUFFICES ASSUME NEW n \in 1 .. l + 1 PROVE SocketInv(n)'
    BY <1>3
  <2>1. CASE n \in 1 .. l
    <3>1. sockets'[n] = sockets[n] /\ sockets[n].page \in Page /\ SocketInv(n) /\ n # None
      BY <1>3, <1>6, <1>7, <2>1
    <3>2. sockets[n].page \notin Development /\ sockets[n].browser # "closed" => sockets[n].page # p
      BY <3>1 DEF SocketInv
    <3>. QED  BY <1>5, <3>1, <3>2 DEF SocketInv
  <2>2. CASE n = l + 1
    BY <1>3, <1>5, <2>2 DEF SocketInv, NewSocket, Served
  <2>. QED  BY <1>4, <2>1, <2>2
<1>9. ASSUME NEW q \in Page PROVE PageInv(q)' /\ PendingInv(q)'
  <2>0. PageInv(q) /\ PendingInv(q)
    BY DEF CurrentInv
  <2>1. CASE q = p
    <3>1. sockets'[current'[q]] = NewSocket(p, e) /\ current'[q] # None /\ effect'[q] # None
      BY <1>3, <1>5, <2>1
    <3>2. pending'[q] = {}
      BY <2>0, <2>1 DEF PendingInv
    <3>. QED  BY <2>1, <3>1, <3>2 DEF PageInv, PendingInv, NewSocket
  <2>2. CASE q # p
    <3>1. /\ current'[q] = current[q] /\ effect'[q] = effect[q] /\ connection'[q] = connection[q]
          /\ retryTimer'[q] = retryTimer[q] /\ pending'[q] = pending[q]
      BY <1>5, <2>2
    <3>2. current[q] # None => sockets'[current[q]] = sockets[current[q]]
      <4>1. current[q] \in 0 .. l
        BY <1>1, <1>2
      <4>2. current[q] # None => current[q] \in 1 .. l
        BY <4>1 DEF None
      <4>. QED  BY <1>3, <4>2
    <3>3. PageInv(q)'
      BY <2>0, <3>1, <3>2 DEF PageInv
    <3>4. PendingInv(q)'
      <4>1. CASE pending[q] = {}
        BY <3>1, <4>1 DEF PendingInv
      <4>2. CASE pending[q] # {}
        <5>1. sockets'[current'[q]] = sockets[current[q]] /\ current[q] # None
          BY <2>0, <3>1, <3>2, <4>2 DEF PendingInv
        <5>2. \A id \in pending[q] : Answerable(sockets'[current'[q]], id)
          BY <2>0, <4>2, <5>1 DEF PendingInv
        <5>. QED  BY ONLY <3>1, <5>1, <5>2 DEF PendingInv, Answerable
      <4>. QED  BY <4>1, <4>2
    <3>. QED  BY <3>3, <3>4
  <2>. QED  BY <2>1, <2>2
<1>. QED  BY <1>8, <1>9 DEF CurrentInv

\* Socket n becomes t, and nothing is said of another page.
LEMMA SocketMoves ==
  ASSUME ConnInv, CurrentInv, NEW n \in DOMAIN sockets, NEW t,
         sockets' = [sockets EXCEPT ![n] = t], t.page = sockets[n].page,
         \A q \in Page \ {t.page} :
           /\ current'[q] = current[q] /\ effect'[q] = effect[q]
           /\ connection'[q] = connection[q] /\ retryTimer'[q] = retryTimer[q]
           /\ pending'[q] = pending[q],
         HookTypes', SocketInv(n)', PageInv(t.page)', PendingInv(t.page)',
         \A m \in DOMAIN sockets \ {n} : sockets[m].page = t.page => SocketInv(m)'
  PROVE  CurrentInv'
<1>1. /\ ConnectionsTypeOK /\ current \in [Page -> 0 .. Len(sockets)]
  BY DEF ConnInv, ConnectionsTypeOK
<1>2. PICK l \in Nat : l = Len(sockets) /\ DOMAIN sockets = 1 .. l
  BY <1>1, SocketFacts
<1>3. /\ DOMAIN sockets' = DOMAIN sockets
      /\ \A m \in DOMAIN sockets \ {n} : sockets'[m] = sockets[m]
  OBVIOUS
<1>4. ASSUME NEW m \in DOMAIN sockets' PROVE SocketInv(m)'
  <2>1. CASE m = n \/ sockets[m].page = t.page
    BY <1>3, <2>1
  <2>2. CASE m # n /\ sockets[m].page # t.page
    <3>1. sockets'[m] = sockets[m] /\ SocketInv(m)
      BY <1>3, <2>2 DEF CurrentInv
    <3>2. sockets[m].page \in Page \ {t.page}
      BY <1>1, <1>3, <2>2, SocketFacts DEF Socket
    <3>. QED  BY <3>1, <3>2 DEF SocketInv
  <2>. QED  BY <2>1, <2>2
<1>5. ASSUME NEW q \in Page PROVE PageInv(q)' /\ PendingInv(q)'
  <2>1. CASE q # t.page
    <3>1. PageInv(q) /\ PendingInv(q)
      BY DEF CurrentInv
    <3>2. /\ current'[q] = current[q] /\ effect'[q] = effect[q]
          /\ connection'[q] = connection[q] /\ retryTimer'[q] = retryTimer[q]
          /\ pending'[q] = pending[q]
      BY <2>1
    <3>3. current[q] # None => sockets'[current[q]] = sockets[current[q]]
      <4>1. current[q] # None => current[q] # n
        BY <2>1, <3>1 DEF PageInv
      <4>2. current[q] # None => current[q] \in DOMAIN sockets
        BY <1>1, <1>2 DEF None
      <4>. QED  BY <1>3, <4>1, <4>2
    <3>4. PageInv(q)'
      BY <3>1, <3>2, <3>3 DEF PageInv
    <3>5. PendingInv(q)'
      BY <3>1, <3>2, <3>3 DEF PendingInv, Answerable
    <3>. QED  BY <3>4, <3>5
  <2>2. CASE q = t.page
    BY <2>2
  <2>. QED  BY <2>1, <2>2
<1>. QED  BY <1>4, <1>5 DEF CurrentInv

\* A socket goes on: its page keeps it or what else it has.
LEMMA SocketGoesOn ==
  ASSUME ConnInv, CurrentInv, NEW n \in DOMAIN sockets, NEW t,
         sockets' = [sockets EXCEPT ![n] = t],
         t.page = sockets[n].page, t.effect = sockets[n].effect,
         t.browser = sockets[n].browser \/ (sockets[n].browser = "connecting" /\ t.browser = "open"),
         t.server = "none" => t.down = <<>>, Served(t),
         \A q \in Page : connection'[q] = connection[q] \/
           (q = t.page /\ sockets[n].browser = "open" /\ connection'[q] = "open"),
         HookTypes', UNCHANGED <<current, effect, retryTimer>>,
         \A q \in Page \ {t.page} : pending'[q] = pending[q],
         current[t.page] = n => \A id \in pending'[t.page] : Answerable(t, id),
         current[t.page] # n => pending'[t.page] \subseteq pending[t.page]
  PROVE  CurrentInv'
<1>1. /\ ConnectionsTypeOK /\ current \in [Page -> 0 .. Len(sockets)]
  BY DEF ConnInv, ConnectionsTypeOK
<1>2. PICK p \in Page : p = t.page /\ p = sockets[n].page
  BY <1>1, SocketFacts DEF Socket
<1>3. SocketInv(n) /\ PageInv(p) /\ PendingInv(p) /\ n # None
  <2>1. n # None
    BY <1>1, SocketFacts DEF None
  <2>. QED  BY <2>1 DEF CurrentInv
<1>4. /\ DOMAIN sockets' = DOMAIN sockets /\ sockets'[n] = t
      /\ \A m \in DOMAIN sockets \ {n} : sockets'[m] = sockets[m]
  OBVIOUS
<1>5. SocketInv(n)'
  BY <1>3, <1>4 DEF SocketInv
<1>6. \A m \in DOMAIN sockets \ {n} : SocketInv(m)'
  BY <1>4 DEF SocketInv, CurrentInv
<1>7. current[p] # None => current[p] \in DOMAIN sockets
  BY <1>1, SocketFacts DEF None
<1>8. PageInv(p)'
  <2>1. /\ p \notin Development /\ sockets[n].browser = "open" => current[p] = n
        /\ effect[p] # None
    BY <1>2, <1>3 DEF SocketInv
  <2>2. CASE current[p] = n
    BY <1>2, <1>3, <1>4, <2>2 DEF PageInv
  <2>3. CASE current[p] # n
    BY <1>2, <1>3, <1>4, <1>7, <2>1, <2>3 DEF PageInv
  <2>. QED  BY <2>2, <2>3
<1>9. PendingInv(p)'
  <2>1. CASE current[p] = n
    BY <1>2, <1>3, <1>4, <2>1 DEF PendingInv, Answerable
  <2>2. CASE current[p] # n
    BY <1>2, <1>3, <1>4, <1>7, <2>2 DEF PendingInv, Answerable
  <2>. QED  BY <2>1, <2>2
<1>. QED  BY <1>2, <1>5, <1>6, <1>8, <1>9, SocketMoves

\* What a queue holds is its head or in its tail.
LEMMA HeadOrTail ==
  ASSUME NEW S, NEW s \in Seq(S), s # <<>>, NEW x \in ToSet(s), x # Head(s)
  PROVE  x \in ToSet(Tail(s))
<1>1. PICK i \in 1 .. Len(s) : s[i] = x
  BY DEF ToSet
<1>2. /\ Len(s) \in Nat /\ i # 1 /\ Head(s) = s[1] /\ Len(Tail(s)) = Len(s) - 1
      /\ DOMAIN Tail(s) = 1 .. Len(s) - 1
      /\ \A j \in 1 .. Len(s) - 1 : Tail(s)[j] = s[j + 1]
  BY <1>1
<1>3. i - 1 \in 1 .. Len(s) - 1 /\ i - 1 + 1 = i
  BY <1>1, <1>2
<1>. QED  BY <1>1, <1>2, <1>3 DEF ToSet

LEMMA ToSetAppend ==
  ASSUME NEW S, NEW s \in Seq(S), NEW e
  PROVE  ToSet(Append(s, e)) = ToSet(s) \cup {e}
<1>1. /\ Len(s) \in Nat /\ DOMAIN s = 1 .. Len(s) /\ DOMAIN Append(s, e) = 1 .. Len(s) + 1
      /\ \A i \in 1 .. Len(s) : Append(s, e)[i] = s[i]
      /\ Append(s, e)[Len(s) + 1] = e
  OBVIOUS
<1>. QED  BY <1>1 DEF ToSet

\* The hook opens a socket.
LEMMA CurrentPageSteps ==
  ASSUME ConnInv, CurrentInv, NEW p \in Page, Mount(p) \/ Reconnect(p) \/ RetryFires(p)
  PROVE  CurrentInv'
<1>1. /\ HookTypes /\ PageInv(p) /\ effect \in [Page -> Nat] /\ effect[p] \in Nat
      /\ Closed(sockets, None) = sockets
  BY DEF ConnInv, ConnectionsTypeOK, CurrentInv, Closed
<1>2. CASE Mount(p)
  <2>1. /\ pending' = pending /\ connection' = connection /\ retryTimer' = retryTimer
        /\ effect[p] = None /\ effect' = [effect EXCEPT ![p] = 1]
        /\ sockets' = Append(sockets, NewSocket(p, 1))
        /\ current' = [current EXCEPT ![p] = Len(sockets) + 1]
    BY <1>2 DEF Mount, Connect
  <2>2. HookTypes' /\ current[p] = None /\ connection'[p] = "connecting" /\ ~retryTimer'[p]
    BY <1>1, <2>1 DEF HookTypes, PageInv
  <2>3. 1 \in Nat \ {None}
    BY DEF None
  <2>. QED  BY <2>1, <2>2, <2>3, OpensSocket
<1>3. CASE Reconnect(p)
  <2>1. /\ pending' = pending /\ connection' = [connection EXCEPT ![p] = "connecting"]
        /\ retryTimer' = [retryTimer EXCEPT ![p] = FALSE]
        /\ effect' = [effect EXCEPT ![p] = effect[p] + 1]
        /\ sockets' = Append(Closed(sockets, current[p]), NewSocket(p, effect[p] + 1))
        /\ current' = [current EXCEPT ![p] = Len(sockets) + 1] /\ connection[p] = "closed"
    BY <1>3 DEF Reconnect
  <2>2. current[p] = None
    BY <1>1, <2>1 DEF PageInv
  <2>3. HookTypes' /\ connection'[p] = "connecting" /\ ~retryTimer'[p]
    BY <1>1, <2>1 DEF HookTypes
  <2>4. \A q \in Page \ {p} : connection'[q] = connection[q] /\ retryTimer'[q] = retryTimer[q]
    BY <1>1, <2>1 DEF HookTypes
  <2>5. effect[p] + 1 \in Nat \ {None} /\ sockets' = Append(sockets, NewSocket(p, effect[p] + 1))
    BY <1>1, <2>1, <2>2 DEF None
  <2>. QED  BY <2>1, <2>2, <2>3, <2>4, <2>5, OpensSocket
<1>4. CASE RetryFires(p)
  <2>1. /\ pending' = pending /\ connection' = [connection EXCEPT ![p] = "connecting"]
        /\ retryTimer' = [retryTimer EXCEPT ![p] = FALSE]
        /\ effect' = effect /\ retryTimer[p]
        /\ sockets' = Append(sockets, NewSocket(p, effect[p]))
        /\ current' = [current EXCEPT ![p] = Len(sockets) + 1]
    BY <1>4 DEF RetryFires, Connect
  <2>2. current[p] = None /\ effect[p] \in Nat \ {None}
    BY <1>1, <2>1 DEF PageInv
  <2>3. HookTypes' /\ connection'[p] = "connecting" /\ ~retryTimer'[p]
    BY <1>1, <2>1 DEF HookTypes
  <2>4. \A q \in Page \ {p} : connection'[q] = connection[q] /\ retryTimer'[q] = retryTimer[q]
    BY <1>1, <2>1 DEF HookTypes
  <2>5. effect' = [effect EXCEPT ![p] = effect[p]]
    BY <1>1, <2>1
  <2>. QED  BY <2>1, <2>2, <2>3, <2>4, <2>5, OpensSocket
<1>. QED  BY <1>2, <1>3, <1>4

\* An effect that runs twice leaves a socket that closes and the current one.
LEMMA CurrentMountTwice ==
  ASSUME ConnInv, CurrentInv, NEW p \in Page, MountTwice(p) PROVE CurrentInv'
<1> DEFINE a == [NewSocket(p, 1) EXCEPT !.browser = "closing"]
           b == NewSocket(p, 2)
<1>1. /\ ConnectionsTypeOK /\ HookTypes /\ p \in Development /\ effect[p] = None
      /\ current \in [Page -> 0 .. Len(sockets)] /\ effect \in [Page -> Nat]
      /\ sockets' = sockets \o <<a, b>> /\ effect' = [effect EXCEPT ![p] = 2]
      /\ current' = [current EXCEPT ![p] = Len(sockets) + 2]
      /\ UNCHANGED <<retryTimer, connection, pending>>
  BY DEF ConnInv, ConnectionsTypeOK, CurrentInv, MountTwice
<1>2. /\ a.page = p /\ a.server = "none" /\ a.down = <<>> /\ a.browser = "closing"
      /\ b.page = p /\ b.server = "none" /\ b.down = <<>> /\ b.browser = "connecting"
  BY DEF NewSocket
<1>. HIDE DEF a, b
<1>3. PICK l \in Nat : l = Len(sockets) /\ DOMAIN sockets = 1 .. l
  BY <1>1, SocketFacts
<1>4. /\ DOMAIN sockets' = 1 .. l + 2 /\ sockets'[l + 1] = a /\ sockets'[l + 2] = b
      /\ \A m \in 1 .. l : sockets'[m] = sockets[m]
  <2>1. sockets \in Seq(Socket)
    BY <1>1 DEF ConnectionsTypeOK
  <2>. QED  BY <1>1, <1>3, <2>1
<1>5. /\ current'[p] = l + 2 /\ l + 2 # None /\ effect'[p] # None
      /\ \A q \in Page \ {p} : current'[q] = current[q] /\ effect'[q] = effect[q]
  BY <1>1, <1>3 DEF None
<1>6. \A n \in DOMAIN sockets' : SocketInv(n)'
  <2> SUFFICES ASSUME NEW n \in 1 .. l + 2 PROVE SocketInv(n)'
    BY <1>4
  <2>1. CASE n \in 1 .. l
    <3>1. sockets'[n] = sockets[n] /\ sockets[n].page \in Page /\ SocketInv(n)
      BY <1>1, <1>3, <1>4, <2>1, SocketFacts DEF Socket, CurrentInv
    <3>2. sockets[n].page # p
      BY <1>1, <3>1 DEF SocketInv
    <3>. QED  BY <1>5, <3>1, <3>2 DEF SocketInv
  <2>2. CASE n = l + 1 \/ n = l + 2
    BY <1>1, <1>2, <1>4, <1>5, <2>2 DEF SocketInv, Served
  <2>. QED  BY <2>1, <2>2
<1>7. ASSUME NEW q \in Page PROVE PageInv(q)' /\ PendingInv(q)'
  <2>0. PageInv(q) /\ PendingInv(q)
    BY DEF CurrentInv
  <2>1. CASE q = p
    <3>1. /\ sockets'[current'[q]] = b /\ connection'[q] = "connecting" /\ ~retryTimer'[q]
          /\ pending'[q] = {}
      BY <1>1, <1>4, <1>5, <2>0, <2>1 DEF PageInv, PendingInv
    <3>. QED  BY <1>1, <1>2, <1>5, <2>1, <3>1 DEF PageInv, PendingInv
  <2>2. CASE q # p
    <3>1. /\ current'[q] = current[q] /\ effect'[q] = effect[q] /\ connection'[q] = connection[q]
          /\ retryTimer'[q] = retryTimer[q] /\ pending'[q] = pending[q]
      BY <1>1, <1>5, <2>2
    <3>2. current[q] # None => sockets'[current[q]] = sockets[current[q]]
      <4>1. current[q] # None => current[q] \in 1 .. l
        BY <1>1, <1>3 DEF None
      <4>. QED  BY <1>4, <4>1
    <3>3. PageInv(q)'
      BY <2>0, <3>1, <3>2 DEF PageInv
    <3>4. PendingInv(q)'
      BY <2>0, <3>1, <3>2 DEF PendingInv, Answerable, CloseUnderWay
    <3>. QED  BY <3>3, <3>4
  <2>. QED  BY <2>1, <2>2
<1>. QED  BY <1>1, <1>6, <1>7 DEF CurrentInv, HookTypes

\* The page sends on its socket, and waits for the ack.
LEMMA CurrentSend ==
  ASSUME ConnInv, CurrentInv, NEW p \in Page, Send(p) PROVE CurrentInv'
<1> DEFINE n == current[p]
           t == [sockets[n] EXCEPT !.up = Append(@, next_cmd[p])]
<1>1. /\ ConnectionsTypeOK /\ HookTypes /\ PageInv(p) /\ PendingInv(p)
      /\ next_cmd[p] \in Nat /\ n \in 0 .. Len(sockets)
  BY DEF ConnInv, ConnectionsTypeOK, CurrentInv
<1>2. /\ pending' = [pending EXCEPT ![p] = @ \cup {next_cmd[p]}] /\ n # None
      /\ sockets' = [sockets EXCEPT ![n] = t] /\ sockets[n].browser = "open"
      /\ UNCHANGED <<current, effect, retryTimer, connection>>
  BY DEF Send
<1>3. n \in DOMAIN sockets /\ sockets[n] \in Socket /\ SocketInv(n)
  BY <1>1, <1>2, SocketFacts DEF None, CurrentInv
<1>4. /\ t.page = sockets[n].page /\ t.effect = sockets[n].effect
      /\ t.browser = sockets[n].browser /\ t.server = sockets[n].server
      /\ t.down = sockets[n].down /\ t.up = Append(sockets[n].up, next_cmd[p])
      /\ sockets[n].up \in Seq(Nat) /\ sockets[n].page = p
  BY <1>1, <1>2, <1>3 DEF Socket, PageInv
<1>5. ToSet(t.up) = ToSet(sockets[n].up) \cup {next_cmd[p]}
  BY <1>4, ToSetAppend
<1>6. Served(t)
  <2> HIDE DEF n, t
  <2>. QED  BY <1>3, <1>4 DEF SocketInv, Served, CloseUnderWay
<1>7. \A id \in pending'[p] : Answerable(t, id)
  <2> SUFFICES ASSUME NEW id \in pending'[p] PROVE Answerable(t, id)
    OBVIOUS
  <2>1. id \in pending[p] \/ id = next_cmd[p]
    BY <1>1, <1>2 DEF HookTypes
  <2>2. CASE id \in pending[p]
    <3>1. Answerable(sockets[n], id)
      BY <1>1, <2>2 DEF PendingInv
    <3>. HIDE DEF n, t
    <3>. QED  BY <3>1, <1>4, <1>5 DEF Answerable, CloseUnderWay
  <2>3. CASE id = next_cmd[p]
    <3>1. id \in ToSet(t.up) /\ t.browser = "open"
      BY <1>2, <1>4, <1>5, <2>3
    <3>. HIDE DEF n, t
    <3>. QED  BY <1>6, <3>1 DEF Answerable, Served
  <2>. QED  BY <2>1, <2>2, <2>3
<1>8. HookTypes' /\ \A q \in Page \ {p} : pending'[q] = pending[q]
  BY <1>1, <1>2 DEF HookTypes
<1>9. t.server = "none" => t.down = <<>>
  BY <1>3, <1>4 DEF SocketInv
<1>10. current[p] = n
  OBVIOUS
<1>. HIDE DEF n, t
<1>. QED  BY <1>2, <1>3, <1>4, <1>7, <1>8, <1>9, <1>10, <1>6, SocketGoesOn

\* The server answers, ends a session or takes one on.
LEMMA CurrentServer ==
  ASSUME ConnInv, CurrentInv, NEW n \in DOMAIN sockets, NEW t,
         sockets' = [sockets EXCEPT ![n] = t],
         t.page = sockets[n].page, t.effect = sockets[n].effect,
         t.browser = sockets[n].browser \/ (sockets[n].browser = "connecting" /\ t.browser = "open"),
         t.server # "none", Served(t),
         \A id : Answerable(sockets[n], id) => Answerable(t, id),
         UNCHANGED <<current, effect, retryTimer, connection, pending>>
  PROVE  CurrentInv'
<1>1. ConnectionsTypeOK /\ HookTypes
  BY DEF ConnInv, CurrentInv
<1>2. PICK p \in Page : p = t.page
  BY <1>1, SocketFacts DEF Socket
<1>3. PendingInv(p)
  BY DEF CurrentInv
<1>4. current[p] = n => \A id \in pending'[p] : Answerable(t, id)
  BY <1>3 DEF PendingInv
<1>5. HookTypes'
  BY <1>1 DEF HookTypes
<1>. QED  BY <1>2, <1>4, <1>5, SocketGoesOn

\* No command was waiting before an upgrade; one that is taken in becomes its
\* ack; a session ends after its close frame, or for a browser that has closed.
LEMMA CurrentServerSteps ==
  ASSUME ConnInv, CurrentInv, NEW n \in DOMAIN sockets,
         Upgrade(n) \/ Recv(n) \/ PeerGone(n) \/ \E code : CloseSession(n, code)
  PROVE  CurrentInv'
<1>1. sockets[n] \in Socket /\ SocketInv(n)
  BY SocketFacts DEF ConnInv, CurrentInv
<1>2. UNCHANGED <<current, effect, retryTimer, connection, pending>>
  BY DEF Upgrade, Recv, PeerGone, CloseSession, Ends
<1>3. CASE Upgrade(n)
  <2> DEFINE server == IF permits > 0 THEN "session" ELSE "over"
             down == <<IF permits > 0 THEN [type |-> "init"] ELSE CloseFrame(CLOSE_TRY_AGAIN_LATER)>>
             browser == IF sockets[n].browser = "connecting" THEN "open" ELSE sockets[n].browser
             t == [sockets[n] EXCEPT !.server = server, !.down = down, !.browser = browser]
  <2>1. sockets' = [sockets EXCEPT ![n] = t] /\ sockets[n].server = "none"
    BY <1>3 DEF Upgrade
  <2>2. server # "none" /\ (browser = sockets[n].browser \/
                            (sockets[n].browser = "connecting" /\ browser = "open"))
    OBVIOUS
  <2>3. sockets[n].down = <<>>
    BY <1>1, <2>1 DEF SocketInv
  <2>4. /\ t.page = sockets[n].page /\ t.effect = sockets[n].effect
        /\ t.browser = browser /\ t.server = server /\ t.down = down
    BY <1>1 DEF Socket
  <2>5. server = "session" \/ \E i \in DOMAIN down : down[i].type = "close"
    <3>1. CASE permits > 0
      BY <3>1
    <3>2. CASE ~(permits > 0)
      <4>1. down = <<CloseFrame(CLOSE_TRY_AGAIN_LATER)>>
        BY <3>2
      <4>2. 1 \in DOMAIN down /\ down[1].type = "close"
        BY <4>1 DEF CloseFrame
      <4>. QED  BY <4>2
    <3>. QED  BY <3>1, <3>2
  <2>. HIDE DEF server, down, browser, t
  <2>6. Served(t)
    BY <2>4, <2>5 DEF Served, CloseUnderWay
  <2>7. \A id : ~Answerable(sockets[n], id)
    <3>1. DOMAIN sockets[n].down = {}
      BY <2>3
    <3>. QED  BY <2>1, <3>1 DEF Answerable, CloseUnderWay
  <2>. QED  BY <1>2, <2>1, <2>2, <2>4, <2>6, <2>7, CurrentServer
<1>4. CASE Recv(n)
  <2> DEFINE ack == [type |-> "ack", id |-> Head(sockets[n].up)]
             t == [sockets[n] EXCEPT !.up = Tail(@), !.down = Append(@, ack)]
  <2>1. /\ sockets' = [sockets EXCEPT ![n] = t] /\ sockets[n].up # <<>>
        /\ sockets[n].server = "session" /\ ack.type = "ack" /\ ack.id = Head(sockets[n].up)
    BY <1>4 DEF Recv
  <2>. HIDE DEF ack
  <2>2. /\ t.page = sockets[n].page /\ t.effect = sockets[n].effect
        /\ t.browser = sockets[n].browser /\ t.server = sockets[n].server
        /\ t.up = Tail(sockets[n].up) /\ t.down = Append(sockets[n].down, ack)
        /\ sockets[n].up \in Seq(Nat) /\ sockets[n].down \in Seq(Message)
    BY <1>1 DEF Socket
  <2>. HIDE DEF t
  <2>3. PICK l \in Nat :
          /\ DOMAIN sockets[n].down = 1 .. l /\ DOMAIN t.down = 1 .. l + 1
          /\ \A i \in 1 .. l : t.down[i] = sockets[n].down[i]
          /\ t.down[l + 1] = ack
    <3>1. /\ Len(sockets[n].down) \in Nat /\ DOMAIN sockets[n].down = 1 .. Len(sockets[n].down)
          /\ DOMAIN t.down = 1 .. Len(sockets[n].down) + 1
          /\ \A i \in 1 .. Len(sockets[n].down) : t.down[i] = sockets[n].down[i]
          /\ t.down[Len(sockets[n].down) + 1] = ack
      BY <2>2
    <3>. QED  BY <3>1
  <2>4. \A i \in DOMAIN sockets[n].down : i \in DOMAIN t.down /\ t.down[i] = sockets[n].down[i]
    <3> SUFFICES ASSUME NEW i \in 1 .. l PROVE i \in 1 .. l + 1 /\ t.down[i] = sockets[n].down[i]
      BY <2>3
    <3>. QED  BY <2>3
  <2>5. Served(t)
    BY <2>1, <2>2 DEF Served
  <2>6. ASSUME NEW id, Answerable(sockets[n], id) PROVE Answerable(t, id)
    <3>1. t.browser = "open" /\ t.server = "session"
      BY <2>1, <2>2, <2>6 DEF Answerable
    <3>2. CASE id \in ToSet(sockets[n].up)
      <4>1. CASE id = Head(sockets[n].up)
        <5>1. l + 1 \in DOMAIN t.down /\ t.down[l + 1].type = "ack" /\ t.down[l + 1].id = id
          BY <2>1, <2>3, <4>1
        <5>. QED  BY <3>1, <5>1 DEF Answerable
      <4>2. CASE id # Head(sockets[n].up)
        <5>1. id \in ToSet(Tail(sockets[n].up))
          BY <2>1, <2>2, <3>2, <4>2, HeadOrTail
        <5>. QED  BY <2>2, <3>1, <5>1 DEF Answerable
      <4>. QED  BY <4>1, <4>2
    <3>3. CASE id \notin ToSet(sockets[n].up)
      BY <2>4, <2>6, <3>1, <3>3 DEF Answerable, CloseUnderWay
    <3>. QED  BY <3>2, <3>3
  <2>7. t.server # "none"
    BY <2>1, <2>2
  <2>. QED  BY <1>2, <2>1, <2>2, <2>5, <2>6, <2>7, CurrentServer
<1>5. CASE PeerGone(n)
  <2> DEFINE t == [sockets[n] EXCEPT !.server = "over", !.up = <<>>, !.down = <<>>]
  <2>1. sockets' = [sockets EXCEPT ![n] = t] /\ sockets[n].browser \in {"closing", "closed"}
    BY <1>5 DEF PeerGone, Ends
  <2>2. /\ t.page = sockets[n].page /\ t.effect = sockets[n].effect
        /\ t.browser = sockets[n].browser /\ t.server = "over"
    BY <1>1 DEF Socket
  <2>. HIDE DEF t
  <2>3. Served(t) /\ \A id : ~Answerable(sockets[n], id)
    BY <2>1, <2>2 DEF Served, Answerable
  <2>. QED  BY <1>2, <2>1, <2>2, <2>3, CurrentServer
<1>6. CASE \E code : CloseSession(n, code)
  <2>1. PICK code : CloseSession(n, code)
    BY <1>6
  <2> DEFINE down == Append(sockets[n].down, CloseFrame(code))
             t == [sockets[n] EXCEPT !.server = "over", !.up = <<>>, !.down = down]
  <2>2. sockets' = [sockets EXCEPT ![n] = t]
    BY <2>1 DEF CloseSession, Ends
  <2>3. /\ t.page = sockets[n].page /\ t.effect = sockets[n].effect
        /\ t.browser = sockets[n].browser /\ t.server = "over" /\ t.down = down
    BY <1>1 DEF Socket
  <2>4. \E i \in DOMAIN down : down[i].type = "close"
    <3>1. sockets[n].down \in Seq(Message) /\ CloseFrame(code).type = "close"
      BY <1>1 DEF Socket, CloseFrame
    <3>2. /\ Len(sockets[n].down) + 1 \in DOMAIN down
          /\ down[Len(sockets[n].down) + 1] = CloseFrame(code)
      BY <3>1
    <3>. QED  BY <3>1, <3>2
  <2>. HIDE DEF down, t
  <2>5. CloseUnderWay(t)
    BY <2>3, <2>4 DEF CloseUnderWay
  <2>6. Served(t) /\ \A id : Answerable(sockets[n], id) => Answerable(t, id)
    BY <2>3, <2>5 DEF Served, Answerable
  <2>. QED  BY <1>2, <2>2, <2>3, <2>6, CurrentServer
<1>. QED  BY <1>3, <1>4, <1>5, <1>6

\* The page takes the first message of its socket.
LEMMA CurrentMessage ==
  ASSUME ConnInv, CurrentInv, NEW n \in DOMAIN sockets, OnMessage(n) PROVE CurrentInv'
<1> DEFINE t == [sockets[n] EXCEPT !.down = Tail(@)]
           p == sockets[n].page
           m == Head(sockets[n].down)
<1>1. /\ ConnectionsTypeOK /\ HookTypes /\ sockets[n] \in Socket /\ p \in Page
      /\ SocketInv(n) /\ PageInv(p) /\ PendingInv(p)
  BY SocketFacts DEF ConnInv, CurrentInv, Socket
<1>2. /\ sockets[n].browser = "open" /\ sockets[n].down # <<>> /\ m.type # "close"
      /\ sockets' = [sockets EXCEPT ![n] = t]
      /\ UNCHANGED <<current, effect, retryTimer>>
      /\ \/ /\ m.type = "ack" /\ pending' = [pending EXCEPT ![p] = @ \ {m.id}]
            /\ connection' = connection
         \/ /\ m.type # "ack" /\ pending' = pending
            /\ connection' = [connection EXCEPT ![p] = "open"]
  BY DEF OnMessage
<1>3. /\ t.page = p /\ t.effect = sockets[n].effect /\ t.browser = sockets[n].browser
      /\ t.server = sockets[n].server /\ t.up = sockets[n].up /\ t.down = Tail(sockets[n].down)
      /\ sockets[n].down \in Seq(Message)
  BY <1>1 DEF Socket
<1>4. p = sockets[n].page /\ m = Head(sockets[n].down)
  OBVIOUS
<1>. HIDE DEF t, p, m
<1>5. t.server # "none"
  BY <1>1, <1>2, <1>3, <1>4 DEF SocketInv
<1>6. PICK l \in Nat :
        /\ DOMAIN sockets[n].down = 1 .. l + 1 /\ DOMAIN t.down = 1 .. l
        /\ \A i \in 1 .. l : t.down[i] = sockets[n].down[i + 1]
        /\ sockets[n].down[1] = m
  <2>1. /\ Len(sockets[n].down) - 1 \in Nat
        /\ DOMAIN sockets[n].down = 1 .. (Len(sockets[n].down) - 1) + 1
        /\ DOMAIN t.down = 1 .. Len(sockets[n].down) - 1
        /\ \A i \in 1 .. Len(sockets[n].down) - 1 : t.down[i] = sockets[n].down[i + 1]
        /\ sockets[n].down[1] = m
    BY <1>2, <1>3, <1>4
  <2>. QED  BY <2>1
<1>7. CloseUnderWay(sockets[n]) => CloseUnderWay(t)
  <2> SUFFICES ASSUME NEW i \in 1 .. l + 1, sockets[n].down[i].type = "close"
               PROVE  CloseUnderWay(t)
    BY <1>6 DEF CloseUnderWay
  <2>1. i # 1
    BY <1>2, <1>6
  <2>2. i - 1 \in 1 .. l /\ i - 1 + 1 = i
    BY ONLY <2>1, l \in Nat, i \in 1 .. l + 1
  <2>3. i - 1 \in DOMAIN t.down /\ t.down[i - 1] = sockets[n].down[i]
    BY <1>6, <2>2
  <2>. QED  BY <2>3 DEF CloseUnderWay
<1>8. Served(t)
  BY <1>1, <1>3, <1>7 DEF SocketInv, Served
<1>9. current[p] = n => \A id \in pending'[p] : Answerable(t, id)
  <2> SUFFICES ASSUME current[p] = n, NEW id \in pending'[p] PROVE Answerable(t, id)
    OBVIOUS
  <2>1. id \in pending[p] /\ (m.type = "ack" => m.id # id)
    BY <1>1, <1>2 DEF HookTypes
  <2>2. Answerable(sockets[n], id)
    BY <1>1, <2>1 DEF PendingInv
  <2>3. CASE \E i \in DOMAIN sockets[n].down :
               sockets[n].down[i].type = "ack" /\ sockets[n].down[i].id = id
    <3>1. PICK i \in 1 .. l + 1 : sockets[n].down[i].type = "ack" /\ sockets[n].down[i].id = id
      BY <1>6, <2>3
    <3>2. i # 1
      BY <1>6, <2>1, <3>1
    <3>3. i - 1 \in 1 .. l /\ i - 1 + 1 = i
      BY ONLY <3>2, l \in Nat, i \in 1 .. l + 1
    <3>4. i - 1 \in DOMAIN t.down /\ t.down[i - 1] = sockets[n].down[i]
      BY <1>6, <3>3
    <3>. QED  BY <1>2, <1>3, <3>1, <3>4 DEF Answerable
  <2>. QED  BY <1>3, <1>7, <2>2, <2>3 DEF Answerable
<1>10. HookTypes' /\ pending'[p] \subseteq pending[p] /\ \A q \in Page \ {p} : pending'[q] = pending[q]
  BY <1>1, <1>2 DEF HookTypes
<1>11. \A q \in Page : connection'[q] = connection[q] \/
        (q = p /\ sockets[n].browser = "open" /\ connection'[q] = "open")
  BY <1>1, <1>2 DEF HookTypes
<1>12. /\ t.page = sockets[n].page /\ t.effect = sockets[n].effect
       /\ t.browser = sockets[n].browser /\ t.server # "none"
       /\ UNCHANGED <<current, effect, retryTimer>>
       /\ sockets' = [sockets EXCEPT ![n] = t] /\ HookTypes'
  BY <1>2, <1>3, <1>4, <1>5, <1>10
<1>13. /\ \A q \in Page : connection'[q] = connection[q] \/
            (q = t.page /\ sockets[n].browser = "open" /\ connection'[q] = "open")
       /\ \A q \in Page \ {t.page} : pending'[q] = pending[q]
       /\ current[t.page] = n => \A id \in pending'[t.page] : Answerable(t, id)
       /\ pending'[t.page] \subseteq pending[t.page]
  BY <1>3, <1>9, <1>10, <1>11
<1>. QED  BY <1>8, <1>12, <1>13, SocketGoesOn

\* The page loses its socket.
LEMMA CurrentCloses ==
  ASSUME ConnInv, CurrentInv, NEW n \in DOMAIN sockets, FrameCloses(n) \/ CloseDone(n) \/ Breaks(n)
  PROVE  CurrentInv'
<1>0. PICK t, p : t = [sockets[n] EXCEPT !.browser = "closed", !.down = <<>>]
                  /\ p = sockets[n].page
  OBVIOUS
<1>1. /\ ConnectionsTypeOK /\ HookTypes /\ sockets[n] \in Socket /\ p \in Page
      /\ SocketInv(n) /\ PageInv(p) /\ n # None
      /\ current \in [Page -> 0 .. Len(sockets)]
  <2>1. ConnectionsTypeOK /\ HookTypes /\ n # None
    BY SocketFacts DEF ConnInv, CurrentInv, None
  <2>. QED  BY <1>0, <2>1, SocketFacts DEF CurrentInv, Socket, ConnectionsTypeOK
<1>2. /\ sockets[n].browser # "closed" /\ sockets' = [sockets EXCEPT ![n] = t]
      /\ \E code : OnClose(n, code)
  BY <1>0 DEF FrameCloses, CloseDone, Breaks
<1>3. /\ effect[p] # None
      /\ p \notin Development => current[p] = n /\ sockets[n].effect = effect[p]
  BY <1>0, <1>1, <1>2 DEF SocketInv
<1>4. PICK code : OnClose(n, code)
  BY <1>2
<1>5. /\ current' = [current EXCEPT ![p] = None] /\ pending' = [pending EXCEPT ![p] = {}]
      /\ effect' = effect
      /\ \/ /\ p \in Development /\ UNCHANGED <<connection, retryTimer>>
         \/ /\ connection' = [connection EXCEPT ![p] = IF Retries(code) THEN "retrying" ELSE "closed"]
            /\ retryTimer' = [retryTimer EXCEPT ![p] = Retries(code)]
  BY <1>0, <1>3, <1>4 DEF OnClose, Resolve, disposed
<1>6. /\ t.page = p /\ t.browser = "closed" /\ t.down = <<>>
  BY <1>0, <1>1 DEF Socket
<1>7. p = sockets[n].page /\ Retries(code) \in BOOLEAN
  BY <1>0 DEF Retries
<1>8. /\ current'[p] = None /\ pending'[p] = {} /\ effect'[p] # None
      /\ p \notin Development => connection'[p] \in {"retrying", "closed"}
      /\ \A q \in Page \ {p} :
           /\ current'[q] = current[q] /\ effect'[q] = effect[q]
           /\ connection'[q] = connection[q] /\ retryTimer'[q] = retryTimer[q]
           /\ pending'[q] = pending[q]
  BY <1>1, <1>3, <1>5 DEF HookTypes
<1>9. HookTypes'
  BY <1>1, <1>5, <1>7 DEF HookTypes
<1>10. sockets'[n] = t /\ \A m \in DOMAIN sockets \ {n} : sockets'[m] = sockets[m]
  BY <1>2
<1>11. SocketInv(n)' /\ PageInv(p)' /\ PendingInv(p)'
  <2>1. SocketInv(n)'
    BY <1>6, <1>8, <1>10 DEF SocketInv, Served
  <2>2. PageInv(p)' /\ PendingInv(p)'
    BY <1>8 DEF PageInv, PendingInv
  <2>. QED  BY <2>1, <2>2
<1>12. \A m \in DOMAIN sockets \ {n} : sockets[m].page = p => SocketInv(m)'
  <2> SUFFICES ASSUME NEW m \in DOMAIN sockets \ {n}, sockets[m].page = p PROVE SocketInv(m)'
    OBVIOUS
  <2>1. SocketInv(m) /\ sockets'[m] = sockets[m]
    BY <1>10 DEF CurrentInv
  <2>2. p \notin Development => sockets[m].browser = "closed"
    BY <1>3, <2>1 DEF SocketInv
  <2>. QED  BY <1>8, <2>1, <2>2 DEF SocketInv
<1>13. /\ t.page = sockets[n].page /\ sockets' = [sockets EXCEPT ![n] = t]
       /\ PageInv(t.page)' /\ PendingInv(t.page)'
  BY <1>2, <1>6, <1>7, <1>11
<1>14. /\ \A q \in Page \ {t.page} :
            /\ current'[q] = current[q] /\ effect'[q] = effect[q]
            /\ connection'[q] = connection[q] /\ retryTimer'[q] = retryTimer[q]
            /\ pending'[q] = pending[q]
       /\ \A m \in DOMAIN sockets \ {n} : sockets[m].page = t.page => SocketInv(m)'
  BY <1>6, <1>8, <1>12
<1>. QED  BY <1>9, <1>11, <1>13, <1>14, SocketMoves

LEMMA CurrentNext == ConnInv /\ CurrentInv /\ [Next]_vars => CurrentInv'
<1> SUFFICES ASSUME ConnInv, CurrentInv, [Next]_vars PROVE CurrentInv'
  OBVIOUS
<1>1. CASE UNCHANGED vars
  BY <1>1 DEF vars, CurrentInv, HookTypes, SocketInv, PageInv, PendingInv, Served, CloseUnderWay,
              Answerable
<1>2. ASSUME NEW p \in Page,
             Mount(p) \/ MountTwice(p) \/ Reconnect(p) \/ RetryFires(p) \/ Send(p)
      PROVE  CurrentInv'
  BY <1>2, CurrentPageSteps, CurrentMountTwice, CurrentSend
<1>3. ASSUME NEW n \in DOMAIN sockets, PeerGone(n) \/ \E code : CloseSession(n, code)
      PROVE  CurrentInv'
  BY <1>3, CurrentServerSteps
<1>4. ASSUME NEW n \in DOMAIN sockets, Network(n) \/ Breaks(n) PROVE CurrentInv'
  BY <1>3, <1>4, CurrentServerSteps, CurrentMessage, CurrentCloses DEF Network
<1>. QED  BY <1>1, <1>2, <1>3, <1>4 DEF Next

(***************************************************************************)
(* However sockets close, break, are turned away and are retried, every    *)
(* command that waits will be answered or rejected: those sent before the  *)
(* init of their session too, and those of a development build             *)
(* (useSimulation.ts:51).  In a production build the current socket is the *)
(* only one, and open while the page says so.                              *)
(***************************************************************************)
THEOREM SocketStaysCurrent == Spec => []CurrentSocket
<1>1. Init => ConnInv /\ CurrentInv
  <2> SUFFICES ASSUME Init PROVE CurrentInv
    BY ConnInit
  <2>1. DOMAIN sockets = {}
    BY DEF Init
  <2>2. HookTypes
    BY DEF Init, HookTypes
  <2>3. \A p \in Page : PageInv(p) /\ PendingInv(p)
    BY DEF Init, PageInv, PendingInv, None
  <2>. QED  BY <2>1, <2>2, <2>3 DEF CurrentInv
<1>2. ConnInv /\ CurrentInv => CurrentSocket
  <2> SUFFICES ASSUME ConnInv, CurrentInv PROVE CurrentSocket
    OBVIOUS
  <2>1. OneSocketPerPage
    BY DEF CurrentInv, SocketInv, OneSocketPerPage
  <2>2. OpenMeansConnected
    BY DEF CurrentInv, PageInv, OpenMeansConnected
  <2>3. PendingOnCurrent
    <3> SUFFICES ASSUME NEW p \in Page, NEW id \in pending[p]
                 PROVE  current[p] # None /\ Answerable(sockets[current[p]], id)
      BY DEF PendingOnCurrent
    <3>. QED  BY DEF CurrentInv, PendingInv
  <2>. QED  BY <2>1, <2>2, <2>3 DEF CurrentSocket
<1>. QED  BY <1>1, <1>2, ConnNextInv, CurrentNext, PTL DEF Spec

=============================================================================
