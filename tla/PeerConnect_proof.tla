--------------------------- MODULE PeerConnect_proof ---------------------------
(***************************************************************************)
(* What connections to a peer keep for any calls, requests and sockets:      *)
(* types, CallsSettle and ListedWhileOpen, from one inductive invariant.       *)
(***************************************************************************)
EXTENDS PeerConnect, TLAPS

Records ==
  [state : {"UNINITIALIZED", "CONNECTING", "CONNECTED", "CLOSING", "CLOSED"},
   init : BOOLEAN, listed : BOOLEAN, open : BOOLEAN, closing : BOOLEAN,
   making : Ended \cup {"address", "stranded", "connecting", "sending", "emits",
                        "fails", "receives", "drops", "accepts"},
   ticket : Calls \cup {None}, early : BOOLEAN, given : BOOLEAN]

CallRecords ==
  [at : {"idle", "waits", "settles", "cancels", "returned", "raised", "cancelled"},
   mode : {"race", "fallback"}, result : Connections \cup {None}]

(* What is true of one connection.  While it is opened it is listed or was      *)
(* closed early, and it has no transport before; closed it is not listed; who   *)
(* is done made it initialised.                                              *)
Sound(r) ==
  /\ r.open /\ ~r.early => r.listed
  /\ r.listed /\ ~r.given => r.open \/ r.making = "connecting"
  /\ r.state = "CLOSED" => ~r.listed
  /\ r.given => r.making = "cancelled"
  /\ r.making = "connecting" => \/ r.state = "CONNECTING" /\ r.listed
                                \/ r.state = "CLOSED" /\ r.early
  /\ r.making \in {"none", "address", "stranded", "connecting"} => ~r.open /\ ~r.closing
  /\ r.closing => r.open
  /\ r.making \in {"emits", "made"} => r.init

(* A socket is open from the start and as long as it is listed, and nobody       *)
(* connects it.                                                              *)
SoundSocket(r) ==
  /\ r.listed <=> r.open
  /\ r.making \notin {"address", "stranded", "connecting", "sending", "fails"}

(* What no step takes back: an initialised connection, and the end of the task     *)
(* that made it.                                                             *)
Later(r, q) ==
  /\ r.init => q.init
  /\ r.making \in Ended \ {"none"} => q.making = r.making /\ q.ticket = r.ticket

(* The result of a call is its own connection or the one its future got.        *)
Made(c) ==
  \/ call[c].result = c /\ conn[c].making = "made"
  \/ call[c].result \in Sockets /\ call[c].result = future[c]

(* Or the call found it before it tried anything.                             *)
Found(c) ==
  /\ indirect[c] = "none" /\ conn[c].making = "none"
  /\ call[c].result \in Connections /\ conn[call[c].result].init

CallOK(c) ==
  /\ call[c].at = "idle" => indirect[c] = "none" /\ conn[c].making = "none"
  /\ future[c] = "pending" \/ refusal[c] = "pending" => indirect[c] \in {"sends", "waits"}
  /\ future[c] \in Sockets => conn[future[c]].making = "made" /\ conn[future[c]].ticket = c
  /\ indirect[c] = "made" => future[c] \in Sockets
  /\ call[c].at = "settles" => Made(c)
  /\ call[c].at = "returned" => Made(c) \/ Found(c)
  /\ Over(c) => AttemptsOver(c)

ConnectionsSound ==
  /\ \A k \in Connections : Sound(conn[k])
  /\ \A s \in Sockets : SoundSocket(conn[s])

PeerInv == TypeOK /\ ConnectionsSound /\ \A c \in Calls : CallOK(c)

---------------------------------------------------------------------------
(* What connect, disconnect and their interruptions do to one connection.      *)
LEMMA ConnectingSound ==
  ASSUME NEW r \in Records, Sound(r), r.making \in {"none", "address", "stranded"}
  PROVE  Connecting(r) \in Records /\ Sound(Connecting(r)) /\ Later(r, Connecting(r))
BY DEF Records, Sound, Later, Connecting, Ended

(* A connection that comes up is open, listed or closed early.                   *)
LEMMA OpenedSound ==
  ASSUME NEW r \in Records, Sound(r), r.making = "connecting"
  PROVE  /\ OpenedAs(r, "sending") \in Records /\ Sound(OpenedAs(r, "sending"))
         /\ Later(r, OpenedAs(r, "sending"))
BY DEF Records, Sound, Later, OpenedAs, Ended

(* Disconnecting leaves the task that makes the connection where it is.            *)
LEMMA DisconnectingSound ==
  ASSUME NEW r \in Records, Sound(r)
  PROVE  /\ Disconnecting(r) \in Records /\ Sound(Disconnecting(r))
         /\ Later(r, Disconnecting(r)) /\ Disconnecting(r).making = r.making
         /\ SoundSocket(r) => SoundSocket(Disconnecting(r))
<1>1. CASE r.state \in ClosingStates
  BY <1>1 DEF Disconnecting, Later, Records
<1>2. CASE r.state \notin ClosingStates /\ r.open
  <2> DEFINE q == Disconnecting(r)
  <2>1. q = [r EXCEPT !.state = "CLOSING", !.closing = TRUE]
    BY <1>2 DEF Disconnecting
  <2>2. q \in Records
    BY <2>1 DEF Records
  <2>3. /\ q.state = "CLOSING" /\ q.closing /\ q.making = r.making /\ q.listed = r.listed
        /\ q.open = r.open /\ q.init = r.init /\ q.given = r.given /\ q.ticket = r.ticket
        /\ q.early = r.early
    BY <2>1 DEF Records
  <2> HIDE DEF q
  <2>4. Sound(q) /\ Later(r, q) /\ (SoundSocket(r) => SoundSocket(q))
    BY <2>3, <1>2 DEF Sound, SoundSocket, Later
  <2> QED BY <2>2, <2>3, <2>4 DEF q
<1>3. CASE r.state \notin ClosingStates /\ ~r.open
  <2> DEFINE q == Disconnecting(r)
             early == r.early \/ r.state = "CONNECTING"
  <2>1. q = [r EXCEPT !.state = "CLOSED", !.listed = FALSE, !.early = early]
    BY <1>3 DEF Disconnecting
  <2>2. early \in BOOLEAN
    BY DEF Records
  <2> HIDE DEF early
  <2>3. q \in Records
    BY <2>1, <2>2 DEF Records
  <2>4. /\ q.state = "CLOSED" /\ ~q.listed /\ q.making = r.making
        /\ q.open = r.open /\ q.init = r.init /\ q.given = r.given /\ q.ticket = r.ticket
        /\ q.closing = r.closing /\ (q.early <=> early)
    BY <2>1, <2>2 DEF Records
  <2> HIDE DEF q
  <2>5. Sound(q) /\ Later(r, q) /\ (SoundSocket(r) => SoundSocket(q))
    BY <2>4, <1>3 DEF Sound, SoundSocket, Later, ClosingStates, early
  <2> QED BY <2>3, <2>4, <2>5 DEF q
<1> QED BY <1>1, <1>2, <1>3

(* A failed attempt disconnects what it was opening.                            *)
LEMMA FailingSound ==
  ASSUME NEW r \in Records, Sound(r), r.making \in {"connecting", "sending"}
  PROVE  Failing(r) \in Records /\ Sound(Failing(r)) /\ Later(r, Failing(r))
<1> DEFINE d == Disconnecting(r)
<1>1. d \in Records /\ Sound(d) /\ Later(r, d) /\ d.making = r.making
  BY DisconnectingSound
<1>2. CASE r.open /\ r.state \notin ClosingStates
  <2>1. Failing(r) = [d EXCEPT !.making = "fails"]
    BY <1>2 DEF Failing
  <2>2. r.making = "sending"
    BY <1>2 DEF Sound
  <2> HIDE DEF d
  <2> QED BY <1>1, <2>1, <2>2 DEF Records, Sound, Later, Ended
<1>3. CASE ~(r.open /\ r.state \notin ClosingStates)
  <2>1. Failing(r) = [d EXCEPT !.making = "failed", !.early = r.early]
    BY <1>3 DEF Failing
  <2>2. /\ d.open = r.open /\ d.closing = r.closing /\ d.given = r.given
        /\ d.init = r.init /\ d.ticket = r.ticket
    BY <1>3 DEF Disconnecting, Records
  <2>3. r.early \in BOOLEAN
    BY DEF Records
  <2>4. ~d.open \/ d.listed \/ r.early
    <3>1. CASE r.state \in ClosingStates
      BY <3>1 DEF Disconnecting, Sound
    <3>2. CASE r.state \notin ClosingStates
      BY <1>3, <2>2, <3>2
    <3> QED BY <3>1, <3>2
  <2>5. d.listed /\ ~d.given => d.open
    <3>1. CASE r.making = "sending"
      BY <1>1, <3>1 DEF Sound
    <3>2. CASE r.making = "connecting"
      <4>1. r.state \in {"CONNECTING", "CLOSED"}
        BY <3>2 DEF Sound
      <4>2. d.state = "CLOSED"
        BY <1>3, <4>1 DEF Disconnecting, ClosingStates, Records
      <4> QED BY <1>1, <4>2 DEF Sound
    <3> QED BY <3>1, <3>2
  <2> HIDE DEF d
  <2>6. Failing(r) \in Records
    BY <1>1, <2>1, <2>3 DEF Records, Ended
  <2>7. /\ Failing(r).making = "failed" /\ Failing(r).open = d.open
        /\ Failing(r).closing = d.closing /\ Failing(r).given = d.given
        /\ Failing(r).listed = d.listed /\ Failing(r).state = d.state
        /\ Failing(r).early = r.early /\ Failing(r).init = d.init
    BY <1>1, <2>1 DEF Records
  <2> QED BY <1>1, <2>2, <2>4, <2>5, <2>6, <2>7 DEF Sound, Later, Ended
<1> QED BY <1>2, <1>3

(* A closed connection leaves the list; those who awaited it go on.               *)
LEMMA ClosedSound ==
  ASSUME NEW r \in Records, Sound(r), r.closing
  PROVE  /\ ClosedOff(r) \in Records /\ Sound(ClosedOff(r)) /\ Later(r, ClosedOff(r))
         /\ r.making \in Ended => ClosedOff(r).making = r.making
         /\ SoundSocket(r) => SoundSocket(ClosedOff(r))
BY DEF Records, Sound, SoundSocket, Later, ClosedOff, Ended, ClosingStates

(* A cancelled task is over, and one that was over is not changed.                *)
LEMMA AbandonedSound ==
  ASSUME NEW r \in Records, Sound(r)
  PROVE  /\ Abandoned(r) \in Records /\ Sound(Abandoned(r)) /\ Later(r, Abandoned(r))
         /\ Abandoned(r).making \in Ended
         /\ r.making \in Ended => Abandoned(r) = r
<1>1. CASE r.making \in Ended
  BY <1>1 DEF Abandoned, Later, Ended
<1>2. CASE r.making = "fails"
  BY <1>2 DEF Records, Sound, Later, Abandoned, ClosedOff, Ended
<1>3. CASE r.making \notin Ended /\ r.making # "fails"
  <2> DEFINE q == Abandoned(r)
             lost == r.making \in {"connecting", "sending"}
  <2>1. q = [r EXCEPT !.making = "cancelled", !.given = lost]
    BY <1>3 DEF Abandoned
  <2>2. lost \in BOOLEAN
    OBVIOUS
  <2> HIDE DEF lost
  <2>3. q \in Records
    BY <2>1, <2>2 DEF Records, Ended
  <2>4. /\ q.making = "cancelled" /\ q.state = r.state /\ q.listed = r.listed
        /\ q.open = r.open /\ q.init = r.init /\ q.early = r.early
        /\ q.closing = r.closing /\ (q.given <=> lost)
    BY <2>1, <2>2 DEF Records
  <2> HIDE DEF q
  <2>5. Sound(q) /\ Later(r, q) /\ q.making \in Ended
    BY <2>4, <1>3 DEF Sound, Later, Ended, lost
  <2> QED BY <2>3, <2>5, <1>3 DEF q
<1> QED BY <1>1, <1>2, <1>3

---------------------------------------------------------------------------
(* A call that does nothing itself keeps what it knows: a future that got a      *)
(* socket, or a connection that was made, is not taken back.                   *)
LEMMA Undisturbed ==
  ASSUME PeerInv, NEW c \in Calls,
         call'[c] = call[c], indirect'[c] = indirect[c],
         future'[c] = future[c], refusal'[c] = refusal[c],
         \A k \in Connections : Later(conn[k], conn'[k]),
         conn[c].making = "none" => conn'[c].making = "none"
  PROVE  CallOK(c)'
<1>1. CallOK(c) /\ c \in Connections /\ Sockets \subseteq Connections
  BY DEF PeerInv, Connections
<1>2. conn[c].making \in Ended => conn'[c].making = conn[c].making
  BY <1>1 DEF Later, Ended
<1>3. future[c] \in Sockets => conn'[future[c]].making = "made" /\ conn'[future[c]].ticket = c
  BY <1>1 DEF CallOK, Later, Ended
<1>4. Made(c) => Made(c)'
  BY <1>2 DEF Made, Ended
<1>5. Found(c) => Found(c)'
  BY DEF Found, Later
<1>6. AttemptsOver(c) => AttemptsOver(c)'
  BY <1>2 DEF AttemptsOver
<1> QED BY <1>1, <1>2, <1>3, <1>4, <1>5, <1>6 DEF CallOK, Over

(* A step of one connection.                                                 *)
LEMMA OneSound ==
  ASSUME PeerInv, NEW k \in Connections, NEW q \in Records,
         Sound(q), Later(conn[k], q), k \in Sockets => SoundSocket(q),
         conn' = [conn EXCEPT ![k] = q]
  PROVE  /\ conn' \in [Connections -> Records] /\ ConnectionsSound'
         /\ \A l \in Connections : Later(conn[l], conn'[l])
         /\ conn'[k] = q /\ \A l \in Connections \ {k} : conn'[l] = conn[l]
<1>1. conn \in [Connections -> Records] /\ Sockets \subseteq Connections
  BY DEF PeerInv, TypeOK, Records, Connections
<1>2. conn'[k] = q /\ \A l \in Connections \ {k} : conn'[l] = conn[l]
  BY <1>1
<1>3. ConnectionsSound'
  BY <1>1, <1>2 DEF PeerInv, ConnectionsSound
<1>4. \A l \in Connections : Later(conn[l], conn'[l])
  BY <1>2 DEF Later
<1> QED BY <1>1, <1>2, <1>3, <1>4

(* A step of connections alone: the calls keep what they know.                *)
LEMMA CallsWait ==
  ASSUME PeerInv, UNCHANGED <<call, indirect, future, refusal>>,
         conn' \in [Connections -> Records], ConnectionsSound',
         \A k \in Connections : Later(conn[k], conn'[k]),
         \A c \in Calls : conn[c].making = "none" => conn'[c].making = "none",
         server' \in BOOLEAN, closes' \in 0..MaxCloses
  PROVE  PeerInv'
<1>1. TypeOK'
  BY DEF PeerInv, TypeOK, Records
<1>2. \A c \in Calls : CallOK(c)'
  BY Undisturbed
<1> QED BY <1>1, <1>2 DEF PeerInv

(* A step of one connection and of no call.                                    *)
LEMMA OneMoves ==
  ASSUME PeerInv, UNCHANGED <<call, indirect, future, refusal>>,
         NEW k \in Connections, NEW q \in Records,
         Sound(q), Later(conn[k], q), k \in Sockets => SoundSocket(q),
         k \in Calls /\ conn[k].making = "none" => q.making = "none",
         conn' = [conn EXCEPT ![k] = q],
         server' \in BOOLEAN, closes' \in 0..MaxCloses
  PROVE  PeerInv'
<1>1. /\ conn' \in [Connections -> Records] /\ ConnectionsSound'
      /\ \A l \in Connections : Later(conn[l], conn'[l])
      /\ conn'[k] = q /\ \A l \in Connections \ {k} : conn'[l] = conn[l]
  BY OneSound
<1>2. \A c \in Calls : conn[c].making = "none" => conn'[c].making = "none"
  BY <1>1 DEF Connections
<1> QED BY <1>1, <1>2, CallsWait

(* What the invariant says of one connection.                                  *)
LEMMA Facts ==
  ASSUME PeerInv
  PROVE  /\ conn \in [Connections -> Records]
         /\ call \in [Calls -> CallRecords]
         /\ Calls \subseteq Connections /\ Requests \subseteq Connections
         /\ Sockets \subseteq Connections
         /\ server \in BOOLEAN /\ closes \in 0..MaxCloses
         /\ \A k \in Connections : conn[k] \in Records /\ Sound(conn[k])
         /\ \A s \in Sockets : SoundSocket(conn[s])
BY DEF PeerInv, TypeOK, Records, CallRecords, Connections, ConnectionsSound

(* The bound on closings.                                                     *)
LEMMA BoundHolds == ASSUME PeerInv, Bounded PROVE closes' \in 0..MaxCloses
BY PeerConnectAssumption DEF PeerInv, TypeOK, Bounded

---------------------------------------------------------------------------
(* A connection is closed.                                                     *)
LEMMA ClosedKeeps ==
  ASSUME PeerInv, NEW k \in Connections, Closed(k)
  PROVE  PeerInv'
<1> DEFINE q == ClosedOff(conn[k])
<1>1. /\ q \in Records /\ Sound(q) /\ Later(conn[k], q)
      /\ conn[k].making \in Ended => q.making = conn[k].making
      /\ SoundSocket(conn[k]) => SoundSocket(q)
  BY Facts, ClosedSound DEF Closed
<1>2. k \in Calls /\ conn[k].making = "none" => q.making = "none"
  BY <1>1 DEF Ended
<1>3. conn' = [conn EXCEPT ![k] = q] /\ server' = server /\ closes' = closes
      /\ UNCHANGED <<call, indirect, future, refusal>>
  BY DEF Closed
<1> HIDE DEF q
<1> QED BY <1>1, <1>2, <1>3, Facts, OneMoves

(* Disconnecting a connection that is listed.                                  *)
LEMMA ClosesKeeps ==
  ASSUME PeerInv, NEW k \in Connections, Closes(k)
  PROVE  PeerInv'
<1> DEFINE q == Disconnecting(conn[k])
<1>1. /\ q \in Records /\ Sound(q) /\ Later(conn[k], q) /\ q.making = conn[k].making
      /\ SoundSocket(conn[k]) => SoundSocket(q)
  BY Facts, DisconnectingSound
<1>2. conn' = [conn EXCEPT ![k] = q] /\ server' = server /\ closes' \in 0..MaxCloses
      /\ UNCHANGED <<call, indirect, future, refusal>>
  BY BoundHolds DEF Closes
<1> HIDE DEF q
<1> QED BY <1>1, <1>2, Facts, OneMoves

(* The socket is opened or not; sockets that the peer made are not connected.      *)
LEMMA OpensKeeps ==
  ASSUME PeerInv, NEW k \in Connections, Opens(k)
  PROVE  PeerInv'
<1>1. conn[k] \in Records /\ Sound(conn[k]) /\ k \notin Sockets
      /\ conn[k].making = "connecting"
  BY Facts DEF Opens, SoundSocket
<1>2. PICK q \in {OpenedAs(conn[k], "sending"), Failing(conn[k])} :
        conn' = [conn EXCEPT ![k] = q]
  BY DEF Opens
<1>3. q \in Records /\ Sound(q) /\ Later(conn[k], q)
  BY <1>1, <1>2, OpenedSound, FailingSound
<1>4. server' = server /\ closes' = closes /\ UNCHANGED <<call, indirect, future, refusal>>
  BY DEF Opens
<1> QED BY <1>1, <1>2, <1>3, <1>4, Facts, OneMoves

(* The first message makes the connection initialised.                          *)
LEMMA SendsKeeps ==
  ASSUME PeerInv, NEW k \in Connections, Sends(k)
  PROVE  PeerInv'
<1> DEFINE sent == [conn[k] EXCEPT !.init = TRUE, !.making = "emits"]
<1>1. conn[k] \in Records /\ Sound(conn[k]) /\ k \notin Sockets
      /\ conn[k].making = "sending"
  BY Facts DEF Sends, SoundSocket
<1>2. PICK q \in {sent, Failing(conn[k])} : conn' = [conn EXCEPT ![k] = q]
  <2>1. [conn EXCEPT ![k].init = TRUE, ![k].making = "emits"] = [conn EXCEPT ![k] = sent]
    BY <1>1, Facts DEF Records
  <2> QED BY <2>1 DEF Sends
<1>3. sent \in Records /\ Sound(sent) /\ Later(conn[k], sent)
  BY <1>1 DEF Records, Sound, Later, Ended
<1>4. q \in Records /\ Sound(q) /\ Later(conn[k], q)
  BY <1>1, <1>2, <1>3, FailingSound
<1>5. server' = server /\ closes' = closes /\ UNCHANGED <<call, indirect, future, refusal>>
  BY DEF Sends
<1> QED BY <1>1, <1>2, <1>4, <1>5, Facts, OneMoves

(* The task is over: what it made was initialised.                              *)
LEMMA EmitsKeeps ==
  ASSUME PeerInv, NEW k \in Connections, Emits(k)
  PROVE  PeerInv'
<1> DEFINE q == [conn[k] EXCEPT !.making = "made"]
<1>1. conn[k] \in Records /\ Sound(conn[k]) /\ k \notin Sockets /\ conn[k].making = "emits"
  BY Facts DEF Emits
<1>2. q \in Records /\ Sound(q) /\ Later(conn[k], q)
  BY <1>1 DEF Records, Sound, Later, Ended
<1>3. conn' = [conn EXCEPT ![k] = q] /\ server' = server /\ closes' = closes
      /\ UNCHANGED <<call, indirect, future, refusal>>
  BY DEF Emits
<1> HIDE DEF q
<1> QED BY <1>1, <1>2, <1>3, Facts, OneMoves

(* A request starts a connection of its own.                                   *)
LEMMA ConnectToPeerKeeps ==
  ASSUME PeerInv, NEW r \in Requests, ConnectToPeer(r)
  PROVE  PeerInv'
<1> DEFINE q == Connecting(conn[r])
<1>1. conn[r] \in Records /\ Sound(conn[r]) /\ r \notin Sockets /\ r \notin Calls
      /\ conn[r].making = "none" /\ r \in Connections
  BY Facts, PeerConnectAssumption DEF ConnectToPeer, Fresh
<1>2. q \in Records /\ Sound(q) /\ Later(conn[r], q)
  BY <1>1, ConnectingSound
<1>3. conn' = [conn EXCEPT ![r] = q] /\ server' = server /\ closes' = closes
      /\ UNCHANGED <<call, indirect, future, refusal>>
  BY DEF ConnectToPeer
<1> HIDE DEF q
<1> QED BY <1>1, <1>2, <1>3, Facts, OneMoves

(* A socket is listed and open from the start.                                  *)
LEMMA AcceptKeeps ==
  ASSUME PeerInv, NEW s \in Sockets, Accept(s)
  PROVE  PeerInv'
<1> DEFINE q == [Fresh EXCEPT !.listed = TRUE, !.open = TRUE, !.making = "receives"]
<1>1. conn[s] = Fresh /\ s \in Connections /\ s \notin Calls /\ Fresh \in Records
  BY Facts, PeerConnectAssumption DEF Accept
<1>2. q \in Records /\ Sound(q) /\ Later(Fresh, q) /\ SoundSocket(q)
  BY <1>1 DEF Fresh, Records, Sound, SoundSocket, Later, Ended, ClosingStates
<1>3. conn' = [conn EXCEPT ![s] = q] /\ server' = server /\ closes' = closes
      /\ UNCHANGED <<call, indirect, future, refusal>>
  BY <1>1, Facts DEF Accept
<1> HIDE DEF q
<1> QED BY <1>1, <1>2, <1>3, Facts, OneMoves

(* A socket is initialised with the ticket it presents, or dropped.               *)
LEMMA ReceivesKeeps ==
  ASSUME PeerInv, NEW s \in Sockets, Receives(s)
  PROVE  PeerInv'
<1> DEFINE r == conn[s]
           drop == IF r.state \in ClosingStates THEN [r EXCEPT !.making = "accepts"]
                   ELSE [Disconnecting(r) EXCEPT !.making = "drops"]
<1>1. r \in Records /\ Sound(r) /\ SoundSocket(r) /\ r.making = "receives"
      /\ s \in Connections /\ s \notin Calls
  BY Facts, PeerConnectAssumption DEF Receives
<1>2. drop \in Records /\ Sound(drop) /\ SoundSocket(drop) /\ Later(r, drop)
  <2>1. CASE r.state \in ClosingStates
    BY <1>1, <2>1 DEF Records, Sound, SoundSocket, Later, Ended
  <2>2. CASE r.state \notin ClosingStates
    <3> DEFINE d == Disconnecting(r)
    <3>1. d \in Records /\ Sound(d) /\ SoundSocket(d) /\ Later(r, d) /\ d.making = r.making
      BY <1>1, DisconnectingSound
    <3> HIDE DEF d
    <3>2. /\ [d EXCEPT !.making = "drops"] \in Records
          /\ Sound([d EXCEPT !.making = "drops"])
          /\ SoundSocket([d EXCEPT !.making = "drops"])
          /\ Later(r, [d EXCEPT !.making = "drops"])
      BY <1>1, <3>1 DEF Records, Sound, SoundSocket, Later, Ended
    <3> QED BY <2>2, <3>2 DEF d
  <2> QED BY <2>1, <2>2
<1>3. ASSUME NEW c \in Calls \cup {None}
      PROVE  /\ Initialized(s, c) \in Records /\ Sound(Initialized(s, c))
             /\ SoundSocket(Initialized(s, c)) /\ Later(r, Initialized(s, c))
  BY <1>1 DEF Initialized, Records, Sound, SoundSocket, Later, Ended
<1>4. PICK q \in {drop} \cup {Initialized(s, c) : c \in Calls \cup {None}} :
        conn' = [conn EXCEPT ![s] = q]
  <2>1. CASE conn' = [conn EXCEPT ![s] = drop]
    BY <2>1
  <2>2. CASE \E c \in Calls \cup {None} : conn' = [conn EXCEPT ![s] = Initialized(s, c)]
    BY <2>2
  <2> QED BY <2>1, <2>2 DEF Receives
<1>5. q \in Records /\ Sound(q) /\ SoundSocket(q) /\ Later(r, q)
  BY <1>2, <1>3, <1>4
<1>6. server' = server /\ closes' = closes /\ UNCHANGED <<call, indirect, future, refusal>>
  BY DEF Receives
<1> HIDE DEF drop
<1> QED BY <1>1, <1>4, <1>5, <1>6, Facts, OneMoves

(* A dropped socket is set CONNECTED although it may be closed.                   *)
LEMMA AcceptsKeeps ==
  ASSUME PeerInv, NEW s \in Sockets, Accepts(s)
  PROVE  PeerInv'
<1> DEFINE q == [conn[s] EXCEPT !.making = "failed", !.state = "CONNECTED"]
<1>1. conn[s] \in Records /\ Sound(conn[s]) /\ SoundSocket(conn[s]) /\ s \in Connections
      /\ conn[s].making = "accepts" /\ s \notin Calls
  BY Facts, PeerConnectAssumption DEF Accepts
<1>2. q \in Records /\ Sound(q) /\ SoundSocket(q) /\ Later(conn[s], q)
  BY <1>1 DEF Records, Sound, SoundSocket, Later, Ended
<1>3. conn' = [conn EXCEPT ![s] = q]
  BY <1>1, Facts DEF Accepts, Records
<1>4. server' = server /\ closes' = closes /\ UNCHANGED <<call, indirect, future, refusal>>
  BY DEF Accepts
<1> HIDE DEF q
<1> QED BY <1>1, <1>2, <1>3, <1>4, Facts, OneMoves

(* The future of a call gets the socket, which is made from then on.            *)
LEMMA DeliversKeeps ==
  ASSUME PeerInv, NEW s \in Sockets, Delivers(s)
  PROVE  PeerInv'
<1> DEFINE r == conn[s]
           failed == [r EXCEPT !.making = "failed"]
           made   == [r EXCEPT !.making = "made", !.state = "CONNECTED"]
<1>1. r \in Records /\ Sound(r) /\ SoundSocket(r) /\ r.making = "emits"
      /\ s \in Connections /\ s \notin Calls
  BY Facts, PeerConnectAssumption DEF Delivers
<1>2. CASE r.ticket \in {d \in Calls : future[d] = "pending"} \cup {None}
  <2>1. made \in Records /\ Sound(made) /\ SoundSocket(made) /\ Later(r, made)
        /\ made.making = "made" /\ made.ticket = r.ticket
    BY <1>1 DEF Records, Sound, SoundSocket, Later, Ended
  <2>2. conn' = [conn EXCEPT ![s] = made]
    <3>1. [conn EXCEPT ![s].making = "made", ![s].state = "CONNECTED"]
            = [conn EXCEPT ![s] = made]
      BY <1>1, Facts DEF Records
    <3> QED BY <1>2, <3>1 DEF Delivers
  <2> HIDE DEF made
  <2>3. /\ conn' \in [Connections -> Records] /\ ConnectionsSound'
        /\ \A l \in Connections : Later(conn[l], conn'[l])
        /\ conn'[s] = made /\ \A l \in Connections \ {s} : conn'[l] = conn[l]
    BY <1>1, <2>1, <2>2, OneSound
  <2>4. /\ future' = [d \in Calls |-> IF d = r.ticket THEN s ELSE future[d]]
        /\ UNCHANGED <<call, indirect, refusal, server, closes>>
    BY <1>2 DEF Delivers
  <2>5. TypeOK'
    BY <2>3, <2>4 DEF PeerInv, TypeOK, Records
  <2>6. ASSUME NEW c \in Calls PROVE CallOK(c)'
    <3>1. CASE c # r.ticket
      <4>1. future'[c] = future[c]
        BY <2>4, <3>1
      <4>2. conn'[c] = conn[c]
        BY <1>1, <2>3, Facts
      <4> QED BY <2>3, <2>4, <4>1, <4>2, Undisturbed
    <3>2. CASE c = r.ticket
      <4>1. /\ future[c] = "pending" /\ future'[c] = s
            /\ conn'[s].making = "made" /\ conn'[s].ticket = c
            /\ conn'[c] = conn[c] /\ s # "pending" /\ future[c] \notin Sockets
        BY <1>1, <1>2, <2>1, <2>3, <2>4, <3>2, Facts, PeerConnectAssumption
      <4>2. CallOK(c) /\ indirect[c] \in {"sends", "waits"}
        BY <4>1 DEF PeerInv, CallOK
      <4>3. Made(c) => Made(c)'
        BY <2>4, <4>1 DEF Made
      <4>4. ~Found(c) /\ ~AttemptsOver(c)
        BY <4>2 DEF Found, AttemptsOver, Ended
      <4> QED BY <2>4, <4>1, <4>2, <4>3, <4>4 DEF CallOK, Over
    <3> QED BY <3>1, <3>2
  <2> QED BY <2>3, <2>5, <2>6 DEF PeerInv
<1>3. CASE r.ticket \notin {d \in Calls : future[d] = "pending"} \cup {None}
  <2>1. failed \in Records /\ Sound(failed) /\ SoundSocket(failed) /\ Later(r, failed)
    BY <1>1 DEF Records, Sound, SoundSocket, Later, Ended
  <2>2. conn' = [conn EXCEPT ![s] = failed] /\ server' = server /\ closes' = closes
        /\ UNCHANGED <<call, indirect, future, refusal>>
    BY <1>3 DEF Delivers
  <2> HIDE DEF failed
  <2> QED BY <1>1, <2>1, <2>2, Facts, OneMoves
<1> QED BY <1>2, <1>3

(* The wait for an address starts nothing.                                      *)
LEMMA WaitingSound ==
  ASSUME NEW r \in Records, Sound(r), r.making \in {"address", "stranded"},
         NEW m \in {"stranded", "failed"}
  PROVE  /\ [r EXCEPT !.making = m] \in Records /\ Sound([r EXCEPT !.making = m])
         /\ Later(r, [r EXCEPT !.making = m])
BY DEF Records, Sound, Later, Ended

(* All who wait for the address go on.                                         *)
LEMMA AddressArrivesKeeps ==
  ASSUME PeerInv, AddressArrives
  PROVE  PeerInv'
<1>1. PICK found \in BOOLEAN :
        conn' = [k \in Connections |->
                   IF conn[k].making \notin {"address", "stranded"} THEN conn[k]
                   ELSE IF found THEN Connecting(conn[k])
                   ELSE [conn[k] EXCEPT !.making = "failed"]]
  BY DEF AddressArrives
<1>2. ASSUME NEW k \in Connections
      PROVE  conn'[k] \in Records /\ Sound(conn'[k]) /\ Later(conn[k], conn'[k])
  <2>1. conn[k] \in Records /\ Sound(conn[k])
    BY Facts
  <2>2. CASE conn[k].making \notin {"address", "stranded"}
    BY <1>1, <2>1, <2>2 DEF Later
  <2>3. CASE conn[k].making \in {"address", "stranded"}
    BY <1>1, <2>1, <2>3, ConnectingSound, WaitingSound
  <2> QED BY <2>2, <2>3
<1>3. \A s \in Sockets : conn'[s] = conn[s]
  BY <1>1, Facts DEF SoundSocket
<1>4. ConnectionsSound' /\ conn' \in [Connections -> Records]
  BY <1>1, <1>2, <1>3, Facts DEF ConnectionsSound
<1>5. \A c \in Calls : conn[c].making = "none" => conn'[c].making = "none"
  BY <1>1, Facts
<1> QED BY <1>2, <1>4, <1>5, CallsWait, Facts DEF AddressArrives

(* All who wait for the address are stranded.                                   *)
LEMMA ServerLostKeeps ==
  ASSUME PeerInv, ServerLost
  PROVE  PeerInv'
<1>1. conn' = [k \in Connections |-> IF conn[k].making = "address"
                 THEN [conn[k] EXCEPT !.making = "stranded"] ELSE conn[k]]
  BY DEF ServerLost
<1>2. ASSUME NEW k \in Connections
      PROVE  conn'[k] \in Records /\ Sound(conn'[k]) /\ Later(conn[k], conn'[k])
  <2>1. conn[k] \in Records /\ Sound(conn[k])
    BY Facts
  <2>2. CASE conn[k].making # "address"
    BY <1>1, <2>1, <2>2 DEF Later
  <2>3. CASE conn[k].making = "address"
    BY <1>1, <2>1, <2>3, WaitingSound
  <2> QED BY <2>2, <2>3
<1>3. \A s \in Sockets : conn'[s] = conn[s]
  BY <1>1, Facts DEF SoundSocket
<1>4. ConnectionsSound' /\ conn' \in [Connections -> Records]
  BY <1>1, <1>2, <1>3, Facts DEF ConnectionsSound
<1>5. \A c \in Calls : conn[c].making = "none" => conn'[c].making = "none"
  BY <1>1, Facts
<1>6. server' \in BOOLEAN /\ closes' \in 0..MaxCloses
  BY BoundHolds DEF ServerLost
<1> QED BY <1>2, <1>4, <1>5, <1>6, CallsWait DEF ServerLost

(* The task of each connection first, the connection itself afterwards.           *)
LEMMA NetworkDisconnectKeeps ==
  ASSUME PeerInv, NetworkDisconnect
  PROVE  PeerInv'
<1> DEFINE task(k) == IF k \in Requests THEN Abandoned(conn[k])
                      ELSE IF conn[k].making = "address"
                      THEN [conn[k] EXCEPT !.making = "stranded"] ELSE conn[k]
<1>1. conn' = [k \in Connections |-> IF conn[k].listed THEN Disconnecting(task(k)) ELSE task(k)]
  BY DEF NetworkDisconnect
<1>2. ASSUME NEW k \in Connections
      PROVE  /\ task(k) \in Records /\ Sound(task(k)) /\ Later(conn[k], task(k))
             /\ k \in Sockets => task(k) = conn[k]
             /\ conn[k].making = "none" => task(k).making = "none"
  <2>1. conn[k] \in Records /\ Sound(conn[k])
    BY Facts
  <2>2. CASE k \in Requests
    BY <2>1, <2>2, AbandonedSound, PeerConnectAssumption DEF Ended
  <2>3. CASE k \notin Requests /\ conn[k].making = "address"
    BY <2>1, <2>3, WaitingSound, Facts DEF SoundSocket
  <2>4. CASE k \notin Requests /\ conn[k].making # "address"
    BY <2>1, <2>4 DEF Later
  <2> QED BY <2>2, <2>3, <2>4
<1> HIDE DEF task
<1>3. ASSUME NEW k \in Connections
      PROVE  /\ conn'[k] \in Records /\ Sound(conn'[k]) /\ Later(conn[k], conn'[k])
             /\ k \in Sockets => SoundSocket(conn'[k])
             /\ conn[k].making = "none" => conn'[k].making = "none"
  <2>1. k \in Sockets => SoundSocket(task(k))
    BY <1>2, Facts
  <2>2. /\ Disconnecting(task(k)) \in Records /\ Sound(Disconnecting(task(k)))
        /\ Later(task(k), Disconnecting(task(k)))
        /\ Disconnecting(task(k)).making = task(k).making
        /\ k \in Sockets => SoundSocket(Disconnecting(task(k)))
    BY <1>2, <2>1, DisconnectingSound
  <2>3. Later(conn[k], Disconnecting(task(k)))
    BY <1>2, <2>2 DEF Later
  <2> QED BY <1>1, <1>2, <2>1, <2>2, <2>3
<1>4. ConnectionsSound' /\ conn' \in [Connections -> Records]
  BY <1>1, <1>3, Facts DEF ConnectionsSound
<1>5. \A c \in Calls : conn[c].making = "none" => conn'[c].making = "none"
  BY <1>3, Facts
<1>6. server' \in BOOLEAN /\ closes' \in 0..MaxCloses
  BY BoundHolds DEF NetworkDisconnect
<1> QED BY <1>3, <1>4, <1>5, <1>6, CallsWait DEF NetworkDisconnect

---------------------------------------------------------------------------
(* A step of one call: the others wait.                                        *)
LEMMA OneCalls ==
  ASSUME PeerInv, NEW c \in Calls, TypeOK', ConnectionsSound',
         \A k \in Connections : Later(conn[k], conn'[k]),
         \A d \in Calls \ {c} :
           /\ call'[d] = call[d] /\ indirect'[d] = indirect[d] /\ future'[d] = future[d]
           /\ refusal'[d] = refusal[d] /\ conn'[d] = conn[d],
         CallOK(c)'
  PROVE  PeerInv'
<1>1. \A d \in Calls \ {c} : CallOK(d)'
  BY Undisturbed
<1> QED BY <1>1 DEF PeerInv

(* A step that leaves the connections alone.                                   *)
LEMMA CallMoves ==
  ASSUME PeerInv, NEW c \in Calls, TypeOK', conn' = conn,
         \A d \in Calls \ {c} :
           /\ call'[d] = call[d] /\ indirect'[d] = indirect[d] /\ future'[d] = future[d]
           /\ refusal'[d] = refusal[d],
         CallOK(c)'
  PROVE  PeerInv'
<1>1. ConnectionsSound'
  BY Facts DEF ConnectionsSound, PeerInv
<1>2. \A k \in Connections : Later(conn[k], conn'[k])
  BY DEF Later
<1> QED BY <1>1, <1>2, OneCalls

(* What a call finds is initialised, and it tries nothing itself.                 *)
LEMMA ReuseKeeps ==
  ASSUME PeerInv, NEW c \in Calls, Reuse(c)
  PROVE  PeerInv'
<1>1. PICK k \in Active : call' = [call EXCEPT ![c].at = "returned", ![c].result = k]
  BY DEF Reuse
<1>2. k \in Connections /\ conn[k].init
  BY <1>1 DEF Active
<1> DEFINE q == [call[c] EXCEPT !.at = "returned", !.result = k]
<1>8. q \in CallRecords
  BY <1>2, Facts DEF CallRecords
<1>9. call' = [call EXCEPT ![c] = q]
  BY <1>1, Facts DEF CallRecords
<1>10. call' \in [Calls -> CallRecords]
  BY <1>8, <1>9, Facts
<1>3. TypeOK'
  BY <1>10 DEF PeerInv, TypeOK, Reuse, CallRecords
<1>4. CallOK(c) /\ call[c].at = "idle"
  BY DEF PeerInv, Reuse
<1>5. call'[c].at = "returned" /\ call'[c].result = k /\ \A d \in Calls \ {c} : call'[d] = call[d]
  BY <1>1 DEF PeerInv, TypeOK
<1>6. UNCHANGED <<conn, indirect, future, refusal>>
  BY DEF Reuse
<1>7. CallOK(c)'
  BY <1>2, <1>4, <1>5, <1>6 DEF CallOK, Found, Over, AttemptsOver, Ended
<1> QED BY <1>3, <1>5, <1>6, <1>7, CallMoves

(* A call that starts its attempts has nothing yet.                             *)
LEMMA CreateKeeps ==
  ASSUME PeerInv, NEW c \in Calls, Create(c)
  PROVE  PeerInv'
<1>1. PICK mode \in Modes, given \in BOOLEAN :
        /\ call' = [call EXCEPT ![c].at = "waits", ![c].mode = mode]
        /\ StartDirect(c, given)
        /\ IF mode = "race" THEN StartIndirect(c) ELSE UNCHANGED <<indirect, future, refusal>>
  BY DEF Create
<1> DEFINE r == conn[c]
           q == IF given THEN Connecting(r)
                ELSE [r EXCEPT !.making = IF server THEN "address" ELSE "stranded"]
<1>2. CallOK(c) /\ r.making = "none" /\ indirect[c] = "none" /\ r \in Records /\ Sound(r)
      /\ c \in Connections /\ c \notin Sockets
  BY Facts, PeerConnectAssumption DEF PeerInv, CallOK, Create
<1>3. q \in Records /\ Sound(q) /\ Later(r, q)
  <2>1. CASE given
    BY <1>2, <2>1, ConnectingSound
  <2>2. CASE ~given
    BY <1>2, <2>2 DEF Records, Sound, Later, Ended
  <2> QED BY <2>1, <2>2
<1>4. conn' = [conn EXCEPT ![c] = q]
  BY <1>1 DEF StartDirect
<1> HIDE DEF q
<1>5. /\ conn' \in [Connections -> Records] /\ ConnectionsSound'
      /\ \A l \in Connections : Later(conn[l], conn'[l])
      /\ \A l \in Connections \ {c} : conn'[l] = conn[l]
  BY <1>2, <1>3, <1>4, OneSound
<1>6. call'[c].at = "waits" /\ \A d \in Calls \ {c} : call'[d] = call[d]
  BY <1>1 DEF PeerInv, TypeOK
<1>7. /\ \/ indirect'[c] = "sends" /\ future'[c] = "pending" /\ refusal'[c] = "pending"
         \/ indirect'[c] = "none" /\ future'[c] = future[c] /\ refusal'[c] = refusal[c]
      /\ \A d \in Calls \ {c} : indirect'[d] = indirect[d] /\ future'[d] = future[d]
                                /\ refusal'[d] = refusal[d]
  BY <1>1, <1>2 DEF StartIndirect, PeerInv, TypeOK
<1>8. TypeOK'
  <2>1. call' \in [Calls -> CallRecords]
    <3> DEFINE w == [call[c] EXCEPT !.at = "waits", !.mode = mode]
    <3>1. w \in CallRecords
      BY Facts, PeerConnectAssumption DEF CallRecords
    <3>2. call' = [call EXCEPT ![c] = w]
      BY <1>1, Facts DEF CallRecords
    <3> QED BY <3>1, <3>2, Facts
  <2>2. /\ indirect' \in [Calls -> Ended \cup {"sends", "waits", "cancelling"}]
        /\ future' \in [Calls -> {"none", "pending", "cancelled"} \cup Sockets]
        /\ refusal' \in [Calls -> {"none", "pending", "cancelled", "done"}]
    BY <1>1 DEF StartIndirect, PeerInv, TypeOK
  <2> QED BY <1>5, <2>1, <2>2 DEF PeerInv, TypeOK, Records, CallRecords, Create
<1>9. CallOK(c)'
  <2>1. future'[c] \in Sockets => future'[c] = future[c]
    BY <1>7, PeerConnectAssumption
  <2>2. future'[c] \in Sockets => conn'[future'[c]].making = "made"
                                  /\ conn'[future'[c]].ticket = c
    BY <2>1, <1>2, <1>5, Facts DEF CallOK, Later, Ended
  <2> QED BY <1>2, <1>6, <1>7, <2>2 DEF CallOK, Over
<1>10. \A d \in Calls \ {c} : conn'[d] = conn[d]
  BY <1>5, Facts
<1> QED BY <1>5, <1>6, <1>7, <1>8, <1>9, <1>10, OneCalls

(* A step that only the attempts of a call take.                                *)
LEMMA AttemptMoves ==
  ASSUME PeerInv, NEW c \in Calls, conn' = conn, call' = call,
         NEW i \in Ended \cup {"sends", "waits", "cancelling"},
         NEW f \in {"none", "pending", "cancelled"} \cup Sockets,
         NEW g \in {"none", "pending", "cancelled", "done"},
         indirect' = [indirect EXCEPT ![c] = i], future' = [future EXCEPT ![c] = f],
         refusal' = [refusal EXCEPT ![c] = g], server' = server, closes' = closes,
         f = future[c] \/ (f \notin Sockets /\ (future[c] \notin Sockets \/ call[c].at = "waits")),
         f = "pending" \/ g = "pending" => i \in {"sends", "waits"},
         i = "made" => f \in Sockets,
         indirect[c] \in Ended => i = indirect[c] \/ call[c].at = "waits"
  PROVE  PeerInv'
<1>1. TypeOK'
  BY DEF PeerInv, TypeOK
<1>2. indirect'[c] = i /\ future'[c] = f /\ refusal'[c] = g
  BY DEF PeerInv, TypeOK
<1>3. \A d \in Calls \ {c} : indirect'[d] = indirect[d] /\ future'[d] = future[d]
                              /\ refusal'[d] = refusal[d]
  BY DEF PeerInv, TypeOK
<1>4. CallOK(c)
  BY DEF PeerInv
<1>5. CallOK(c)'
  <2>1. Made(c) /\ call[c].at # "waits" => Made(c)'
    BY <1>2 DEF Made
  <2>2. Found(c) /\ call[c].at # "waits" => Found(c)'
    BY <1>2 DEF Found, Ended
  <2>3. AttemptsOver(c) /\ call[c].at # "waits" => AttemptsOver(c)'
    BY <1>2 DEF AttemptsOver
  <2> QED BY <1>2, <1>4, <2>1, <2>2, <2>3 DEF CallOK, Over, Ended
<1> QED BY <1>1, <1>3, <1>5, CallMoves

(* The parts of a call, in the form that AttemptMoves asks for.                   *)
LEMMA AttemptsKnown ==
  ASSUME PeerInv, NEW c \in Calls
  PROVE  /\ CallOK(c) /\ indirect[c] \in Ended \cup {"sends", "waits", "cancelling"}
         /\ future[c] \in {"none", "pending", "cancelled"} \cup Sockets
         /\ refusal[c] \in {"none", "pending", "cancelled", "done"}
         /\ indirect = [indirect EXCEPT ![c] = indirect[c]]
         /\ future = [future EXCEPT ![c] = future[c]]
         /\ refusal = [refusal EXCEPT ![c] = refusal[c]]
BY DEF PeerInv, TypeOK

(* The server was told.                                                       *)
LEMMA WaitsKeeps ==
  ASSUME PeerInv, NEW c \in Calls, Waits(c)
  PROVE  PeerInv'
<1> DEFINE f == future[c]  g == refusal[c]
<1>1. /\ f \in {"none", "pending", "cancelled"} \cup Sockets
      /\ g \in {"none", "pending", "cancelled", "done"}
      /\ future = [future EXCEPT ![c] = f] /\ refusal = [refusal EXCEPT ![c] = g]
  BY AttemptsKnown
<1>2. f = future[c]
  OBVIOUS
<1>3. indirect[c] = "sends" /\ indirect' = [indirect EXCEPT ![c] = "waits"]
      /\ UNCHANGED <<conn, call, future, refusal, server, closes>>
  BY DEF Waits
<1> HIDE DEF f, g
<1> QED BY <1>1, <1>2, <1>3, AttemptMoves DEF Ended

(* The server says that the peer cannot connect.                               *)
LEMMA CannotConnectKeeps ==
  ASSUME PeerInv, NEW c \in Calls, CannotConnect(c)
  PROVE  PeerInv'
<1> DEFINE f == future[c]  i == indirect[c]
<1>1. /\ f \in {"none", "pending", "cancelled"} \cup Sockets
      /\ future = [future EXCEPT ![c] = f] /\ indirect = [indirect EXCEPT ![c] = i]
  BY AttemptsKnown
<1>2. f = future[c] /\ i = indirect[c] /\ i = "waits" /\ i \notin Ended
  BY DEF CannotConnect, Ended
<1>3. refusal' = [refusal EXCEPT ![c] = "done"]
      /\ UNCHANGED <<conn, call, indirect, future, server, closes>>
  BY DEF CannotConnect
<1> HIDE DEF f, i
<1> QED BY <1>1, <1>2, <1>3, AttemptMoves

(* In fallback mode the futures are made when the direct attempt has failed.       *)
LEMMA FallsKeeps ==
  ASSUME PeerInv, NEW c \in Calls, Falls(c)
  PROVE  PeerInv'
<1>1. /\ indirect' = [indirect EXCEPT ![c] = "sends"] /\ future' = [future EXCEPT ![c] = "pending"]
      /\ refusal' = [refusal EXCEPT ![c] = "pending"] /\ call[c].at = "waits"
      /\ UNCHANGED <<conn, call, server, closes>>
  BY DEF Falls, StartIndirect
<1>2. "pending" \notin Sockets
  BY PeerConnectAssumption
<1> QED BY <1>1, <1>2, AttemptsKnown, AttemptMoves DEF Ended

(* The futures were cancelled before.                                         *)
LEMMA IndirectCancelledKeeps ==
  ASSUME PeerInv, NEW c \in Calls, IndirectCancelled(c)
  PROVE  PeerInv'
<1> DEFINE f == future[c]  g == refusal[c]
<1>1. /\ f \in {"none", "pending", "cancelled"} \cup Sockets
      /\ g \in {"none", "pending", "cancelled", "done"}
      /\ future = [future EXCEPT ![c] = f] /\ refusal = [refusal EXCEPT ![c] = g]
  BY AttemptsKnown
<1>2. indirect[c] = "cancelling" /\ indirect' = [indirect EXCEPT ![c] = "cancelled"]
      /\ UNCHANGED <<conn, call, future, refusal, server, closes>>
  BY DEF IndirectCancelled
<1>3. f = future[c] /\ f # "pending" /\ g # "pending"
  BY <1>2, AttemptsKnown DEF CallOK
<1> HIDE DEF f, g
<1> QED BY <1>1, <1>2, <1>3, AttemptMoves DEF Ended

(* What is left of the futures is cancelled, and a future that got a socket      *)
(* keeps it.                                                                 *)
LEMMA FuturesCancelled ==
  ASSUME PeerInv, NEW c \in Calls, CancelFutures(c)
  PROVE  \E f \in {"none", "cancelled"} \cup Sockets, g \in {"none", "cancelled", "done"} :
           /\ future' = [future EXCEPT ![c] = f] /\ refusal' = [refusal EXCEPT ![c] = g]
           /\ f = future[c] \/ (future[c] = "pending" /\ f = "cancelled")
<1> DEFINE f == IF future[c] = "pending" THEN "cancelled" ELSE future[c]
           g == IF refusal[c] = "pending" THEN "cancelled" ELSE refusal[c]
<1>1. future' = [future EXCEPT ![c] = f] /\ refusal' = [refusal EXCEPT ![c] = g]
  BY DEF CancelFutures
<1>2. f \in {"none", "cancelled"} \cup Sockets /\ g \in {"none", "cancelled", "done"}
  BY AttemptsKnown
<1>3. f = future[c] \/ (future[c] = "pending" /\ f = "cancelled")
  OBVIOUS
<1> HIDE DEF f, g
<1> QED BY <1>1, <1>2, <1>3

(* Only a future that got its socket makes the attempt succeed.                 *)
LEMMA IndirectEndsKeeps ==
  ASSUME PeerInv, NEW c \in Calls, IndirectEnds(c)
  PROVE  PeerInv'
<1>1. PICK f \in {"none", "cancelled"} \cup Sockets, g \in {"none", "cancelled", "done"} :
        /\ future' = [future EXCEPT ![c] = f] /\ refusal' = [refusal EXCEPT ![c] = g]
        /\ f = future[c] \/ (future[c] = "pending" /\ f = "cancelled")
  BY FuturesCancelled DEF IndirectEnds
<1>2. PICK i \in {"made", "failed"} :
        indirect' = [indirect EXCEPT ![c] = i] /\ (i = "made" => future[c] \in Sockets)
  <2>1. CASE indirect[c] = "waits" /\ \E o \in Outcomes(c) : indirect' = [indirect EXCEPT ![c] = o]
    <3>1. PICK o \in Outcomes(c) : indirect' = [indirect EXCEPT ![c] = o]
      BY <2>1
    <3>2. o \in {"made", "failed"} /\ (o = "made" => future[c] \in Sockets)
      BY DEF Outcomes
    <3> QED BY <3>1, <3>2
  <2>2. CASE indirect[c] = "sends" /\ indirect' = [indirect EXCEPT ![c] = "failed"]
    BY <2>2
  <2> QED BY <2>1, <2>2 DEF IndirectEnds
<1>3. indirect[c] \in {"sends", "waits"} /\ UNCHANGED <<conn, call, server, closes>>
  BY DEF IndirectEnds
<1>4. {"pending", "cancelled"} \cap Sockets = {}
  BY PeerConnectAssumption
<1>5. /\ f = future[c] \/ (f \notin Sockets /\ (future[c] \notin Sockets \/ call[c].at = "waits"))
      /\ i = "made" => f \in Sockets
      /\ f # "pending" /\ g # "pending"
  BY <1>1, <1>2, <1>4
<1> QED BY <1>1, <1>2, <1>3, <1>5, AttemptMoves DEF Ended

---------------------------------------------------------------------------
(* Both attempts are over when a call returns.                                  *)
LEMMA ReturnsKeeps ==
  ASSUME PeerInv, NEW c \in Calls, Returns(c)
  PROVE  PeerInv'
<1> DEFINE q == [call[c] EXCEPT !.at = "returned"]
<1>1. q \in CallRecords /\ call' = [call EXCEPT ![c] = q] /\ CallOK(c)
  BY Facts DEF CallRecords, Returns, PeerInv
<1>2. TypeOK'
  BY <1>1, Facts DEF PeerInv, TypeOK, Returns, CallRecords
<1>3. /\ call'[c].at = "returned" /\ call'[c].result = call[c].result
      /\ \A d \in Calls \ {c} : call'[d] = call[d]
  BY <1>1, Facts DEF CallRecords
<1>4. CallOK(c)'
  BY <1>1, <1>3 DEF Returns, CallOK, Made, Over, AttemptsOver
<1> QED BY <1>2, <1>3, <1>4, CallMoves DEF Returns

(* Both attempts have failed when a call raises.                                *)
LEMMA RaisesKeeps ==
  ASSUME PeerInv, NEW c \in Calls, Raises(c)
  PROVE  PeerInv'
<1> DEFINE q == [call[c] EXCEPT !.at = "raised"]
<1>1. q \in CallRecords /\ call' = [call EXCEPT ![c] = q] /\ CallOK(c)
  BY Facts DEF CallRecords, Raises, PeerInv
<1>2. TypeOK'
  BY <1>1, Facts DEF PeerInv, TypeOK, Raises, CallRecords
<1>3. call'[c].at = "raised" /\ \A d \in Calls \ {c} : call'[d] = call[d]
  BY <1>1, Facts DEF CallRecords
<1>4. CallOK(c)'
  BY <1>1, <1>3 DEF Raises, CallOK, Over, AttemptsOver, Ended
<1> QED BY <1>2, <1>3, <1>4, CallMoves DEF Raises

(* Both attempts are over when a cancelled call ends.                            *)
LEMMA CallCancelledKeeps ==
  ASSUME PeerInv, NEW c \in Calls, CallCancelled(c)
  PROVE  PeerInv'
<1> DEFINE q == [call[c] EXCEPT !.at = "cancelled"]
<1>1. q \in CallRecords /\ call' = [call EXCEPT ![c] = q] /\ CallOK(c)
  BY Facts DEF CallRecords, CallCancelled, PeerInv
<1>2. TypeOK'
  BY <1>1, Facts DEF PeerInv, TypeOK, CallCancelled, CallRecords
<1>3. call'[c].at = "cancelled" /\ \A d \in Calls \ {c} : call'[d] = call[d]
  BY <1>1, Facts DEF CallRecords
<1>4. CallOK(c)'
  BY <1>1, <1>3 DEF CallCancelled, CallOK, Over, AttemptsOver
<1> QED BY <1>2, <1>3, <1>4, CallMoves DEF CallCancelled

---------------------------------------------------------------------------
(* Cancelling the attempts: the direct one ends, the indirect one is told, and    *)
(* what they had made stays.                                                  *)
LEMMA CancelDirectKeeps ==
  ASSUME PeerInv, NEW c \in Calls, CancelDirect(c)
  PROVE  /\ conn' \in [Connections -> Records] /\ ConnectionsSound'
         /\ \A l \in Connections : Later(conn[l], conn'[l])
         /\ conn'[c].making \in Ended /\ \A d \in Calls \ {c} : conn'[d] = conn[d]
         /\ conn[c].making \in Ended => conn'[c] = conn[c]
<1> DEFINE q == Abandoned(conn[c])
<1>1. /\ q \in Records /\ Sound(q) /\ Later(conn[c], q) /\ q.making \in Ended
      /\ conn[c].making \in Ended => q = conn[c]
  BY Facts, AbandonedSound
<1>2. conn' = [conn EXCEPT ![c] = q]
  BY DEF CancelDirect
<1>3. c \in Connections /\ c \notin Sockets
  BY Facts, PeerConnectAssumption
<1> HIDE DEF q
<1>4. /\ conn' \in [Connections -> Records] /\ ConnectionsSound'
      /\ \A l \in Connections : Later(conn[l], conn'[l])
      /\ conn'[c] = q /\ \A l \in Connections \ {c} : conn'[l] = conn[l]
  BY <1>1, <1>2, <1>3, OneSound
<1> QED BY <1>1, <1>4, Facts

(* What is left of the futures is cancelled, what one got stays.                 *)
LEMMA CancelIndirectKeeps ==
  ASSUME PeerInv, NEW c \in Calls, CancelIndirect(c)
  PROVE  /\ indirect' \in [Calls -> Ended \cup {"sends", "waits", "cancelling"}]
         /\ future' \in [Calls -> {"none", "pending", "cancelled"} \cup Sockets]
         /\ refusal' \in [Calls -> {"none", "pending", "cancelled", "done"}]
         /\ \A d \in Calls \ {c} : indirect'[d] = indirect[d] /\ future'[d] = future[d]
                                   /\ refusal'[d] = refusal[d]
         /\ future'[c] # "pending" /\ refusal'[c] # "pending"
         /\ indirect'[c] \in Ended => indirect'[c] = indirect[c]
         /\ indirect[c] \in Ended => indirect'[c] = indirect[c]
         /\ future[c] \in Sockets \/ future'[c] \in Sockets => future'[c] = future[c]
<1>1. /\ indirect \in [Calls -> Ended \cup {"sends", "waits", "cancelling"}]
      /\ future \in [Calls -> {"none", "pending", "cancelled"} \cup Sockets]
      /\ refusal \in [Calls -> {"none", "pending", "cancelled", "done"}]
      /\ CallOK(c) /\ {"pending", "cancelled"} \cap Sockets = {}
  BY PeerConnectAssumption DEF PeerInv, TypeOK
<1>2. CASE indirect[c] \in Ended
  <2>1. future[c] # "pending" /\ refusal[c] # "pending"
    BY <1>1, <1>2 DEF CallOK, Ended
  <2> QED BY <1>1, <1>2, <2>1 DEF CancelIndirect
<1>3. CASE indirect[c] \notin Ended
  <2>1. indirect' = [indirect EXCEPT ![c] = "cancelling"] /\ CancelFutures(c)
    BY <1>3 DEF CancelIndirect
  <2>2. "cancelling" \notin Ended
    BY DEF Ended
  <2> QED BY <1>1, <1>3, <2>1, <2>2 DEF CancelFutures
<1> QED BY <1>2, <1>3

(* A cancelled call cancels both attempts.                                     *)
LEMMA CancelCallKeeps ==
  ASSUME PeerInv, NEW c \in Calls, CancelCall(c)
  PROVE  PeerInv'
<1> DEFINE q == [call[c] EXCEPT !.at = "cancels"]
<1>1. q \in CallRecords /\ call' = [call EXCEPT ![c] = q] /\ CallOK(c)
  BY Facts DEF CallRecords, CancelCall, PeerInv
<1>2. call'[c].at = "cancels" /\ \A d \in Calls \ {c} : call'[d] = call[d]
  BY <1>1, Facts DEF CallRecords
<1>3. /\ conn' \in [Connections -> Records] /\ ConnectionsSound'
      /\ \A l \in Connections : Later(conn[l], conn'[l])
      /\ \A d \in Calls \ {c} : conn'[d] = conn[d]
  BY CancelDirectKeeps DEF CancelCall
<1>4. /\ indirect' \in [Calls -> Ended \cup {"sends", "waits", "cancelling"}]
      /\ future' \in [Calls -> {"none", "pending", "cancelled"} \cup Sockets]
      /\ refusal' \in [Calls -> {"none", "pending", "cancelled", "done"}]
      /\ \A d \in Calls \ {c} : indirect'[d] = indirect[d] /\ future'[d] = future[d]
                                /\ refusal'[d] = refusal[d]
      /\ future'[c] # "pending" /\ refusal'[c] # "pending"
      /\ indirect'[c] \in Ended => indirect'[c] = indirect[c]
      /\ future'[c] \in Sockets => future'[c] = future[c]
  BY CancelIndirectKeeps DEF CancelCall
<1>5. TypeOK'
  <2>1. call' \in [Calls -> CallRecords]
    BY <1>1, Facts
  <2>2. server' \in BOOLEAN /\ closes' \in 0..MaxCloses
    BY Facts, BoundHolds DEF CancelCall
  <2> QED BY <1>3, <1>4, <2>1, <2>2 DEF TypeOK, CallRecords, Records
<1>6. CallOK(c)'
  <2>1. future'[c] \in Sockets => conn'[future'[c]].making = "made"
                                  /\ conn'[future'[c]].ticket = c
    BY <1>1, <1>3, <1>4, Facts DEF CallOK, Later, Ended
  <2>2. indirect'[c] = "made" => future'[c] \in Sockets
    <3>1. CASE indirect'[c] = "made"
      <4>1. indirect[c] = "made" /\ future[c] \in Sockets
        BY <3>1, <1>1, <1>4 DEF CallOK, Ended
      <4> QED BY <4>1, CancelIndirectKeeps DEF CancelCall
    <3> QED BY <3>1
  <2> QED BY <1>2, <1>4, <2>1, <2>2 DEF CallOK, Over
<1> QED BY <1>2, <1>3, <1>4, <1>5, <1>6, OneCalls

(* The winner was made, and its loser is cancelled or disconnected.             *)
LEMMA WinsKeeps ==
  ASSUME PeerInv, NEW c \in Calls, Wins(c)
  PROVE  PeerInv'
<1>1. PICK k \in Results(c) :
        /\ call' = [call EXCEPT ![c].at = "settles", ![c].result = k]
        /\ IF Results(c) = {k} THEN CancelDirect(c) /\ CancelIndirect(c)
           ELSE /\ conn' = [l \in Connections |-> IF l \in Results(c) \ {k}
                                                  THEN Disconnecting(conn[l]) ELSE conn[l]]
                /\ UNCHANGED <<indirect, future, refusal>>
  BY DEF Wins
<1>2. CallOK(c) /\ UNCHANGED <<server, closes>>
  BY DEF PeerInv, Wins
<1>3. /\ Results(c) \subseteq {c} \cup Sockets
      /\ \/ k = c /\ conn[c].making = "made"
         \/ k \in Sockets /\ k = future[c]
  BY <1>2 DEF Results, CallOK
<1> DEFINE q == [call[c] EXCEPT !.at = "settles", !.result = k]
<1>4. q \in CallRecords
  BY <1>3, Facts DEF CallRecords
<1>5. call' = [call EXCEPT ![c] = q]
  BY <1>1, Facts DEF CallRecords
<1>6. call'[c].at = "settles" /\ call'[c].result = k /\ \A d \in Calls \ {c} : call'[d] = call[d]
  BY <1>5, Facts DEF CallRecords
<1>7. call' \in [Calls -> CallRecords]
  BY <1>4, <1>5, Facts
<1>8. /\ conn' \in [Connections -> Records] /\ ConnectionsSound'
      /\ \A l \in Connections : Later(conn[l], conn'[l])
      /\ \A d \in Calls \ {c} : conn'[d] = conn[d]
  <2>1. CASE Results(c) = {k}
    BY <1>1, <2>1, CancelDirectKeeps
  <2>2. CASE Results(c) # {k}
    <3>1. conn' = [l \in Connections |-> IF l \in Results(c) \ {k}
                                         THEN Disconnecting(conn[l]) ELSE conn[l]]
      BY <1>1, <2>2
    <3>2. ASSUME NEW l \in Connections
          PROVE  /\ conn'[l] \in Records /\ Sound(conn'[l]) /\ Later(conn[l], conn'[l])
                 /\ l \in Sockets => SoundSocket(conn'[l])
      <4>1. conn[l] \in Records /\ Sound(conn[l]) /\ (l \in Sockets => SoundSocket(conn[l]))
        BY Facts
      <4>2. CASE l \in Results(c) \ {k}
        BY <3>1, <4>1, <4>2, DisconnectingSound
      <4>3. CASE l \notin Results(c) \ {k}
        BY <3>1, <4>1, <4>3 DEF Later
      <4> QED BY <4>2, <4>3
    <3>3. ConnectionsSound' /\ conn' \in [Connections -> Records]
      BY <3>1, <3>2, Facts DEF ConnectionsSound
    <3>4. \A d \in Calls \ {c} : d \in Connections /\ d \notin Results(c)
      BY <1>3, Facts, PeerConnectAssumption
    <3> QED BY <3>1, <3>2, <3>3, <3>4
  <2> QED BY <2>1, <2>2
<1>9. /\ indirect' \in [Calls -> Ended \cup {"sends", "waits", "cancelling"}]
      /\ future' \in [Calls -> {"none", "pending", "cancelled"} \cup Sockets]
      /\ refusal' \in [Calls -> {"none", "pending", "cancelled", "done"}]
      /\ \A d \in Calls \ {c} : indirect'[d] = indirect[d] /\ future'[d] = future[d]
                                /\ refusal'[d] = refusal[d]
      /\ future'[c] = "pending" \/ refusal'[c] = "pending" => indirect'[c] \in {"sends", "waits"}
      /\ indirect'[c] = "made" => indirect[c] = "made"
      /\ future[c] \in Sockets \/ future'[c] \in Sockets => future'[c] = future[c]
  <2>1. CASE Results(c) = {k}
    <3>1. CancelIndirect(c)
      BY <1>1, <2>1
    <3> QED BY <3>1, CancelIndirectKeeps DEF Ended
  <2>2. CASE Results(c) # {k}
    BY <1>1, <1>2, <2>2 DEF PeerInv, TypeOK, CallOK
  <2> QED BY <2>1, <2>2
<1>10. TypeOK'
  BY <1>2, <1>7, <1>8, <1>9, Facts DEF PeerInv, TypeOK, CallRecords, Records
<1>11. CallOK(c)'
  <2>1. future'[c] \in Sockets => conn'[future'[c]].making = "made"
                                  /\ conn'[future'[c]].ticket = c
    BY <1>2, <1>8, <1>9, Facts DEF CallOK, Later, Ended
  <2>2. indirect'[c] = "made" => future'[c] \in Sockets
    BY <1>2, <1>9 DEF CallOK
  <2>3. Made(c)'
    <3>1. CASE k = c /\ conn[c].making = "made"
      BY <3>1, <1>6, <1>8, Facts DEF Made, Later, Ended
    <3>2. CASE k \in Sockets /\ k = future[c]
      BY <3>2, <1>6, <1>9 DEF Made
    <3> QED BY <1>3, <3>1, <3>2
  <2> QED BY <1>6, <1>9, <2>1, <2>2, <2>3 DEF CallOK, Over
<1> QED BY <1>6, <1>8, <1>9, <1>10, <1>11, OneCalls

---------------------------------------------------------------------------
(* At first there is nothing.                                                 *)
LEMMA PeerInit == Init => PeerInv
<1> SUFFICES ASSUME Init PROVE PeerInv
  OBVIOUS
<1>1. Fresh \in Records /\ Sound(Fresh) /\ SoundSocket(Fresh) /\ Fresh.making = "none"
  BY DEF Fresh, Records, Sound, SoundSocket, Ended, ClosingStates
<1>2. TypeOK
  <2>1. conn \in [Connections -> Records]
    BY <1>1 DEF Init
  <2> QED BY <2>1, PeerConnectAssumption DEF Init, TypeOK, Records, Ended
<1>3. ConnectionsSound
  BY <1>1 DEF Init, ConnectionsSound, Connections
<1>4. ASSUME NEW c \in Calls PROVE CallOK(c)
  BY <1>1, PeerConnectAssumption DEF Init, CallOK, Over, Connections
<1> QED BY <1>2, <1>3, <1>4 DEF PeerInv

(* The invariant is about the variables alone.                                *)
LEMMA PeerStutters == PeerInv /\ UNCHANGED vars => PeerInv'
BY DEF PeerInv, vars, TypeOK, ConnectionsSound, CallOK, Made, Found, Over, AttemptsOver

(* Every action keeps the invariant.                                          *)
LEMMA PeerSteps == PeerInv /\ [Next]_vars => PeerInv'
<1> SUFFICES ASSUME PeerInv, [Next]_vars PROVE PeerInv'
  OBVIOUS
<1>1. ASSUME NEW k \in Connections,
             Closed(k) \/ Closes(k) \/ Opens(k) \/ Sends(k) \/ Emits(k)
      PROVE  PeerInv'
  BY <1>1, ClosedKeeps, ClosesKeeps, OpensKeeps, SendsKeeps, EmitsKeeps
<1>2. ASSUME NEW c \in Calls,
             \/ Reuse(c) \/ Create(c) \/ Waits(c) \/ IndirectEnds(c) \/ IndirectCancelled(c)
             \/ CannotConnect(c) \/ Falls(c)
      PROVE  PeerInv'
  BY <1>2, ReuseKeeps, CreateKeeps, WaitsKeeps, IndirectEndsKeeps, IndirectCancelledKeeps,
     CannotConnectKeeps, FallsKeeps
<1>3. ASSUME NEW c \in Calls,
             Wins(c) \/ Returns(c) \/ Raises(c) \/ CancelCall(c) \/ CallCancelled(c)
      PROVE  PeerInv'
  BY <1>3, WinsKeeps, ReturnsKeeps, RaisesKeeps, CancelCallKeeps, CallCancelledKeeps
<1>4. ASSUME NEW r \in Requests, ConnectToPeer(r) PROVE PeerInv'
  BY <1>4, ConnectToPeerKeeps
<1>5. ASSUME NEW s \in Sockets, Accept(s) \/ Receives(s) \/ Delivers(s) \/ Accepts(s)
      PROVE  PeerInv'
  BY <1>5, AcceptKeeps, ReceivesKeeps, DeliversKeeps, AcceptsKeeps
<1>6. ASSUME AddressArrives \/ ServerLost \/ NetworkDisconnect PROVE PeerInv'
  BY <1>6, AddressArrivesKeeps, ServerLostKeeps, NetworkDisconnectKeeps
<1> QED BY <1>1, <1>2, <1>3, <1>4, <1>5, <1>6, PeerStutters DEF Next

(* The inductive invariant, of every behaviour.                                *)
THEOREM PeerInvariant == Spec => []PeerInv
<1> QED BY PeerInit, PeerSteps, PTL DEF Spec

(* Types: the states of connections, calls and futures (network/connection.py). *)
THEOREM TypeCorrect == Spec => []TypeOK
<1>1. PeerInv => TypeOK
  BY DEF PeerInv
<1> QED BY <1>1, PeerInvariant, PTL

(* A call that is over leaves neither attempt running and nobody waiting for its  *)
(* futures, and what it returns is its own connection, the one of the peer that    *)
(* presented its ticket, or one it found (Network.create_peer_connection).       *)
THEOREM CallsLeaveNothing == Spec => []CallsSettle
<1>1. ASSUME PeerInv PROVE CallsSettle
  <2>1. AttemptsEnd
    BY <1>1 DEF PeerInv, AttemptsEnd, CallOK, AttemptsOver, Ended
  <2>2. ASSUME NEW c \in Calls, call[c].at = "returned"
        PROVE  LET k == call[c].result IN
               /\ k # None /\ conn[k].init
               /\ indirect[c] # "none" \/ conn[c].making # "none"
                    => k = c \/ conn[k].ticket = c
    <3>1. CallOK(c) /\ \A k \in Connections : Sound(conn[k])
      BY <1>1 DEF PeerInv, ConnectionsSound
    <3>2. None \notin Connections /\ c \in Connections /\ Sockets \subseteq Connections
      BY PeerConnectAssumption DEF Connections
    <3>3. CASE Found(c)
      BY <3>2, <3>3 DEF Found
    <3>4. CASE Made(c)
      BY <3>1, <3>2, <3>4 DEF Made, CallOK, Sound
    <3> QED BY <2>2, <3>1, <3>3, <3>4 DEF CallOK
  <2>3. RightConnection
    BY <2>2 DEF RightConnection
  <2> QED BY <2>1, <2>3 DEF CallsSettle
<1> QED BY <1>1, PeerInvariant, PTL

(* The network's list has what is open or being opened or closed, but for a         *)
(* connection disconnected or abandoned while it was opened (Network.peer_connections). *)
THEOREM OpenIsListed == Spec => []ListedWhileOpen
<1>1. PeerInv => ListedWhileOpen
  BY DEF PeerInv, ConnectionsSound, Sound, ListedWhileOpen
<1> QED BY <1>1, PeerInvariant, PTL
=============================================================================
