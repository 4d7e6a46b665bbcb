----------------------------- MODULE PeerConnect -----------------------------
(***************************************************************************)
(* Connections to one peer: the application's calls of get_peer_connection,  *)
(* which try a direct and an indirect connection one after the other or at   *)
(* once, connections that the peer makes to us, and connections that the     *)
(* server asks us to make (ConnectToPeer).                                   *)
(*                                                                          *)
(* A call names its ticket and its direct connection, a request and an       *)
(* accepted socket name their connection.  An action is what a task does     *)
(* between two suspensions; the listeners of PeerInitializedEvent suspend,   *)
(* those of a state change are taken to run with it.                         *)
(***************************************************************************)
EXTENDS Naturals, FiniteSets

CONSTANTS Calls,     \* calls of get_peer_connection
          Requests,  \* ConnectToPeer messages of the server
          Sockets,   \* connections that the peer makes
          Modes,     \* PeerConnectMode: "race", "fallback"
          None,
          MaxCloses  \* bound: connections closed or broken, and calls cancelled

ASSUME PeerConnectAssumption ==
  /\ Modes \subseteq {"race", "fallback"} /\ MaxCloses \in Nat
  /\ None \notin Calls \cup Requests \cup Sockets
  /\ Calls \cap Requests = {} /\ Calls \cap Sockets = {} /\ Requests \cap Sockets = {}
  /\ {"none", "pending", "cancelled"} \cap Sockets = {}

Connections == Calls \cup Requests \cup Sockets

VARIABLES
  conn,      \* the connections and the tasks that make them
  call,      \* create_peer_connection of each call
  indirect,  \* the indirect attempt of each call
  future,    \* the future of the connection that is to come in for a ticket
  refusal,   \* the future of the CannotConnect message
  server,    \* the server connection is there
  closes     \* how much of the bound is used up

vars == <<conn, call, indirect, future, refusal, server, closes>>

---------------------------------------------------------------------------
(* The parts of a connection that matter here.  `making' is the step of the  *)
(* task that makes it, `open' the transport, `closing' that a disconnect awaits *)
(* the end of it.  `early' is set when the connection was disconnected, `given' *)
(* up when its task was cancelled, before it was open.                        *)
Fresh == [state |-> "UNINITIALIZED", init |-> FALSE, listed |-> FALSE, open |-> FALSE,
          closing |-> FALSE, making |-> "none", ticket |-> None, early |-> FALSE, given |-> FALSE]

Init ==
  /\ conn = [k \in Connections |-> Fresh]
  /\ call = [c \in Calls |-> [at |-> "idle", mode |-> "race", result |-> None]]
  /\ indirect = [c \in Calls |-> "none"]
  /\ future = [c \in Calls |-> "none"]
  /\ refusal = [c \in Calls |-> "none"]
  /\ server = TRUE /\ closes = 0

ClosingStates == {"CLOSING", "CLOSED"}

Ended == {"none", "made", "failed", "cancelled"}

Bounded == closes < MaxCloses /\ closes' = closes + 1

---------------------------------------------------------------------------
(* DataConnection.connect and disconnect, as functions of the connection.    *)
Connecting(k) == [k EXCEPT !.state = "CONNECTING", !.listed = TRUE, !.making = "connecting"]

(* CONNECTED is set whatever happened to the connection while it was opened.  *)
OpenedAs(k, making) == [k EXCEPT !.state = "CONNECTED", !.open = TRUE, !.making = making]

(* disconnect does nothing on a connection that is closing or closed, and has    *)
(* nothing to await when there is no transport.                              *)
Disconnecting(k) ==
  IF k.state \in ClosingStates THEN k
  ELSE IF k.open THEN [k EXCEPT !.state = "CLOSING", !.closing = TRUE]
  ELSE [k EXCEPT !.state = "CLOSED", !.listed = FALSE, !.early = @ \/ k.state = "CONNECTING"]

(* The task that makes the connection disconnects it and then fails, at once     *)
(* when there is nothing to close or another one is disconnecting it.          *)
Failing(k) ==
  IF k.open /\ k.state \notin ClosingStates
  THEN [Disconnecting(k) EXCEPT !.making = "fails"]
  ELSE [Disconnecting(k) EXCEPT !.making = "failed", !.early = k.early]

(* Mutant: a closed connection stays in the list.                            *)
ClosedInList(k) ==
  [k EXCEPT !.state = "CLOSED", !.open = FALSE, !.closing = FALSE,
            !.making = CASE @ = "fails" -> "failed" [] @ = "drops" -> "accepts" [] OTHER -> @]

ClosedOff(k) ==
  [k EXCEPT !.state = "CLOSED", !.listed = FALSE, !.open = FALSE, !.closing = FALSE,
            !.making = CASE @ = "fails" -> "failed"
                         [] @ = "drops" -> "accepts"
                         [] OTHER       -> @]

(* A cancelled task leaves a connection it was opening as it is; one that     *)
(* waits for the connection to close has it closed at once.                  *)
Abandoned(k) ==
  CASE k.making \in Ended    -> k
    [] k.making = "fails"    -> [ClosedOff(k) EXCEPT !.making = "cancelled"]
    [] OTHER -> [k EXCEPT !.making = "cancelled",
                          !.given = k.making \in {"connecting", "sending"}]

(* The transport is closed, whatever state was set in the meantime.             *)
Closed(k) ==
  /\ conn[k].closing
  /\ conn' = [conn EXCEPT ![k] = ClosedOff(@)]
  /\ UNCHANGED <<call, indirect, future, refusal, server, closes>>

(* A manager disconnects the connection, or its reader or a write finds it    *)
(* broken.  Those who disconnect have it from the list of the network.        *)
Closes(k) ==
  /\ conn[k].listed /\ conn[k].state \notin ClosingStates /\ Bounded
  /\ conn' = [conn EXCEPT ![k] = Disconnecting(@)]
  /\ UNCHANGED <<call, indirect, future, refusal, server>>

---------------------------------------------------------------------------
(* get_peer_connection and the start of the attempts.                        *)
Active == {k \in Connections : conn[k].listed /\ conn[k].init /\ conn[k].state = "CONNECTED"}

Reuse(c) ==
  /\ call[c].at = "idle"
  /\ \E k \in Active : call' = [call EXCEPT ![c].at = "returned", ![c].result = k]
  /\ UNCHANGED <<conn, indirect, future, refusal, server, closes>>

(* The address is asked for unless it is given; on a closed connection the     *)
(* question is dropped silently, and the wait has no timeout.                 *)
StartDirect(c, given) ==
  conn' = [conn EXCEPT ![c] = IF given THEN Connecting(@)
                              ELSE [@ EXCEPT !.making = IF server THEN "address" ELSE "stranded"]]

StartIndirect(c) ==
  /\ indirect' = [indirect EXCEPT ![c] = "sends"]
  /\ future'   = [future EXCEPT ![c] = "pending"]
  /\ refusal'  = [refusal EXCEPT ![c] = "pending"]

Create(c) ==
  /\ call[c].at = "idle" /\ Active = {}
  /\ \E mode \in Modes, given \in BOOLEAN :
       /\ call' = [call EXCEPT ![c].at = "waits", ![c].mode = mode]
       /\ StartDirect(c, given)
       /\ IF mode = "race" THEN StartIndirect(c) ELSE UNCHANGED <<indirect, future, refusal>>
  /\ UNCHANGED <<server, closes>>

(* GetPeerAddress answers are matched by the user name: one answers all.      *)
AddressArrives ==
  /\ server
  /\ \E c \in Calls : conn[c].making = "address"
  /\ \E found \in BOOLEAN :
       conn' = [k \in Connections |->
                  IF conn[k].making \notin {"address", "stranded"} THEN conn[k]
                  ELSE IF found THEN Connecting(conn[k])
                  ELSE [conn[k] EXCEPT !.making = "failed"]]
  /\ UNCHANGED <<call, indirect, future, refusal, server, closes>>

ServerLost ==
  /\ server /\ server' = FALSE /\ Bounded
  /\ conn' = [k \in Connections |-> IF conn[k].making = "address"
                                    THEN [conn[k] EXCEPT !.making = "stranded"] ELSE conn[k]]
  /\ UNCHANGED <<call, indirect, future, refusal>>

---------------------------------------------------------------------------
(* The direct attempt of a call, and the task of a request.                  *)
ConnectToPeer(r) ==
  /\ r \in Requests /\ server /\ conn[r] = Fresh
  /\ conn' = [conn EXCEPT ![r] = Connecting(@)]
  /\ UNCHANGED <<call, indirect, future, refusal, server, closes>>

Opens(k) ==
  /\ conn[k].making = "connecting"
  /\ \/ conn' = [conn EXCEPT ![k] = OpenedAs(@, "sending")]
     \/ conn' = [conn EXCEPT ![k] = Failing(@)]
  /\ UNCHANGED <<call, indirect, future, refusal, server, closes>>

(* PeerInit or PeerPierceFirewall; a closing connection drops it silently.     *)
Sends(k) ==
  /\ conn[k].making = "sending"
  /\ \/ conn' = [conn EXCEPT ![k].init = TRUE, ![k].making = "emits"]
     \/ conn' = [conn EXCEPT ![k] = Failing(@)]
  /\ UNCHANGED <<call, indirect, future, refusal, server, closes>>

Emits(k) ==
  /\ k \notin Sockets /\ conn[k].making = "emits"
  /\ conn' = [conn EXCEPT ![k].making = "made"]
  /\ UNCHANGED <<call, indirect, future, refusal, server, closes>>

---------------------------------------------------------------------------
(* The indirect attempt.  The server is told, which may fail; the peer         *)
(* connects, or the server says it cannot, or the time is over.  Then what is  *)
(* left of the futures is cancelled.                                          *)
Waits(c) ==
  /\ indirect[c] = "sends" /\ indirect' = [indirect EXCEPT ![c] = "waits"]
  /\ UNCHANGED <<conn, call, future, refusal, server, closes>>

CancelFutures(c) ==
  /\ future'  = [future EXCEPT ![c] = IF @ = "pending" THEN "cancelled" ELSE @]
  /\ refusal' = [refusal EXCEPT ![c] = IF @ = "pending" THEN "cancelled" ELSE @]

(* Mutant: the indirect attempt has no timeout.                              *)
OutcomesUntimed(c) ==
  (IF future[c] \in Sockets THEN {"made"} ELSE {})
  \cup (IF refusal[c] = "done" THEN {"failed"} ELSE {})

Outcomes(c) ==
  IF future[c] \notin Sockets /\ refusal[c] # "done" THEN {"failed"}   \* time is over
  ELSE (IF future[c] \in Sockets THEN {"made"} ELSE {})
       \cup (IF refusal[c] = "done" THEN {"failed"} ELSE {})

IndirectEnds(c) ==
  /\ \/ indirect[c] = "waits" /\ \E o \in Outcomes(c) : indirect' = [indirect EXCEPT ![c] = o]
     \/ indirect[c] = "sends" /\ indirect' = [indirect EXCEPT ![c] = "failed"]
  /\ CancelFutures(c)
  /\ UNCHANGED <<conn, call, server, closes>>

IndirectCancelled(c) ==
  /\ indirect[c] = "cancelling" /\ indirect' = [indirect EXCEPT ![c] = "cancelled"]
  /\ UNCHANGED <<conn, call, future, refusal, server, closes>>

CannotConnect(c) ==
  /\ server /\ refusal[c] = "pending" /\ indirect[c] = "waits"
  /\ refusal' = [refusal EXCEPT ![c] = "done"]
  /\ UNCHANGED <<conn, call, indirect, future, server, closes>>

(* The ticket is in the table of expected connections from the start of the    *)
(* attempt until the done-callback of its future has run.                      *)
Expected(c) == indirect[c] \notin Ended

---------------------------------------------------------------------------
(* A connection that the peer makes: ListeningConnection.accept and            *)
(* on_peer_accepted.                                                          *)
Accept(s) ==
  /\ s \in Sockets /\ conn[s] = Fresh
  /\ conn' = [conn EXCEPT ![s].listed = TRUE, ![s].open = TRUE, ![s].making = "receives"]
  /\ UNCHANGED <<call, indirect, future, refusal, server, closes>>

(* Mutant: the attempt is left to initialise the connection it gets.          *)
InitializedLater(s, c) == [conn[s] EXCEPT !.making = "emits", !.ticket = c]

Initialized(s, c) ==
  [conn[s] EXCEPT !.init = TRUE, !.making = "emits", !.ticket = c]

(* Anything but a message with a known ticket or a PeerInit is disconnected:   *)
(* the end of the stream, a timeout, an unknown message or ticket.  A message   *)
(* may have been read when the connection begins to close.                    *)
Receives(s) ==
  /\ conn[s].making = "receives"
  /\ \/ \E c \in {d \in Calls : Expected(d)} \cup {None} :
          conn[s].state # "CLOSED" /\ conn' = [conn EXCEPT ![s] = Initialized(s, c)]
     \/ conn' = [conn EXCEPT ![s] = IF @.state \in ClosingStates
                                    THEN [@ EXCEPT !.making = "accepts"]
                                    ELSE [Disconnecting(@) EXCEPT !.making = "drops"]]
  /\ UNCHANGED <<call, indirect, future, refusal, server, closes>>

(* After the listeners the future gets the connection.  When the attempt is    *)
(* over by then, set_result raises, and accept does not set CONNECTED; else it  *)
(* does, although the connection may be closing or closed.                    *)
(* Mutant: the future gets no result.                                        *)
DeliversNothing(s) ==
  /\ s \in Sockets /\ conn[s].making = "emits"
  /\ conn' = [conn EXCEPT ![s].making = "made", ![s].state = "CONNECTED"]
  /\ future' = [d \in Calls |-> IF d = conn[s].ticket THEN None ELSE future[d]]
  /\ UNCHANGED <<call, indirect, refusal, server, closes>>

Delivers(s) ==
  /\ s \in Sockets /\ conn[s].making = "emits"
  /\ LET c == conn[s].ticket IN
     IF c \in {d \in Calls : future[d] = "pending"} \cup {None}
     THEN /\ conn' = [conn EXCEPT ![s].making = "made", ![s].state = "CONNECTED"]
          /\ future' = [d \in Calls |-> IF d = c THEN s ELSE future[d]]
     ELSE conn' = [conn EXCEPT ![s].making = "failed"] /\ UNCHANGED future
  /\ UNCHANGED <<call, indirect, refusal, server, closes>>

(* accept sets CONNECTED also on a connection that on_peer_accepted closed.    *)
Accepts(s) ==
  /\ conn[s].making = "accepts"
  /\ conn' = [conn EXCEPT ![s].making = "failed", ![s].state = "CONNECTED"]
  /\ UNCHANGED <<call, indirect, future, refusal, server, closes>>

---------------------------------------------------------------------------
(* The call.  In fallback mode the attempts follow each other.               *)
Falls(c) ==
  /\ call[c].at = "waits" /\ call[c].mode = "fallback"
  /\ conn[c].making = "failed" /\ indirect[c] = "none"
  /\ StartIndirect(c)
  /\ UNCHANGED <<conn, call, server, closes>>

(* The results that asyncio.wait finds.                                      *)
Results(c) == (IF conn[c].making = "made" THEN {c} ELSE {})
              \cup (IF indirect[c] = "made" THEN {future[c]} ELSE {})

CancelDirect(c)   == conn' = [conn EXCEPT ![c] = Abandoned(@)]

CancelIndirect(c) ==
  IF indirect[c] \in Ended THEN UNCHANGED <<indirect, future, refusal>>
  ELSE indirect' = [indirect EXCEPT ![c] = "cancelling"] /\ CancelFutures(c)

(* A result: the other attempt is cancelled and awaited; of two results one    *)
(* is disconnected.                                                          *)
Wins(c) ==
  /\ call[c].at = "waits"
  /\ \E k \in Results(c) :
       /\ call' = [call EXCEPT ![c].at = "settles", ![c].result = k]
       /\ IF Results(c) = {k} THEN CancelDirect(c) /\ CancelIndirect(c)
          ELSE /\ conn' = [l \in Connections |-> IF l \in Results(c) \ {k}
                                                 THEN Disconnecting(conn[l]) ELSE conn[l]]
               /\ UNCHANGED <<indirect, future, refusal>>
  /\ UNCHANGED <<server, closes>>

AttemptsOver(c) == conn[c].making \in Ended /\ indirect[c] \in Ended

(* Mutant: the cancelled attempt is not awaited.                             *)
ReturnsAtOnce(c) ==
  /\ call[c].at = "settles"
  /\ call' = [call EXCEPT ![c].at = "returned"]
  /\ UNCHANGED <<conn, indirect, future, refusal, server, closes>>

Returns(c) ==
  /\ call[c].at = "settles" /\ AttemptsOver(c)
  /\ \A k \in Results(c) \ {call[c].result} : ~conn[k].closing
  /\ call' = [call EXCEPT ![c].at = "returned"]
  /\ UNCHANGED <<conn, indirect, future, refusal, server, closes>>

Raises(c) ==
  /\ call[c].at = "waits" /\ conn[c].making = "failed" /\ indirect[c] = "failed"
  /\ call' = [call EXCEPT ![c].at = "raised"]
  /\ UNCHANGED <<conn, indirect, future, refusal, server, closes>>

(* The task of the caller is cancelled, and the attempts with it.              *)
CancelCall(c) ==
  /\ call[c].at \in {"waits", "settles"} /\ Bounded
  /\ call' = [call EXCEPT ![c].at = "cancels"]
  /\ CancelDirect(c) /\ CancelIndirect(c)
  /\ UNCHANGED server

CallCancelled(c) ==
  /\ call[c].at = "cancels" /\ AttemptsOver(c)
  /\ call' = [call EXCEPT ![c].at = "cancelled"]
  /\ UNCHANGED <<conn, indirect, future, refusal, server, closes>>

(* Network.disconnect: the tasks of the requests are cancelled, every listed   *)
(* connection is disconnected, and so is the server.                          *)
NetworkDisconnect ==
  /\ Bounded /\ server' = FALSE
  /\ conn' = [k \in Connections |->
                LET task == IF k \in Requests THEN Abandoned(conn[k])
                            ELSE IF conn[k].making = "address"
                            THEN [conn[k] EXCEPT !.making = "stranded"] ELSE conn[k]
                IN  IF conn[k].listed THEN Disconnecting(task) ELSE task]
  /\ UNCHANGED <<call, indirect, future, refusal>>

---------------------------------------------------------------------------
Next ==
  \/ \E k \in Connections : Closed(k) \/ Closes(k) \/ Opens(k) \/ Sends(k) \/ Emits(k)
  \/ \E c \in Calls :
       \/ Reuse(c) \/ Create(c) \/ Waits(c) \/ IndirectEnds(c) \/ IndirectCancelled(c)
       \/ CannotConnect(c) \/ Falls(c) \/ Wins(c) \/ Returns(c) \/ Raises(c)
       \/ CancelCall(c) \/ CallCancelled(c)
  \/ \E r \in Requests : ConnectToPeer(r)
  \/ \E s \in Sockets : Accept(s) \/ Receives(s) \/ Delivers(s) \/ Accepts(s)
  \/ AddressArrives \/ ServerLost \/ NetworkDisconnect

Spec == Init /\ [][Next]_vars

(* Every await but that of the address ends: connecting, reading, writing,     *)
(* closing and the indirect attempt have timeouts; the server answers while    *)
(* it is there; the loop runs every task that is ready.                       *)
Fairness ==
  /\ \A k \in Connections : WF_vars(Closed(k)) /\ WF_vars(Opens(k)) /\ WF_vars(Sends(k))
                            /\ WF_vars(Emits(k))
  /\ \A c \in Calls : /\ WF_vars(Waits(c) \/ IndirectEnds(c) \/ IndirectCancelled(c))
                      /\ WF_vars(Falls(c) \/ Wins(c) \/ Returns(c) \/ Raises(c))
                      /\ WF_vars(CallCancelled(c))
  /\ WF_vars(AddressArrives)

FairSpec == Spec /\ Fairness

---------------------------------------------------------------------------
TypeOK ==
  /\ conn \in [Connections ->
       [state : {"UNINITIALIZED", "CONNECTING", "CONNECTED", "CLOSING", "CLOSED"},
        init : BOOLEAN, listed : BOOLEAN, open : BOOLEAN, closing : BOOLEAN,
        making : Ended \cup {"address", "stranded", "connecting", "sending", "emits",
                             "fails", "receives", "drops", "accepts"},
        ticket : Calls \cup {None}, early : BOOLEAN, given : BOOLEAN]]
  /\ call \in [Calls -> [at : {"idle", "waits", "settles", "cancels", "returned",
                               "raised", "cancelled"},
                         mode : {"race", "fallback"}, result : Connections \cup {None}]]
  /\ indirect \in [Calls -> Ended \cup {"sends", "waits", "cancelling"}]
  /\ future \in [Calls -> {"none", "pending", "cancelled"} \cup Sockets]
  /\ refusal \in [Calls -> {"none", "pending", "cancelled", "done"}]
  /\ server \in BOOLEAN /\ closes \in 0..MaxCloses

Over(c) == call[c].at \in {"returned", "raised", "cancelled"}

(* When a call is over, whether it returned, raised or was cancelled, neither   *)
(* of its attempts goes on and nobody waits for its futures.                   *)
AttemptsEnd ==
  \A c \in Calls : Over(c) => AttemptsOver(c) /\ future[c] # "pending" /\ refusal[c] # "pending"

(* A call returns a connection that is initialised and was made for it: its     *)
(* own one or that of the peer that presented its ticket; or one that it found  *)
(* active.                                                                  *)
RightConnection ==
  \A c \in Calls : call[c].at = "returned" =>
    LET k == call[c].result IN
    /\ k # None /\ conn[k].init
    /\ indirect[c] # "none" \/ conn[c].making # "none" => k = c \/ conn[k].ticket = c

(* However the two attempts of a call, its timeouts and its cancellation        *)
(* interleave, it leaves nothing running and gives the caller the right        *)
(* connection or none.                                                        *)
CallsSettle == AttemptsEnd /\ RightConnection

(* The network lists a connection as long as it is open, so that it can be found *)
(* and closed, and else only while it is being opened.  Exceptions: one that was *)
(* disconnected while it was opened comes up unlisted, and one whose task was   *)
(* cancelled meanwhile stays listed.  That a closed connection may be CONNECTED  *)
(* by its state is not looked at.                                             *)
ListedWhileOpen ==
  \A k \in Connections :
    /\ conn[k].open /\ ~conn[k].early => conn[k].listed
    /\ conn[k].listed /\ ~conn[k].given => conn[k].open \/ conn[k].making = "connecting"

(* A call ends, unless it waits for an address from a server that is gone.       *)
CallsEnd ==
  \A c \in Calls : call[c].at # "idle" ~> (Over(c) \/ conn[c].making = "stranded")
=============================================================================
