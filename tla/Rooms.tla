-------------------------------- MODULE Rooms --------------------------------
(***************************************************************************)
(* RoomManager: what the client knows of the chat rooms, from the messages   *)
(* of the server, and the commands of the application that wait for one of   *)
(* those messages (SoulSeekClient.execute).                                  *)
(*                                                                          *)
(* The server is external.  Its part is what RoomManager and the commands    *)
(* rely on: it keeps the rooms (truth), answers requests in order, and tells *)
(* members and joined users of every change in the order of the source's     *)
(* test server (src/tests/e2e/mock/server.py).                               *)
(***************************************************************************)
EXTENDS Naturals, Sequences, FiniteSets, SequencesExt

CONSTANTS RoomNames, Private,  \* rooms, and those created as private ones
          Me, Others, None,    \* users; None is no user and no room
          Favorites,           \* settings.rooms.favorites, all public
          AutoJoin,            \* settings.rooms.auto_join
          Calls,               \* commands of the application
          MaxChanges,          \* bound: what other users do
          MaxLosses            \* bound: connections that are lost

ASSUME RoomsAssumption ==
  /\ Private \subseteq RoomNames /\ Favorites \subseteq RoomNames \ Private
  /\ IsFiniteSet(RoomNames) /\ IsFiniteSet(Others)
  /\ Me \notin Others /\ None \notin Others \cup {Me}
  /\ AutoJoin \in BOOLEAN /\ MaxChanges \in Nat /\ MaxLosses \in Nat

Users == Others \cup {Me}

VARIABLES
  truth,      \* the rooms of the server
  rooms,      \* RoomManager._rooms
  toServer,   \* requests under way
  toClient,   \* messages under way
  handled,    \* the message whose listeners returned, not yet completing futures
  call,       \* the commands of the application
  online,     \* there is a session
  spent       \* how much of each bound is used up

vars == <<truth, rooms, toServer, toClient, handled, call, online, spent>>

---------------------------------------------------------------------------
(* Room, and the server's own record of one.                                *)
Room == [private : BOOLEAN, joined : BOOLEAN, users : SUBSET Users,
         owner : Users \cup {None}, members : SUBSET Users,
         operators : SUBSET Users, tickers : SUBSET Users]

ASSUME NoneAssumption == None \notin Room

NewRoom(private) == [private |-> private, joined |-> FALSE, users |-> {}, owner |-> None,
                     members |-> {}, operators |-> {}, tickers |-> {}]

ServerRoom == [owner : Users \cup {None}, members : SUBSET Users,
               operators : SUBSET Users, joined : SUBSET Users, tickers : SUBSET Users]

New == [owner |-> None, members |-> {}, operators |-> {}, joined |-> {}, tickers |-> {}]

(* A private room may be there from earlier sessions, with its members.        *)
Existing ==
  UNION {{[New EXCEPT !.owner = o, !.members = {m} \ {o}] : m \in Users} : o \in Users}

Idle == [kind |-> "none", room |-> None, user |-> None, at |-> "idle"]

Init ==
  /\ truth \in [RoomNames -> {New} \cup Existing]
  /\ \A r \in RoomNames \ Private : truth[r] = New
  /\ rooms = [r \in RoomNames |-> None]
  /\ toServer = <<>> /\ toClient = <<>> /\ handled = None
  /\ call = [c \in Calls |-> Idle] /\ online = FALSE
  /\ spent = [changes |-> 0, losses |-> 0]

---------------------------------------------------------------------------
(* The messages of the server.                                              *)
Told(kind, r, u) == <<[kind |-> kind, room |-> r, user |-> u]>>
If(P, messages)  == IF P THEN messages ELSE <<>>

AllMembers(t, r) == IF t[r].owner = None THEN {} ELSE t[r].members \cup {t[r].owner}

RoomList(t) ==
  <<[kind     |-> "RoomList",
     public   |-> {r \in RoomNames : t[r].owner = None /\ t[r].joined # {}},
     private  |-> {r \in RoomNames : t[r].owner # None /\ Me \in t[r].members},
     owned    |-> {r \in RoomNames : t[r].owner = Me},
     operated |-> {r \in RoomNames : t[r].owner # None /\ Me \in t[r].operators}]>>

(* send_room_list_update: the list, then members and operators of each room. *)
ListUpdate(t) ==
  LET mine == SetToSeq({r \in RoomNames : Me \in AllMembers(t, r)})
  IN  RoomList(t)
      \o [i \in DOMAIN mine |-> [kind |-> "PrivateRoomMembers", room |-> mine[i],
                                 users |-> t[mine[i]].members]]
      \o [i \in DOMAIN mine |-> [kind |-> "PrivateRoomOperators", room |-> mine[i],
                                 users |-> t[mine[i]].operators]]

JoinMessages(t, r, u) ==
  If(Me \in t[r].joined, Told("UserJoinedRoom", r, u))
  \o If(u = Me, <<[kind |-> "JoinRoom", room |-> r, users |-> t[r].joined,
                   owner |-> t[r].owner, operators |-> t[r].operators],
                  [kind |-> "RoomTickers", room |-> r, users |-> t[r].tickers]>>)

LeaveMessages(t, r, u) ==
  IF u = Me THEN Told("LeaveRoom", r, Me)
  ELSE If(Me \in t[r].joined, Told("UserLeftRoom", r, u))

(* The server changes its rooms and tells us; nothing arrives if we are away. *)
Server(t, messages) ==
  /\ truth' = t
  /\ toClient' = IF online THEN toClient \o messages ELSE <<>>

Joins(r, u) ==
  LET created == u = Me /\ r \in Private /\ truth[r].owner = None /\ truth[r].joined = {}
      t == [truth EXCEPT ![r].joined = @ \cup {u},
                         ![r].owner = IF r \in Private /\ @ = None /\ truth[r].joined = {}
                                      THEN u ELSE @]
      claimed == [t EXCEPT ![r].joined = {}]
  IN  Server(t, If(created, ListUpdate(claimed)) \o JoinMessages(t, r, u))

MayJoin(r, u) ==
  u \notin truth[r].joined /\ (truth[r].owner # None => u \in AllMembers(truth, r))

Leaves(r, u) ==
  LET t == [truth EXCEPT ![r].joined = @ \ {u}]
  IN  Server(t, LeaveMessages(t, r, u))

Grants(r, u) ==
  LET t == [truth EXCEPT ![r].members = @ \cup {u}]
  IN  Server(t, If(Me \in AllMembers(t, r), Told("PrivateRoomGrantMembership", r, u))
                \o If(u = Me, Told("PrivateRoomMembershipGranted", r, Me) \o ListUpdate(t)))

GrantsOperator(r, u) ==
  LET t    == [truth EXCEPT ![r].operators = @ \cup {u}]
      told == Told("PrivateRoomGrantOperator", r, u)
  IN  Server(t, If(Me \in AllMembers(t, r), told) \o If(Me \in t[r].joined, told)
                \o If(u = Me, Told("PrivateRoomOperatorGranted", r, Me) \o ListUpdate(t)))

RevokeOperatorMessages(t, r, u) ==
  LET told == Told("PrivateRoomRevokeOperator", r, u)
  IN  If(Me \in AllMembers(t, r), told) \o If(Me \in t[r].joined, told)
      \o If(u = Me, Told("PrivateRoomOperatorRevoked", r, Me) \o ListUpdate(t))

RevokesOperator(r, u) ==
  LET t == [truth EXCEPT ![r].operators = @ \ {u}]
  IN  Server(t, RevokeOperatorMessages(t, r, u))

(* Who is no longer a member leaves the room as well.                        *)
RevokeMessages(t, r, u) ==
  LET leave == If(u \in truth[r].joined, LeaveMessages(t, r, u))
  IN  IF u = Me THEN Told("PrivateRoomMembershipRevoked", r, Me) \o leave \o ListUpdate(t)
      ELSE If(Me \in AllMembers(t, r), Told("PrivateRoomRevokeMembership", r, u)) \o leave

Revokes(r, u) ==
  LET left == [truth EXCEPT ![r].members = @ \ {u}, ![r].joined = @ \ {u}]
      t    == [left EXCEPT ![r].operators = @ \ {u}]
  IN  Server(t, RevokeMessages(left, r, u)
                \o If(u \in truth[r].operators, RevokeOperatorMessages(t, r, u)))

(* The room has no owner then; its members leave one after the other, and we   *)
(* are told of those before us.  Who owned the room need not leave.           *)
Disowns(r, u) ==
  LET gone == truth[r].members
      t    == [truth EXCEPT ![r].owner = None, ![r].members = {}, ![r].operators = {},
                            ![r].joined = @ \ gone]
  IN  \E first \in SUBSET (gone \ {Me}) :
        LET left == SetToSeq(first \cap truth[r].joined)
            then == [t EXCEPT ![r].joined = truth[r].joined \ (first \cup {Me})]
        IN  /\ Me \notin gone => first = gone
            /\ Server(t, If(Me \in truth[r].joined,
                            [i \in DOMAIN left |-> [kind |-> "UserLeftRoom", room |-> r,
                                                   user |-> left[i]]])
                         \o If(Me \in gone, RevokeMessages(then, r, Me))
                         \o If(u = Me, ListUpdate(t)))

SetsTicker(r, u) ==
  LET t == [truth EXCEPT ![r].tickers = @ \cup {u}]
  IN  Server(t, If(Me \in t[r].joined,
                   If(u \in truth[r].tickers, Told("RoomTickerRemoved", r, u))
                   \o Told("RoomTickerAdded", r, u)))

(* What one user asks for and another may be the object of.                   *)
OwnKinds  == {"join", "leave", "drop", "disown", "ticker"}
UserKinds == {"grant", "revoke", "grantOperator", "revokeOperator"}

May(by, kind, r, u) ==
  LET room == truth[r] IN
  /\ kind \in OwnKinds => u = by
  /\ \/ kind = "join" /\ MayJoin(r, u)
     \/ kind \in {"leave", "ticker"} /\ u \in room.joined
     \/ kind = "drop" /\ u \in room.members
     \/ kind = "disown" /\ u = room.owner
     \/ kind = "grant" /\ by \in room.operators \cup {room.owner} /\ u \notin AllMembers(truth, r)
     \/ /\ kind = "revoke" /\ u \in room.members \ {by}
        /\ (by = room.owner \/ (by \in room.operators /\ u \notin room.operators))
     \/ kind = "grantOperator" /\ by = room.owner /\ u \in room.members \ room.operators
     \/ kind = "revokeOperator" /\ by = room.owner /\ u \in room.operators

Does(kind, r, u) ==
  \/ kind = "join" /\ Joins(r, u)
  \/ kind = "leave" /\ Leaves(r, u)
  \/ kind = "ticker" /\ SetsTicker(r, u)
  \/ kind \in {"drop", "revoke"} /\ Revokes(r, u)
  \/ kind = "disown" /\ Disowns(r, u)
  \/ kind = "grant" /\ Grants(r, u)
  \/ kind = "grantOperator" /\ GrantsOperator(r, u)
  \/ kind = "revokeOperator" /\ RevokesOperator(r, u)

Change ==
  /\ spent.changes < MaxChanges /\ spent' = [spent EXCEPT !.changes = @ + 1]
  /\ \E by \in Others, kind \in OwnKinds \cup UserKinds, r \in RoomNames, u \in Users :
       May(by, kind, r, u) /\ Does(kind, r, u)
  /\ UNCHANGED <<rooms, toServer, handled, call, online>>

(* A request of ours that the server does not grant has no answer.           *)
Serve ==
  /\ online /\ toServer # <<>> /\ toServer' = Tail(toServer)
  /\ LET m == Head(toServer) IN
     IF m.kind = "list" THEN Server(truth, RoomList(truth))
     ELSE IF May(Me, m.kind, m.room, m.user) THEN Does(m.kind, m.room, m.user)
     ELSE Server(truth, <<>>)
  /\ UNCHANGED <<rooms, handled, call, online, spent>>

---------------------------------------------------------------------------
(* The handlers of RoomManager: a message changes a room the client knows, or  *)
(* one it gets to know.                                                      *)
Get(known, private) == IF known = None THEN NewRoom(private) ELSE known

Public(known) == Get(known, FALSE)
Secret(known) == Get(known, TRUE)

(* Mutant: the room we joined does not show that we did.                      *)
JoinedUnmarked(known, m) ==
  [Public(known) EXCEPT !.private = m.owner # None, !.users = @ \cup m.users,
                        !.owner = m.owner, !.operators = m.operators]

(* Mutant: the operators of the message are taken for the owner.              *)
JoinedMixed(known, m) ==
  [Public(known) EXCEPT !.joined = TRUE, !.private = m.owner # None,
                        !.users = @ \cup m.users,
                        !.owner = m.operators, !.operators = m.operators]

Joined(known, m) ==
  [Public(known) EXCEPT !.joined = TRUE, !.private = m.owner # None,
                        !.users = @ \cup m.users,
                        !.owner = m.owner, !.operators = m.operators]

UserJoined(known, m) == [Public(known) EXCEPT !.users = @ \cup {m.user}]
UserLeft(known, m)   == [Public(known) EXCEPT !.users = @ \ {m.user}]
RoomLeft(known)      == [Public(known) EXCEPT !.joined = FALSE, !.users = {}]

Tickers(known, m)       == [Public(known) EXCEPT !.tickers = m.users]
TickerAdded(known, m)   == [Public(known) EXCEPT !.tickers = @ \cup {m.user}]
TickerRemoved(known, m) == [Public(known) EXCEPT !.tickers = @ \ {m.user}]

(* Membership and operators, of another user or of ourselves.  Who loses the   *)
(* membership is no operator either.                                         *)
MembershipGranted(known, m) == [Secret(known) EXCEPT !.members = @ \cup {m.user}]
MembershipRevoked(known, m) ==
  [Secret(known) EXCEPT !.members = @ \ {m.user}, !.operators = @ \ {m.user}]
Members(known, m)   == [Secret(known) EXCEPT !.members = m.users]
Operators(known, m) == [Secret(known) EXCEPT !.operators = m.users]
UserOperatorGranted(known, m) == [Secret(known) EXCEPT !.operators = @ \cup {m.user}]
UserOperatorRevoked(known, m) == [Secret(known) EXCEPT !.operators = @ \ {m.user}]

(* _on_operator_granted takes us out of the operators: it is the message to   *)
(* all members before it and the list after it that make us one.             *)
OperatorGranted(known) == [Secret(known) EXCEPT !.operators = @ \ {Me}]
OperatorRevoked(known) == [Secret(known) EXCEPT !.operators = @ \ {Me}]

RoomAfter(known, m) ==
  CASE m.kind = "UserJoinedRoom"    -> UserJoined(known, m)
    [] m.kind = "UserLeftRoom"      -> UserLeft(known, m)
    [] m.kind = "JoinRoom"          -> Joined(known, m)
    [] m.kind = "LeaveRoom"         -> RoomLeft(known)
    [] m.kind = "RoomTickers"       -> Tickers(known, m)
    [] m.kind = "RoomTickerAdded"   -> TickerAdded(known, m)
    [] m.kind = "RoomTickerRemoved" -> TickerRemoved(known, m)
    [] m.kind \in {"PrivateRoomGrantMembership", "PrivateRoomMembershipGranted"}
                                    -> MembershipGranted(known, m)
    [] m.kind \in {"PrivateRoomRevokeMembership", "PrivateRoomMembershipRevoked"}
                                    -> MembershipRevoked(known, m)
    [] m.kind = "PrivateRoomMembers"         -> Members(known, m)
    [] m.kind = "PrivateRoomOperators"       -> Operators(known, m)
    [] m.kind = "PrivateRoomGrantOperator"   -> UserOperatorGranted(known, m)
    [] m.kind = "PrivateRoomRevokeOperator"  -> UserOperatorRevoked(known, m)
    [] m.kind = "PrivateRoomOperatorGranted" -> OperatorGranted(known)
    [] m.kind = "PrivateRoomOperatorRevoked" -> OperatorRevoked(known)

(* _on_room_list: rooms in none of the lists are removed; the others get our  *)
(* membership, ownership and privileges as listed.                           *)
Listed(r, known, m) ==
  LET room         == Get(known, r \notin m.public)
      mine(set, P) == IF P THEN set \cup {Me} ELSE set \ {Me}
  IN  IF r \notin m.public \cup m.private \cup m.owned THEN None
      ELSE [room EXCEPT
              !.owner = IF r \in m.owned THEN Me ELSE IF @ = Me THEN None ELSE @,
              !.members = mine(@, r \in m.private),
              !.operators = mine(@, r \in m.operated),
              !.private = r \notin m.public]

After(r, known, m) ==
  IF m.kind = "RoomList" THEN Listed(r, known, m)
  ELSE IF m.room = r THEN RoomAfter(known, m) ELSE known

RoomsAfter(m) == [r \in RoomNames |-> After(r, rooms[r], m)]

Handle ==
  /\ online /\ handled = None /\ toClient # <<>>
  /\ rooms' = RoomsAfter(Head(toClient))
  /\ handled' = Head(toClient) /\ toClient' = Tail(toClient)
  /\ UNCHANGED <<truth, toServer, call, online, spent>>

(* on_message_received: the futures that match are completed when all         *)
(* listeners of the message have returned, and those may suspend.            *)
Answer == [join |-> "JoinRoom", leave |-> "LeaveRoom", drop |-> "PrivateRoomMembershipRevoked",
           ticker |-> "RoomTickerAdded", list |-> "RoomList",
           grant |-> "PrivateRoomGrantMembership", revoke |-> "PrivateRoomRevokeMembership",
           grantOperator |-> "PrivateRoomGrantOperator",
           revokeOperator |-> "PrivateRoomRevokeOperator"]

(* Mutant: the answer about any room completes the command.                   *)
MatchesAnyRoom(c, m) == m.kind = Answer[call[c].kind]

Matches(c, m) ==
  /\ m.kind = Answer[call[c].kind]
  /\ call[c].kind # "list" => m.room = call[c].room
  /\ call[c].kind \in UserKinds \cup {"ticker"} => m.user = call[c].user

CompleteFutures ==
  /\ handled # None
  /\ call' = [c \in Calls |-> IF call[c].at = "waits" /\ Matches(c, handled)
                              THEN [call[c] EXCEPT !.at = "answered"] ELSE call[c]]
  /\ handled' = None
  /\ UNCHANGED <<truth, rooms, toServer, toClient, online, spent>>

---------------------------------------------------------------------------
(* The application: execute needs a session, registers the future, sends and *)
(* waits; handle_response looks the room up again, if its result is the room. *)
Commands ==
  [kind : OwnKinds, room : RoomNames, user : {Me}]
  \cup [kind : UserKinds, room : Private, user : Others]
  \cup [kind : {"list"}, room : {None}, user : {Me}]

Execute(c) ==
  /\ online /\ call[c].at = "idle"
  /\ \E command \in Commands :
       /\ call' = [call EXCEPT ![c] =
            [kind |-> command.kind, room |-> command.room, user |-> command.user,
             at |-> IF command.kind = "disown" THEN "returned" ELSE "waits"]]
       /\ toServer' = Append(toServer, command)
  /\ UNCHANGED <<truth, rooms, toClient, handled, online, spent>>

LooksUp == {"join", "leave", "grant", "revoke", "drop"}

Return(c) ==
  /\ call' = [call EXCEPT ![c].at =
       CASE @ = "answered" /\ call[c].kind \in LooksUp /\ rooms[call[c].room] = None -> "KeyError"
         [] @ = "answered" -> "returned"
         [] OTHER          -> "timeout"]
  /\ call[c].at \in {"waits", "answered"}
  /\ UNCHANGED <<truth, rooms, toServer, toClient, handled, online, spent>>

(* A session begins: the server sends the list, the client asks for its       *)
(* favorites unless auto_join is set.                                        *)
(* Mutant: the favorites are not joined.                                     *)
SessionWithoutFavorites ==
  /\ ~online /\ handled = None /\ online' = TRUE
  /\ toClient' = ListUpdate(truth) /\ toServer' = <<>>
  /\ UNCHANGED <<truth, rooms, handled, call, spent>>

SessionInitialized ==
  /\ ~online /\ handled = None /\ online' = TRUE
  /\ toClient' = ListUpdate(truth)
  /\ toServer' = IF AutoJoin THEN <<>>
                 ELSE LET favorites == SetToSeq(Favorites)
                      IN [i \in DOMAIN favorites |->
                            [kind |-> "join", room |-> favorites[i], user |-> Me]]
  /\ UNCHANGED <<truth, rooms, handled, call, spent>>

(* CLOSED: reset_rooms; the server takes us out of the rooms we joined.       *)
ConnectionClosed ==
  /\ online /\ online' = FALSE
  /\ spent.losses < MaxLosses /\ spent' = [spent EXCEPT !.losses = @ + 1]
  /\ rooms' = [r \in RoomNames |-> None]
  /\ truth' = [r \in RoomNames |-> [truth[r] EXCEPT !.joined = @ \ {Me}]]
  /\ toClient' = <<>> /\ toServer' = <<>>
  /\ UNCHANGED <<handled, call>>

---------------------------------------------------------------------------
Next ==
  \/ Change \/ Serve \/ Handle \/ CompleteFutures
  \/ \E c \in Calls : Execute(c) \/ Return(c)
  \/ SessionInitialized \/ ConnectionClosed

Spec == Init /\ [][Next]_vars

(* The server serves, the reader reads and the client logs in again.          *)
Fairness == WF_vars(Serve) /\ WF_vars(Handle) /\ WF_vars(CompleteFutures)
            /\ WF_vars(SessionInitialized)

FairSpec == Spec /\ Fairness

---------------------------------------------------------------------------
TypeOK ==
  /\ truth \in [RoomNames -> ServerRoom]
  /\ \A r \in RoomNames : rooms[r] = None \/ rooms[r] \in Room
  /\ \A c \in Calls : call[c].at \in {"idle", "waits", "answered", "returned",
                                      "timeout", "KeyError"}
  /\ online \in BOOLEAN
  /\ spent.changes \in 0..MaxChanges /\ spent.losses \in 0..MaxLosses

(* When no message is under way, the client's rooms are those of the server:  *)
(* where we joined, who is there and what tickers they set; of the private    *)
(* rooms of which we are a member, the members and the operators; and what we *)
(* are ourselves.  The handlers get there in several messages, some of which  *)
(* say the opposite (_on_operator_granted) or create rooms that the next list *)
(* removes.                                                                  *)
Agrees(known, real) ==
  /\ known.joined = (Me \in real.joined)
  /\ known.joined => known.users = real.joined /\ known.tickers = real.tickers
  /\ (known.owner = Me) = (real.owner = Me)
  /\ (Me \in known.operators) = (Me \in real.operators)
  /\ (Me \in known.members) = (Me \in real.members)

RoomsAgree ==
  online /\ toClient = <<>> =>
    \A r \in RoomNames :
      IF rooms[r] = None
      THEN Me \notin AllMembers(truth, r) \cup truth[r].joined
      ELSE /\ Agrees(rooms[r], truth[r])
           /\ Me \in AllMembers(truth, r) =>
                /\ rooms[r].private
                /\ rooms[r].members = truth[r].members
                /\ rooms[r].operators = truth[r].operators

(* A command is answered when the rooms already show what its answer says     *)
(* ("Event handling has priority over completing the future responses"),      *)
(* unless the connection was lost while the listeners were suspended.         *)
Shows(room, command) ==
  CASE command.kind = "join"           -> room.joined
    [] command.kind = "leave"          -> ~room.joined
    [] command.kind = "ticker"         -> Me \in room.tickers
    [] command.kind = "grant"          -> command.user \in room.members
    [] command.kind \in {"revoke", "drop"} ->
         command.user \notin room.members \cup room.operators
    [] command.kind = "grantOperator"  -> command.user \in room.operators
    [] command.kind = "revokeOperator" -> command.user \notin room.operators

AnswerIsVisible ==
  [][\A c \in Calls :
       call[c].at = "waits" /\ call'[c].at = "answered" /\ online =>
         \/ call[c].kind = "list"
         \/ rooms[call[c].room] # None /\ Shows(rooms[call[c].room], call[c])]_vars

(* With auto_join off, whenever there is no session the favorites are joined     *)
(* again: by the next one, or, if that is lost while it asks for them, by the    *)
(* one after it (_on_session_initialized asks for them only then).              *)
FavoritesRejoined ==
  \A r \in Favorites : ~AutoJoin /\ ~online ~> (rooms[r] # None /\ rooms[r].joined)

(* What SETTINGS.rst says of auto_join and favorites: with auto_join, which is   *)
(* the default, rooms are rejoined "when logon is successful" and the favorites *)
(* "automatically be joined".                                                *)
AutomaticallyJoined ==
  \A r \in Favorites : AutoJoin /\ ~online ~> (rooms[r] # None /\ rooms[r].joined)
=============================================================================
