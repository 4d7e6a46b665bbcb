----------------------------- MODULE Rooms_proof -----------------------------
(***************************************************************************)
(* Theorems about Rooms, for any rooms, users, commands and bounds: the      *)
(* variables keep their types, an answered command finds its effect in the   *)
(* rooms, and when no message is under way the rooms are those of the server. *)
(*                                                                          *)
(* The last needs the messages under way: handled in order, they bring the   *)
(* room of the client to that of the server.  Every change of the server is   *)
(* followed through the messages that tell of it, handler by handler.        *)
(***************************************************************************)
EXTENDS Rooms, TLAPS, FiniteSetTheorems, SequenceTheorems

(* What the server may say.  Four messages are always about ourselves.         *)
AboutMe == {"LeaveRoom", "PrivateRoomMembershipGranted", "PrivateRoomMembershipRevoked",
            "PrivateRoomOperatorGranted", "PrivateRoomOperatorRevoked"}

AboutUser == {"UserJoinedRoom", "UserLeftRoom", "RoomTickerAdded", "RoomTickerRemoved",
              "PrivateRoomGrantMembership", "PrivateRoomRevokeMembership",
              "PrivateRoomGrantOperator", "PrivateRoomRevokeOperator"}

Message ==
  [kind : AboutUser, room : RoomNames, user : Users]
  \cup [kind : AboutMe, room : RoomNames, user : {Me}]
  \cup [kind : {"JoinRoom"}, room : RoomNames, users : SUBSET Users,
        owner : Users \cup {None}, operators : SUBSET Users]
  \cup [kind : {"RoomTickers", "PrivateRoomMembers", "PrivateRoomOperators"},
        room : RoomNames, users : SUBSET Users]
  \cup [kind : {"RoomList"}, public : SUBSET RoomNames, private : SUBSET RoomNames,
        owned : SUBSET RoomNames, operated : SUBSET RoomNames]

ServerTyped == truth \in [RoomNames -> ServerRoom]

LinesTyped ==
  /\ toClient \in Seq(Message) /\ toServer \in Seq(Commands)
  /\ handled = None \/ handled \in Message

(* A room, as the client knows it or not.                                     *)
Known == Room \cup {None}

RoomsTyped == rooms \in [RoomNames -> Known]

CommandState == [kind : OwnKinds \cup UserKinds \cup {"list", "none"},
                 room : RoomNames \cup {None}, user : Users \cup {None},
                 at : {"idle", "waits", "answered", "returned", "timeout", "KeyError"}]

(* Who waits asked for something that has an answer.                          *)
Waiting(command) ==
  /\ command.kind \in (OwnKinds \cup UserKinds \cup {"list"}) \ {"disown"}
  /\ command.kind # "list" => command.room \in RoomNames
  /\ command.kind \in OwnKinds => command.user = Me

CallsTyped ==
  /\ call \in [Calls -> CommandState]
  /\ \A c \in Calls : call[c].at \in {"waits", "answered"} => Waiting(call[c])

CountsTyped ==
  /\ online \in BOOLEAN
  /\ spent \in [changes : 0..MaxChanges, losses : 0..MaxLosses]

(* What a message says is in the rooms until its futures are completed.        *)
Visible(m, known) ==
  /\ m.kind # "RoomList" => known[m.room] # None
  /\ m.kind = "JoinRoom" => known[m.room].joined
  /\ m.kind = "LeaveRoom" => ~known[m.room].joined
  /\ m.kind = "RoomTickerAdded" => m.user \in known[m.room].tickers
  /\ m.kind = "PrivateRoomGrantMembership" => m.user \in known[m.room].members
  /\ m.kind \in {"PrivateRoomRevokeMembership", "PrivateRoomMembershipRevoked"} =>
       m.user \notin known[m.room].members \cup known[m.room].operators
  /\ m.kind = "PrivateRoomGrantOperator" => m.user \in known[m.room].operators
  /\ m.kind = "PrivateRoomRevokeOperator" => m.user \notin known[m.room].operators

HandledShown == online /\ handled # None => Visible(handled, rooms)

RoomsInv ==
  /\ ServerTyped /\ LinesTyped /\ RoomsTyped /\ CallsTyped /\ CountsTyped
  /\ HandledShown

---------------------------------------------------------------------------
(* Sequences of messages.                                                   *)

(* SetToSeq lists the elements of a finite set.                               *)
LEMMA SetToSeqTyped ==
  ASSUME NEW S, IsFiniteSet(S)
  PROVE  /\ Cardinality(S) \in Nat
         /\ SetToSeq(S) \in [1..Cardinality(S) -> S]
<1>1. Cardinality(S) \in Nat /\ ExistsBijection(1..Cardinality(S), S)
  BY FS_CardinalityType
<1>2. \E f \in [1..Cardinality(S) -> S] : IsInjective(f)
  BY <1>1 DEF ExistsBijection, Bijection, Injection
<1>3. SetToSeq(S) \in [1..Cardinality(S) -> S]
  BY <1>2 DEF SetToSeq
<1> QED BY <1>1, <1>3

LEMMA FunctionIsSeq ==
  ASSUME NEW T, NEW n \in Nat, NEW f \in [1..n -> T]
  PROVE  f \in Seq(T)
  OBVIOUS

LEMMA EmptyTyped == <<>> \in Seq(Message)
  OBVIOUS

LEMMA ToldTyped ==
  ASSUME NEW r \in RoomNames
  PROVE  /\ \A kind \in AboutUser, u \in Users : Told(kind, r, u) \in Seq(Message)
         /\ \A kind \in AboutMe : Told(kind, r, Me) \in Seq(Message)
<1>1. ASSUME NEW kind \in AboutUser, NEW u \in Users
      PROVE  Told(kind, r, u) \in Seq(Message)
  <2> DEFINE m == [kind |-> kind, room |-> r, user |-> u]
  <2>1. m \in Message
    BY DEF Message
  <2> QED BY <2>1 DEF Told
<1>2. ASSUME NEW kind \in AboutMe
      PROVE  Told(kind, r, Me) \in Seq(Message)
  <2> DEFINE m == [kind |-> kind, room |-> r, user |-> Me]
  <2>1. m \in Message
    BY DEF Message
  <2> QED BY <2>1 DEF Told
<1> QED BY <1>1, <1>2

(* The list of rooms, and what follows it.                                    *)
LEMMA ListTyped ==
  ASSUME NEW t \in [RoomNames -> ServerRoom]
  PROVE  RoomList(t) \in Seq(Message) /\ ListUpdate(t) \in Seq(Message)
<1> DEFINE S == {r \in RoomNames : Me \in AllMembers(t, r)}
<1> DEFINE n == Cardinality(S)
<1> DEFINE mine == SetToSeq(S)
<1> DEFINE members == [i \in DOMAIN mine |-> [kind |-> "PrivateRoomMembers", room |-> mine[i],
                                              users |-> t[mine[i]].members]]
<1> DEFINE operators == [i \in DOMAIN mine |-> [kind |-> "PrivateRoomOperators",
                                                room |-> mine[i],
                                                users |-> t[mine[i]].operators]]
<1>1. RoomList(t) \in Seq(Message)
  <2> DEFINE m == [kind |-> "RoomList",
                   public   |-> {r \in RoomNames : t[r].owner = None /\ t[r].joined # {}},
                   private  |-> {r \in RoomNames : t[r].owner # None /\ Me \in t[r].members},
                   owned    |-> {r \in RoomNames : t[r].owner = Me},
                   operated |-> {r \in RoomNames : t[r].owner # None /\ Me \in t[r].operators}]
  <2>1. m \in Message
    BY DEF Message
  <2>2. RoomList(t) = <<m>>
    BY DEF RoomList
  <2> HIDE DEF m
  <2> QED BY <2>1, <2>2
<1>2. IsFiniteSet(S)
  BY RoomsAssumption, FS_Subset DEF RoomsAssumption
<1>3. n \in Nat /\ mine \in [1..n -> S]
  BY <1>2, SetToSeqTyped
<1> HIDE DEF mine, n
<1>4. \A i \in 1..n : /\ mine[i] \in RoomNames
                                   /\ t[mine[i]].members \subseteq Users
                                   /\ t[mine[i]].operators \subseteq Users
  BY <1>3 DEF ServerRoom
<1>5. DOMAIN mine = 1..n
  BY <1>3
<1>6. members \in Seq(Message)
  <2>1. \A i \in 1..n :
          [kind |-> "PrivateRoomMembers", room |-> mine[i], users |-> t[mine[i]].members]
            \in Message
    BY <1>4 DEF Message
  <2>2. members \in [1..n -> Message]
    BY <1>5, <2>1
  <2> QED BY <1>3, <2>2, FunctionIsSeq
<1>7. operators \in Seq(Message)
  <2>1. \A i \in 1..n :
          [kind |-> "PrivateRoomOperators", room |-> mine[i], users |-> t[mine[i]].operators]
            \in Message
    BY <1>4 DEF Message
  <2>2. operators \in [1..n -> Message]
    BY <1>5, <2>1
  <2> QED BY <1>3, <2>2, FunctionIsSeq
<1>8. ListUpdate(t) = RoomList(t) \o members \o operators
  BY DEF ListUpdate, mine
<1> HIDE DEF members, operators
<1> QED BY <1>1, <1>6, <1>7, <1>8

---------------------------------------------------------------------------
(* The server.                                                             *)
LEMMA ServerSays ==
  ASSUME LinesTyped, NEW t \in [RoomNames -> ServerRoom], NEW messages \in Seq(Message),
         Server(t, messages)
  PROVE  ServerTyped' /\ toClient' \in Seq(Message)
<1>1. toClient \o messages \in Seq(Message) /\ <<>> \in Seq(Message)
  BY DEF LinesTyped
<1> QED BY <1>1 DEF Server, ServerTyped

(* Every request leaves well-formed rooms and says well-formed messages.       *)
LEMMA LeaveTyped ==
  ASSUME NEW t \in [RoomNames -> ServerRoom], NEW r \in RoomNames, NEW u \in Users
  PROVE  /\ LeaveMessages(t, r, u) \in Seq(Message)
         /\ RevokeOperatorMessages(t, r, u) \in Seq(Message)
<1>1. Me \in Users /\ "LeaveRoom" \in AboutMe /\ "PrivateRoomOperatorRevoked" \in AboutMe
      /\ "UserLeftRoom" \in AboutUser /\ "PrivateRoomRevokeOperator" \in AboutUser
  BY DEF Users, AboutMe, AboutUser
<1>2. LeaveMessages(t, r, u) \in Seq(Message)
  <2>1. Told("LeaveRoom", r, Me) \in Seq(Message) /\ Told("UserLeftRoom", r, u) \in Seq(Message)
    BY <1>1, ToldTyped
  <2>2. If(Me \in t[r].joined, Told("UserLeftRoom", r, u)) \in Seq(Message)
    BY <2>1, EmptyTyped DEF If
  <2> QED BY <2>1, <2>2 DEF LeaveMessages
<1>3. RevokeOperatorMessages(t, r, u) \in Seq(Message)
  <2> DEFINE told == Told("PrivateRoomRevokeOperator", r, u)
  <2>1. told \in Seq(Message) /\ Told("PrivateRoomOperatorRevoked", r, Me) \in Seq(Message)
    BY <1>1, ToldTyped
  <2>2. Told("PrivateRoomOperatorRevoked", r, Me) \o ListUpdate(t) \in Seq(Message)
    BY <2>1, ListTyped
  <2>3. If(Me \in AllMembers(t, r), told) \in Seq(Message)
    BY <2>1, EmptyTyped DEF If
  <2>4. If(Me \in t[r].joined, told) \in Seq(Message)
    BY <2>1, EmptyTyped DEF If
  <2>5. If(u = Me, Told("PrivateRoomOperatorRevoked", r, Me) \o ListUpdate(t)) \in Seq(Message)
    BY <2>2, EmptyTyped DEF If
  <2>6. RevokeOperatorMessages(t, r, u) =
          If(Me \in AllMembers(t, r), told) \o If(Me \in t[r].joined, told)
          \o If(u = Me, Told("PrivateRoomOperatorRevoked", r, Me) \o ListUpdate(t))
    BY DEF RevokeOperatorMessages
  <2> QED BY <2>3, <2>4, <2>5, <2>6
<1> QED BY <1>2, <1>3

LEMMA RevokeTyped ==
  ASSUME ServerTyped, NEW t \in [RoomNames -> ServerRoom], NEW r \in RoomNames,
         NEW u \in Users
  PROVE  RevokeMessages(t, r, u) \in Seq(Message)
<1> DEFINE leave == If(u \in truth[r].joined, LeaveMessages(t, r, u))
<1>1. leave \in Seq(Message) /\ ListUpdate(t) \in Seq(Message)
  BY LeaveTyped, ListTyped, EmptyTyped DEF If
<1>2. /\ Told("PrivateRoomMembershipRevoked", r, Me) \in Seq(Message)
      /\ Told("PrivateRoomRevokeMembership", r, u) \in Seq(Message)
  BY ToldTyped DEF AboutMe, AboutUser
<1>3. If(Me \in AllMembers(t, r), Told("PrivateRoomRevokeMembership", r, u)) \in Seq(Message)
  BY <1>2, EmptyTyped DEF If
<1>4. RevokeMessages(t, r, u) =
        IF u = Me THEN Told("PrivateRoomMembershipRevoked", r, Me) \o leave \o ListUpdate(t)
        ELSE If(Me \in AllMembers(t, r), Told("PrivateRoomRevokeMembership", r, u)) \o leave
  BY DEF RevokeMessages
<1> HIDE DEF leave
<1> QED BY <1>1, <1>2, <1>3, <1>4

(* A room changed in one place.                                             *)
LEMMA JoinsTyped ==
  ASSUME ServerTyped, LinesTyped, NEW r \in RoomNames, NEW u \in Users, Joins(r, u)
  PROVE  ServerTyped' /\ toClient' \in Seq(Message)
<1> DEFINE created == u = Me /\ r \in Private /\ truth[r].owner = None /\ truth[r].joined = {}
<1> DEFINE t == [truth EXCEPT ![r].joined = @ \cup {u},
                              ![r].owner = IF r \in Private /\ @ = None /\ truth[r].joined = {}
                                           THEN u ELSE @]
<1> DEFINE claimed == [t EXCEPT ![r].joined = {}]
<1>1. t \in [RoomNames -> ServerRoom] /\ claimed \in [RoomNames -> ServerRoom]
  <2>1. t \in [RoomNames -> ServerRoom]
    BY DEF ServerTyped, ServerRoom
  <2> HIDE DEF t
  <2>2. claimed \in [RoomNames -> ServerRoom]
    BY <2>1 DEF ServerRoom
  <2> QED BY <2>1, <2>2
<1> DEFINE room == [kind |-> "JoinRoom", room |-> r, users |-> t[r].joined,
                    owner |-> t[r].owner, operators |-> t[r].operators]
<1> DEFINE tickers == [kind |-> "RoomTickers", room |-> r, users |-> t[r].tickers]
<1> HIDE DEF t, claimed
<1>2. room \in Message /\ tickers \in Message
  BY <1>1 DEF ServerRoom, Message
<1>3. JoinMessages(t, r, u) =
        If(Me \in t[r].joined, Told("UserJoinedRoom", r, u)) \o If(u = Me, <<room, tickers>>)
  BY DEF JoinMessages
<1> HIDE DEF room, tickers
<1>4. <<room, tickers>> \in Seq(Message) /\ Told("UserJoinedRoom", r, u) \in Seq(Message)
  BY <1>2, ToldTyped DEF AboutUser
<1>5. /\ If(Me \in t[r].joined, Told("UserJoinedRoom", r, u)) \in Seq(Message)
      /\ If(u = Me, <<room, tickers>>) \in Seq(Message)
  BY <1>4, EmptyTyped DEF If
<1>6. JoinMessages(t, r, u) \in Seq(Message)
  BY <1>3, <1>5
<1>7. If(created, ListUpdate(claimed)) \in Seq(Message)
  BY <1>1, ListTyped, EmptyTyped DEF If
<1>8. Server(t, If(created, ListUpdate(claimed)) \o JoinMessages(t, r, u))
  BY DEF Joins, t, claimed
<1> HIDE DEF created
<1>9. If(created, ListUpdate(claimed)) \o JoinMessages(t, r, u) \in Seq(Message)
  BY <1>6, <1>7
<1> QED BY <1>1, <1>8, <1>9, ServerSays

LEMMA LeavesTyped ==
  ASSUME ServerTyped, LinesTyped, NEW r \in RoomNames, NEW u \in Users, Leaves(r, u)
  PROVE  ServerTyped' /\ toClient' \in Seq(Message)
<1> DEFINE t == [truth EXCEPT ![r].joined = @ \ {u}]
<1>1. t \in [RoomNames -> ServerRoom]
  BY DEF ServerTyped, ServerRoom
<1>2. Server(t, LeaveMessages(t, r, u))
  BY DEF Leaves
<1> HIDE DEF t
<1> QED BY <1>1, <1>2, LeaveTyped, ServerSays

LEMMA GrantsTyped ==
  ASSUME ServerTyped, LinesTyped, NEW r \in RoomNames, NEW u \in Users,
         Grants(r, u) \/ GrantsOperator(r, u)
  PROVE  ServerTyped' /\ toClient' \in Seq(Message)
<1>1. CASE Grants(r, u)
  <2> DEFINE t == [truth EXCEPT ![r].members = @ \cup {u}]
  <2> DEFINE mine == Told("PrivateRoomMembershipGranted", r, Me) \o ListUpdate(t)
  <2>1. t \in [RoomNames -> ServerRoom]
    BY DEF ServerTyped, ServerRoom
  <2>2. Server(t, If(Me \in AllMembers(t, r), Told("PrivateRoomGrantMembership", r, u))
                  \o If(u = Me, mine))
    BY <1>1 DEF Grants
  <2> HIDE DEF t
  <2>3. /\ Told("PrivateRoomGrantMembership", r, u) \in Seq(Message)
        /\ Told("PrivateRoomMembershipGranted", r, Me) \in Seq(Message)
    BY ToldTyped DEF AboutMe, AboutUser
  <2>4. mine \in Seq(Message)
    BY <2>1, <2>3, ListTyped
  <2> HIDE DEF mine
  <2>5. /\ If(Me \in AllMembers(t, r), Told("PrivateRoomGrantMembership", r, u)) \in Seq(Message)
        /\ If(u = Me, mine) \in Seq(Message)
    BY <2>3, <2>4, EmptyTyped DEF If
  <2>6. If(Me \in AllMembers(t, r), Told("PrivateRoomGrantMembership", r, u))
          \o If(u = Me, mine) \in Seq(Message)
    BY <2>5
  <2> QED BY <2>1, <2>2, <2>6, ServerSays
<1>2. CASE GrantsOperator(r, u)
  <2> DEFINE t == [truth EXCEPT ![r].operators = @ \cup {u}]
  <2> DEFINE told == Told("PrivateRoomGrantOperator", r, u)
  <2> DEFINE mine == Told("PrivateRoomOperatorGranted", r, Me) \o ListUpdate(t)
  <2>1. t \in [RoomNames -> ServerRoom]
    BY DEF ServerTyped, ServerRoom
  <2>2. Server(t, If(Me \in AllMembers(t, r), told) \o If(Me \in t[r].joined, told)
                  \o If(u = Me, mine))
    BY <1>2 DEF GrantsOperator
  <2> HIDE DEF t
  <2>3. told \in Seq(Message) /\ Told("PrivateRoomOperatorGranted", r, Me) \in Seq(Message)
    BY ToldTyped DEF AboutMe, AboutUser
  <2>4. mine \in Seq(Message)
    BY <2>1, <2>3, ListTyped
  <2> HIDE DEF mine, told
  <2>5. /\ If(Me \in AllMembers(t, r), told) \in Seq(Message)
        /\ If(Me \in t[r].joined, told) \in Seq(Message)
        /\ If(u = Me, mine) \in Seq(Message)
    BY <2>3, <2>4, EmptyTyped DEF If
  <2>6. If(Me \in AllMembers(t, r), told) \o If(Me \in t[r].joined, told)
          \o If(u = Me, mine) \in Seq(Message)
    BY <2>5
  <2> QED BY <2>1, <2>2, <2>6, ServerSays
<1> QED BY <1>1, <1>2

LEMMA RevokesTyped ==
  ASSUME ServerTyped, LinesTyped, NEW r \in RoomNames, NEW u \in Users,
         Revokes(r, u) \/ RevokesOperator(r, u)
  PROVE  ServerTyped' /\ toClient' \in Seq(Message)
<1>1. CASE Revokes(r, u)
  <2> DEFINE left == [truth EXCEPT ![r].members = @ \ {u}, ![r].joined = @ \ {u}]
  <2> DEFINE t == [left EXCEPT ![r].operators = @ \ {u}]
  <2>1. left \in [RoomNames -> ServerRoom] /\ t \in [RoomNames -> ServerRoom]
    <3>1. left \in [RoomNames -> ServerRoom]
      BY DEF ServerTyped, ServerRoom
    <3> HIDE DEF left
    <3>2. t \in [RoomNames -> ServerRoom]
      BY <3>1 DEF ServerRoom
    <3> QED BY <3>1, <3>2
  <2>2. Server(t, RevokeMessages(left, r, u)
                  \o If(u \in truth[r].operators, RevokeOperatorMessages(t, r, u)))
    BY <1>1 DEF Revokes
  <2> HIDE DEF left, t
  <2>3. RevokeMessages(left, r, u) \in Seq(Message)
    BY <2>1, RevokeTyped
  <2>4. If(u \in truth[r].operators, RevokeOperatorMessages(t, r, u)) \in Seq(Message)
    BY <2>1, LeaveTyped, EmptyTyped DEF If
  <2>5. RevokeMessages(left, r, u)
          \o If(u \in truth[r].operators, RevokeOperatorMessages(t, r, u)) \in Seq(Message)
    BY <2>3, <2>4
  <2> QED BY <2>1, <2>2, <2>5, ServerSays
<1>2. CASE RevokesOperator(r, u)
  <2> DEFINE t == [truth EXCEPT ![r].operators = @ \ {u}]
  <2>1. t \in [RoomNames -> ServerRoom]
    BY DEF ServerTyped, ServerRoom
  <2>2. Server(t, RevokeOperatorMessages(t, r, u))
    BY <1>2 DEF RevokesOperator
  <2> HIDE DEF t
  <2> QED BY <2>1, <2>2, LeaveTyped, ServerSays
<1> QED BY <1>1, <1>2

LEMMA DisownsTyped ==
  ASSUME ServerTyped, LinesTyped, NEW r \in RoomNames, NEW u \in Users, Disowns(r, u)
  PROVE  ServerTyped' /\ toClient' \in Seq(Message)
<1> DEFINE gone == truth[r].members
<1> DEFINE t == [truth EXCEPT ![r].owner = None, ![r].members = {}, ![r].operators = {},
                              ![r].joined = @ \ gone]
<1> DEFINE S(first) == first \cap truth[r].joined
<1> DEFINE left(first) == SetToSeq(S(first))
<1> DEFINE said(first) == [i \in DOMAIN left(first) |->
                             [kind |-> "UserLeftRoom", room |-> r, user |-> left(first)[i]]]
<1> DEFINE then(first) == [t EXCEPT ![r].joined = truth[r].joined \ (first \cup {Me})]
<1>1. PICK first \in SUBSET (gone \ {Me}) :
        Server(t, If(Me \in truth[r].joined, said(first))
                  \o If(Me \in gone, RevokeMessages(then(first), r, Me))
                  \o If(u = Me, ListUpdate(t)))
  BY DEF Disowns
<1>2. t \in [RoomNames -> ServerRoom] /\ then(first) \in [RoomNames -> ServerRoom]
  <2>1. t \in [RoomNames -> ServerRoom]
    <3>1. truth[r] \in ServerRoom
      BY DEF ServerTyped
    <3>2. truth[r].joined \ gone \in SUBSET Users
      BY <3>1 DEF ServerRoom
    <3> DEFINE owned == [truth[r] EXCEPT !.owner = None, !.members = {}]
    <3> DEFINE room == [owned EXCEPT !.operators = {}, !.joined = truth[r].joined \ gone]
    <3>3. owned \in ServerRoom
      BY <3>1 DEF ServerRoom
    <3>4. t = [truth EXCEPT ![r] = room]
      BY <3>1 DEF ServerTyped
    <3> HIDE DEF owned
    <3>5. room \in ServerRoom
      BY <3>2, <3>3 DEF ServerRoom
    <3> HIDE DEF room
    <3> QED BY <3>4, <3>5 DEF ServerTyped
  <2> HIDE DEF t
  <2>2. truth[r].joined \ (first \cup {Me}) \subseteq Users
    BY DEF ServerTyped, ServerRoom
  <2>3. then(first) \in [RoomNames -> ServerRoom]
    BY <2>1, <2>2 DEF ServerRoom
  <2> QED BY <2>1, <2>3
<1>3. said(first) \in Seq(Message)
  <2> DEFINE n == Cardinality(S(first))
  <2> DEFINE seq == SetToSeq(S(first))
  <2>1. S(first) \subseteq Users /\ IsFiniteSet(Users)
    <3>1. S(first) \subseteq Users
      BY DEF ServerTyped, ServerRoom
    <3>2. IsFiniteSet(Users)
      BY RoomsAssumption, FS_AddElement DEF RoomsAssumption, Users
    <3> QED BY <3>1, <3>2
  <2>2. IsFiniteSet(S(first))
    BY <2>1, FS_Subset
  <2>3. n \in Nat /\ seq \in [1..n -> S(first)]
    BY <2>2, SetToSeqTyped
  <2> HIDE DEF seq, n
  <2>4. \A i \in 1..n : [kind |-> "UserLeftRoom", room |-> r, user |-> seq[i]] \in Message
    <3>1. \A i \in 1..n : seq[i] \in Users
      BY <2>1, <2>3
    <3> QED BY <3>1 DEF Message, AboutUser
  <2>5. [i \in DOMAIN seq |-> [kind |-> "UserLeftRoom", room |-> r, user |-> seq[i]]]
          \in [1..n -> Message]
    BY <2>3, <2>4
  <2>6. said(first) \in [1..n -> Message]
    BY <2>5 DEF seq
  <2> HIDE DEF said
  <2> QED BY <2>3, <2>6, FunctionIsSeq
<1> HIDE DEF t, then, said
<1>4. Me \in Users
  BY DEF Users
<1>5. /\ If(Me \in truth[r].joined, said(first)) \in Seq(Message)
      /\ If(Me \in gone, RevokeMessages(then(first), r, Me)) \in Seq(Message)
      /\ If(u = Me, ListUpdate(t)) \in Seq(Message)
  BY <1>2, <1>3, <1>4, RevokeTyped, ListTyped, EmptyTyped DEF If
<1>6. If(Me \in truth[r].joined, said(first))
        \o If(Me \in gone, RevokeMessages(then(first), r, Me))
        \o If(u = Me, ListUpdate(t)) \in Seq(Message)
  BY <1>5
<1> QED BY <1>1, <1>2, <1>6, ServerSays

LEMMA SetsTickerTyped ==
  ASSUME ServerTyped, LinesTyped, NEW r \in RoomNames, NEW u \in Users, SetsTicker(r, u)
  PROVE  ServerTyped' /\ toClient' \in Seq(Message)
<1> DEFINE t == [truth EXCEPT ![r].tickers = @ \cup {u}]
<1> DEFINE removed == If(u \in truth[r].tickers, Told("RoomTickerRemoved", r, u))
<1>1. t \in [RoomNames -> ServerRoom]
  BY DEF ServerTyped, ServerRoom
<1>2. Server(t, If(Me \in t[r].joined, removed \o Told("RoomTickerAdded", r, u)))
  BY DEF SetsTicker
<1>3. Told("RoomTickerRemoved", r, u) \in Seq(Message) /\ Told("RoomTickerAdded", r, u) \in Seq(Message)
  BY ToldTyped DEF AboutUser
<1>4. removed \in Seq(Message)
  BY <1>3, EmptyTyped DEF If
<1> HIDE DEF t, removed
<1>5. removed \o Told("RoomTickerAdded", r, u) \in Seq(Message)
  BY <1>3, <1>4
<1>6. If(Me \in t[r].joined, removed \o Told("RoomTickerAdded", r, u)) \in Seq(Message)
  BY <1>5, EmptyTyped DEF If
<1> QED BY <1>1, <1>2, <1>6, ServerSays

(* Whatever the server does, its rooms and messages are well formed.          *)
LEMMA DoesTyped ==
  ASSUME ServerTyped, LinesTyped, NEW kind, NEW r \in RoomNames, NEW u \in Users,
         Does(kind, r, u)
  PROVE  ServerTyped' /\ toClient' \in Seq(Message)
  BY JoinsTyped, LeavesTyped, GrantsTyped, RevokesTyped, DisownsTyped, SetsTickerTyped
     DEF Does

---------------------------------------------------------------------------
(* The handlers: a room stays a room, and what the message says is in it.      *)
LEMMA GetTyped ==
  ASSUME NEW known \in Known, NEW private \in BOOLEAN
  PROVE  Get(known, private) \in Room
<1>1. NewRoom(private) \in Room
  BY DEF NewRoom, Room
<1> QED BY <1>1 DEF Get, Known

(* The messages about who is in a room, and its tickers.                       *)
LEMMA PresenceHandled ==
  ASSUME NEW known \in Known, NEW m \in Message,
         m.kind \in {"UserJoinedRoom", "UserLeftRoom", "JoinRoom", "LeaveRoom",
                     "RoomTickers", "RoomTickerAdded", "RoomTickerRemoved"}
  PROVE  /\ m.room \in RoomNames
         /\ RoomAfter(known, m) \in Room
         /\ m.kind = "JoinRoom" => RoomAfter(known, m).joined
         /\ m.kind = "LeaveRoom" => ~RoomAfter(known, m).joined
         /\ m.kind = "RoomTickerAdded" => m.user \in RoomAfter(known, m).tickers
<1>1. m.room \in RoomNames
  BY DEF Message, AboutMe, AboutUser
<1>2. Public(known) \in Room
  BY GetTyped DEF Public
<1> HIDE DEF Public
<1>3. CASE m.kind \in {"UserJoinedRoom", "UserLeftRoom"}
  <2>1. m.user \in Users
    BY <1>3 DEF Message, AboutMe, AboutUser
  <2>2. UserJoined(known, m) \in Room /\ UserLeft(known, m) \in Room
    BY <1>2, <2>1 DEF UserJoined, UserLeft, Room
  <2> QED BY <1>1, <1>3, <2>2 DEF RoomAfter
<1>4. CASE m.kind = "JoinRoom"
  <2>1. m.users \subseteq Users /\ m.owner \in Users \cup {None} /\ m.operators \subseteq Users
    BY <1>4 DEF Message, AboutMe, AboutUser
  <2>2. Joined(known, m) \in Room /\ Joined(known, m).joined
    BY <1>2, <2>1 DEF Joined, Room
  <2> QED BY <1>1, <1>4, <2>2 DEF RoomAfter
<1>5. CASE m.kind = "LeaveRoom"
  <2>1. RoomLeft(known) \in Room /\ ~RoomLeft(known).joined
    BY <1>2 DEF RoomLeft, Room
  <2> QED BY <1>1, <1>5, <2>1 DEF RoomAfter
<1>6. CASE m.kind = "RoomTickers"
  <2>1. m.users \subseteq Users
    BY <1>6 DEF Message, AboutMe, AboutUser
  <2>2. Tickers(known, m) \in Room
    BY <1>2, <2>1 DEF Tickers, Room
  <2> QED BY <1>1, <1>6, <2>2 DEF RoomAfter
<1>7. CASE m.kind \in {"RoomTickerAdded", "RoomTickerRemoved"}
  <2>1. m.user \in Users
    BY <1>7 DEF Message, AboutMe, AboutUser
  <2>2. TickerAdded(known, m) \in Room /\ TickerRemoved(known, m) \in Room /\ m.user \in TickerAdded(known, m).tickers
    BY <1>2, <2>1 DEF TickerAdded, TickerRemoved, Room
  <2> QED BY <1>1, <1>7, <2>2 DEF RoomAfter
<1> QED BY <1>3, <1>4, <1>5, <1>6, <1>7

(* The messages about members and operators.                                  *)
LEMMA RightsHandled ==
  ASSUME NEW known \in Known, NEW m \in Message,
         m.kind \in {"PrivateRoomGrantMembership", "PrivateRoomMembershipGranted",
                     "PrivateRoomRevokeMembership", "PrivateRoomMembershipRevoked",
                     "PrivateRoomMembers", "PrivateRoomOperators",
                     "PrivateRoomGrantOperator", "PrivateRoomRevokeOperator",
                     "PrivateRoomOperatorGranted", "PrivateRoomOperatorRevoked"}
  PROVE  /\ m.room \in RoomNames
         /\ RoomAfter(known, m) \in Room
         /\ m.kind = "PrivateRoomGrantMembership" => m.user \in RoomAfter(known, m).members
         /\ m.kind \in {"PrivateRoomRevokeMembership", "PrivateRoomMembershipRevoked"} =>
              m.user \notin RoomAfter(known, m).members \cup RoomAfter(known, m).operators
         /\ m.kind = "PrivateRoomGrantOperator" => m.user \in RoomAfter(known, m).operators
         /\ m.kind = "PrivateRoomRevokeOperator" => m.user \notin RoomAfter(known, m).operators
<1>1. m.room \in RoomNames
  BY DEF Message, AboutMe, AboutUser
<1>2. Secret(known) \in Room
  BY GetTyped DEF Secret
<1> HIDE DEF Secret
<1>3. CASE m.kind \in {"PrivateRoomMembers", "PrivateRoomOperators"}
  <2>1. m.users \subseteq Users
    BY <1>3 DEF Message, AboutMe, AboutUser
  <2>2. Members(known, m) \in Room /\ Operators(known, m) \in Room
    BY <1>2, <2>1 DEF Members, Operators, Room
  <2> QED BY <1>1, <1>3, <2>2 DEF RoomAfter
<1>4. CASE m.kind \in {"PrivateRoomGrantMembership", "PrivateRoomMembershipGranted",
                       "PrivateRoomRevokeMembership", "PrivateRoomMembershipRevoked"}
  <2>1. m.user \in Users
    BY <1>4 DEF Message, AboutMe, AboutUser, Users
  <2>2. MembershipGranted(known, m) \in Room /\ m.user \in MembershipGranted(known, m).members
    BY <1>2, <2>1 DEF MembershipGranted, Room
  <2>3. /\ MembershipRevoked(known, m) \in Room
        /\ m.user \notin MembershipRevoked(known, m).members \cup MembershipRevoked(known, m).operators
    BY <1>2, <2>1 DEF MembershipRevoked, Room
  <2> QED BY <1>1, <1>4, <2>2, <2>3 DEF RoomAfter
<1>5. CASE m.kind \in {"PrivateRoomGrantOperator", "PrivateRoomRevokeOperator"}
  <2>1. m.user \in Users
    BY <1>5 DEF Message, AboutMe, AboutUser
  <2>2. UserOperatorGranted(known, m) \in Room /\ m.user \in UserOperatorGranted(known, m).operators
    BY <1>2, <2>1 DEF UserOperatorGranted, Room
  <2>3. UserOperatorRevoked(known, m) \in Room /\ m.user \notin UserOperatorRevoked(known, m).operators
    BY <1>2, <2>1 DEF UserOperatorRevoked, Room
  <2> QED BY <1>1, <1>5, <2>2, <2>3 DEF RoomAfter
<1>6. CASE m.kind \in {"PrivateRoomOperatorGranted", "PrivateRoomOperatorRevoked"}
  <2>1. OperatorGranted(known) \in Room /\ OperatorRevoked(known) \in Room
    BY <1>2 DEF OperatorGranted, OperatorRevoked, Room
  <2> QED BY <1>1, <1>6, <2>1 DEF RoomAfter
<1> QED BY <1>3, <1>4, <1>5, <1>6

(* The room list.                                                           *)
LEMMA ListHandled ==
  ASSUME NEW r \in RoomNames, NEW known \in Known, NEW m \in Message, m.kind = "RoomList"
  PROVE  Listed(r, known, m) \in Known
<1> DEFINE room == Get(known, r \notin m.public)
<1> DEFINE mine(set, P) == IF P THEN set \cup {Me} ELSE set \ {Me}
<1> DEFINE owner == IF r \in m.owned THEN Me ELSE IF room.owner = Me THEN None ELSE room.owner
<1> DEFINE after == [room EXCEPT !.owner = owner,
                                 !.members = mine(room.members, r \in m.private),
                                 !.operators = mine(room.operators, r \in m.operated),
                                 !.private = r \notin m.public]
<1>1. Listed(r, known, m) = IF r \notin m.public \cup m.private \cup m.owned THEN None ELSE after
  BY DEF Listed
<1>2. (r \notin m.public) \in BOOLEAN
  OBVIOUS
<1>3. room \in Room
  BY <1>2, GetTyped
<1> HIDE DEF room
<1>4. /\ mine(room.members, r \in m.private) \in SUBSET Users
      /\ mine(room.operators, r \in m.operated) \in SUBSET Users
      /\ owner \in Users \cup {None}
  BY <1>3 DEF Room, Users
<1> HIDE DEF mine, owner
<1>5. after \in Room
  BY <1>2, <1>3, <1>4 DEF Room
<1> HIDE DEF after
<1> QED BY <1>1, <1>5 DEF Known

LEMMA Kinds ==
  ASSUME NEW m \in Message
  PROVE  \/ m.kind = "RoomList"
         \/ m.kind \in {"UserJoinedRoom", "UserLeftRoom", "JoinRoom", "LeaveRoom",
                        "RoomTickers", "RoomTickerAdded", "RoomTickerRemoved"}
         \/ m.kind \in {"PrivateRoomGrantMembership", "PrivateRoomMembershipGranted",
                        "PrivateRoomRevokeMembership", "PrivateRoomMembershipRevoked",
                        "PrivateRoomMembers", "PrivateRoomOperators",
                        "PrivateRoomGrantOperator", "PrivateRoomRevokeOperator",
                        "PrivateRoomOperatorGranted", "PrivateRoomOperatorRevoked"}
  BY DEF Message, AboutMe, AboutUser

LEMMA RoomHandled ==
  ASSUME NEW known \in Known, NEW m \in Message, m.kind # "RoomList"
  PROVE  m.room \in RoomNames /\ RoomAfter(known, m) \in Room
<1>1. CASE m.kind \in {"UserJoinedRoom", "UserLeftRoom", "JoinRoom", "LeaveRoom",
                       "RoomTickers", "RoomTickerAdded", "RoomTickerRemoved"}
  BY <1>1, PresenceHandled
<1>2. CASE m.kind \in {"PrivateRoomGrantMembership", "PrivateRoomMembershipGranted",
                       "PrivateRoomRevokeMembership", "PrivateRoomMembershipRevoked",
                       "PrivateRoomMembers", "PrivateRoomOperators",
                       "PrivateRoomGrantOperator", "PrivateRoomRevokeOperator",
                       "PrivateRoomOperatorGranted", "PrivateRoomOperatorRevoked"}
  BY <1>2, RightsHandled
<1> QED BY <1>1, <1>2, Kinds

LEMMA AfterTyped ==
  ASSUME NEW r \in RoomNames, NEW known \in Known, NEW m \in Message
  PROVE  After(r, known, m) \in Known
<1>1. CASE m.kind = "RoomList"
  BY <1>1, ListHandled DEF After
<1>2. CASE m.kind # "RoomList"
  BY <1>2, RoomHandled DEF After, Known
<1> QED BY <1>1, <1>2

LEMMA MessageHandled ==
  ASSUME RoomsTyped, NEW m \in Message
  PROVE  /\ RoomsAfter(m) \in [RoomNames -> Known]
         /\ Visible(m, RoomsAfter(m))
<1>1. RoomsAfter(m) \in [RoomNames -> Known]
  BY AfterTyped DEF RoomsAfter, RoomsTyped
<1>2. CASE m.kind = "RoomList"
  BY <1>1, <1>2 DEF Visible
<1>3. CASE m.kind # "RoomList"
  <2> DEFINE known == rooms[m.room]
  <2>1. m.room \in RoomNames
    BY <1>3, Kinds DEF Message, AboutMe, AboutUser
  <2>2. known \in Known
    BY <2>1 DEF RoomsTyped
  <2>3. RoomsAfter(m)[m.room] = RoomAfter(known, m)
    BY <1>3, <2>1 DEF RoomsAfter, After
  <2> HIDE DEF known
  <2>4. RoomAfter(known, m) # None
    BY <1>3, <2>2, RoomHandled, NoneAssumption
  <2>5. CASE m.kind \in {"UserJoinedRoom", "UserLeftRoom", "JoinRoom", "LeaveRoom",
                         "RoomTickers", "RoomTickerAdded", "RoomTickerRemoved"}
    BY <1>1, <2>2, <2>3, <2>4, <2>5, PresenceHandled DEF Visible
  <2>6. CASE m.kind \in {"PrivateRoomGrantMembership", "PrivateRoomMembershipGranted",
                         "PrivateRoomRevokeMembership", "PrivateRoomMembershipRevoked",
                         "PrivateRoomMembers", "PrivateRoomOperators",
                         "PrivateRoomGrantOperator", "PrivateRoomRevokeOperator",
                         "PrivateRoomOperatorGranted", "PrivateRoomOperatorRevoked"}
    BY <1>1, <2>2, <2>3, <2>4, <2>6, RightsHandled DEF Visible
  <2> QED BY <1>3, <2>5, <2>6, Kinds
<1> QED BY <1>1, <1>2, <1>3

---------------------------------------------------------------------------
(* The inductive invariant.                                                *)
LEMMA InitTyped == Init => RoomsInv
<1> SUFFICES ASSUME Init PROVE RoomsInv
  OBVIOUS
<1>1. ServerTyped
  <2>1. New \in ServerRoom
    BY DEF New, ServerRoom
  <2>2. ASSUME NEW o \in Users, NEW m \in Users
        PROVE  [New EXCEPT !.owner = o, !.members = {m} \ {o}] \in ServerRoom
    <3>1. {m} \ {o} \in SUBSET Users
      OBVIOUS
    <3> QED BY <2>1, <3>1 DEF ServerRoom
  <2>3. ASSUME NEW room \in Existing
        PROVE  room \in ServerRoom
    <3>1. PICK o \in Users, m \in Users : room = [New EXCEPT !.owner = o, !.members = {m} \ {o}]
      BY DEF Existing
    <3> QED BY <2>2, <3>1
  <2> QED BY <2>1, <2>3 DEF Init, ServerTyped
<1>2. LinesTyped /\ RoomsTyped /\ HandledShown
  BY DEF Init, LinesTyped, RoomsTyped, HandledShown, Known
<1>3. CountsTyped
  <2>1. online = FALSE /\ spent = [changes |-> 0, losses |-> 0]
    BY DEF Init
  <2>2. 0 \in 0..MaxChanges /\ 0 \in 0..MaxLosses
    BY RoomsAssumption DEF RoomsAssumption
  <2> QED BY <2>1, <2>2 DEF CountsTyped
<1>4. CallsTyped
  BY DEF Init, CallsTyped, Idle, CommandState
<1> QED BY <1>1, <1>2, <1>3, <1>4 DEF RoomsInv

(* A request of ours is about a room, or asks for the list.                    *)
LEMMA CommandKinds ==
  ASSUME NEW command \in Commands
  PROVE  /\ command.kind \in OwnKinds \cup UserKinds \cup {"list"}
         /\ command.kind # "list" => command.room \in RoomNames
         /\ command.kind = "list" => command.room = None
         /\ command.kind \in OwnKinds => command.user = Me
         /\ command.user \in Users
  BY RoomsAssumption DEF Commands, OwnKinds, UserKinds, Users, RoomsAssumption

LEMMA ChangeInv == RoomsInv /\ Change => RoomsInv'
<1> SUFFICES ASSUME RoomsInv, Change PROVE RoomsInv'
  OBVIOUS
<1> USE DEF RoomsInv
<1>1. ServerTyped' /\ toClient' \in Seq(Message)
  BY DoesTyped DEF Change
<1>2. spent' \in [changes : 0..MaxChanges, losses : 0..MaxLosses]
  BY RoomsAssumption DEF Change, CountsTyped, RoomsAssumption
<1>3. UNCHANGED <<rooms, toServer, handled, call, online>>
  BY DEF Change
<1>4. LinesTyped' /\ RoomsTyped' /\ CallsTyped' /\ CountsTyped'
  BY <1>1, <1>2, <1>3 DEF LinesTyped, RoomsTyped, CallsTyped, CountsTyped
<1>5. HandledShown'
  BY <1>3 DEF HandledShown
<1> QED BY <1>1, <1>4, <1>5

LEMMA ServeInv == RoomsInv /\ Serve => RoomsInv'
<1> SUFFICES ASSUME RoomsInv, Serve PROVE RoomsInv'
  OBVIOUS
<1> USE DEF RoomsInv
<1> DEFINE m == Head(toServer)
<1>1. m \in Commands /\ toServer' \in Seq(Commands)
  BY DEF Serve, LinesTyped
<1>2. ServerTyped' /\ toClient' \in Seq(Message)
  <2>1. CASE m.kind = "list"
    <3>1. Server(truth, RoomList(truth))
      BY <2>1 DEF Serve
    <3> QED BY <3>1, ListTyped, ServerSays DEF ServerTyped
  <2>2. CASE m.kind # "list" /\ May(Me, m.kind, m.room, m.user)
    <3>1. Does(m.kind, m.room, m.user)
      BY <2>2 DEF Serve
    <3>2. m.room \in RoomNames /\ m.user \in Users
      BY <1>1, <2>2, CommandKinds
    <3> QED BY <3>1, <3>2, DoesTyped
  <2>3. CASE m.kind # "list" /\ ~May(Me, m.kind, m.room, m.user)
    <3>1. Server(truth, <<>>)
      BY <2>3 DEF Serve
    <3> QED BY <3>1, EmptyTyped, ServerSays DEF ServerTyped
  <2> QED BY <2>1, <2>2, <2>3
<1>3. UNCHANGED <<rooms, handled, call, online, spent>>
  BY DEF Serve
<1>4. LinesTyped' /\ RoomsTyped' /\ CallsTyped' /\ CountsTyped'
  BY <1>1, <1>2, <1>3 DEF LinesTyped, RoomsTyped, CallsTyped, CountsTyped
<1>5. HandledShown'
  BY <1>3 DEF HandledShown
<1> QED BY <1>2, <1>4, <1>5

LEMMA HandleInv == RoomsInv /\ Handle => RoomsInv'
<1> SUFFICES ASSUME RoomsInv, Handle PROVE RoomsInv'
  OBVIOUS
<1> USE DEF RoomsInv
<1> DEFINE m == Head(toClient)
<1>1. m \in Message /\ toClient' \in Seq(Message)
  BY DEF Handle, LinesTyped
<1>2. RoomsAfter(m) \in [RoomNames -> Known] /\ Visible(m, RoomsAfter(m))
  BY <1>1, MessageHandled
<1>3. rooms' = RoomsAfter(m) /\ handled' = m /\ UNCHANGED <<truth, toServer, call, online, spent>>
  BY DEF Handle
<1> HIDE DEF m
<1>4. LinesTyped' /\ RoomsTyped' /\ CallsTyped' /\ CountsTyped' /\ ServerTyped'
  BY <1>1, <1>2, <1>3 DEF LinesTyped, RoomsTyped, CallsTyped, CountsTyped, ServerTyped
<1>5. Visible(handled, rooms)'
  BY <1>2, <1>3 DEF Visible
<1> QED BY <1>4, <1>5 DEF HandledShown

(* The commands of the application.                                          *)
LEMMA CallsInv ==
  RoomsInv /\ (CompleteFutures \/ \E c \in Calls : Execute(c) \/ Return(c)) => RoomsInv'
<1> SUFFICES ASSUME RoomsInv, CompleteFutures \/ \E c \in Calls : Execute(c) \/ Return(c)
             PROVE  RoomsInv'
  OBVIOUS
<1> USE DEF RoomsInv
<1>1. CASE CompleteFutures
  <2>1. handled' = None /\ UNCHANGED <<truth, rooms, toServer, toClient, online, spent>>
    BY <1>1 DEF CompleteFutures
  <2>2. CallsTyped'
    BY <1>1 DEF CompleteFutures, CallsTyped, CommandState, Waiting
  <2>3. LinesTyped' /\ RoomsTyped' /\ CountsTyped' /\ ServerTyped' /\ HandledShown'
    BY <2>1 DEF LinesTyped, RoomsTyped, CountsTyped, ServerTyped, HandledShown
  <2> QED BY <2>2, <2>3
<1>2. ASSUME NEW c \in Calls, Execute(c)
      PROVE  RoomsInv'
  <2>1. PICK command \in Commands :
          /\ call' = [call EXCEPT ![c] =
               [kind |-> command.kind, room |-> command.room, user |-> command.user,
                at |-> IF command.kind = "disown" THEN "returned" ELSE "waits"]]
          /\ toServer' = Append(toServer, command)
    BY <1>2 DEF Execute
  <2>2. UNCHANGED <<truth, rooms, toClient, handled, online, spent>>
    BY <1>2 DEF Execute
  <2> DEFINE next == [kind |-> command.kind, room |-> command.room, user |-> command.user,
                      at |-> IF command.kind = "disown" THEN "returned" ELSE "waits"]
  <2>3. next \in CommandState /\ (next.at \in {"waits", "answered"} => Waiting(next))
    BY CommandKinds DEF CommandState, Waiting
  <2>4. call' = [call EXCEPT ![c] = next]
    BY <2>1
  <2> HIDE DEF next
  <2>5. CallsTyped'
    BY <2>3, <2>4 DEF CallsTyped
  <2>6. LinesTyped'
    BY <2>1, <2>2 DEF LinesTyped
  <2>7. RoomsTyped' /\ CountsTyped' /\ ServerTyped' /\ HandledShown'
    BY <2>2 DEF RoomsTyped, CountsTyped, ServerTyped, HandledShown
  <2> QED BY <2>5, <2>6, <2>7
<1>3. ASSUME NEW c \in Calls, Return(c)
      PROVE  RoomsInv'
  <2>1. UNCHANGED <<truth, rooms, toServer, toClient, handled, online, spent>>
    BY <1>3 DEF Return
  <2> DEFINE lost == call[c].kind \in LooksUp /\ rooms[call[c].room] = None
  <2> DEFINE result == CASE call[c].at = "answered" /\ lost -> "KeyError"
                         [] call[c].at = "answered" -> "returned"
                         [] OTHER -> "timeout"
  <2>2. call' = [call EXCEPT ![c].at = result]
    BY <1>3 DEF Return
  <2> HIDE DEF lost
  <2>3. result \in {"returned", "timeout", "KeyError"}
    OBVIOUS
  <2> HIDE DEF result
  <2>4. CallsTyped'
    BY <2>2, <2>3 DEF CallsTyped, CommandState, Waiting
  <2>5. LinesTyped' /\ RoomsTyped' /\ CountsTyped' /\ ServerTyped' /\ HandledShown'
    BY <2>1 DEF LinesTyped, RoomsTyped, CountsTyped, ServerTyped, HandledShown
  <2> QED BY <2>4, <2>5
<1> QED BY <1>1, <1>2, <1>3

LEMMA SessionInv == RoomsInv /\ (SessionInitialized \/ ConnectionClosed) => RoomsInv'
<1> SUFFICES ASSUME RoomsInv, SessionInitialized \/ ConnectionClosed PROVE RoomsInv'
  OBVIOUS
<1> USE DEF RoomsInv
<1>1. CASE SessionInitialized
  <2>1. /\ handled = None /\ online' = TRUE
        /\ UNCHANGED <<truth, rooms, handled, call, spent>>
    BY <1>1 DEF SessionInitialized
  <2>2. toClient' \in Seq(Message)
    BY <1>1, ListTyped DEF SessionInitialized, ServerTyped
  <2>3. toServer' \in Seq(Commands)
    <3> DEFINE n == Cardinality(Favorites)
    <3> DEFINE favorites == SetToSeq(Favorites)
    <3>1. IsFiniteSet(Favorites) /\ Favorites \subseteq RoomNames
      BY RoomsAssumption, FS_Subset DEF RoomsAssumption
    <3>2. n \in Nat /\ favorites \in [1..n -> Favorites]
      BY <3>1, SetToSeqTyped
    <3> HIDE DEF n, favorites
    <3>3. \A i \in 1..n : [kind |-> "join", room |-> favorites[i], user |-> Me] \in Commands
      BY <3>1, <3>2 DEF Commands, OwnKinds
    <3>4. [i \in DOMAIN favorites |-> [kind |-> "join", room |-> favorites[i], user |-> Me]]
            \in [1..n -> Commands]
      BY <3>2, <3>3
    <3>5. [i \in DOMAIN favorites |-> [kind |-> "join", room |-> favorites[i], user |-> Me]]
            \in Seq(Commands)
      BY <3>2, <3>4, FunctionIsSeq
    <3>6. <<>> \in Seq(Commands)
      OBVIOUS
    <3> QED BY <1>1, <3>5, <3>6 DEF SessionInitialized, favorites
  <2>4. LinesTyped' /\ RoomsTyped' /\ CallsTyped' /\ CountsTyped' /\ ServerTyped'
    BY <2>1, <2>2, <2>3 DEF LinesTyped, RoomsTyped, CallsTyped, CountsTyped, ServerTyped
  <2>5. HandledShown'
    BY <2>1 DEF HandledShown
  <2> QED BY <2>4, <2>5
<1>2. CASE ConnectionClosed
  <2>1. /\ online' = FALSE /\ toClient' = <<>> /\ toServer' = <<>>
        /\ rooms' = [r \in RoomNames |-> None] /\ UNCHANGED <<handled, call>>
    BY <1>2 DEF ConnectionClosed
  <2>2. ServerTyped'
    <3>1. truth' = [r \in RoomNames |-> [truth[r] EXCEPT !.joined = truth[r].joined \ {Me}]]
      BY <1>2 DEF ConnectionClosed
    <3>2. \A r \in RoomNames :
            [truth[r] EXCEPT !.joined = truth[r].joined \ {Me}] \in ServerRoom
      BY DEF ServerTyped, ServerRoom
    <3> QED BY <3>1, <3>2 DEF ServerTyped
  <2>3. CountsTyped'
    <3>1. spent.losses < MaxLosses /\ spent' = [spent EXCEPT !.losses = spent.losses + 1]
      BY <1>2 DEF ConnectionClosed
    <3>2. spent' \in [changes : 0..MaxChanges, losses : 0..MaxLosses]
      BY <3>1, RoomsAssumption DEF CountsTyped, RoomsAssumption
    <3> QED BY <2>1, <3>2 DEF CountsTyped
  <2>4. LinesTyped' /\ RoomsTyped' /\ CallsTyped' /\ HandledShown'
    BY <2>1 DEF LinesTyped, RoomsTyped, CallsTyped, HandledShown, Known
  <2> QED BY <2>2, <2>3, <2>4
<1> QED BY <1>1, <1>2

LEMMA NextInv == RoomsInv /\ [Next]_vars => RoomsInv'
<1>1. RoomsInv /\ UNCHANGED vars => RoomsInv'
  BY DEF RoomsInv, vars, ServerTyped, LinesTyped, RoomsTyped, CallsTyped, CountsTyped,
         HandledShown
<1> QED BY <1>1, ChangeInv, ServeInv, HandleInv, CallsInv, SessionInv DEF Next

(* In every state the messages are well formed, and what the last one that was  *)
(* handled says is in the rooms until its futures are completed.               *)
THEOREM RoomsInvariant == Spec => []RoomsInv
<1> QED BY InitTyped, NextInv, PTL DEF Spec

(* Every variable of Rooms keeps its type.                                    *)
THEOREM TypeCorrect == Spec => []TypeOK
<1>1. RoomsInv => TypeOK
  BY DEF RoomsInv, TypeOK, ServerTyped, RoomsTyped, Known, CallsTyped, CommandState, CountsTyped
<1> QED BY <1>1, RoomsInvariant, PTL

(* A command is answered when the rooms already show what its answer says.     *)
LEMMA AnswerShows ==
  ASSUME RoomsInv, CompleteFutures, online, NEW c \in Calls,
         call[c].at = "waits", call'[c].at = "answered", call[c].kind # "list"
  PROVE  rooms[call[c].room] # None /\ Shows(rooms[call[c].room], call[c])
<1>1. handled # None /\ Matches(c, handled)
  BY DEF RoomsInv, CallsTyped, CommandState, CompleteFutures
<1>2. Visible(handled, rooms) /\ handled \in Message
  BY <1>1 DEF RoomsInv, LinesTyped, HandledShown
<1>3. handled.room = call[c].room /\ handled.kind = Answer[call[c].kind]
  BY <1>1 DEF Matches
<1>4. /\ call[c].kind \in {"join", "leave", "drop", "ticker"} \cup UserKinds
      /\ call[c].kind \in OwnKinds => call[c].user = Me
  BY DEF RoomsInv, CallsTyped, Waiting, OwnKinds
<1>5. CASE call[c].kind = "join"
  <2>1. handled.kind = "JoinRoom"
    BY <1>3, <1>5 DEF Answer
  <2> QED BY <1>2, <1>3, <1>5, <2>1 DEF Visible, Shows
<1>6. CASE call[c].kind = "leave"
  <2>1. handled.kind = "LeaveRoom"
    BY <1>3, <1>6 DEF Answer
  <2> QED BY <1>2, <1>3, <1>6, <2>1 DEF Visible, Shows
<1>7. CASE call[c].kind = "drop"
  <2>1. handled.kind = "PrivateRoomMembershipRevoked"
    BY <1>3, <1>7 DEF Answer
  <2>2. handled.user = Me /\ call[c].user = Me
    BY <1>2, <1>4, <1>7, <2>1 DEF Message, AboutMe, AboutUser, OwnKinds
  <2> QED BY <1>2, <1>3, <1>7, <2>1, <2>2 DEF Visible, Shows
<1>8. CASE call[c].kind = "ticker"
  <2>1. handled.kind = "RoomTickerAdded"
    BY <1>3, <1>8 DEF Answer
  <2>2. handled.user = Me
    BY <1>1, <1>4, <1>8 DEF Matches, OwnKinds
  <2> QED BY <1>2, <1>3, <1>8, <2>1, <2>2 DEF Visible, Shows
<1>9. CASE call[c].kind \in UserKinds
  <2>1. handled.user = call[c].user
    BY <1>1, <1>9 DEF Matches
  <2>2. /\ call[c].kind = "grant" => handled.kind = "PrivateRoomGrantMembership"
        /\ call[c].kind = "revoke" => handled.kind = "PrivateRoomRevokeMembership"
        /\ call[c].kind = "grantOperator" => handled.kind = "PrivateRoomGrantOperator"
        /\ call[c].kind = "revokeOperator" => handled.kind = "PrivateRoomRevokeOperator"
    BY <1>3 DEF Answer
  <2> QED BY <1>2, <1>3, <1>9, <2>1, <2>2 DEF Visible, Shows, UserKinds
<1> QED BY <1>4, <1>5, <1>6, <1>7, <1>8, <1>9

(* AnswerIsVisible: the futures of a message are completed after its listeners,  *)
(* so a command that is answered finds its effect in the rooms.                *)
THEOREM AnswersAreVisible == Spec => AnswerIsVisible
<1> DEFINE Answered ==
      \A c \in Calls :
        call[c].at = "waits" /\ call'[c].at = "answered" /\ online =>
          \/ call[c].kind = "list"
          \/ rooms[call[c].room] # None /\ Shows(rooms[call[c].room], call[c])
<1>1. RoomsInv /\ [Next]_vars => [Answered]_vars
  <2> SUFFICES ASSUME RoomsInv, Next, NEW c \in Calls,
                      call[c].at = "waits", call'[c].at = "answered", online,
                      call[c].kind # "list"
               PROVE  rooms[call[c].room] # None /\ Shows(rooms[call[c].room], call[c])
    OBVIOUS
  <2>1. CASE CompleteFutures
    BY <2>1, AnswerShows
  <2>2. CASE ~CompleteFutures
    <3>1. CASE \E d \in Calls : Execute(d) \/ Return(d)
      <4>1. PICK d \in Calls : Execute(d) \/ Return(d)
        BY <3>1
      <4>2. call \in [Calls -> CommandState]
        BY DEF RoomsInv, CallsTyped
      <4>3. CASE Execute(d)
        <5>1. c # d
          BY <4>3 DEF Execute
        <5>2. call'[c] = call[c]
          BY <4>2, <4>3, <5>1 DEF Execute
        <5> QED BY <5>2
      <4>4. CASE Return(d)
        <5>1. CASE c = d
          <6> DEFINE lost == call[d].kind \in LooksUp /\ rooms[call[d].room] = None
          <6> DEFINE result == CASE call[d].at = "answered" /\ lost -> "KeyError"
                                 [] call[d].at = "answered" -> "returned"
                                 [] OTHER -> "timeout"
          <6>1. call' = [call EXCEPT ![d].at = result]
            BY <4>4 DEF Return
          <6> HIDE DEF lost
          <6>2. result = "timeout"
            BY <5>1
          <6> HIDE DEF result
          <6>3. call'[c].at = "timeout"
            BY <4>2, <5>1, <6>1, <6>2 DEF CommandState
          <6> QED BY <6>3
        <5>2. CASE c # d
          <6>1. call'[c] = call[c]
            BY <4>2, <4>4, <5>2 DEF Return
          <6> QED BY <6>1
        <5> QED BY <5>1, <5>2
      <4> QED BY <4>1, <4>3, <4>4
    <3>2. CASE ~ \E d \in Calls : Execute(d) \/ Return(d)
      <4>1. call' = call
        BY <2>2, <3>2 DEF Next, Change, Serve, Handle, SessionInitialized, ConnectionClosed
      <4> QED BY <4>1
    <3> QED BY <3>1, <3>2
  <2> QED BY <2>1, <2>2
<1>2. Spec => [][Answered]_vars
  BY <1>1, RoomsInvariant, PTL DEF Spec
<1> QED BY <1>2 DEF AnswerIsVisible

---------------------------------------------------------------------------
(* Messages under way.  Handled in order, they bring what the client knows of a *)
(* room from a set of possibilities into another: the sets in between are like  *)
(* the assertions between the statements of a program.                         *)
Brings(r, messages, from, to) ==
  /\ messages \in Seq(Message)
  /\ \E between \in [0..Len(messages) -> SUBSET Known] :
       /\ from \subseteq between[0] /\ between[Len(messages)] \subseteq to
       /\ \A i \in 1..Len(messages) : \A known \in between[i - 1] :
            After(r, known, messages[i]) \in between[i]

(* No message changes nothing.                                              *)
LEMMA BringsNothing ==
  ASSUME NEW r \in RoomNames, NEW from \in SUBSET Known, NEW to \in SUBSET Known
  PROVE  Brings(r, <<>>, from, to) <=> from \subseteq to
<1>1. ASSUME Brings(r, <<>>, from, to) PROVE from \subseteq to
  BY <1>1 DEF Brings
<1>2. ASSUME from \subseteq to PROVE Brings(r, <<>>, from, to)
  <2> DEFINE between == [i \in 0..0 |-> from]
  <2>1. between \in [0..Len(<<>>) -> SUBSET Known] /\ between[0] = from /\ between[Len(<<>>)] = from
    OBVIOUS
  <2>2. \A i \in 1..Len(<<>>) : FALSE
    OBVIOUS
  <2> HIDE DEF between
  <2> QED BY <1>2, <2>1, <2>2, EmptyTyped DEF Brings
<1> QED BY <1>1, <1>2

(* One message.                                                             *)
LEMMA BringsOne ==
  ASSUME NEW r \in RoomNames, NEW m \in Message, NEW from \in SUBSET Known,
         NEW to \in SUBSET Known, \A known \in from : After(r, known, m) \in to
  PROVE  Brings(r, <<m>>, from, to)
<1> DEFINE between == [i \in 0..1 |-> IF i = 0 THEN from ELSE to]
<1>1. /\ Len(<<m>>) = 1 /\ <<m>>[1] = m /\ <<m>> \in Seq(Message)
      /\ between \in [0..1 -> SUBSET Known] /\ between[0] = from /\ between[1] = to
  OBVIOUS
<1> HIDE DEF between
<1>2. \A i \in 1..1 : \A known \in between[i - 1] : After(r, known, <<m>>[i]) \in between[i]
  <2> SUFFICES ASSUME NEW i \in 1..1, NEW known \in between[i - 1]
               PROVE  After(r, known, <<m>>[i]) \in between[i]
    OBVIOUS
  <2>1. i = 1 /\ i - 1 = 0
    OBVIOUS
  <2> QED BY <1>1, <2>1
<1> QED BY <1>1, <1>2 DEF Brings

(* One sequence of messages and another one after it.                          *)
LEMMA BringsOn ==
  ASSUME NEW r, NEW p, NEW q, NEW from, NEW at, NEW to,
         Brings(r, p, from, at), Brings(r, q, at, to)
  PROVE  Brings(r, p \o q, from, to)
<1>1. p \in Seq(Message) /\ q \in Seq(Message)
  BY DEF Brings
<1>2. PICK first \in [0..Len(p) -> SUBSET Known] :
        /\ from \subseteq first[0] /\ first[Len(p)] \subseteq at
        /\ \A i \in 1..Len(p) : \A known \in first[i - 1] : After(r, known, p[i]) \in first[i]
  BY DEF Brings
<1>3. PICK then \in [0..Len(q) -> SUBSET Known] :
        /\ at \subseteq then[0] /\ then[Len(q)] \subseteq to
        /\ \A i \in 1..Len(q) : \A known \in then[i - 1] : After(r, known, q[i]) \in then[i]
  BY DEF Brings
<1> DEFINE m == Len(p)
<1> DEFINE n == Len(q)
<1>4. m \in Nat /\ n \in Nat /\ p \o q \in Seq(Message) /\ Len(p \o q) = m + n
  BY <1>1
<1>5. \A i \in 1..m + n : (p \o q)[i] = IF i <= m THEN p[i] ELSE q[i - m]
  BY <1>1
<1> HIDE DEF m, n
<1> DEFINE between == [i \in 0..m + n |-> IF i <= m THEN first[i] ELSE then[i - m]]
<1>6. between \in [0..m + n -> SUBSET Known]
  <2> SUFFICES ASSUME NEW i \in 0..m + n
               PROVE  (IF i <= m THEN first[i] ELSE then[i - m]) \in SUBSET Known
    OBVIOUS
  <2>1. first \in [0..m -> SUBSET Known] /\ then \in [0..n -> SUBSET Known]
    BY DEF m, n
  <2>2. i <= m => i \in 0..m
    BY <1>4
  <2>3. ~(i <= m) => i - m \in 0..n
    BY <1>4
  <2> QED BY <2>1, <2>2, <2>3
<1>7. from \subseteq between[0]
  BY <1>2, <1>4
<1>8. between[m + n] \subseteq to
  <2>1. CASE n = 0
    <3>1. m + n = m /\ m \in 0..m + n
      BY <1>4, <2>1
    <3>2. between[m + n] = first[m]
      BY <1>4, <3>1
    <3> HIDE DEF between
    <3> QED BY <1>2, <1>3, <2>1, <3>2 DEF m, n
  <2>2. CASE n > 0
    <3>1. between[m + n] = then[n]
      BY <1>4, <2>2
    <3> QED BY <1>3, <3>1 DEF n
  <2>3. n = 0 \/ n > 0
    BY <1>4
  <2> QED BY <2>1, <2>2, <2>3
<1>9. ASSUME NEW i \in 1..m + n, NEW known \in between[i - 1]
      PROVE  After(r, known, (p \o q)[i]) \in between[i]
  <2>1. CASE i <= m
    <3>1. i \in 0..m + n /\ i - 1 \in 0..m + n /\ i - 1 <= m
      BY <1>4, <2>1
    <3>2. between[i - 1] = first[i - 1] /\ between[i] = first[i] /\ (p \o q)[i] = p[i]
      BY <1>5, <2>1, <3>1
    <3>3. i \in 1..m
      BY <1>4, <2>1
    <3> HIDE DEF between
    <3> QED BY <1>2, <3>2, <3>3 DEF m
  <2>2. CASE i > m
    <3>1. i - m \in 1..n /\ between[i] = then[i - m] /\ (p \o q)[i] = q[i - m]
      BY <1>4, <1>5, <2>2
    <3>2. known \in then[(i - m) - 1]
      <4>1. CASE i = m + 1
        <5>1. between[i - 1] = first[m] /\ (i - m) - 1 = 0
          BY <1>4, <4>1
        <5> HIDE DEF between
        <5> QED BY <1>2, <1>3, <5>1 DEF m
      <4>2. CASE i > m + 1
        <5>1. between[i - 1] = then[(i - 1) - m] /\ (i - 1) - m = (i - m) - 1
          BY <1>4, <4>2
        <5> HIDE DEF between
        <5> QED BY <5>1
      <4> QED BY <1>4, <2>2, <4>1, <4>2
    <3> HIDE DEF between
    <3> QED BY <1>3, <3>1, <3>2 DEF n
  <2> QED BY <1>4, <2>1, <2>2
<1> HIDE DEF between
<1> QED BY <1>4, <1>6, <1>7, <1>8, <1>9 DEF Brings

(* Messages that are only sent in some cases.                               *)
LEMMA BringsIf ==
  ASSUME NEW r \in RoomNames, NEW P, NEW messages, NEW from \in SUBSET Known,
         NEW to \in SUBSET Known,
         P => Brings(r, messages, from, to), ~P => from \subseteq to
  PROVE  Brings(r, If(P, messages), from, to)
<1>1. CASE P
  BY <1>1 DEF If
<1>2. CASE ~P
  BY <1>2, BringsNothing DEF If
<1> QED BY <1>1, <1>2

(* From less, to more.                                                      *)
LEMMA BringsLess ==
  ASSUME NEW r, NEW messages, NEW from, NEW to, NEW less, NEW more,
         Brings(r, messages, from, to), less \subseteq from, to \subseteq more
  PROVE  Brings(r, messages, less, more)
  BY DEF Brings

(* The first message is handled.                                              *)
LEMMA BringsRest ==
  ASSUME NEW r, NEW messages, NEW known, NEW to, messages # <<>>,
         Brings(r, messages, {known}, to)
  PROVE  Brings(r, Tail(messages), {After(r, known, Head(messages))}, to)
<1>1. messages \in Seq(Message)
  BY DEF Brings
<1>2. PICK between \in [0..Len(messages) -> SUBSET Known] :
        /\ known \in between[0] /\ between[Len(messages)] \subseteq to
        /\ \A i \in 1..Len(messages) : \A k \in between[i - 1] :
             After(r, k, messages[i]) \in between[i]
  BY DEF Brings
<1> DEFINE n == Len(messages)
<1>3. /\ n \in Nat /\ n > 0 /\ Tail(messages) \in Seq(Message) /\ Len(Tail(messages)) = n - 1
      /\ Head(messages) = messages[1] /\ \A i \in 1..n - 1 : Tail(messages)[i] = messages[i + 1]
  BY <1>1
<1> HIDE DEF n
<1> DEFINE later == [i \in 0..n - 1 |-> between[i + 1]]
<1>4. \A i \in 0..n - 1 : i + 1 \in 0..n /\ i + 1 \in 1..n
  BY <1>3
<1>5. later \in [0..n - 1 -> SUBSET Known] /\ 0 \in 0..n - 1 /\ n - 1 \in 0..n - 1
  BY <1>3, <1>4 DEF n
<1>6. After(r, known, Head(messages)) \in later[0]
  <2>1. later[0] = between[1] /\ 1 \in 1..n /\ 1 - 1 = 0
    BY <1>3, <1>5
  <2> QED BY <1>2, <1>3, <2>1 DEF n
<1>7. later[n - 1] \subseteq to
  <2>1. later[n - 1] = between[n]
    BY <1>3, <1>5
  <2> QED BY <1>2, <2>1 DEF n
<1>8. ASSUME NEW i \in 1..n - 1, NEW k \in later[i - 1]
      PROVE  After(r, k, Tail(messages)[i]) \in later[i]
  <2>1. i + 1 \in 1..n /\ later[i - 1] = between[i] /\ later[i] = between[i + 1] /\ (i + 1) - 1 = i
    BY <1>3
  <2> HIDE DEF later
  <2> QED BY <1>2, <1>3, <2>1 DEF n
<1> HIDE DEF later
<1> QED BY <1>3, <1>5, <1>6, <1>7, <1>8 DEF Brings

(* Messages about other rooms.                                               *)
LEMMA BringsAway ==
  ASSUME NEW r, NEW messages \in Seq(Message), NEW from \in SUBSET Known,
         \A i \in 1..Len(messages) : messages[i].kind # "RoomList" /\ messages[i].room # r
  PROVE  Brings(r, messages, from, from)
<1> DEFINE between == [i \in 0..Len(messages) |-> from]
<1>1. Len(messages) \in Nat
  OBVIOUS
<1>2. between \in [0..Len(messages) -> SUBSET Known] /\ \A i \in 0..Len(messages) : between[i] = from
  OBVIOUS
<1>3. \A i \in 1..Len(messages) : \A known \in between[i - 1] :
        After(r, known, messages[i]) \in between[i]
  <2> SUFFICES ASSUME NEW i \in 1..Len(messages), NEW known \in from
               PROVE  After(r, known, messages[i]) \in from
    BY <1>1
  <2> QED BY DEF After
<1> HIDE DEF between
<1> QED BY <1>1, <1>2, <1>3 DEF Brings
---------------------------------------------------------------------------
(* What the client knows of a room, against the room of the server: who is     *)
(* there, and who has what rights.  The handlers of the messages of one change  *)
(* give up the second for a while.                                           *)
Entitled(real) == IF real.owner = None THEN {} ELSE real.members \cup {real.owner}

Presence(known, real) ==
  IF known = None THEN Me \notin real.joined
  ELSE /\ known.joined <=> Me \in real.joined
       /\ IF Me \in real.joined THEN known.users = real.joined /\ known.tickers = real.tickers
          ELSE known.users = {}

Rights(known, real) ==
  IF known = None THEN Me \notin Entitled(real)
  ELSE /\ known.owner = Me <=> real.owner = Me
       /\ Me \in known.operators <=> Me \in real.operators
       /\ Me \in known.members <=> Me \in real.members
       /\ Me \in Entitled(real) => /\ known.private
                                   /\ known.members = real.members
                                   /\ known.operators = real.operators

Seen(real) == {known \in Known : Presence(known, real)}
Same(real) == {known \in Known : Presence(known, real) /\ Rights(known, real)}

(* Without an owner a room has no members; with one, only they are in it.       *)
SoundRoom(real) ==
  /\ real.owner = None => real.members = {} /\ real.operators = {}
  /\ real.owner # None => real.joined \subseteq Entitled(real)

(* The list of rooms removes those in which we have no part, and says what we    *)
(* are in the others.                                                        *)
LEMMA ListSays ==
  ASSUME NEW t \in [RoomNames -> ServerRoom], NEW r \in RoomNames, SoundRoom(t[r]),
         NEW known \in Known, Presence(known, t[r]), NEW m \in Message, RoomList(t) = <<m>>
  PROVE  LET then == After(r, known, m)
         IN  /\ then \in Known /\ Presence(then, t[r])
             /\ Me \notin Entitled(t[r]) => Rights(then, t[r])
             /\ Me \in Entitled(t[r]) =>
                  /\ then # None /\ then.private
                  /\ then.owner = Me <=> t[r].owner = Me
                  /\ Rights(known, t[r]) => Rights(then, t[r])
<1> DEFINE s == t[r]
<1> DEFINE then == After(r, known, m)
<1> DEFINE room == Get(known, r \notin m.public)
<1>1. /\ m.kind = "RoomList"
      /\ r \in m.public <=> s.owner = None /\ s.joined # {}
      /\ r \in m.private <=> s.owner # None /\ Me \in s.members
      /\ r \in m.owned <=> s.owner = Me
      /\ r \in m.operated <=> s.owner # None /\ Me \in s.operators
  <2>1. m = RoomList(t)[1]
    OBVIOUS
  <2> QED BY <2>1 DEF RoomList
<1>2. then = Listed(r, known, m) /\ then \in Known
  BY <1>1, AfterTyped DEF After
<1>3. s \in ServerRoom /\ Me # None /\ None \notin Room
  BY RoomsAssumption, NoneAssumption DEF RoomsAssumption
<1>4. (r \notin m.public) \in BOOLEAN
  OBVIOUS
<1>5. room \in Room /\ Presence(room, s)
  <2>1. room \in Room
    BY <1>4, GetTyped
  <2>2. CASE known = None
    <3>1. room = NewRoom(r \notin m.public)
      BY <2>2 DEF Get
    <3>2. room.joined = FALSE /\ room.users = {}
      BY <3>1 DEF NewRoom
    <3> QED BY <1>3, <2>1, <2>2, <3>2 DEF Presence
  <2>3. CASE known # None
    BY <2>1, <2>3 DEF Get
  <2> QED BY <2>1, <2>2, <2>3
<1> HIDE DEF room
<1>6. CASE r \notin m.public \cup m.private \cup m.owned
  <2>1. then = None
    BY <1>2, <1>6 DEF Listed
  <2>2. Me \notin Entitled(s)
    BY <1>1, <1>3, <1>6 DEF Entitled
  <2>3. Me \notin s.joined
    BY <1>1, <1>6, <2>2 DEF SoundRoom
  <2> HIDE DEF s, then
  <2> QED BY <1>2, <2>1, <2>2, <2>3 DEF Presence, Rights, s, then
<1>7. CASE r \in m.public \cup m.private \cup m.owned
  <2> DEFINE mine(set, P) == IF P THEN set \cup {Me} ELSE set \ {Me}
  <2> DEFINE owner == IF r \in m.owned THEN Me ELSE IF room.owner = Me THEN None ELSE room.owner
  <2> DEFINE members == mine(room.members, r \in m.private)
  <2> DEFINE operators == mine(room.operators, r \in m.operated)
  <2>1. then = [room EXCEPT !.owner = owner, !.members = members, !.operators = operators,
                            !.private = r \notin m.public]
    BY <1>2, <1>7 DEF Listed, room
  <2>2. /\ owner = Me <=> s.owner = Me
        /\ Me \in members <=> r \in m.private
        /\ Me \in operators <=> r \in m.operated
    BY <1>1, <1>3
  <2>3. /\ Me \in members <=> Me \in s.members
        /\ Me \in operators <=> Me \in s.operators
    BY <1>1, <2>2 DEF SoundRoom
  <2>4. Me \in Entitled(s) => r \notin m.public
    BY <1>1 DEF Entitled
  <2>5. Me \in Entitled(s) /\ Rights(known, s) => members = s.members /\ operators = s.operators
    <3> SUFFICES ASSUME Me \in Entitled(s), Rights(known, s)
                 PROVE  members = s.members /\ operators = s.operators
      OBVIOUS
    <3>1. known # None
      BY DEF Rights
    <3>2. room = known
      BY <3>1 DEF Get, room
    <3>3. room.members = s.members /\ room.operators = s.operators
      BY <3>1, <3>2 DEF Rights
    <3>4. Me \in members <=> Me \in s.members
      BY <2>3
    <3>5. Me \in operators <=> Me \in s.operators
      BY <2>3
    <3> QED BY <3>3, <3>4, <3>5
  <2>6. members \in SUBSET Users /\ operators \in SUBSET Users /\ owner \in Users \cup {None}
    BY <1>5 DEF Room, Users
  <2> HIDE DEF mine, owner, members, operators
  <2>7. /\ then \in Room
        /\ then.joined = room.joined /\ then.users = room.users /\ then.tickers = room.tickers
        /\ then.owner = owner /\ then.members = members /\ then.operators = operators
        /\ then.private = (r \notin m.public)
    <3>1. /\ then.joined = room.joined /\ then.users = room.users /\ then.tickers = room.tickers
          /\ then.owner = owner /\ then.members = members /\ then.operators = operators
          /\ then.private = (r \notin m.public)
      BY <1>5, <2>1 DEF Room
    <3> HIDE DEF then
    <3>2. then \in Room
      BY <1>4, <1>5, <2>1, <2>6 DEF Room
    <3> QED BY <3>1, <3>2
  <2> HIDE DEF then, s
  <2>8. then # None /\ room # None
    BY <1>3, <1>5, <2>7
  <2>9. Presence(then, s)
    BY <1>5, <2>7, <2>8 DEF Presence
  <2>10. Me \notin Entitled(s) => Rights(then, s)
    BY <2>2, <2>3, <2>7, <2>8 DEF Rights
  <2>11. Me \in Entitled(s) /\ Rights(known, s) => Rights(then, s)
    BY <2>2, <2>3, <2>4, <2>5, <2>7, <2>8 DEF Rights
  <2> QED BY <1>2, <2>2, <2>4, <2>7, <2>8, <2>9, <2>10, <2>11 DEF s, then
<1> QED BY <1>6, <1>7

(* Messages of which one at least is about the room, and does not say anything  *)
(* else when it is repeated.                                                 *)
LEMMA BringsOnce ==
  ASSUME NEW r, NEW messages \in Seq(Message), NEW from \in SUBSET Known, NEW to \in SUBSET Known,
         \A i \in 1..Len(messages) : messages[i].kind # "RoomList",
         \A i \in 1..Len(messages) : messages[i].room = r =>
           \A known \in from \cup to : After(r, known, messages[i]) \in to,
         \E i \in 1..Len(messages) : messages[i].room = r
  PROVE  Brings(r, messages, from, to)
<1> DEFINE n == Len(messages)
<1> DEFINE Said(i) == \E j \in 1..i : messages[j].room = r
<1> DEFINE between == [i \in 0..n |-> IF Said(i) THEN to ELSE from]
<1>1. n \in Nat
  OBVIOUS
<1>2. between \in [0..n -> SUBSET Known]
  OBVIOUS
<1>3. between[0] = from /\ between[n] = to
  BY <1>1
<1>4. ASSUME NEW i \in 1..n, NEW known \in between[i - 1]
      PROVE  After(r, known, messages[i]) \in between[i]
  <2>1. between[i] = (IF Said(i) THEN to ELSE from) /\ known \in (IF Said(i - 1) THEN to ELSE from)
    BY <1>1
  <2>2. CASE messages[i].room = r
    <3>1. Said(i)
      BY <1>1, <2>2
    <3> HIDE DEF between, Said
    <3> QED BY <2>1, <2>2, <3>1
  <2>3. CASE messages[i].room # r
    <3>1. Said(i) <=> Said(i - 1)
      <4>1. \A j \in 1..i : j = i \/ j \in 1..i - 1
        BY <1>1
      <4>2. \A j \in 1..i - 1 : j \in 1..i
        BY <1>1
      <4> QED BY <2>3, <4>1, <4>2
    <3>2. After(r, known, messages[i]) = known
      BY <2>3 DEF After
    <3> HIDE DEF between, Said
    <3> QED BY <2>1, <3>1, <3>2
  <2> QED BY <2>2, <2>3
<1> HIDE DEF between
<1> QED BY <1>2, <1>3, <1>4 DEF Brings

(* SetToSeq leaves no element out.                                            *)
LEMMA SetToSeqOnto ==
  ASSUME NEW S, IsFiniteSet(S), NEW x \in S
  PROVE  \E i \in 1..Cardinality(S) : SetToSeq(S)[i] = x
<1> DEFINE n == Cardinality(S)
<1> DEFINE f == SetToSeq(S)
<1>1. n \in Nat /\ f \in [1..n -> S]
  BY SetToSeqTyped
<1>2. IsInjective(f)
  <2>1. \E g \in [1..n -> S] : IsInjective(g)
    <3>1. ExistsBijection(1..n, S)
      BY FS_CardinalityType
    <3> QED BY <3>1 DEF ExistsBijection, Bijection, Injection
  <2> QED BY <2>1 DEF SetToSeq
<1> HIDE DEF f
<1>3. SUFFICES ASSUME \A i \in 1..n : f[i] # x PROVE FALSE
  BY DEF f
<1>4. f \in [1..n -> S \ {x}]
  BY <1>1, <1>3
<1>5. IsFiniteSet(S \ {x}) /\ Cardinality(S \ {x}) = n - 1
  BY FS_RemoveElement
<1>6. IsFiniteSet(1..n) /\ Cardinality(1..n) = n
  BY <1>1, FS_Interval
<1>7. Cardinality(S \ {x}) < Cardinality(1..n)
  BY <1>1, <1>5, <1>6
<1>8. \E i, j \in 1..n : i # j /\ f[i] = f[j]
  <2> DEFINE rest == S \ {x}
  <2> DEFINE places == 1..n
  <2>1. /\ IsFiniteSet(rest) /\ IsFiniteSet(places) /\ f \in [places -> rest]
        /\ Cardinality(rest) < Cardinality(places)
    BY <1>4, <1>5, <1>6, <1>7
  <2> HIDE DEF rest, places
  <2>2. \E i, j \in places : i # j /\ f[i] = f[j]
    BY <2>1, FS_PigeonHole
  <2> QED BY <2>2 DEF places
<1> QED BY <1>1, <1>2, <1>8 DEF IsInjective

(* The members and the operators of our private rooms follow the list.          *)
LEMMA ListUpdateSays ==
  ASSUME NEW t \in [RoomNames -> ServerRoom], NEW r \in RoomNames, SoundRoom(t[r])
  PROVE  /\ Brings(r, RoomList(t), Same(t[r]), Same(t[r]))
         /\ Brings(r, ListUpdate(t), Seen(t[r]), Same(t[r]))
<1> DEFINE s == t[r]
<1> DEFINE S == {q \in RoomNames : Me \in AllMembers(t, q)}
<1> DEFINE n == Cardinality(S)
<1> DEFINE mine == SetToSeq(S)
<1> DEFINE members == [i \in DOMAIN mine |-> [kind |-> "PrivateRoomMembers", room |-> mine[i],
                                              users |-> t[mine[i]].members]]
<1> DEFINE operators == [i \in DOMAIN mine |-> [kind |-> "PrivateRoomOperators",
                                                room |-> mine[i],
                                                users |-> t[mine[i]].operators]]
<1> DEFINE m == RoomList(t)[1]
<1>1. RoomList(t) = <<m>> /\ m \in Message
  <2>1. RoomList(t) = <<m>>
    BY DEF RoomList
  <2>2. RoomList(t) \in Seq(Message) /\ Len(RoomList(t)) = 1
    BY <2>1, ListTyped
  <2>3. m \in Message
    BY <2>2
  <2> QED BY <2>1, <2>3
<1> HIDE DEF m
<1>2. /\ Same(s) \in SUBSET Known /\ Seen(s) \in SUBSET Known /\ Same(s) \subseteq Seen(s)
      /\ s \in ServerRoom /\ None \notin Room
  BY NoneAssumption DEF Same, Seen
<1>3. Brings(r, RoomList(t), Same(s), Same(s))
  <2>1. ASSUME NEW known \in Same(s)
        PROVE  After(r, known, m) \in Same(s)
    BY <1>1, <2>1, ListSays DEF Same
  <2> HIDE DEF s
  <2> QED BY <1>1, <1>2, <2>1, BringsOne
<1>4. /\ n \in Nat /\ mine \in [1..n -> S] /\ DOMAIN mine = 1..n
      /\ r \in S => \E i \in 1..n : mine[i] = r
  <2>1. IsFiniteSet(S)
    BY RoomsAssumption, FS_Subset DEF RoomsAssumption
  <2> HIDE DEF S
  <2>2. n \in Nat /\ mine \in [1..n -> S]
    BY <2>1, SetToSeqTyped
  <2>3. r \in S => \E i \in 1..n : mine[i] = r
    BY <2>1, SetToSeqOnto
  <2> QED BY <2>2, <2>3
<1> HIDE DEF mine, n
<1>5. /\ members \in Seq(Message) /\ Len(members) = n
      /\ operators \in Seq(Message) /\ Len(operators) = n
  <2>1. \A i \in 1..n : /\ mine[i] \in RoomNames
                        /\ t[mine[i]].members \subseteq Users
                        /\ t[mine[i]].operators \subseteq Users
    BY <1>4 DEF ServerRoom
  <2>2. /\ \A i \in 1..n :
             [kind |-> "PrivateRoomMembers", room |-> mine[i], users |-> t[mine[i]].members]
               \in Message
        /\ \A i \in 1..n :
             [kind |-> "PrivateRoomOperators", room |-> mine[i], users |-> t[mine[i]].operators]
               \in Message
    BY <2>1 DEF Message
  <2>3. members \in [1..n -> Message] /\ operators \in [1..n -> Message]
    BY <1>4, <2>2
  <2> HIDE DEF members, operators
  <2> QED BY <1>4, <2>3, FunctionIsSeq
<1>6. \A i \in 1..n :
        /\ members[i].kind = "PrivateRoomMembers" /\ members[i].room = mine[i]
        /\ members[i].room = r => members[i].users = s.members
        /\ operators[i].kind = "PrivateRoomOperators" /\ operators[i].room = mine[i]
        /\ operators[i].room = r => operators[i].users = s.operators
  BY <1>4
<1>7. ListUpdate(t) = (RoomList(t) \o members) \o operators
  BY DEF ListUpdate, mine
<1>8. r \in S <=> Me \in Entitled(s)
  BY DEF AllMembers, Entitled
<1> HIDE DEF members, operators, S
<1>9. CASE Me \notin Entitled(s)
  <2>1. ASSUME NEW known \in Seen(s)
        PROVE  After(r, known, m) \in Same(s)
    BY <1>1, <1>9, <2>1, ListSays DEF Same, Seen
  <2>2. \A i \in 1..n : mine[i] # r
    BY <1>4, <1>8, <1>9
  <2> HIDE DEF s
  <2>3. Brings(r, RoomList(t), Seen(s), Same(s))
    BY <1>1, <1>2, <2>1, BringsOne
  <2>4. Brings(r, members, Same(s), Same(s)) /\ Brings(r, operators, Same(s), Same(s))
    BY <1>2, <1>5, <1>6, <2>2, BringsAway
  <2>5. Brings(r, RoomList(t) \o members, Seen(s), Same(s))
    BY <2>3, <2>4, BringsOn
  <2>6. Brings(r, ListUpdate(t), Seen(s), Same(s))
    BY <1>7, <2>4, <2>5, BringsOn
  <2> QED BY <1>3, <2>6 DEF s
<1>10. CASE Me \in Entitled(s)
  <2> DEFINE A == {k \in Room : Presence(k, s) /\ k.private /\ (k.owner = Me <=> s.owner = Me)}
  <2> DEFINE B == {k \in A : k.members = s.members}
  <2>1. A \in SUBSET Known /\ B \in SUBSET Known
    BY DEF Known
  <2>2. ASSUME NEW known \in Seen(s)
        PROVE  After(r, known, m) \in A
    BY <1>1, <1>10, <2>2, ListSays DEF Seen, Known
  <2>3. ASSUME NEW known \in A, NEW i \in 1..n, members[i].room = r
        PROVE  After(r, known, members[i]) \in B
    <3>1. After(r, known, members[i]) = [known EXCEPT !.members = s.members]
      BY <1>2, <1>6, <2>3 DEF After, RoomAfter, Members, Secret, Get
    <3>2. s.members \subseteq Users
      BY <1>2 DEF ServerRoom
    <3> DEFINE then == [known EXCEPT !.members = s.members]
    <3>3. then \in Room /\ then.members = s.members /\ then.private /\ then.owner = known.owner
          /\ then.joined = known.joined /\ then.users = known.users /\ then.tickers = known.tickers
      BY <3>2 DEF Room
    <3> HIDE DEF then
    <3>4. Presence(then, s)
      BY <1>2, <3>3 DEF Presence
    <3> QED BY <3>1, <3>3, <3>4 DEF then
  <2>4. ASSUME NEW known \in B, NEW i \in 1..n, operators[i].room = r
        PROVE  After(r, known, operators[i]) \in Same(s) \cap B
    <3>1. After(r, known, operators[i]) = [known EXCEPT !.operators = s.operators]
      BY <1>2, <1>6, <2>4 DEF After, RoomAfter, Operators, Secret, Get
    <3>2. s.operators \subseteq Users
      BY <1>2 DEF ServerRoom
    <3> DEFINE then == [known EXCEPT !.operators = s.operators]
    <3>3. then \in Room /\ then.operators = s.operators /\ then.private /\ then.owner = known.owner
          /\ then.joined = known.joined /\ then.users = known.users /\ then.tickers = known.tickers
          /\ then.members = s.members
      BY <3>2 DEF Room
    <3> HIDE DEF then
    <3>4. Presence(then, s)
      BY <1>2, <3>3 DEF Presence
    <3>5. Rights(then, s)
      BY <1>2, <3>3 DEF Rights
    <3> QED BY <3>1, <3>3, <3>4, <3>5 DEF then, Same, Known
  <2> HIDE DEF s, A
  <2>5. Brings(r, RoomList(t), Seen(s), A)
    BY <1>1, <1>2, <2>1, <2>2, BringsOne
  <2>6. \E i \in 1..n : mine[i] = r
    BY <1>4, <1>8, <1>10
  <2>7. Brings(r, members, A, B)
    <3>1. \A i \in 1..n : members[i].kind # "RoomList"
      BY <1>6
    <3>2. \E i \in 1..n : members[i].room = r
      BY <1>6, <2>6
    <3>3. B \subseteq A
      OBVIOUS
    <3> HIDE DEF B
    <3> QED BY <1>5, <2>1, <2>3, <3>1, <3>2, <3>3, BringsOnce
  <2>8. Brings(r, operators, B, Same(s) \cap B)
    <3>1. \A i \in 1..n : operators[i].kind # "RoomList"
      BY <1>6
    <3>2. \E i \in 1..n : operators[i].room = r
      BY <1>6, <2>6
    <3> DEFINE C == Same(s) \cap B
    <3>3. C \in SUBSET Known /\ C \subseteq B
      BY <2>1
    <3>4. \A known \in B, i \in 1..n : operators[i].room = r => After(r, known, operators[i]) \in C
      BY <2>4
    <3> HIDE DEF B, C
    <3>5. Brings(r, operators, B, C)
      BY <1>5, <2>1, <3>1, <3>2, <3>3, <3>4, BringsOnce
    <3> QED BY <3>5 DEF C
  <2> HIDE DEF B
  <2>9. Brings(r, RoomList(t) \o members, Seen(s), B)
    BY <2>5, <2>7, BringsOn
  <2>10. Brings(r, ListUpdate(t), Seen(s), Same(s) \cap B)
    BY <1>7, <2>8, <2>9, BringsOn
  <2>11. Brings(r, ListUpdate(t), Seen(s), Same(s))
    BY <2>10, BringsLess
  <2> QED BY <1>3, <2>11 DEF s
<1> QED BY <1>9, <1>10

---------------------------------------------------------------------------
(* What a message about a user does to a room.                                *)
GrantKinds  == {"PrivateRoomGrantMembership", "PrivateRoomMembershipGranted"}
RevokeKinds == {"PrivateRoomRevokeMembership", "PrivateRoomMembershipRevoked"}
OperatorKinds == {"PrivateRoomGrantOperator", "PrivateRoomRevokeOperator",
                  "PrivateRoomOperatorGranted", "PrivateRoomOperatorRevoked"}
RightsKinds == GrantKinds \cup RevokeKinds \cup OperatorKinds

CanBeTold(kind, u) == (kind \in AboutUser /\ u \in Users) \/ (kind \in AboutMe /\ u = Me)

(* What the handlers of membership and operator messages do to a room.      *)
LEMMA RightsEffect ==
  ASSUME NEW known \in Known, NEW m, m.kind \in RightsKinds, m.user \in Users
  PROVE  LET room == Get(known, TRUE)
             then == RoomAfter(known, m)
         IN  /\ room \in Room /\ then \in Room
             /\ then.joined = room.joined /\ then.users = room.users
             /\ then.tickers = room.tickers
             /\ then.owner = room.owner /\ then.private = room.private
             /\ m.kind \in GrantKinds => /\ then.members = room.members \cup {m.user}
                                         /\ then.operators = room.operators
             /\ m.kind \in RevokeKinds => /\ then.members = room.members \ {m.user}
                                          /\ then.operators = room.operators \ {m.user}
             /\ m.kind \in OperatorKinds => then.members = room.members
             /\ m.kind = "PrivateRoomGrantOperator" =>
                  then.operators = room.operators \cup {m.user}
             /\ m.kind = "PrivateRoomRevokeOperator" =>
                  then.operators = room.operators \ {m.user}
<1> DEFINE room == Get(known, TRUE)
<1> DEFINE then == RoomAfter(known, m)
<1>1. room \in Room /\ Secret(known) = room /\ Me \in Users
  BY GetTyped DEF Secret, Users
<1> HIDE DEF room
<1>2. CASE m.kind \in GrantKinds
  <2>1. then = [room EXCEPT !.members = room.members \cup {m.user}]
    BY <1>1, <1>2 DEF RoomAfter, MembershipGranted, GrantKinds
  <2> HIDE DEF then
  <2>2. room.members \cup {m.user} \in SUBSET Users
    BY <1>1 DEF Room
  <2> QED BY <1>1, <1>2, <2>1, <2>2 DEF Room, room, then, GrantKinds, RevokeKinds, OperatorKinds
<1>3. CASE m.kind \in RevokeKinds
  <2>1. then = [room EXCEPT !.members = room.members \ {m.user},
                            !.operators = room.operators \ {m.user}]
    BY <1>1, <1>3 DEF RoomAfter, MembershipRevoked, RevokeKinds
  <2> HIDE DEF then
  <2>2. room.members \ {m.user} \in SUBSET Users /\ room.operators \ {m.user} \in SUBSET Users
    BY <1>1 DEF Room
  <2> QED BY <1>1, <1>3, <2>1, <2>2 DEF Room, room, then, GrantKinds, RevokeKinds, OperatorKinds
<1>4. CASE m.kind \in OperatorKinds
  <2> DEFINE operators == CASE m.kind = "PrivateRoomGrantOperator" -> room.operators \cup {m.user}
                            [] m.kind = "PrivateRoomRevokeOperator" -> room.operators \ {m.user}
                            [] OTHER -> room.operators \ {Me}
  <2>1. then = [room EXCEPT !.operators = operators]
    BY <1>1, <1>4 DEF RoomAfter, UserOperatorGranted, UserOperatorRevoked, OperatorGranted,
       OperatorRevoked, OperatorKinds
  <2>2. /\ operators \in SUBSET Users
        /\ m.kind = "PrivateRoomGrantOperator" => operators = room.operators \cup {m.user}
        /\ m.kind = "PrivateRoomRevokeOperator" => operators = room.operators \ {m.user}
    BY <1>1, <1>4 DEF Room, OperatorKinds
  <2> HIDE DEF then, operators
  <2> QED BY <1>1, <1>4, <2>1, <2>2 DEF Room, room, then, GrantKinds, RevokeKinds, OperatorKinds
<1> QED BY <1>2, <1>3, <1>4 DEF RightsKinds

(* What the handlers of the messages about who is there do to a room.       *)
LEMMA PresenceEffect ==
  ASSUME NEW known \in Known, NEW m, m.user \in Users,
         m.kind \in {"UserJoinedRoom", "UserLeftRoom", "LeaveRoom", "RoomTickerAdded",
                     "RoomTickerRemoved"}
  PROVE  LET room == Get(known, FALSE)
             then == RoomAfter(known, m)
         IN  /\ room \in Room /\ then \in Room
             /\ then.owner = room.owner /\ then.private = room.private
             /\ then.members = room.members /\ then.operators = room.operators
             /\ m.kind = "UserJoinedRoom" =>
                  then.joined = room.joined /\ then.users = room.users \cup {m.user}
                  /\ then.tickers = room.tickers
             /\ m.kind = "UserLeftRoom" =>
                  then.joined = room.joined /\ then.users = room.users \ {m.user}
                  /\ then.tickers = room.tickers
             /\ m.kind = "LeaveRoom" => ~then.joined /\ then.users = {}
             /\ m.kind = "RoomTickerAdded" =>
                  then.joined = room.joined /\ then.users = room.users
                  /\ then.tickers = room.tickers \cup {m.user}
             /\ m.kind = "RoomTickerRemoved" =>
                  then.joined = room.joined /\ then.users = room.users
                  /\ then.tickers = room.tickers \ {m.user}
<1> DEFINE room == Get(known, FALSE)
<1> DEFINE then == RoomAfter(known, m)
<1>1. room \in Room /\ Public(known) = room
  BY GetTyped DEF Public
<1> HIDE DEF room
<1>2. CASE m.kind \in {"UserJoinedRoom", "UserLeftRoom"}
  <2> DEFINE users == IF m.kind = "UserJoinedRoom" THEN room.users \cup {m.user}
                      ELSE room.users \ {m.user}
  <2>1. then = [room EXCEPT !.users = users]
    BY <1>1, <1>2 DEF RoomAfter, UserJoined, UserLeft
  <2>2. users \in SUBSET Users
    BY <1>1 DEF Room
  <2> HIDE DEF then
  <2> QED BY <1>1, <1>2, <2>1, <2>2 DEF Room, room, then
<1>3. CASE m.kind = "LeaveRoom"
  <2>1. then = [room EXCEPT !.joined = FALSE, !.users = {}]
    BY <1>1, <1>3 DEF RoomAfter, RoomLeft
  <2> HIDE DEF then
  <2> QED BY <1>1, <1>3, <2>1 DEF Room, room, then
<1>4. CASE m.kind \in {"RoomTickerAdded", "RoomTickerRemoved"}
  <2> DEFINE tickers == IF m.kind = "RoomTickerAdded" THEN room.tickers \cup {m.user}
                        ELSE room.tickers \ {m.user}
  <2>1. then = [room EXCEPT !.tickers = tickers]
    BY <1>1, <1>4 DEF RoomAfter, TickerAdded, TickerRemoved
  <2>2. tickers \in SUBSET Users
    BY <1>1 DEF Room
  <2> HIDE DEF then
  <2> QED BY <1>1, <1>4, <2>1, <2>2 DEF Room, room, then
<1> QED BY <1>2, <1>3, <1>4

(* A message about one room, for that room and for the others.                 *)
LEMMA ToldSays ==
  ASSUME NEW r \in RoomNames, NEW q \in RoomNames, NEW kind, NEW u, CanBeTold(kind, u),
         NEW from \in SUBSET Known, NEW to \in SUBSET Known,
         q # r => from \subseteq to,
         q = r => \A known \in from :
                    RoomAfter(known, [kind |-> kind, room |-> r, user |-> u]) \in to
  PROVE  Brings(q, Told(kind, r, u), from, to)
<1> DEFINE m == [kind |-> kind, room |-> r, user |-> u]
<1>1. m \in Message
  BY DEF Message, CanBeTold
<1>2. m.kind # "RoomList" /\ m.room = r /\ Told(kind, r, u) = <<m>>
  BY DEF CanBeTold, AboutUser, AboutMe, Told
<1>3. ASSUME NEW known \in from
      PROVE  After(q, known, m) \in to
  <2> HIDE DEF m
  <2>1. CASE q = r
    BY <1>2, <2>1 DEF After, m
  <2>2. CASE q # r
    BY <1>2, <2>2 DEF After
  <2> QED BY <2>1, <2>2
<1> HIDE DEF m
<1> QED BY <1>1, <1>2, <1>3, BringsOne

(* The rooms that agree with the server are rooms.                          *)
LEMMA SetsTyped ==
  \A real : Same(real) \in SUBSET Known /\ Seen(real) \in SUBSET Known /\ Same(real) \subseteq Seen(real)
  BY DEF Same, Seen

(* Whatever is told about rights, the client knows who is in the room.         *)
LEMMA RightsKeepPresence ==
  ASSUME NEW r \in RoomNames, NEW q \in RoomNames, NEW kind \in RightsKinds, NEW u,
         CanBeTold(kind, u), NEW real
  PROVE  Brings(q, Told(kind, r, u), Seen(real), Seen(real))
<1> DEFINE m == [kind |-> kind, room |-> r, user |-> u]
<1>1. ASSUME NEW known \in Seen(real)
      PROVE  RoomAfter(known, m) \in Seen(real)
  <2> DEFINE room == Get(known, TRUE)
  <2> DEFINE then == RoomAfter(known, m)
  <2>1. m.kind \in RightsKinds /\ m.user \in Users /\ known \in Known /\ Presence(known, real)
    BY <1>1 DEF CanBeTold, Users, Seen
  <2>2. /\ room \in Room /\ then \in Room /\ then.joined = room.joined
        /\ then.users = room.users /\ then.tickers = room.tickers
    BY <2>1, RightsEffect
  <2>3. known = None => ~room.joined /\ room.users = {}
    BY DEF Get, NewRoom
  <2>4. known # None => room = known
    BY DEF Get
  <2> HIDE DEF room, then, m
  <2>5. then # None
    BY <2>2, NoneAssumption
  <2>6. Presence(then, real)
    BY <2>1, <2>2, <2>3, <2>4, <2>5 DEF Presence
  <2> QED BY <2>2, <2>6 DEF Seen, Known, then
<1> QED BY <1>1, SetsTyped, ToldSays

---------------------------------------------------------------------------
(* The messages of an operation.                                             *)

(* Who leaves a room is no longer in it.                                       *)
LEMMA LeaveSays ==
  ASSUME NEW t, NEW r \in RoomNames, NEW u \in Users, NEW s \in ServerRoom,
         NEW s2 \in ServerRoom, s2.joined = s.joined \ {u}, s2.tickers = s.tickers,
         u # Me => (Me \in t[r].joined <=> Me \in s.joined)
  PROVE  /\ Brings(r, LeaveMessages(t, r, u), Seen(s), Seen(s2))
         /\ /\ u \in s.joined
            /\ s2.owner = s.owner /\ s2.members = s.members /\ s2.operators = s.operators
            => Brings(r, LeaveMessages(t, r, u), Same(s), Same(s2))
<1> DEFINE Kept == /\ u \in s.joined /\ s2.owner = s.owner
                   /\ s2.members = s.members /\ s2.operators = s.operators
<1>1. CASE u = Me
  <2> DEFINE m == [kind |-> "LeaveRoom", room |-> r, user |-> Me]
  <2>1. ASSUME NEW known \in Seen(s)
        PROVE  /\ RoomAfter(known, m) \in Seen(s2)
               /\ Kept /\ known \in Same(s) => RoomAfter(known, m) \in Same(s2)
    <3> DEFINE then == RoomAfter(known, m)
    <3> DEFINE room == Get(known, FALSE)
    <3>1. m.kind = "LeaveRoom" /\ m.user \in Users /\ known \in Known
      BY <2>1 DEF Users, Seen
    <3>2. /\ then \in Room /\ ~then.joined /\ then.users = {}
          /\ then.owner = room.owner /\ then.private = room.private
          /\ then.members = room.members /\ then.operators = room.operators
      BY <3>1, PresenceEffect
    <3>3. known # None => room = known
      BY DEF Get
    <3>4. Me \in s.joined => known # None
      BY <2>1 DEF Seen, Presence
    <3> HIDE DEF then, m, room
    <3>5. then # None
      BY <3>2, NoneAssumption
    <3>6. Presence(then, s2)
      BY <1>1, <3>2, <3>5 DEF Presence
    <3>7. Kept /\ known \in Same(s) => Rights(then, s2)
      BY <1>1, <3>2, <3>3, <3>4, <3>5 DEF Same, Rights, Entitled
    <3> QED BY <3>2, <3>6, <3>7 DEF Seen, Same, Known, then
  <2>2. CanBeTold("LeaveRoom", Me) /\ LeaveMessages(t, r, u) = Told("LeaveRoom", r, Me)
    BY <1>1 DEF CanBeTold, AboutMe, LeaveMessages
  <2>3. Brings(r, LeaveMessages(t, r, u), Seen(s), Seen(s2))
    BY <2>1, <2>2, SetsTyped, ToldSays
  <2>4. Kept => Brings(r, LeaveMessages(t, r, u), Same(s), Same(s2))
    BY <2>1, <2>2, SetsTyped, ToldSays
  <2> QED BY <2>3, <2>4
<1>2. CASE u # Me
  <2> DEFINE m == [kind |-> "UserLeftRoom", room |-> r, user |-> u]
  <2>1. CASE Me \in s.joined
    <3>1. ASSUME NEW known \in Seen(s)
          PROVE  /\ RoomAfter(known, m) \in Seen(s2)
                 /\ Kept /\ known \in Same(s) => RoomAfter(known, m) \in Same(s2)
      <4> DEFINE then == RoomAfter(known, m)
      <4>1. m.kind = "UserLeftRoom" /\ m.user = u /\ m.user \in Users
            /\ known \in Known /\ known # None
        BY <2>1, <3>1 DEF Seen, Presence
      <4> DEFINE room == Get(known, FALSE)
      <4> HIDE DEF m
      <4>2. /\ then \in Room /\ then.joined = room.joined /\ then.users = room.users \ {m.user}
            /\ then.tickers = room.tickers
            /\ then.owner = room.owner /\ then.private = room.private
            /\ then.members = room.members /\ then.operators = room.operators
        BY <4>1, PresenceEffect
      <4>3. room = known
        BY <4>1 DEF Get
      <4> HIDE DEF room
      <4> HIDE DEF then
      <4>4. then # None
        BY <4>2, NoneAssumption
      <4>5. Presence(known, s)
        BY <3>1 DEF Seen
      <4>6. Presence(then, s2)
        BY <1>2, <2>1, <4>1, <4>2, <4>3, <4>4, <4>5 DEF Presence
      <4>7. Kept /\ known \in Same(s) => Rights(then, s2)
        BY <4>1, <4>2, <4>3, <4>4 DEF Same, Rights, Entitled
      <4> QED BY <4>2, <4>6, <4>7 DEF Seen, Same, Known, then
    <3>2. CanBeTold("UserLeftRoom", u) /\ LeaveMessages(t, r, u) = Told("UserLeftRoom", r, u)
      BY <1>2, <2>1 DEF CanBeTold, AboutUser, LeaveMessages, If
    <3>3. Brings(r, LeaveMessages(t, r, u), Seen(s), Seen(s2))
      BY <3>1, <3>2, SetsTyped, ToldSays
    <3>4. Kept => Brings(r, LeaveMessages(t, r, u), Same(s), Same(s2))
      BY <3>1, <3>2, SetsTyped, ToldSays
    <3> QED BY <3>3, <3>4
  <2>2. CASE Me \notin s.joined
    <3>1. LeaveMessages(t, r, u) = <<>>
      BY <1>2, <2>2 DEF LeaveMessages, If
    <3>2. Seen(s) \subseteq Seen(s2) /\ (Kept => Same(s) \subseteq Same(s2))
      BY <2>2 DEF Seen, Same, Presence, Rights, Entitled
    <3> QED BY <3>1, <3>2, SetsTyped, BringsNothing
  <2> QED BY <2>1, <2>2
<1> QED BY <1>1, <1>2

(* The other rooms are left alone.                                          *)
LEMMA LeaveAway ==
  ASSUME NEW t, NEW r \in RoomNames, NEW u \in Users, NEW q \in RoomNames \ {r},
         NEW from \in SUBSET Known
  PROVE  Brings(q, LeaveMessages(t, r, u), from, from)
<1>1. CanBeTold("LeaveRoom", Me) /\ CanBeTold("UserLeftRoom", u)
  BY DEF CanBeTold, AboutMe, AboutUser
<1>2. Brings(q, Told("LeaveRoom", r, Me), from, from)
  BY <1>1, ToldSays
<1>3. Brings(q, Told("UserLeftRoom", r, u), from, from)
  BY <1>1, ToldSays
<1>4. Brings(q, If(Me \in t[r].joined, Told("UserLeftRoom", r, u)), from, from)
  BY <1>3, BringsIf
<1> QED BY <1>2, <1>4 DEF LeaveMessages

(* Who is no operator any more.                                              *)
LEMMA RevokeOperatorSays ==
  ASSUME NEW t \in [RoomNames -> ServerRoom], \A q \in RoomNames : SoundRoom(t[q]),
         NEW r \in RoomNames, NEW u \in Users, NEW s \in ServerRoom,
         t[r].owner = s.owner, t[r].members = s.members, t[r].joined = s.joined,
         t[r].tickers = s.tickers, t[r].operators = s.operators \ {u}
  PROVE  Brings(r, RevokeOperatorMessages(t, r, u), Same(s), Same(t[r]))
<1> DEFINE told == Told("PrivateRoomRevokeOperator", r, u)
<1> DEFINE m == [kind |-> "PrivateRoomRevokeOperator", room |-> r, user |-> u]
<1> DEFINE more == Told("PrivateRoomOperatorRevoked", r, Me) \o ListUpdate(t)
<1>1. RevokeOperatorMessages(t, r, u) =
        (If(Me \in AllMembers(t, r), told) \o If(Me \in t[r].joined, told)) \o If(u = Me, more)
  BY DEF RevokeOperatorMessages
<1>2. /\ CanBeTold("PrivateRoomRevokeOperator", u) /\ CanBeTold("PrivateRoomOperatorRevoked", Me)
      /\ "PrivateRoomRevokeOperator" \in RightsKinds /\ "PrivateRoomOperatorRevoked" \in RightsKinds
  BY DEF CanBeTold, AboutUser, AboutMe, RightsKinds, OperatorKinds
<1>3. AllMembers(t, r) = Entitled(s) /\ Entitled(t[r]) = Entitled(s)
  BY DEF AllMembers, Entitled
<1>4. CASE u = Me
  <2>1. Seen(s) = Seen(t[r])
    BY DEF Seen, Presence
  <2>2. Brings(r, told, Seen(s), Seen(s))
    BY <1>2, RightsKeepPresence
  <2>3. Brings(r, Told("PrivateRoomOperatorRevoked", r, Me), Seen(s), Seen(s))
    BY <1>2, RightsKeepPresence
  <2>4. Brings(r, ListUpdate(t), Seen(s), Same(t[r]))
    BY <2>1, ListUpdateSays
  <2>5. Brings(r, more, Seen(s), Same(t[r]))
    BY <2>3, <2>4, BringsOn
  <2> HIDE DEF told, more
  <2>6. /\ Brings(r, If(Me \in AllMembers(t, r), told), Seen(s), Seen(s))
        /\ Brings(r, If(Me \in t[r].joined, told), Seen(s), Seen(s))
        /\ If(u = Me, more) = more
    BY <1>4, <2>2, SetsTyped, BringsIf DEF If
  <2>7. Brings(r, If(Me \in AllMembers(t, r), told) \o If(Me \in t[r].joined, told),
               Seen(s), Seen(s))
    BY <2>6, BringsOn
  <2>8. Brings(r, RevokeOperatorMessages(t, r, u), Seen(s), Same(t[r]))
    BY <1>1, <2>5, <2>6, <2>7, BringsOn
  <2> QED BY <2>8, SetsTyped, BringsLess
<1>5. CASE u # Me
  <2>1. ASSUME NEW x \in {s, t[r]}, NEW known \in Same(x), known # None
        PROVE  RoomAfter(known, m) \in Same(t[r])
    <3> DEFINE then == RoomAfter(known, m)
    <3>1. m.kind = "PrivateRoomRevokeOperator" /\ m.user = u /\ m.user \in Users /\ known \in Known
          /\ m.kind \in RightsKinds /\ m.kind \in OperatorKinds
      BY <1>2 DEF Same, OperatorKinds
    <3> DEFINE room == Get(known, TRUE)
    <3> HIDE DEF m
    <3>2. /\ then \in Room /\ then.joined = room.joined /\ then.users = room.users
          /\ then.tickers = room.tickers
          /\ then.owner = room.owner /\ then.private = room.private
          /\ then.members = room.members /\ then.operators = room.operators \ {m.user}
      BY <3>1, RightsEffect
    <3>3. room = known
      BY <2>1 DEF Get
    <3> HIDE DEF room
    <3> HIDE DEF then
    <3>4. then # None
      BY <3>2, NoneAssumption
    <3>5. Presence(known, x) /\ Rights(known, x)
      BY DEF Same
    <3>6. Presence(then, t[r])
      BY <2>1, <3>2, <3>3, <3>4, <3>5 DEF Presence
    <3>7. /\ x.owner = s.owner /\ x.members = s.members /\ Entitled(x) = Entitled(s)
          /\ x.operators \ {u} = t[r].operators
      BY <1>3
    <3>8. Rights(then, t[r])
      BY <1>3, <1>5, <2>1, <3>1, <3>2, <3>3, <3>4, <3>5, <3>7 DEF Rights
    <3> QED BY <3>2, <3>6, <3>8 DEF Same, Known, then
  <2>2. Brings(r, If(Me \in AllMembers(t, r), told), Same(s), Same(t[r]))
    <3>1. CASE Me \in Entitled(s)
      <4>1. None \notin Same(s)
        BY <3>1 DEF Same, Rights
      <4>2. Brings(r, told, Same(s), Same(t[r]))
        BY <1>2, <2>1, <4>1, SetsTyped, ToldSays
      <4> QED BY <1>3, <3>1, <4>2 DEF If
    <3>2. CASE Me \notin Entitled(s)
      <4>1. Same(s) \subseteq Same(t[r])
        BY <1>3, <1>5, <3>2 DEF Same, Presence, Rights
      <4> QED BY <1>3, <3>2, <4>1, SetsTyped, BringsIf
    <3> QED BY <3>1, <3>2
  <2>3. Brings(r, If(Me \in t[r].joined, told), Same(t[r]), Same(t[r]))
    <3>1. CASE Me \in t[r].joined
      <4>1. None \notin Same(t[r])
        BY <3>1 DEF Same, Presence
      <4>2. Brings(r, told, Same(t[r]), Same(t[r]))
        BY <1>2, <2>1, <4>1, SetsTyped, ToldSays
      <4> QED BY <3>1, <4>2 DEF If
    <3>2. CASE Me \notin t[r].joined
      BY <3>2, SetsTyped, BringsIf
    <3> QED BY <3>1, <3>2
  <2> HIDE DEF told, more
  <2>4. Brings(r, If(u = Me, more), Same(t[r]), Same(t[r]))
    BY <1>5, SetsTyped, BringsIf
  <2>5. Brings(r, If(Me \in AllMembers(t, r), told) \o If(Me \in t[r].joined, told),
               Same(s), Same(t[r]))
    BY <2>2, <2>3, BringsOn
  <2> QED BY <1>1, <2>4, <2>5, BringsOn
<1> QED BY <1>4, <1>5

(* The other rooms stay what they are, whatever list follows.               *)
LEMMA RevokeOperatorAway ==
  ASSUME NEW t \in [RoomNames -> ServerRoom], \A q \in RoomNames : SoundRoom(t[q]),
         NEW r \in RoomNames, NEW u \in Users, NEW q \in RoomNames \ {r}
  PROVE  Brings(q, RevokeOperatorMessages(t, r, u), Same(t[q]), Same(t[q]))
<1> DEFINE told == Told("PrivateRoomRevokeOperator", r, u)
<1> DEFINE more == Told("PrivateRoomOperatorRevoked", r, Me) \o ListUpdate(t)
<1> DEFINE A == Same(t[q])
<1>1. RevokeOperatorMessages(t, r, u) =
        (If(Me \in AllMembers(t, r), told) \o If(Me \in t[r].joined, told)) \o If(u = Me, more)
  BY DEF RevokeOperatorMessages
<1>2. CanBeTold("PrivateRoomRevokeOperator", u) /\ CanBeTold("PrivateRoomOperatorRevoked", Me)
  BY DEF CanBeTold, AboutUser, AboutMe
<1>3. A \in SUBSET Known
  BY SetsTyped
<1>4. Brings(q, ListUpdate(t), A, A)
  BY ListUpdateSays, SetsTyped, BringsLess
<1> HIDE DEF A
<1>5. Brings(q, told, A, A) /\ Brings(q, Told("PrivateRoomOperatorRevoked", r, Me), A, A)
  BY <1>2, <1>3, ToldSays
<1>6. Brings(q, more, A, A)
  BY <1>4, <1>5, BringsOn
<1> HIDE DEF told, more
<1>7. /\ Brings(q, If(Me \in AllMembers(t, r), told), A, A)
      /\ Brings(q, If(Me \in t[r].joined, told), A, A) /\ Brings(q, If(u = Me, more), A, A)
  BY <1>3, <1>5, <1>6, BringsIf
<1>8. Brings(q, If(Me \in AllMembers(t, r), told) \o If(Me \in t[r].joined, told), A, A)
  BY <1>7, BringsOn
<1> QED BY <1>1, <1>7, <1>8, BringsOn DEF A

(* We are no member any more; s is the room before we leave it.                *)
LEMMA RevokeMineSays ==
  ASSUME NEW t \in [RoomNames -> ServerRoom], \A q \in RoomNames : SoundRoom(t[q]),
         NEW r \in RoomNames, NEW s \in ServerRoom,
         t[r].joined = s.joined \ {Me}, t[r].tickers = s.tickers,
         Me \in truth[r].joined <=> Me \in s.joined
  PROVE  Brings(r, RevokeMessages(t, r, Me), Seen(s), Same(t[r]))
<1> DEFINE told == Told("PrivateRoomMembershipRevoked", r, Me)
<1> DEFINE leave == If(Me \in truth[r].joined, LeaveMessages(t, r, Me))
<1>1. RevokeMessages(t, r, Me) = (told \o leave) \o ListUpdate(t)
  BY DEF RevokeMessages
<1>2. Brings(r, told, Seen(s), Seen(s))
  BY RightsKeepPresence DEF CanBeTold, AboutMe, RightsKinds, RevokeKinds
<1>3. Brings(r, leave, Seen(s), Seen(t[r]))
  <2>1. Me \in Users /\ t[r] \in ServerRoom
    BY DEF Users
  <2>2. Brings(r, LeaveMessages(t, r, Me), Seen(s), Seen(t[r]))
    BY <2>1, LeaveSays
  <2>3. Me \notin truth[r].joined => Seen(s) \subseteq Seen(t[r])
    BY DEF Seen, Presence
  <2> QED BY <2>2, <2>3, SetsTyped, BringsIf
<1>4. Brings(r, ListUpdate(t), Seen(t[r]), Same(t[r]))
  BY ListUpdateSays
<1> HIDE DEF told, leave
<1>5. Brings(r, told \o leave, Seen(s), Seen(t[r]))
  BY <1>2, <1>3, BringsOn
<1> QED BY <1>1, <1>4, <1>5, BringsOn

(* The other rooms stay what they are, whatever list follows.               *)
LEMMA RevokeAway ==
  ASSUME NEW t \in [RoomNames -> ServerRoom], \A q \in RoomNames : SoundRoom(t[q]),
         NEW r \in RoomNames, NEW u \in Users, NEW q \in RoomNames \ {r}
  PROVE  Brings(q, RevokeMessages(t, r, u), Same(t[q]), Same(t[q]))
<1> DEFINE A == Same(t[q])
<1> DEFINE leave == If(u \in truth[r].joined, LeaveMessages(t, r, u))
<1> DEFINE mine == Told("PrivateRoomMembershipRevoked", r, Me)
<1> DEFINE told == Told("PrivateRoomRevokeMembership", r, u)
<1>1. A \in SUBSET Known
  BY SetsTyped
<1>2. Brings(q, ListUpdate(t), A, A)
  BY ListUpdateSays, SetsTyped, BringsLess
<1>3. RevokeMessages(t, r, u) = IF u = Me THEN (mine \o leave) \o ListUpdate(t)
                                ELSE If(Me \in AllMembers(t, r), told) \o leave
  BY DEF RevokeMessages
<1> HIDE DEF A
<1>4. Brings(q, mine, A, A) /\ Brings(q, told, A, A)
  BY <1>1, ToldSays DEF CanBeTold, AboutMe, AboutUser
<1>5. Brings(q, leave, A, A)
  BY <1>1, LeaveAway, BringsIf
<1> HIDE DEF leave, mine, told
<1>6. Brings(q, If(Me \in AllMembers(t, r), told), A, A)
  BY <1>1, <1>4, BringsIf
<1>7. Brings(q, mine \o leave, A, A) /\ Brings(q, If(Me \in AllMembers(t, r), told) \o leave, A, A)
  BY <1>4, <1>5, <1>6, BringsOn
<1>8. Brings(q, (mine \o leave) \o ListUpdate(t), A, A)
  BY <1>2, <1>7, BringsOn
<1> QED BY <1>3, <1>7, <1>8 DEF A

---------------------------------------------------------------------------
(* The operations of the server: what it says brings what the client knows of   *)
(* every room after its change of the room.                                   *)
ProperRoom(real) == SoundRoom(real) /\ real.operators \subseteq real.members

AllProper == \A r \in RoomNames : ProperRoom(truth[r])

Tells ==
  \E t \in [RoomNames -> ServerRoom] : \E messages :
    /\ Server(t, messages)
    /\ \A q \in RoomNames : ProperRoom(t[q]) /\ Brings(q, messages, Same(truth[q]), Same(t[q]))

(* A user leaves a room.                                                    *)
LEMMA LeavesTells ==
  ASSUME ServerTyped, AllProper, NEW r \in RoomNames, NEW u \in Users,
         u \in truth[r].joined, Leaves(r, u)
  PROVE  Tells
<1> DEFINE s == truth[r]
<1> DEFINE t == [truth EXCEPT ![r].joined = @ \ {u}]
<1>1. /\ t \in [RoomNames -> ServerRoom] /\ s \in ServerRoom /\ t[r] \in ServerRoom
      /\ \A q \in RoomNames \ {r} : t[q] = truth[q]
      /\ t[r].joined = s.joined \ {u} /\ t[r].tickers = s.tickers /\ t[r].owner = s.owner
      /\ t[r].members = s.members /\ t[r].operators = s.operators
  BY DEF ServerTyped, ServerRoom
<1>2. Server(t, LeaveMessages(t, r, u))
  BY DEF Leaves
<1> HIDE DEF t
<1>3. \A q \in RoomNames : SoundRoom(t[q]) /\ ProperRoom(t[q])
  <2>1. SoundRoom(t[r]) /\ ProperRoom(t[r])
    BY <1>1 DEF AllProper, ProperRoom, SoundRoom, Entitled
  <2> QED BY <1>1, <2>1 DEF AllProper, ProperRoom
<1>4. Brings(r, LeaveMessages(t, r, u), Same(s), Same(t[r]))
  BY <1>1, LeaveSays
<1>5. ASSUME NEW q \in RoomNames \ {r}
      PROVE  Brings(q, LeaveMessages(t, r, u), Same(truth[q]), Same(t[q]))
  BY <1>1, SetsTyped, LeaveAway
<1>6. \A q \in RoomNames : Brings(q, LeaveMessages(t, r, u), Same(truth[q]), Same(t[q]))
  BY <1>4, <1>5
<1> QED BY <1>1, <1>2, <1>3, <1>6 DEF Tells

(* A user sets a ticker: an old one is taken out first.                     *)
LEMMA SetsTickerTells ==
  ASSUME ServerTyped, AllProper, NEW r \in RoomNames, NEW u \in Users, SetsTicker(r, u)
  PROVE  Tells
<1> DEFINE s == truth[r]
<1> DEFINE t == [truth EXCEPT ![r].tickers = @ \cup {u}]
<1> DEFINE removed == If(u \in s.tickers, Told("RoomTickerRemoved", r, u))
<1> DEFINE added == Told("RoomTickerAdded", r, u)
<1>1. /\ t \in [RoomNames -> ServerRoom] /\ s \in ServerRoom /\ t[r] \in ServerRoom
      /\ \A q \in RoomNames \ {r} : t[q] = truth[q]
      /\ t[r].joined = s.joined /\ t[r].tickers = s.tickers \cup {u} /\ t[r].owner = s.owner
      /\ t[r].members = s.members /\ t[r].operators = s.operators
  BY DEF ServerTyped, ServerRoom
<1>2. Server(t, If(Me \in t[r].joined, removed \o added))
  BY DEF SetsTicker
<1> HIDE DEF t
<1>3. \A q \in RoomNames : SoundRoom(t[q]) /\ ProperRoom(t[q])
  <2>1. SoundRoom(t[r]) /\ ProperRoom(t[r])
    BY <1>1 DEF AllProper, ProperRoom, SoundRoom, Entitled
  <2> QED BY <1>1, <2>1 DEF AllProper, ProperRoom
<1>4. CanBeTold("RoomTickerRemoved", u) /\ CanBeTold("RoomTickerAdded", u)
  BY DEF CanBeTold, AboutUser
<1>5. Brings(r, If(Me \in t[r].joined, removed \o added), Same(s), Same(t[r]))
  <2>1. CASE Me \in s.joined
    <3> DEFINE Between == {k \in Known : /\ k # None /\ k.joined /\ k.users = s.joined
                                         /\ k.tickers \cup {u} = t[r].tickers /\ Rights(k, s)}
    <3> DEFINE m == [kind |-> "RoomTickerRemoved", room |-> r, user |-> u]
    <3> DEFINE n == [kind |-> "RoomTickerAdded", room |-> r, user |-> u]
    <3>1. Same(s) \subseteq Between
      BY <1>1, <2>1 DEF Same, Presence
    <3>2. ASSUME NEW known \in Same(s)
          PROVE  RoomAfter(known, m) \in Between
      <4> DEFINE then == RoomAfter(known, m)
      <4> DEFINE room == Get(known, FALSE)
      <4>1. m.kind = "RoomTickerRemoved" /\ m.user = u /\ m.user \in Users /\ known \in Known
        BY DEF Same
      <4>2. known \in Between
        BY <3>1, <3>2
      <4> HIDE DEF m
      <4>3. /\ then \in Room /\ then.joined = room.joined /\ then.users = room.users
            /\ then.tickers = room.tickers \ {m.user}
            /\ then.owner = room.owner /\ then.private = room.private
            /\ then.members = room.members /\ then.operators = room.operators
        BY <4>1, PresenceEffect
      <4>4. room = known
        BY <4>2 DEF Get
      <4> HIDE DEF room, then
      <4>5. then # None
        BY <4>3, NoneAssumption
      <4>6. Rights(then, s)
        BY <4>2, <4>3, <4>4, <4>5 DEF Rights
      <4>7. then.tickers \cup {u} = t[r].tickers
        BY <4>1, <4>2, <4>3, <4>4
      <4> QED BY <4>2, <4>3, <4>4, <4>5, <4>6, <4>7 DEF Known, then
    <3>3. ASSUME NEW known \in Between
          PROVE  RoomAfter(known, n) \in Same(t[r])
      <4> DEFINE then == RoomAfter(known, n)
      <4> DEFINE room == Get(known, FALSE)
      <4>1. n.kind = "RoomTickerAdded" /\ n.user = u /\ n.user \in Users
        OBVIOUS
      <4> HIDE DEF n
      <4>2. /\ then \in Room /\ then.joined = room.joined /\ then.users = room.users
            /\ then.tickers = room.tickers \cup {n.user}
            /\ then.owner = room.owner /\ then.private = room.private
            /\ then.members = room.members /\ then.operators = room.operators
        BY <4>1, PresenceEffect
      <4>3. room = known
        BY DEF Get
      <4> HIDE DEF room, then
      <4>4. then # None
        BY <4>2, NoneAssumption
      <4>5. Rights(then, t[r])
        BY <1>1, <4>2, <4>3, <4>4 DEF Rights, Entitled
      <4>6. Presence(then, t[r])
        BY <1>1, <2>1, <4>1, <4>2, <4>3, <4>4 DEF Presence
      <4> QED BY <4>2, <4>5, <4>6 DEF Same, Known, then
    <3>4. Between \in SUBSET Known
      OBVIOUS
    <3> HIDE DEF Between
    <3>5. Brings(r, Told("RoomTickerRemoved", r, u), Same(s), Between)
      BY <1>4, <3>2, <3>4, SetsTyped, ToldSays
    <3>6. Brings(r, removed, Same(s), Between)
      BY <3>1, <3>4, <3>5, SetsTyped, BringsIf
    <3>7. Brings(r, added, Between, Same(t[r]))
      BY <1>4, <3>3, <3>4, SetsTyped, ToldSays
    <3> HIDE DEF removed, added
    <3>8. Brings(r, removed \o added, Same(s), Same(t[r]))
      BY <3>6, <3>7, BringsOn
    <3> QED BY <1>1, <2>1, <3>8 DEF If
  <2>2. CASE Me \notin s.joined
    <3>1. Same(s) \subseteq Same(t[r])
      BY <1>1, <2>2 DEF Same, Presence, Rights, Entitled
    <3> QED BY <1>1, <2>2, <3>1, SetsTyped, BringsIf
  <2> QED BY <2>1, <2>2
<1>6. ASSUME NEW q \in RoomNames \ {r}
      PROVE  Brings(q, If(Me \in t[r].joined, removed \o added), Same(truth[q]), Same(t[q]))
  <2> DEFINE A == Same(truth[q])
  <2>1. A \in SUBSET Known /\ Same(t[q]) = A
    BY <1>1, SetsTyped
  <2> HIDE DEF A
  <2>2. Brings(q, Told("RoomTickerRemoved", r, u), A, A) /\ Brings(q, added, A, A)
    BY <1>4, <2>1, ToldSays
  <2>3. Brings(q, removed, A, A)
    BY <2>1, <2>2, BringsIf
  <2> HIDE DEF removed, added
  <2>4. Brings(q, removed \o added, A, A)
    BY <2>2, <2>3, BringsOn
  <2>5. Brings(q, If(Me \in t[r].joined, removed \o added), A, A)
    BY <2>1, <2>4, BringsIf
  <2> QED BY <2>1, <2>5 DEF A
<1> HIDE DEF removed, added
<1>7. \A q \in RoomNames :
        Brings(q, If(Me \in t[r].joined, removed \o added), Same(truth[q]), Same(t[q]))
  BY <1>5, <1>6
<1> QED BY <1>1, <1>2, <1>3, <1>7 DEF Tells

(* What a message about another user does to the rights in a room of ours.      *)
LEMMA UserToldSays ==
  ASSUME NEW r \in RoomNames, NEW u \in Users \ {Me}, NEW kind \in RightsKinds,
         kind \in AboutUser, NEW s \in ServerRoom, NEW s2 \in ServerRoom,
         Me \in Entitled(s) \/ Me \in s.joined,
         s2.joined = s.joined, s2.tickers = s.tickers, s2.owner = s.owner,
         s2.members = IF kind \in GrantKinds THEN s.members \cup {u}
                      ELSE IF kind \in RevokeKinds THEN s.members \ {u} ELSE s.members,
         s2.operators = IF kind = "PrivateRoomGrantOperator" THEN s.operators \cup {u}
                        ELSE IF kind \in RevokeKinds \cup {"PrivateRoomRevokeOperator"}
                             THEN s.operators \ {u} ELSE s.operators
  PROVE  Brings(r, Told(kind, r, u), Same(s), Same(s2))
<1> DEFINE m == [kind |-> kind, room |-> r, user |-> u]
<1>1. CanBeTold(kind, u)
  BY DEF CanBeTold
<1>2. ASSUME NEW known \in Same(s)
      PROVE  RoomAfter(known, m) \in Same(s2)
  <2> DEFINE then == RoomAfter(known, m)
  <2> DEFINE room == Get(known, TRUE)
  <2>1. /\ m.kind = kind /\ m.user = u /\ m.kind \in RightsKinds /\ m.user \in Users
        /\ known \in Known /\ Presence(known, s) /\ Rights(known, s)
    BY DEF Same
  <2>2. kind \in {"PrivateRoomGrantMembership", "PrivateRoomRevokeMembership",
                  "PrivateRoomGrantOperator", "PrivateRoomRevokeOperator"}
    BY DEF RightsKinds, GrantKinds, RevokeKinds, OperatorKinds, AboutUser
  <2> HIDE DEF m
  <2>3. /\ then \in Room /\ then.joined = room.joined /\ then.users = room.users
        /\ then.tickers = room.tickers
        /\ then.owner = room.owner /\ then.private = room.private
        /\ m.kind \in GrantKinds => /\ then.members = room.members \cup {m.user}
                                    /\ then.operators = room.operators
        /\ m.kind \in RevokeKinds => /\ then.members = room.members \ {m.user}
                                     /\ then.operators = room.operators \ {m.user}
        /\ m.kind \in OperatorKinds => then.members = room.members
        /\ m.kind = "PrivateRoomGrantOperator" =>
             then.operators = room.operators \cup {m.user}
        /\ m.kind = "PrivateRoomRevokeOperator" =>
             then.operators = room.operators \ {m.user}
    BY <2>1, RightsEffect
  <2>4. known # None
    BY <2>1 DEF Rights, Presence
  <2>5. room = known
    BY <2>4 DEF Get
  <2> HIDE DEF then, room
  <2>6. then # None
    BY <2>3, NoneAssumption
  <2>7. Presence(then, s2)
    BY <2>1, <2>3, <2>4, <2>5, <2>6 DEF Presence
  <2>8. Me \in Entitled(s2) => Me \in Entitled(s)
    BY <2>2 DEF Entitled, GrantKinds, RevokeKinds
  <2>9. /\ then.owner = known.owner /\ then.private = known.private
        /\ then.members = IF kind \in GrantKinds THEN known.members \cup {u}
                          ELSE IF kind \in RevokeKinds THEN known.members \ {u} ELSE known.members
        /\ then.operators = IF kind = "PrivateRoomGrantOperator" THEN known.operators \cup {u}
                            ELSE IF kind \in RevokeKinds \cup {"PrivateRoomRevokeOperator"}
                                 THEN known.operators \ {u} ELSE known.operators
    BY <2>1, <2>2, <2>3, <2>5 DEF GrantKinds, RevokeKinds, OperatorKinds
  <2>10. Rights(then, s2)
    <3>1. Me # u
      OBVIOUS
    <3>2. /\ then.owner = Me <=> s2.owner = Me
          /\ Me \in then.operators <=> Me \in s2.operators
          /\ Me \in then.members <=> Me \in s2.members
      BY <2>1, <2>4, <2>9, <3>1 DEF Rights
    <3>3. Me \in Entitled(s2) => /\ then.private
                                 /\ then.members = s2.members /\ then.operators = s2.operators
      BY <2>1, <2>4, <2>8, <2>9 DEF Rights
    <3> QED BY <2>6, <3>2, <3>3 DEF Rights
  <2> QED BY <2>3, <2>7, <2>10 DEF Same, Known, then
<1> QED BY <1>1, <1>2, SetsTyped, ToldSays

(* A user becomes a member of a private room.                               *)
LEMMA GrantsTells ==
  ASSUME ServerTyped, AllProper, NEW r \in RoomNames, NEW u \in Users,
         truth[r].owner # None, Grants(r, u)
  PROVE  Tells
<1> DEFINE s == truth[r]
<1> DEFINE t == [truth EXCEPT ![r].members = @ \cup {u}]
<1> DEFINE told == Told("PrivateRoomGrantMembership", r, u)
<1> DEFINE granted == Told("PrivateRoomMembershipGranted", r, Me)
<1> DEFINE messages == If(Me \in AllMembers(t, r), told) \o If(u = Me, granted \o ListUpdate(t))
<1>1. /\ t \in [RoomNames -> ServerRoom] /\ s \in ServerRoom /\ t[r] \in ServerRoom
      /\ \A q \in RoomNames \ {r} : t[q] = truth[q]
      /\ t[r].joined = s.joined /\ t[r].tickers = s.tickers /\ t[r].owner = s.owner
      /\ t[r].members = s.members \cup {u} /\ t[r].operators = s.operators
  BY DEF ServerTyped, ServerRoom
<1>2. Server(t, messages)
  BY DEF Grants
<1> HIDE DEF t
<1>3. \A q \in RoomNames : SoundRoom(t[q]) /\ ProperRoom(t[q])
  <2>1. SoundRoom(t[r]) /\ ProperRoom(t[r])
    BY <1>1 DEF AllProper, ProperRoom, SoundRoom, Entitled
  <2> QED BY <1>1, <2>1 DEF AllProper, ProperRoom
<1>4. /\ CanBeTold("PrivateRoomGrantMembership", u) /\ CanBeTold("PrivateRoomMembershipGranted", Me)
      /\ "PrivateRoomGrantMembership" \in RightsKinds \cap AboutUser \cap GrantKinds
      /\ "PrivateRoomMembershipGranted" \in RightsKinds
      /\ "PrivateRoomGrantMembership" \notin RevokeKinds \cup OperatorKinds
  BY DEF CanBeTold, AboutUser, AboutMe, RightsKinds, GrantKinds, RevokeKinds, OperatorKinds
<1>5. Brings(r, messages, Same(s), Same(t[r]))
  <2>1. CASE u = Me
    <3>1. Seen(s) = Seen(t[r])
      BY <1>1 DEF Seen, Presence
    <3>2. Brings(r, told, Seen(s), Seen(s)) /\ Brings(r, granted, Seen(s), Seen(s))
      BY <1>4, RightsKeepPresence
    <3>3. Brings(r, ListUpdate(t), Seen(s), Same(t[r]))
      BY <1>1, <1>3, <3>1, ListUpdateSays
    <3> HIDE DEF told, granted
    <3>4. Brings(r, granted \o ListUpdate(t), Seen(s), Same(t[r]))
      BY <3>2, <3>3, BringsOn
    <3>5. Brings(r, If(u = Me, granted \o ListUpdate(t)), Seen(s), Same(t[r]))
      BY <2>1, <3>4 DEF If
    <3>6. Brings(r, If(Me \in AllMembers(t, r), told), Seen(s), Seen(s))
      BY <3>2, SetsTyped, BringsIf
    <3>7. Brings(r, messages, Seen(s), Same(t[r]))
      BY <3>5, <3>6, BringsOn
    <3> QED BY <3>7, SetsTyped, BringsLess
  <2>2. CASE u # Me
    <3>1. Me \in AllMembers(t, r) <=> Me \in Entitled(s)
      BY <1>1, <2>2 DEF AllMembers, Entitled
    <3>2. ASSUME Me \in Entitled(s)
          PROVE  Brings(r, told, Same(s), Same(t[r]))
      BY <1>1, <1>4, <2>2, <3>2, UserToldSays
    <3>3. ASSUME Me \notin Entitled(s)
          PROVE  Same(s) \subseteq Same(t[r])
      BY <1>1, <2>2, <3>3 DEF Same, Presence, Rights, Entitled
    <3> HIDE DEF told, granted
    <3>4. Brings(r, If(Me \in AllMembers(t, r), told), Same(s), Same(t[r]))
      BY <3>1, <3>2, <3>3, SetsTyped, BringsIf
    <3>5. Brings(r, If(u = Me, granted \o ListUpdate(t)), Same(t[r]), Same(t[r]))
      BY <2>2, SetsTyped, BringsIf
    <3> QED BY <3>4, <3>5, BringsOn
  <2> QED BY <2>1, <2>2
<1>6. ASSUME NEW q \in RoomNames \ {r}
      PROVE  Brings(q, messages, Same(truth[q]), Same(t[q]))
  <2> DEFINE A == Same(t[q])
  <2>1. A \in SUBSET Known /\ Same(truth[q]) = A
    BY <1>1, SetsTyped
  <2>2. Brings(q, ListUpdate(t), A, A)
    BY <1>1, <1>3, ListUpdateSays, SetsTyped, BringsLess
  <2> HIDE DEF A
  <2>3. Brings(q, told, A, A) /\ Brings(q, granted, A, A)
    BY <1>4, <2>1, ToldSays
  <2> HIDE DEF told, granted
  <2>4. Brings(q, granted \o ListUpdate(t), A, A)
    BY <2>2, <2>3, BringsOn
  <2>5. /\ Brings(q, If(Me \in AllMembers(t, r), told), A, A)
        /\ Brings(q, If(u = Me, granted \o ListUpdate(t)), A, A)
    BY <2>1, <2>3, <2>4, BringsIf
  <2>6. Brings(q, messages, A, A)
    BY <2>5, BringsOn
  <2> QED BY <2>1, <2>6 DEF A
<1> HIDE DEF messages
<1>7. \A q \in RoomNames : Brings(q, messages, Same(truth[q]), Same(t[q]))
  BY <1>5, <1>6
<1> QED BY <1>1, <1>2, <1>3, <1>7 DEF Tells

(* A member becomes an operator.                                            *)
LEMMA GrantsOperatorTells ==
  ASSUME ServerTyped, AllProper, NEW r \in RoomNames, NEW u \in Users,
         u \in truth[r].members, GrantsOperator(r, u)
  PROVE  Tells
<1> DEFINE s == truth[r]
<1> DEFINE t == [truth EXCEPT ![r].operators = @ \cup {u}]
<1> DEFINE told == Told("PrivateRoomGrantOperator", r, u)
<1> DEFINE granted == Told("PrivateRoomOperatorGranted", r, Me)
<1> DEFINE messages == (If(Me \in AllMembers(t, r), told) \o If(Me \in t[r].joined, told))
                         \o If(u = Me, granted \o ListUpdate(t))
<1>1. /\ t \in [RoomNames -> ServerRoom] /\ s \in ServerRoom /\ t[r] \in ServerRoom
      /\ \A q \in RoomNames \ {r} : t[q] = truth[q]
      /\ t[r].joined = s.joined /\ t[r].tickers = s.tickers /\ t[r].owner = s.owner
      /\ t[r].members = s.members /\ t[r].operators = s.operators \cup {u}
  BY DEF ServerTyped, ServerRoom
<1>2. Server(t, messages)
  BY DEF GrantsOperator
<1> HIDE DEF t
<1>3. \A q \in RoomNames : SoundRoom(t[q]) /\ ProperRoom(t[q])
  <2>1. SoundRoom(t[r]) /\ ProperRoom(t[r])
    BY <1>1 DEF AllProper, ProperRoom, SoundRoom, Entitled
  <2> QED BY <1>1, <2>1 DEF AllProper, ProperRoom
<1>4. /\ CanBeTold("PrivateRoomGrantOperator", u) /\ CanBeTold("PrivateRoomOperatorGranted", Me)
      /\ "PrivateRoomGrantOperator" \in RightsKinds \cap AboutUser
      /\ "PrivateRoomOperatorGranted" \in RightsKinds
      /\ "PrivateRoomGrantOperator" \notin RevokeKinds \cup GrantKinds
  BY DEF CanBeTold, AboutUser, AboutMe, RightsKinds, GrantKinds, RevokeKinds, OperatorKinds
<1>5. Brings(r, messages, Same(s), Same(t[r]))
  <2>1. CASE u = Me
    <3>1. Seen(s) = Seen(t[r])
      BY <1>1 DEF Seen, Presence
    <3>2. Brings(r, told, Seen(s), Seen(s)) /\ Brings(r, granted, Seen(s), Seen(s))
      BY <1>4, RightsKeepPresence
    <3>3. Brings(r, ListUpdate(t), Seen(s), Same(t[r]))
      BY <1>1, <1>3, <3>1, ListUpdateSays
    <3> HIDE DEF told, granted
    <3>4. Brings(r, granted \o ListUpdate(t), Seen(s), Same(t[r]))
      BY <3>2, <3>3, BringsOn
    <3>5. Brings(r, If(u = Me, granted \o ListUpdate(t)), Seen(s), Same(t[r]))
      BY <2>1, <3>4 DEF If
    <3>6. /\ Brings(r, If(Me \in AllMembers(t, r), told), Seen(s), Seen(s))
          /\ Brings(r, If(Me \in t[r].joined, told), Seen(s), Seen(s))
      BY <3>2, SetsTyped, BringsIf
    <3>7. Brings(r, If(Me \in AllMembers(t, r), told) \o If(Me \in t[r].joined, told),
                 Seen(s), Seen(s))
      BY <3>6, BringsOn
    <3>8. Brings(r, messages, Seen(s), Same(t[r]))
      BY <3>5, <3>7, BringsOn
    <3> QED BY <3>8, SetsTyped, BringsLess
  <2>2. CASE u # Me
    <3>1. /\ Me \in AllMembers(t, r) <=> Me \in Entitled(s)
          /\ Me \in t[r].joined => Me \in s.joined
      BY <1>1, <2>2 DEF AllMembers, Entitled
    <3>2. ASSUME Me \in Entitled(s)
          PROVE  Brings(r, told, Same(s), Same(t[r]))
      BY <1>1, <1>4, <2>2, <3>2, UserToldSays
    <3>3. ASSUME Me \in t[r].joined
          PROVE  Brings(r, told, Same(t[r]), Same(t[r]))
      BY <1>1, <1>4, <2>2, <3>3, UserToldSays
    <3>4. ASSUME Me \notin Entitled(s)
          PROVE  Same(s) \subseteq Same(t[r])
      BY <1>1, <2>2, <3>4 DEF Same, Presence, Rights, Entitled
    <3> HIDE DEF told, granted
    <3>5. Brings(r, If(Me \in AllMembers(t, r), told), Same(s), Same(t[r]))
      BY <3>1, <3>2, <3>4, SetsTyped, BringsIf
    <3>6. Brings(r, If(Me \in t[r].joined, told), Same(t[r]), Same(t[r]))
      BY <3>3, SetsTyped, BringsIf
    <3>7. Brings(r, If(u = Me, granted \o ListUpdate(t)), Same(t[r]), Same(t[r]))
      BY <2>2, SetsTyped, BringsIf
    <3>8. Brings(r, If(Me \in AllMembers(t, r), told) \o If(Me \in t[r].joined, told),
                 Same(s), Same(t[r]))
      BY <3>5, <3>6, BringsOn
    <3> QED BY <3>7, <3>8, BringsOn
  <2> QED BY <2>1, <2>2
<1>6. ASSUME NEW q \in RoomNames \ {r}
      PROVE  Brings(q, messages, Same(truth[q]), Same(t[q]))
  <2> DEFINE A == Same(t[q])
  <2>1. A \in SUBSET Known /\ Same(truth[q]) = A
    BY <1>1, SetsTyped
  <2>2. Brings(q, ListUpdate(t), A, A)
    BY <1>1, <1>3, ListUpdateSays, SetsTyped, BringsLess
  <2> HIDE DEF A
  <2>3. Brings(q, told, A, A) /\ Brings(q, granted, A, A)
    BY <1>4, <2>1, ToldSays
  <2> HIDE DEF told, granted
  <2>4. Brings(q, granted \o ListUpdate(t), A, A)
    BY <2>2, <2>3, BringsOn
  <2>5. /\ Brings(q, If(Me \in AllMembers(t, r), told), A, A)
        /\ Brings(q, If(Me \in t[r].joined, told), A, A)
        /\ Brings(q, If(u = Me, granted \o ListUpdate(t)), A, A)
    BY <2>1, <2>3, <2>4, BringsIf
  <2>6. Brings(q, If(Me \in AllMembers(t, r), told) \o If(Me \in t[r].joined, told), A, A)
    BY <2>5, BringsOn
  <2>7. Brings(q, messages, A, A)
    BY <2>5, <2>6, BringsOn
  <2> QED BY <2>1, <2>7 DEF A
<1> HIDE DEF messages
<1>7. \A q \in RoomNames : Brings(q, messages, Same(truth[q]), Same(t[q]))
  BY <1>5, <1>6
<1> QED BY <1>1, <1>2, <1>3, <1>7 DEF Tells

(* A member is no operator any more.                                        *)
LEMMA RevokesOperatorTells ==
  ASSUME ServerTyped, AllProper, NEW r \in RoomNames, NEW u \in Users, RevokesOperator(r, u)
  PROVE  Tells
<1> DEFINE s == truth[r]
<1> DEFINE t == [truth EXCEPT ![r].operators = @ \ {u}]
<1> DEFINE messages == RevokeOperatorMessages(t, r, u)
<1>1. /\ t \in [RoomNames -> ServerRoom] /\ s \in ServerRoom /\ t[r] \in ServerRoom
      /\ \A q \in RoomNames \ {r} : t[q] = truth[q]
      /\ t[r].joined = s.joined /\ t[r].tickers = s.tickers /\ t[r].owner = s.owner
      /\ t[r].members = s.members /\ t[r].operators = s.operators \ {u}
  BY DEF ServerTyped, ServerRoom
<1>2. Server(t, messages)
  BY DEF RevokesOperator
<1> HIDE DEF t
<1>3. \A q \in RoomNames : SoundRoom(t[q]) /\ ProperRoom(t[q])
  <2>1. SoundRoom(t[r]) /\ ProperRoom(t[r])
    BY <1>1 DEF AllProper, ProperRoom, SoundRoom, Entitled
  <2> QED BY <1>1, <2>1 DEF AllProper, ProperRoom
<1>4. Brings(r, messages, Same(s), Same(t[r]))
  BY <1>1, <1>3, RevokeOperatorSays
<1>5. ASSUME NEW q \in RoomNames \ {r}
      PROVE  Brings(q, messages, Same(truth[q]), Same(t[q]))
  <2>1. Same(truth[q]) = Same(t[q])
    BY <1>1
  <2> QED BY <1>1, <1>3, <2>1, RevokeOperatorAway
<1> HIDE DEF messages
<1>6. \A q \in RoomNames : Brings(q, messages, Same(truth[q]), Same(t[q]))
  BY <1>4, <1>5
<1> QED BY <1>1, <1>2, <1>3, <1>6 DEF Tells

(* A user is no member any more, leaves the room and is no operator.        *)
LEMMA RevokesTells ==
  ASSUME ServerTyped, AllProper, NEW r \in RoomNames, NEW u \in Users,
         u \in truth[r].members, Revokes(r, u)
  PROVE  Tells
<1> DEFINE s == truth[r]
<1> DEFINE x == [s EXCEPT !.members = @ \ {u}, !.operators = @ \ {u}]
<1> DEFINE left == [truth EXCEPT ![r].members = @ \ {u}, ![r].joined = @ \ {u}]
<1> DEFINE t == [left EXCEPT ![r].operators = @ \ {u}]
<1> DEFINE first == RevokeMessages(left, r, u)
<1> DEFINE second == If(u \in s.operators, RevokeOperatorMessages(t, r, u))
<1>1. /\ left \in [RoomNames -> ServerRoom] /\ s \in ServerRoom /\ left[r] \in ServerRoom
      /\ \A q \in RoomNames \ {r} : left[q] = truth[q]
      /\ left[r].joined = s.joined \ {u} /\ left[r].tickers = s.tickers
      /\ left[r].owner = s.owner /\ left[r].members = s.members \ {u}
      /\ left[r].operators = s.operators
  BY DEF ServerTyped, ServerRoom
<1>2. Server(t, first \o second)
  BY DEF Revokes
<1> HIDE DEF left
<1>3. /\ t \in [RoomNames -> ServerRoom] /\ t[r] \in ServerRoom
      /\ \A q \in RoomNames \ {r} : t[q] = truth[q]
      /\ t[r].joined = left[r].joined /\ t[r].tickers = left[r].tickers
      /\ t[r].owner = left[r].owner /\ t[r].members = left[r].members
      /\ t[r].operators = left[r].operators \ {u}
  BY <1>1 DEF ServerRoom
<1>4. /\ x \in ServerRoom /\ x.joined = s.joined /\ x.tickers = s.tickers /\ x.owner = s.owner
      /\ x.members = s.members \ {u} /\ x.operators = s.operators \ {u}
  BY <1>1 DEF ServerRoom
<1> HIDE DEF t, x
<1>5. \A q \in RoomNames : SoundRoom(left[q]) /\ SoundRoom(t[q]) /\ ProperRoom(t[q])
  <2>1. SoundRoom(left[r]) /\ SoundRoom(t[r]) /\ ProperRoom(t[r])
    BY <1>1, <1>3 DEF AllProper, ProperRoom, SoundRoom, Entitled
  <2> QED BY <1>1, <1>3, <2>1 DEF AllProper, ProperRoom
<1>6. Brings(r, first \o second, Same(s), Same(t[r]))
  <2>1. CASE u = Me
    <3>1. Brings(r, first, Seen(s), Same(left[r]))
      BY <1>1, <1>5, <2>1, RevokeMineSays
    <3>2. Brings(r, RevokeOperatorMessages(t, r, u), Same(left[r]), Same(t[r]))
      BY <1>1, <1>3, <1>5, RevokeOperatorSays
    <3>3. u \notin s.operators => Same(left[r]) \subseteq Same(t[r])
      <4>1. u \notin s.operators => left[r].operators = t[r].operators
        BY <1>1, <1>3
      <4> QED BY <1>3, <4>1 DEF Same, Presence, Rights, Entitled
    <3> HIDE DEF first
    <3>4. Brings(r, second, Same(left[r]), Same(t[r]))
      BY <3>2, <3>3, SetsTyped, BringsIf
    <3>5. Brings(r, first, Same(s), Same(left[r]))
      BY <3>1, SetsTyped, BringsLess
    <3> HIDE DEF second
    <3> QED BY <3>4, <3>5, BringsOn
  <2>2. CASE u # Me
    <3> DEFINE told == Told("PrivateRoomRevokeMembership", r, u)
    <3> DEFINE leave == If(u \in s.joined, LeaveMessages(left, r, u))
    <3>1. first = If(Me \in AllMembers(left, r), told) \o leave
      BY <2>2 DEF RevokeMessages
    <3>2. Brings(r, If(Me \in AllMembers(left, r), told), Same(s), Same(x))
      <4>1. Me \in AllMembers(left, r) <=> Me \in Entitled(s)
        BY <1>1, <2>2 DEF AllMembers, Entitled
      <4>2. ASSUME Me \in Entitled(s)
            PROVE  Brings(r, told, Same(s), Same(x))
        <5>1. /\ "PrivateRoomRevokeMembership" \in RightsKinds \cap AboutUser \cap RevokeKinds
              /\ "PrivateRoomRevokeMembership" \notin GrantKinds
          BY DEF AboutUser, RightsKinds, GrantKinds, RevokeKinds
        <5> QED BY <1>1, <1>4, <2>2, <4>2, <5>1, UserToldSays
      <4>3. Me \notin Entitled(s) => Same(s) \subseteq Same(x)
        BY <1>4, <2>2 DEF Same, Presence, Rights, Entitled
      <4> HIDE DEF told
      <4> QED BY <4>1, <4>2, <4>3, SetsTyped, BringsIf
    <3>3. Brings(r, leave, Same(x), Same(t[r]))
      <4>1. u \in s.joined => Brings(r, LeaveMessages(left, r, u), Same(x), Same(t[r]))
        <5>1. /\ t[r].joined = x.joined \ {u} /\ t[r].tickers = x.tickers
              /\ t[r].owner = x.owner /\ t[r].members = x.members /\ t[r].operators = x.operators
              /\ Me \in left[r].joined <=> Me \in x.joined
          BY <1>1, <1>3, <1>4, <2>2
        <5> QED BY <1>3, <1>4, <5>1, LeaveSays
      <4>2. u \notin s.joined => Same(x) \subseteq Same(t[r])
        <5>1. u \notin s.joined => t[r].joined = x.joined
          BY <1>1, <1>3, <1>4
        <5>2. /\ t[r].tickers = x.tickers /\ t[r].owner = x.owner
              /\ t[r].members = x.members /\ t[r].operators = x.operators
          BY <1>1, <1>3, <1>4
        <5> QED BY <5>1, <5>2 DEF Same, Presence, Rights, Entitled
      <4> QED BY <4>1, <4>2, SetsTyped, BringsIf
    <3>4. Brings(r, second, Same(t[r]), Same(t[r]))
      <4>1. t[r].operators = t[r].operators \ {u}
        BY <1>3
      <4>2. Brings(r, RevokeOperatorMessages(t, r, u), Same(t[r]), Same(t[r]))
        BY <1>3, <1>5, <4>1, RevokeOperatorSays
      <4> QED BY <4>2, SetsTyped, BringsIf
    <3> HIDE DEF told, leave, first, second
    <3>5. Brings(r, first, Same(s), Same(t[r]))
      BY <3>1, <3>2, <3>3, BringsOn
    <3> QED BY <3>4, <3>5, BringsOn
  <2> QED BY <2>1, <2>2
<1>7. ASSUME NEW q \in RoomNames \ {r}
      PROVE  Brings(q, first \o second, Same(truth[q]), Same(t[q]))
  <2>1. Same(truth[q]) = Same(t[q]) /\ Same(left[q]) = Same(t[q])
    BY <1>1, <1>3
  <2>2. Brings(q, first, Same(t[q]), Same(t[q]))
    BY <1>1, <1>5, <2>1, RevokeAway
  <2>3. Brings(q, RevokeOperatorMessages(t, r, u), Same(t[q]), Same(t[q]))
    BY <1>3, <1>5, RevokeOperatorAway
  <2>4. Brings(q, second, Same(t[q]), Same(t[q]))
    BY <2>3, SetsTyped, BringsIf
  <2> HIDE DEF first, second
  <2> QED BY <2>1, <2>2, <2>4, BringsOn
<1> HIDE DEF first, second
<1>8. \A q \in RoomNames : Brings(q, first \o second, Same(truth[q]), Same(t[q]))
  BY <1>6, <1>7
<1> QED BY <1>2, <1>3, <1>5, <1>8 DEF Tells

(* The members who leave before us, one after the other.                       *)
LEMMA UsersLeave ==
  ASSUME NEW r \in RoomNames, NEW s \in ServerRoom, NEW s2 \in ServerRoom,
         NEW gone \in SUBSET (Users \ {Me}), IsFiniteSet(gone), Me \in s.joined,
         s2.joined = s.joined \ gone, s2.tickers = s.tickers,
         NEW messages,
         messages = [i \in DOMAIN SetToSeq(gone) |->
                       [kind |-> "UserLeftRoom", room |-> r, user |-> SetToSeq(gone)[i]]]
  PROVE  /\ Brings(r, messages, Seen(s), Seen(s2))
         /\ \A q \in RoomNames \ {r} : \A from \in SUBSET Known : Brings(q, messages, from, from)
<1> DEFINE n == Cardinality(gone)
<1> DEFINE left == SetToSeq(gone)
<1> DEFINE Before(i) == {left[j] : j \in 1..i}
<1> DEFINE Users_(i) == s.joined \ Before(i)
<1> DEFINE Between(i) == {k \in Room : k.joined /\ k.tickers = s.tickers /\ k.users = Users_(i)}
<1> DEFINE between == [i \in 0..n |-> Between(i)]
<1>1. n \in Nat /\ left \in [1..n -> gone] /\ \A u \in gone : \E i \in 1..n : left[i] = u
  BY SetToSeqTyped, SetToSeqOnto
<1> HIDE DEF n, left
<1>2. /\ messages \in Seq(Message) /\ Len(messages) = n
      /\ \A i \in 1..n : /\ messages[i].kind = "UserLeftRoom" /\ messages[i].room = r
                         /\ messages[i].user = left[i] /\ messages[i].user \in Users \ {Me}
  <2>1. messages = [i \in 1..n |-> [kind |-> "UserLeftRoom", room |-> r, user |-> left[i]]]
    BY <1>1 DEF left
  <2>2. \A i \in 1..n : left[i] \in Users \ {Me}
    BY <1>1
  <2>3. \A i \in 1..n : [kind |-> "UserLeftRoom", room |-> r, user |-> left[i]] \in Message
    BY <2>2 DEF Message, AboutUser
  <2>4. messages \in [1..n -> Message]
    BY <2>1, <2>3
  <2>5. messages \in Seq(Message) /\ Len(messages) = n
    BY <1>1, <2>4, FunctionIsSeq
  <2> QED BY <2>1, <2>2, <2>5
<1>3. \A i \in 0..n : between[i] = Between(i)
  OBVIOUS
<1>4. between \in [0..n -> SUBSET Known]
  BY DEF Known
<1>5. Seen(s) \subseteq between[0]
  <2>1. Users_(0) = s.joined
    OBVIOUS
  <2>2. 0 \in 0..n
    BY <1>1
  <2> HIDE DEF between, Users_
  <2> QED BY <1>3, <2>1, <2>2 DEF Seen, Presence, Known
<1>6. between[n] \subseteq Seen(s2)
  <2>1. Before(n) = gone
    BY <1>1
  <2>2. Users_(n) = s2.joined /\ Me \in s2.joined
    BY <2>1
  <2>3. n \in 0..n /\ None \notin Room
    BY <1>1, NoneAssumption
  <2> HIDE DEF between, Users_
  <2> QED BY <1>3, <2>2, <2>3 DEF Seen, Presence, Known
<1>7. ASSUME NEW i \in 1..n, NEW known \in between[i - 1]
      PROVE  After(r, known, messages[i]) \in between[i]
  <2> DEFINE m == messages[i]
  <2> DEFINE then == RoomAfter(known, m)
  <2> DEFINE room == Get(known, FALSE)
  <2>1. i - 1 \in 0..n /\ i \in 0..n
    BY <1>1
  <2> HIDE DEF between
  <2>2. known \in Room /\ known.joined /\ known.tickers = s.tickers /\ known.users = Users_(i - 1)
    BY <1>3, <2>1
  <2>3. m.kind = "UserLeftRoom" /\ m.room = r /\ m.user = left[i] /\ m.user \in Users
        /\ known \in Known
    BY <1>2, <2>2 DEF Known
  <2> HIDE DEF m
  <2>4. /\ then \in Room /\ then.joined = room.joined /\ then.users = room.users \ {m.user}
        /\ then.tickers = room.tickers
    BY <2>3, PresenceEffect
  <2>5. room = known
    BY <2>2, NoneAssumption DEF Get
  <2>6. After(r, known, m) = then
    BY <2>3 DEF After
  <2>7. Users_(i) = Users_(i - 1) \ {left[i]}
    <3>1. \A j \in 1..i : j = i \/ j \in 1..i - 1
      BY <1>1
    <3>2. \A j \in 1..i - 1 : j \in 1..i
      BY <1>1
    <3>3. i \in 1..i
      BY <1>1
    <3>4. Before(i) = Before(i - 1) \cup {left[i]}
      BY <3>1, <3>2, <3>3
    <3> QED BY <3>4
  <2> HIDE DEF then, room, Users_
  <2>8. then \in Between(i)
    BY <2>2, <2>3, <2>4, <2>5, <2>7
  <2> QED BY <1>3, <2>1, <2>6, <2>8 DEF m
<1>8. Brings(r, messages, Seen(s), Seen(s2))
  <2> HIDE DEF between
  <2> QED BY <1>2, <1>4, <1>5, <1>6, <1>7 DEF Brings
<1>9. \A q \in RoomNames \ {r} : \A from \in SUBSET Known : Brings(q, messages, from, from)
  BY <1>2, BringsAway
<1> QED BY <1>8, <1>9

(* The owner gives up a room: its members leave it.                         *)
LEMMA DisownsTells ==
  ASSUME ServerTyped, AllProper, NEW r \in RoomNames, NEW u \in Users,
         u = truth[r].owner, Disowns(r, u)
  PROVE  Tells
<1> DEFINE s == truth[r]
<1> DEFINE gone == s.members
<1> DEFINE t == [truth EXCEPT ![r].owner = None, ![r].members = {}, ![r].operators = {},
                              ![r].joined = @ \ gone]
<1> DEFINE left(first) == SetToSeq(first \cap s.joined)
<1> DEFINE said(first) == [i \in DOMAIN left(first) |->
                             [kind |-> "UserLeftRoom", room |-> r, user |-> left(first)[i]]]
<1> DEFINE then(first) == [t EXCEPT ![r].joined = s.joined \ (first \cup {Me})]
<1>1. PICK first \in SUBSET (gone \ {Me}) :
        /\ Me \notin gone => first = gone
        /\ Server(t, If(Me \in s.joined, said(first))
                     \o If(Me \in gone, RevokeMessages(then(first), r, Me))
                     \o If(u = Me, ListUpdate(t)))
  BY DEF Disowns
<1> DEFINE t2 == then(first)
<1> DEFINE s2 == [s EXCEPT !.joined = s.joined \ first]
<1> DEFINE leave == If(Me \in s.joined, said(first))
<1> DEFINE revoke == If(Me \in gone, RevokeMessages(t2, r, Me))
<1> DEFINE list == If(u = Me, ListUpdate(t))
<1>2. /\ s \in ServerRoom /\ t \in [RoomNames -> ServerRoom] /\ t[r] \in ServerRoom
      /\ \A q \in RoomNames \ {r} : t[q] = truth[q]
      /\ t[r].joined = s.joined \ gone /\ t[r].tickers = s.tickers
      /\ t[r].owner = None /\ t[r].members = {} /\ t[r].operators = {}
  <2>1. s \in ServerRoom
    BY DEF ServerTyped
  <2> DEFINE owned == [s EXCEPT !.owner = None, !.members = {}]
  <2> DEFINE room == [owned EXCEPT !.operators = {}, !.joined = s.joined \ gone]
  <2>2. owned \in ServerRoom /\ owned.owner = None /\ owned.members = {}
        /\ owned.tickers = s.tickers
    BY <2>1 DEF ServerRoom
  <2>3. t = [truth EXCEPT ![r] = room]
    BY <2>1 DEF ServerTyped
  <2>4. s.joined \ gone \in SUBSET Users
    BY <2>1 DEF ServerRoom
  <2> HIDE DEF owned
  <2>5. /\ room \in ServerRoom /\ room.joined = s.joined \ gone /\ room.tickers = s.tickers
        /\ room.owner = None /\ room.members = {} /\ room.operators = {}
    BY <2>2, <2>4 DEF ServerRoom
  <2> HIDE DEF room
  <2> QED BY <2>1, <2>3, <2>5 DEF ServerTyped
<1> HIDE DEF t
<1>3. /\ t2 \in [RoomNames -> ServerRoom] /\ t2[r] \in ServerRoom
      /\ \A q \in RoomNames \ {r} : t2[q] = t[q]
      /\ t2[r].joined = s.joined \ (first \cup {Me}) /\ t2[r].tickers = s.tickers
      /\ t2[r].owner = None /\ t2[r].members = {} /\ t2[r].operators = {}
  <2>1. s.joined \ (first \cup {Me}) \in SUBSET Users
    BY <1>2 DEF ServerRoom
  <2> QED BY <1>2, <2>1 DEF ServerRoom
<1>4. s2 \in ServerRoom /\ s2.joined = s.joined \ first /\ s2.tickers = s.tickers
  <2>1. s.joined \ first \in SUBSET Users
    BY <1>2 DEF ServerRoom
  <2> QED BY <1>2, <2>1 DEF ServerRoom
<1>5. Server(t, (leave \o revoke) \o list)
  BY <1>1
<1> HIDE DEF then, s2
<1>6. u # None /\ Me # None
  BY RoomsAssumption DEF RoomsAssumption, Users
<1>7. \A q \in RoomNames : SoundRoom(t2[q]) /\ SoundRoom(t[q]) /\ ProperRoom(t[q])
  <2>1. SoundRoom(t2[r]) /\ SoundRoom(t[r]) /\ ProperRoom(t[r])
    BY <1>2, <1>3 DEF ProperRoom, SoundRoom
  <2> QED BY <1>2, <1>3, <2>1 DEF AllProper, ProperRoom
<1>8. Me \in s.joined =>
        /\ Brings(r, said(first), Seen(s), Seen(s2))
        /\ \A q \in RoomNames \ {r} : \A from \in SUBSET Known : Brings(q, said(first), from, from)
  <2> DEFINE who == first \cap s.joined
  <2>1. who \in SUBSET (Users \ {Me}) /\ s2.joined = s.joined \ who
    BY <1>2, <1>4 DEF ServerRoom
  <2>2. IsFiniteSet(who)
    <3>1. IsFiniteSet(Users)
      BY RoomsAssumption, FS_AddElement DEF RoomsAssumption, Users
    <3>2. who \subseteq Users
      BY <2>1
    <3> QED BY <3>1, <3>2, FS_Subset
  <2> DEFINE messages == said(first)
  <2>3. messages = [i \in DOMAIN SetToSeq(who) |->
                      [kind |-> "UserLeftRoom", room |-> r, user |-> SetToSeq(who)[i]]]
    OBVIOUS
  <2>4. s \in ServerRoom
    BY <1>2
  <2> HIDE DEF who, messages, s
  <2>5. ASSUME Me \in s.joined
        PROVE  /\ Brings(r, messages, Seen(s), Seen(s2))
               /\ \A q \in RoomNames \ {r} : \A from \in SUBSET Known :
                    Brings(q, messages, from, from)
    BY <1>4, <2>1, <2>2, <2>3, <2>4, <2>5, UsersLeave
  <2> QED BY <2>5 DEF messages
<1> HIDE DEF said
<1>9. Brings(r, leave, Seen(s), Seen(s2))
  <2>1. Me \notin s.joined => Seen(s) \subseteq Seen(s2)
    BY <1>4 DEF Seen, Presence
  <2> QED BY <1>8, <2>1, SetsTyped, BringsIf
<1>10. Brings(r, (leave \o revoke) \o list, Same(s), Same(t[r]))
  <2>1. CASE Me \in gone
    <3>1. Brings(r, RevokeMessages(t2, r, Me), Seen(s2), Same(t2[r]))
      BY <1>3, <1>4, <1>7, RevokeMineSays
    <3>2. Brings(r, revoke, Seen(s2), Same(t2[r]))
      BY <2>1, <3>1 DEF If
    <3>3. Same(t2[r]) \subseteq Seen(t[r]) /\ Same(t2[r]) \subseteq Same(t[r])
      <4>1. Me \notin t2[r].joined /\ Me \notin t[r].joined
        BY <1>2, <1>3, <2>1
      <4> QED BY <1>2, <1>3, <4>1 DEF Seen, Same, Presence, Rights, Entitled
    <3>4. Brings(r, ListUpdate(t), Seen(t[r]), Same(t[r]))
      BY <1>2, <1>7, ListUpdateSays
    <3>5. Brings(r, ListUpdate(t), Same(t2[r]), Same(t[r]))
      BY <3>3, <3>4, SetsTyped, BringsLess
    <3>6. Brings(r, list, Same(t2[r]), Same(t[r]))
      BY <3>3, <3>5, SetsTyped, BringsIf
    <3> HIDE DEF leave, revoke, list
    <3>7. Brings(r, leave \o revoke, Seen(s), Same(t2[r]))
      BY <1>9, <3>2, BringsOn
    <3>8. Brings(r, (leave \o revoke) \o list, Seen(s), Same(t[r]))
      BY <3>6, <3>7, BringsOn
    <3> QED BY <3>8, SetsTyped, BringsLess
  <2>2. CASE Me \notin gone /\ u = Me
    <3>1. s2.joined = t[r].joined /\ s2.tickers = t[r].tickers
      BY <1>1, <1>2, <1>4, <2>2
    <3>2. Seen(s2) = Seen(t[r])
      BY <3>1 DEF Seen, Presence
    <3>3. Brings(r, list, Seen(s2), Same(t[r]))
      BY <1>2, <1>7, <2>2, <3>2, ListUpdateSays DEF If
    <3>4. Brings(r, revoke, Seen(s2), Seen(s2))
      BY <2>2, SetsTyped, BringsIf
    <3> HIDE DEF leave, revoke, list
    <3>5. Brings(r, leave \o revoke, Seen(s), Seen(s2))
      BY <1>9, <3>4, BringsOn
    <3>6. Brings(r, (leave \o revoke) \o list, Seen(s), Same(t[r]))
      BY <3>3, <3>5, BringsOn
    <3> QED BY <3>6, SetsTyped, BringsLess
  <2>3. CASE Me \notin gone /\ u # Me
    <3>1. ProperRoom(s)
      BY DEF AllProper
    <3>2. Me \notin Entitled(s) /\ Me \notin s.operators /\ s.owner # Me
      BY <2>3, <3>1 DEF Entitled, ProperRoom
    <3>3. Me \notin s.joined
      BY <1>6, <3>1, <3>2 DEF ProperRoom, SoundRoom
    <3>4. Same(s) \subseteq Same(t[r])
      BY <1>2, <1>6, <2>3, <3>2, <3>3 DEF Same, Presence, Rights, Entitled
    <3>5. /\ Brings(r, leave, Same(s), Same(s)) /\ Brings(r, revoke, Same(s), Same(s))
          /\ Brings(r, list, Same(s), Same(t[r]))
      BY <2>3, <3>3, <3>4, SetsTyped, BringsIf
    <3> HIDE DEF leave, revoke, list
    <3>6. Brings(r, leave \o revoke, Same(s), Same(s))
      BY <3>5, BringsOn
    <3> QED BY <3>5, <3>6, BringsOn
  <2> QED BY <2>1, <2>2, <2>3
<1>11. ASSUME NEW q \in RoomNames \ {r}
       PROVE  Brings(q, (leave \o revoke) \o list, Same(truth[q]), Same(t[q]))
  <2> DEFINE A == Same(t[q])
  <2>1. A \in SUBSET Known /\ Same(truth[q]) = A /\ Same(t2[q]) = A
    BY <1>2, <1>3, SetsTyped
  <2>2. Brings(q, ListUpdate(t), A, A)
    BY <1>2, <1>7, ListUpdateSays, SetsTyped, BringsLess
  <2>3. Me \in Users
    BY DEF Users
  <2>4. Brings(q, RevokeMessages(t2, r, Me), A, A)
    BY <1>3, <1>7, <2>1, <2>3, RevokeAway
  <2> HIDE DEF A
  <2>5. Me \in s.joined => Brings(q, said(first), A, A)
    BY <1>8, <2>1
  <2>6. Brings(q, leave, A, A) /\ Brings(q, revoke, A, A) /\ Brings(q, list, A, A)
    BY <2>1, <2>2, <2>4, <2>5, BringsIf
  <2> HIDE DEF leave, revoke, list
  <2>7. Brings(q, leave \o revoke, A, A)
    BY <2>6, BringsOn
  <2>8. Brings(q, (leave \o revoke) \o list, A, A)
    BY <2>6, <2>7, BringsOn
  <2> QED BY <2>1, <2>8 DEF A
<1> HIDE DEF leave, revoke, list
<1>12. \A q \in RoomNames :
         Brings(q, (leave \o revoke) \o list, Same(truth[q]), Same(t[q]))
  BY <1>10, <1>11
<1> QED BY <1>2, <1>5, <1>7, <1>12 DEF Tells

(* Two messages, one after the other.                                         *)
LEMMA Two ==
  ASSUME NEW a \in Message, NEW b \in Message
  PROVE  <<a>> \o <<b>> = <<a, b>>
<1>1. /\ <<a>> \in Seq(Message) /\ <<b>> \in Seq(Message) /\ <<a, b>> \in Seq(Message)
      /\ Len(<<a>>) = 1 /\ Len(<<b>>) = 1 /\ Len(<<a, b>>) = 2
  OBVIOUS
<1>2. <<a>> \o <<b>> \in Seq(Message) /\ Len(<<a>> \o <<b>>) = 2
  BY <1>1, ConcatProperties
<1>3. \A i \in 1..2 : (<<a>> \o <<b>>)[i] = <<a, b>>[i]
  BY <1>1, ConcatProperties
<1> QED BY <1>1, <1>2, <1>3, SeqEqual

(* We join a room: the list of the users there comes with its owner and its     *)
(* operators.                                                               *)
LEMMA JoinSays ==
  ASSUME NEW r \in RoomNames, NEW t \in [RoomNames -> ServerRoom], NEW s \in ServerRoom,
         SoundRoom(s), Me \notin s.joined, s.owner # None => Me \in Entitled(s),
         t[r].joined = s.joined \cup {Me}, t[r].tickers = s.tickers, t[r].owner = s.owner,
         t[r].members = s.members, t[r].operators = s.operators
  PROVE  Brings(r, JoinMessages(t, r, Me), Same(s), Same(t[r]))
<1> DEFINE s2 == t[r]
<1> DEFINE joins == [kind |-> "UserJoinedRoom", room |-> r, user |-> Me]
<1> DEFINE room == [kind |-> "JoinRoom", room |-> r, users |-> s2.joined,
                    owner |-> s2.owner, operators |-> s2.operators]
<1> DEFINE tickers == [kind |-> "RoomTickers", room |-> r, users |-> s2.tickers]
<1> DEFINE Entering == {k \in Room : k.users = {Me} /\ Rights(k, s)}
<1> DEFINE Inside == {k \in Room : k.joined /\ k.users = s2.joined /\ Rights(k, s2)}
<1>1. s2 \in ServerRoom /\ None \notin Room
  BY NoneAssumption
<1>2. room \in Message /\ tickers \in Message
  BY <1>1 DEF ServerRoom, Message
<1>3. JoinMessages(t, r, Me) = Told("UserJoinedRoom", r, Me) \o (<<room>> \o <<tickers>>)
  <2>1. Me \in t[r].joined
    OBVIOUS
  <2>2. JoinMessages(t, r, Me) = Told("UserJoinedRoom", r, Me) \o <<room, tickers>>
    BY <2>1 DEF JoinMessages, If
  <2> HIDE DEF room, tickers
  <2>3. <<room>> \o <<tickers>> = <<room, tickers>>
    BY <1>2, Two
  <2> QED BY <2>2, <2>3
<1>4. Entering \in SUBSET Known /\ Inside \in SUBSET Known
  BY DEF Known
<1>5. ASSUME NEW known \in Same(s)
      PROVE  RoomAfter(known, joins) \in Entering
  <2> DEFINE then == RoomAfter(known, joins)
  <2> DEFINE got == Get(known, FALSE)
  <2>1. joins.kind = "UserJoinedRoom" /\ joins.user = Me /\ joins.user \in Users
        /\ known \in Known /\ Presence(known, s) /\ Rights(known, s)
    BY DEF Users, Same
  <2> HIDE DEF joins
  <2>2. /\ then \in Room /\ then.users = got.users \cup {joins.user}
        /\ then.owner = got.owner /\ then.private = got.private
        /\ then.members = got.members /\ then.operators = got.operators
    BY <2>1, PresenceEffect
  <2>3. got.users = {} /\ (got # None => Rights(got, s))
    <3>1. CASE known = None
      <4>1. got.users = {} /\ got.owner = None /\ got.members = {} /\ got.operators = {}
        BY <3>1 DEF Get, NewRoom
      <4>2. Me \notin Entitled(s)
        BY <2>1, <3>1 DEF Rights
      <4>3. s.owner = None /\ s.members = {} /\ s.operators = {} /\ Me # None
        BY <4>2, RoomsAssumption DEF SoundRoom, RoomsAssumption
      <4> QED BY <4>1, <4>2, <4>3 DEF Rights
    <3>2. CASE known # None
      <4>1. got = known
        BY <3>2 DEF Get
      <4> QED BY <2>1, <3>2, <4>1 DEF Presence
    <3> QED BY <3>1, <3>2
  <2>4. got \in Room
    BY <2>1, GetTyped
  <2> HIDE DEF then, got
  <2>5. then # None /\ got # None
    BY <1>1, <2>2, <2>4
  <2>6. Rights(then, s)
    BY <2>2, <2>3, <2>5 DEF Rights
  <2>7. then.users = {Me}
    BY <2>1, <2>2, <2>3
  <2> QED BY <2>2, <2>6, <2>7 DEF then
<1>6. ASSUME NEW known \in Entering
      PROVE  After(r, known, room) \in Inside
  <2> DEFINE then == [known EXCEPT !.joined = TRUE, !.private = s2.owner # None,
                                   !.users = known.users \cup s2.joined,
                                   !.owner = s2.owner, !.operators = s2.operators]
  <2>1. known # None /\ Public(known) = known
    BY <1>1 DEF Public, Get
  <2>2. After(r, known, room) = then
    BY <2>1 DEF After, RoomAfter, Joined
  <2>3. s2.joined \subseteq Users /\ s2.operators \subseteq Users /\ s2.owner \in Users \cup {None}
    BY <1>1 DEF ServerRoom
  <2>4. /\ then \in Room /\ then.joined /\ then.private = (s2.owner # None)
        /\ then.users = known.users \cup s2.joined
        /\ then.owner = s2.owner /\ then.operators = s2.operators /\ then.members = known.members
    <3>1. (s2.owner # None) \in BOOLEAN /\ known.users \cup s2.joined \in SUBSET Users
      BY <2>3 DEF Room
    <3> HIDE DEF s2
    <3> QED BY <2>3, <3>1 DEF Room
  <2> HIDE DEF then
  <2>5. then.users = s2.joined /\ then # None
    BY <1>1, <2>4
  <2>6. Rights(known, s) /\ Entitled(s2) = Entitled(s)
    BY DEF Entitled
  <2>7. Me \in Entitled(s) => s.owner # None
    BY DEF Entitled
  <2>8. Rights(then, s2)
    BY <2>1, <2>4, <2>5, <2>6, <2>7 DEF Rights
  <2> QED BY <2>2, <2>4, <2>5, <2>8
<1>7. ASSUME NEW known \in Inside
      PROVE  After(r, known, tickers) \in Same(s2)
  <2> DEFINE then == [known EXCEPT !.tickers = s2.tickers]
  <2>1. known # None /\ Public(known) = known
    BY <1>1 DEF Public, Get
  <2>2. After(r, known, tickers) = then
    BY <2>1 DEF After, RoomAfter, Tickers
  <2>3. s2.tickers \subseteq Users
    BY <1>1 DEF ServerRoom
  <2>4. /\ then \in Room /\ then.joined /\ then.users = s2.joined /\ then.tickers = s2.tickers
        /\ then.private = known.private /\ then.owner = known.owner
        /\ then.operators = known.operators /\ then.members = known.members
    <3> HIDE DEF s2
    <3> QED BY <2>3 DEF Room
  <2> HIDE DEF then
  <2>5. then # None
    BY <1>1, <2>4
  <2>6. Presence(then, s2)
    BY <2>4, <2>5 DEF Presence
  <2>7. Rights(then, s2)
    BY <2>1, <2>4, <2>5 DEF Rights
  <2> QED BY <2>2, <2>4, <2>6, <2>7 DEF Same, Known
<1>8. Brings(r, Told("UserJoinedRoom", r, Me), Same(s), Entering)
  <2>1. CanBeTold("UserJoinedRoom", Me)
    BY DEF CanBeTold, AboutUser, Users
  <2> HIDE DEF Entering
  <2> QED BY <1>4, <1>5, <2>1, SetsTyped, ToldSays
<1> HIDE DEF Entering, Inside, room, tickers
<1>9. Brings(r, <<room>>, Entering, Inside)
  BY <1>2, <1>4, <1>6, BringsOne
<1>10. Brings(r, <<tickers>>, Inside, Same(s2))
  BY <1>2, <1>4, <1>7, SetsTyped, BringsOne
<1>11. Brings(r, <<room>> \o <<tickers>>, Entering, Same(s2))
  BY <1>9, <1>10, BringsOn
<1>12. Brings(r, Told("UserJoinedRoom", r, Me) \o (<<room>> \o <<tickers>>), Same(s), Same(s2))
  BY <1>8, <1>11, BringsOn
<1> QED BY <1>3, <1>12

(* Another user joins a room in which we are or are not.                       *)
LEMMA UserJoinSays ==
  ASSUME NEW r \in RoomNames, NEW t \in [RoomNames -> ServerRoom], NEW s \in ServerRoom,
         NEW u \in Users \ {Me},
         t[r].joined = s.joined \cup {u}, t[r].tickers = s.tickers,
         t[r].members = s.members, t[r].operators = s.operators,
         \/ t[r].owner = s.owner
         \/ (s.owner = None /\ s.members = {} /\ s.joined = {} /\ t[r].owner = u)
  PROVE  Brings(r, JoinMessages(t, r, u), Same(s), Same(t[r]))
<1> DEFINE s2 == t[r]
<1> DEFINE m == [kind |-> "UserJoinedRoom", room |-> r, user |-> u]
<1> DEFINE told == Told("UserJoinedRoom", r, u)
<1>1. JoinMessages(t, r, u) = If(Me \in s2.joined, told) \o <<>>
  BY DEF JoinMessages, If
<1>2. Brings(r, If(Me \in s2.joined, told), Same(s), Same(s2))
  <2>1. CASE Me \in s.joined
    <3>1. ASSUME NEW known \in Same(s)
          PROVE  RoomAfter(known, m) \in Same(s2)
      <4> DEFINE then == RoomAfter(known, m)
      <4> DEFINE room == Get(known, FALSE)
      <4>1. m.kind = "UserJoinedRoom" /\ m.user = u /\ m.user \in Users
            /\ known \in Known /\ Presence(known, s) /\ Rights(known, s)
        BY DEF Same
      <4> HIDE DEF m
      <4>2. /\ then \in Room /\ then.joined = room.joined /\ then.users = room.users \cup {m.user}
            /\ then.tickers = room.tickers
            /\ then.owner = room.owner /\ then.private = room.private
            /\ then.members = room.members /\ then.operators = room.operators
        BY <4>1, PresenceEffect
      <4>3. known # None
        BY <2>1, <4>1 DEF Presence
      <4>4. room = known
        BY <4>3 DEF Get
      <4> HIDE DEF then, room
      <4>5. then # None
        BY <4>2, NoneAssumption
      <4>6. Presence(then, s2)
        BY <2>1, <4>1, <4>2, <4>3, <4>4, <4>5 DEF Presence
      <4>7. s2.owner = s.owner /\ Entitled(s2) = Entitled(s)
        BY <2>1 DEF Entitled
      <4>8. Rights(then, s2)
        BY <4>1, <4>2, <4>3, <4>4, <4>5, <4>7 DEF Rights
      <4> QED BY <4>2, <4>6, <4>8 DEF Same, Known, then
    <3>2. Brings(r, told, Same(s), Same(s2))
      <4>1. CanBeTold("UserJoinedRoom", u)
        BY DEF CanBeTold, AboutUser
      <4> QED BY <3>1, <4>1, SetsTyped, ToldSays
    <3> QED BY <2>1, <3>2 DEF If
  <2>2. CASE Me \notin s.joined
    <3>1. /\ Me \notin s2.joined
          /\ Me \in Entitled(s2) <=> Me \in Entitled(s)
          /\ s2.owner = Me <=> s.owner = Me
      BY <2>2, RoomsAssumption DEF Entitled, RoomsAssumption
    <3>2. Same(s) \subseteq Same(s2)
      BY <2>2, <3>1 DEF Same, Presence, Rights
    <3> QED BY <3>1, <3>2, SetsTyped, BringsIf
  <2> QED BY <2>1, <2>2
<1>3. Brings(r, <<>>, Same(s2), Same(s2))
  BY SetsTyped, BringsNothing
<1> HIDE DEF told
<1> QED BY <1>1, <1>2, <1>3, BringsOn

(* The other rooms are left alone.                                          *)
LEMMA JoinAway ==
  ASSUME NEW t \in [RoomNames -> ServerRoom], NEW r \in RoomNames, NEW u \in Users,
         NEW q \in RoomNames \ {r}, NEW from \in SUBSET Known
  PROVE  Brings(q, JoinMessages(t, r, u), from, from)
<1> DEFINE room == [kind |-> "JoinRoom", room |-> r, users |-> t[r].joined,
                    owner |-> t[r].owner, operators |-> t[r].operators]
<1> DEFINE tickers == [kind |-> "RoomTickers", room |-> r, users |-> t[r].tickers]
<1> DEFINE told == Told("UserJoinedRoom", r, u)
<1>1. JoinMessages(t, r, u) = If(Me \in t[r].joined, told) \o If(u = Me, <<room, tickers>>)
  BY DEF JoinMessages
<1>2. Brings(q, told, from, from)
  BY ToldSays DEF CanBeTold, AboutUser
<1>3. Brings(q, <<room, tickers>>, from, from)
  <2>1. room \in Message /\ tickers \in Message
    BY DEF ServerRoom, Message
  <2>2. <<room, tickers>>[1] = room /\ <<room, tickers>>[2] = tickers
        /\ room.kind # "RoomList" /\ room.room = r /\ tickers.kind # "RoomList" /\ tickers.room = r
    OBVIOUS
  <2> HIDE DEF room, tickers
  <2> DEFINE messages == <<room, tickers>>
  <2>3. messages \in Seq(Message) /\ Len(messages) = 2
    BY <2>1
  <2>4. \A i \in 1..2 : messages[i].kind # "RoomList" /\ messages[i].room # q
    BY <2>2
  <2> HIDE DEF messages
  <2>5. Brings(q, messages, from, from)
    BY <2>3, <2>4, BringsAway
  <2> QED BY <2>5 DEF messages
<1> HIDE DEF room, tickers, told
<1>4. /\ Brings(q, If(Me \in t[r].joined, told), from, from)
      /\ Brings(q, If(u = Me, <<room, tickers>>), from, from)
  BY <1>2, <1>3, BringsIf
<1> QED BY <1>1, <1>4, BringsOn

(* A user joins a room; who creates a private room owns it.                 *)
LEMMA JoinsTells ==
  ASSUME ServerTyped, AllProper, NEW r \in RoomNames, NEW u \in Users, MayJoin(r, u), Joins(r, u)
  PROVE  Tells
<1> DEFINE s == truth[r]
<1> DEFINE empty == r \in Private /\ s.owner = None /\ s.joined = {}
<1> DEFINE created == u = Me /\ r \in Private /\ s.owner = None /\ s.joined = {}
<1> DEFINE t == [truth EXCEPT ![r].joined = @ \cup {u},
                              ![r].owner = IF r \in Private /\ @ = None /\ s.joined = {}
                                           THEN u ELSE @]
<1> DEFINE claimed == [t EXCEPT ![r].joined = {}]
<1> DEFINE list == If(created, ListUpdate(claimed))
<1> DEFINE joins == JoinMessages(t, r, u)
<1>1. /\ t \in [RoomNames -> ServerRoom] /\ s \in ServerRoom /\ t[r] \in ServerRoom
      /\ \A q \in RoomNames \ {r} : t[q] = truth[q]
      /\ t[r].joined = s.joined \cup {u} /\ t[r].tickers = s.tickers
      /\ t[r].owner = (IF empty THEN u ELSE s.owner)
      /\ t[r].members = s.members /\ t[r].operators = s.operators
  BY DEF ServerTyped, ServerRoom
<1>2. Server(t, list \o joins)
  BY DEF Joins
<1> HIDE DEF t
<1>3. /\ claimed \in [RoomNames -> ServerRoom] /\ claimed[r] \in ServerRoom
      /\ \A q \in RoomNames \ {r} : claimed[q] = t[q]
      /\ claimed[r].joined = {} /\ claimed[r].tickers = t[r].tickers
      /\ claimed[r].owner = t[r].owner /\ claimed[r].members = t[r].members
      /\ claimed[r].operators = t[r].operators
  BY <1>1 DEF ServerRoom
<1> HIDE DEF claimed
<1>4. ProperRoom(s) /\ u \notin s.joined /\ (s.owner # None => u \in Entitled(s)) /\ u # None
      /\ Me # None
  BY RoomsAssumption DEF AllProper, MayJoin, AllMembers, Entitled, RoomsAssumption, Users
<1>5. \A q \in RoomNames : SoundRoom(claimed[q]) /\ SoundRoom(t[q]) /\ ProperRoom(t[q])
  <2>1. SoundRoom(claimed[r]) /\ SoundRoom(t[r]) /\ ProperRoom(t[r])
    BY <1>1, <1>3, <1>4 DEF ProperRoom, SoundRoom, Entitled
  <2> QED BY <1>1, <1>3, <2>1 DEF AllProper, ProperRoom
<1>6. Brings(r, list \o joins, Same(s), Same(t[r]))
  <2>1. CASE created
    <3>1. Same(s) \subseteq Seen(claimed[r])
      BY <1>1, <1>3, <2>1 DEF Same, Seen, Presence
    <3>2. Brings(r, ListUpdate(claimed), Seen(claimed[r]), Same(claimed[r]))
      BY <1>3, <1>5, ListUpdateSays
    <3>3. Brings(r, list, Same(s), Same(claimed[r]))
      BY <2>1, <3>1, <3>2, BringsLess DEF If
    <3>4. t[r].joined = claimed[r].joined \cup {Me} /\ Me \in Entitled(claimed[r])
      BY <1>1, <1>3, <1>4, <2>1 DEF Entitled
    <3>5. SoundRoom(claimed[r])
      BY <1>5
    <3>6. Brings(r, JoinMessages(t, r, Me), Same(claimed[r]), Same(t[r]))
      BY <1>1, <1>3, <3>4, <3>5, JoinSays
    <3>7. Brings(r, joins, Same(claimed[r]), Same(t[r]))
      BY <2>1, <3>6
    <3> HIDE DEF list, joins
    <3> QED BY <3>3, <3>7, BringsOn
  <2>2. CASE ~created
    <3>1. Brings(r, list, Same(s), Same(s))
      BY <2>2, SetsTyped, BringsIf
    <3>2. Brings(r, joins, Same(s), Same(t[r]))
      <4>1. CASE u = Me
        <5>1. t[r].owner = s.owner
          BY <1>1, <2>2, <4>1
        <5>2. SoundRoom(s)
          BY <1>4 DEF ProperRoom
        <5>3. Brings(r, JoinMessages(t, r, Me), Same(s), Same(t[r]))
          BY <1>1, <1>4, <4>1, <5>1, <5>2, JoinSays
        <5> QED BY <4>1, <5>3
      <4>2. CASE u # Me
        <5>1. empty => s.owner = None /\ s.members = {} /\ s.joined = {}
          BY <1>4 DEF ProperRoom, SoundRoom
        <5>2. \/ t[r].owner = s.owner
              \/ (s.owner = None /\ s.members = {} /\ s.joined = {} /\ t[r].owner = u)
          BY <1>1, <5>1
        <5> QED BY <1>1, <4>2, <5>2, UserJoinSays
      <4> QED BY <4>1, <4>2
    <3> HIDE DEF list, joins
    <3> QED BY <3>1, <3>2, BringsOn
  <2> QED BY <2>1, <2>2
<1>7. ASSUME NEW q \in RoomNames \ {r}
      PROVE  Brings(q, list \o joins, Same(truth[q]), Same(t[q]))
  <2> DEFINE A == Same(t[q])
  <2>1. A \in SUBSET Known /\ Same(truth[q]) = A /\ Same(claimed[q]) = A
    BY <1>1, <1>3, SetsTyped
  <2>2. Brings(q, ListUpdate(claimed), A, A)
    <3>1. Brings(q, ListUpdate(claimed), Seen(claimed[q]), Same(claimed[q]))
      BY <1>3, <1>5, ListUpdateSays
    <3>2. A \subseteq Seen(claimed[q])
      BY <2>1, SetsTyped
    <3> QED BY <2>1, <3>1, <3>2, BringsLess
  <2> HIDE DEF A
  <2>3. Brings(q, list, A, A)
    BY <2>1, <2>2, BringsIf
  <2>4. Brings(q, joins, A, A)
    BY <1>1, <2>1, JoinAway
  <2> HIDE DEF list, joins
  <2>5. Brings(q, list \o joins, A, A)
    BY <2>3, <2>4, BringsOn
  <2> QED BY <2>1, <2>5 DEF A
<1> HIDE DEF list, joins
<1>8. \A q \in RoomNames : Brings(q, list \o joins, Same(truth[q]), Same(t[q]))
  BY <1>6, <1>7
<1> QED BY <1>1, <1>2, <1>5, <1>8 DEF Tells

(* Whatever a user may do, we are told of it.                                  *)
LEMMA DoesTells ==
  ASSUME ServerTyped, AllProper, NEW by \in Users, NEW kind, NEW r \in RoomNames,
         NEW u \in Users, May(by, kind, r, u), Does(kind, r, u)
  PROVE  Tells
<1> DEFINE s == truth[r]
<1>1. ProperRoom(s) /\ None \notin Users
  BY RoomsAssumption DEF AllProper, Users, RoomsAssumption
<1>2. CASE kind = "join" /\ Joins(r, u)
  BY <1>2, JoinsTells DEF May
<1>3. CASE kind = "leave" /\ Leaves(r, u)
  BY <1>3, LeavesTells DEF May
<1>4. CASE kind = "ticker" /\ SetsTicker(r, u)
  BY <1>4, SetsTickerTells
<1>5. CASE kind \in {"drop", "revoke"} /\ Revokes(r, u)
  <2>1. u \in s.members
    BY <1>5 DEF May
  <2> QED BY <1>5, <2>1, RevokesTells
<1>6. CASE kind = "disown" /\ Disowns(r, u)
  <2>1. u = s.owner
    BY <1>6 DEF May
  <2> QED BY <1>6, <2>1, DisownsTells
<1>7. CASE kind = "grant" /\ Grants(r, u)
  <2>1. by \in s.operators \cup {s.owner}
    BY <1>7 DEF May
  <2>2. s.owner # None
    BY <1>1, <2>1 DEF ProperRoom, SoundRoom
  <2> QED BY <1>7, <2>2, GrantsTells
<1>8. CASE kind = "grantOperator" /\ GrantsOperator(r, u)
  <2>1. u \in s.members
    BY <1>8 DEF May
  <2> QED BY <1>8, <2>1, GrantsOperatorTells
<1>9. CASE kind = "revokeOperator" /\ RevokesOperator(r, u)
  BY <1>9, RevokesOperatorTells
<1> QED BY <1>2, <1>3, <1>4, <1>5, <1>6, <1>7, <1>8, <1>9 DEF Does

(* Only we join rooms for ourselves.                                          *)
Away == \A q \in RoomNames : Me \notin truth[q].joined

(* Nothing but our own request to join takes us into a room.                *)
LEMMA StaysAway ==
  ASSUME ServerTyped, Away, NEW kind, NEW r \in RoomNames, NEW u \in Users,
         kind = "join" => u # Me, Does(kind, r, u)
  PROVE  Away'
<1> USE DEF ServerTyped, ServerRoom, Away, Server
<1>1. CASE kind = "join" /\ Joins(r, u)
  <2> DEFINE t == [truth EXCEPT ![r].joined = @ \cup {u},
                                ![r].owner = IF r \in Private /\ @ = None /\ truth[r].joined = {}
                                             THEN u ELSE @]
  <2>1. truth' = t
    BY <1>1 DEF Joins
  <2>2. \A q \in RoomNames : t[q].joined \subseteq truth[q].joined \cup {u}
    OBVIOUS
  <2> HIDE DEF t
  <2> QED BY <1>1, <2>1, <2>2
<1>2. CASE Leaves(r, u)
  <2>1. truth' = [truth EXCEPT ![r].joined = @ \ {u}]
    BY <1>2 DEF Leaves
  <2> QED BY <2>1
<1>3. CASE SetsTicker(r, u)
  <2>1. truth' = [truth EXCEPT ![r].tickers = @ \cup {u}]
    BY <1>3 DEF SetsTicker
  <2> QED BY <2>1
<1>4. CASE Revokes(r, u)
  <2> DEFINE left == [truth EXCEPT ![r].members = @ \ {u}, ![r].joined = @ \ {u}]
  <2> DEFINE t == [left EXCEPT ![r].operators = @ \ {u}]
  <2>1. truth' = t
    BY <1>4 DEF Revokes
  <2>2. /\ left \in [RoomNames -> ServerRoom]
        /\ \A q \in RoomNames : left[q].joined \subseteq truth[q].joined
    OBVIOUS
  <2> HIDE DEF left
  <2>3. \A q \in RoomNames : t[q].joined = left[q].joined
    BY <2>2
  <2> HIDE DEF t
  <2> QED BY <2>1, <2>2, <2>3
<1>5. CASE Disowns(r, u)
  <2> DEFINE gone == truth[r].members
  <2> DEFINE t == [truth EXCEPT ![r].owner = None, ![r].members = {}, ![r].operators = {},
                                ![r].joined = @ \ gone]
  <2>1. truth' = t
    BY <1>5 DEF Disowns
  <2> HIDE DEF gone
  <2>2. \A q \in RoomNames : t[q].joined \subseteq truth[q].joined
    OBVIOUS
  <2> HIDE DEF t
  <2> QED BY <2>1, <2>2
<1>6. CASE Grants(r, u)
  <2>1. truth' = [truth EXCEPT ![r].members = @ \cup {u}]
    BY <1>6 DEF Grants
  <2> QED BY <2>1
<1>7. CASE GrantsOperator(r, u)
  <2>1. truth' = [truth EXCEPT ![r].operators = @ \cup {u}]
    BY <1>7 DEF GrantsOperator
  <2> QED BY <2>1
<1>8. CASE RevokesOperator(r, u)
  <2>1. truth' = [truth EXCEPT ![r].operators = @ \ {u}]
    BY <1>8 DEF RevokesOperator
  <2> QED BY <2>1
<1> QED BY <1>1, <1>2, <1>3, <1>4, <1>5, <1>6, <1>7, <1>8 DEF Does

---------------------------------------------------------------------------
(* The messages under way bring the rooms of the client to those of the server; *)
(* without a session it knows no room and is in none.                          *)
Follows ==
  /\ AllProper
  /\ online => \A r \in RoomNames : Brings(r, toClient, {rooms[r]}, Same(truth[r]))
  /\ ~online => toClient = <<>> /\ Away /\ \A r \in RoomNames : rooms[r] = None

(* At first there is no session, and nobody is in a room.                   *)
LEMMA FollowsInit == Init => Follows
<1> SUFFICES ASSUME Init PROVE Follows
  OBVIOUS
<1>1. None \notin Users /\ Me # None
  BY RoomsAssumption DEF Users, RoomsAssumption
<1>2. ProperRoom(New) /\ New.joined = {}
  BY DEF ProperRoom, SoundRoom, New
<1>3. ASSUME NEW room \in Existing
      PROVE  ProperRoom(room) /\ room.joined = {}
  <2>1. PICK o \in Users, m \in Users : room = [New EXCEPT !.owner = o, !.members = {m} \ {o}]
    BY DEF Existing
  <2>2. room.owner = o /\ room.operators = {} /\ room.joined = {}
    BY <2>1 DEF New
  <2> QED BY <1>1, <2>2 DEF ProperRoom, SoundRoom
<1>4. \A r \in RoomNames : truth[r] \in {New} \cup Existing
  BY DEF Init
<1>5. \A r \in RoomNames : ProperRoom(truth[r]) /\ truth[r].joined = {}
  BY <1>2, <1>3, <1>4
<1> QED BY <1>5 DEF Init, Follows, AllProper, Away

(* What the server says comes after what is under way.                         *)
LEMMA TellsFollows ==
  ASSUME RoomsInv, Follows, Tells, UNCHANGED <<rooms, online>>, ~online => Away'
  PROVE  Follows'
<1>1. PICK t \in [RoomNames -> ServerRoom] : \E messages :
        /\ Server(t, messages)
        /\ \A q \in RoomNames : /\ ProperRoom(t[q])
                                /\ Brings(q, messages, Same(truth[q]), Same(t[q]))
  BY DEF Tells
<1>2. PICK messages :
        /\ Server(t, messages)
        /\ \A q \in RoomNames : /\ ProperRoom(t[q])
                                /\ Brings(q, messages, Same(truth[q]), Same(t[q]))
  BY <1>1
<1>3. truth' = t /\ toClient' = IF online THEN toClient \o messages ELSE <<>>
  BY <1>2 DEF Server
<1>4. AllProper'
  BY <1>2, <1>3 DEF AllProper
<1>5. CASE online
  <2>1. ASSUME NEW r \in RoomNames
        PROVE  Brings(r, toClient \o messages, {rooms[r]}, Same(t[r]))
    <3>1. Brings(r, toClient, {rooms[r]}, Same(truth[r]))
      BY <1>5 DEF Follows
    <3> QED BY <1>2, <3>1, BringsOn
  <2> QED BY <1>3, <1>4, <1>5, <2>1 DEF Follows
<1>6. CASE ~online
  BY <1>3, <1>4, <1>6 DEF Follows
<1> QED BY <1>5, <1>6

(* Another user does something.                                             *)
LEMMA ChangeFollows == RoomsInv /\ Follows /\ Change => Follows'
<1> SUFFICES ASSUME RoomsInv, Follows, Change PROVE Follows'
  OBVIOUS
<1>1. PICK by \in Others, kind \in OwnKinds \cup UserKinds, r \in RoomNames, u \in Users :
        May(by, kind, r, u) /\ Does(kind, r, u)
  BY DEF Change
<1>2. ServerTyped /\ AllProper /\ by \in Users /\ by # Me
  BY RoomsAssumption DEF RoomsInv, Follows, Users, RoomsAssumption
<1>3. Tells
  BY <1>1, <1>2, DoesTells
<1>4. ~online => Away'
  <2>1. kind = "join" => u # Me
    BY <1>1, <1>2 DEF May, OwnKinds
  <2> QED BY <1>1, <1>2, <2>1, StaysAway DEF Follows
<1> QED BY <1>3, <1>4, TellsFollows DEF Change

(* The server serves a request of ours.                                     *)
LEMMA ServeFollows == RoomsInv /\ Follows /\ Serve => Follows'
<1> SUFFICES ASSUME RoomsInv, Follows, Serve PROVE Follows'
  OBVIOUS
<1> DEFINE m == Head(toServer)
<1>1. m \in Commands /\ online /\ ServerTyped /\ AllProper /\ Me \in Users
  BY DEF Serve, RoomsInv, LinesTyped, Follows, Users
<1>2. CASE m.kind = "list"
  <2>1. Server(truth, RoomList(truth))
    BY <1>2 DEF Serve
  <2>2. \A q \in RoomNames : /\ ProperRoom(truth[q])
                             /\ Brings(q, RoomList(truth), Same(truth[q]), Same(truth[q]))
    BY <1>1, ListUpdateSays DEF AllProper, ProperRoom, ServerTyped
  <2>3. Tells
    BY <1>1, <2>1, <2>2 DEF Tells, ServerTyped
  <2> QED BY <1>1, <2>3, TellsFollows DEF Serve
<1>3. CASE m.kind # "list" /\ May(Me, m.kind, m.room, m.user)
  <2>1. Does(m.kind, m.room, m.user)
    BY <1>3 DEF Serve
  <2>2. m.room \in RoomNames /\ m.user \in Users
    BY <1>1, <1>3, CommandKinds
  <2>3. Tells
    BY <1>1, <1>3, <2>1, <2>2, DoesTells
  <2> QED BY <1>1, <2>3, TellsFollows DEF Serve
<1>4. CASE m.kind # "list" /\ ~May(Me, m.kind, m.room, m.user)
  <2>1. Server(truth, <<>>)
    BY <1>4 DEF Serve
  <2>2. \A q \in RoomNames : /\ ProperRoom(truth[q])
                             /\ Brings(q, <<>>, Same(truth[q]), Same(truth[q]))
    BY <1>1, SetsTyped, BringsNothing DEF AllProper
  <2>3. Tells
    BY <1>1, <2>1, <2>2 DEF Tells, ServerTyped
  <2> QED BY <1>1, <2>3, TellsFollows DEF Serve
<1> QED BY <1>2, <1>3, <1>4

(* A message is handled.                                                    *)
LEMMA HandleFollows == Follows /\ Handle => Follows'
<1> SUFFICES ASSUME Follows, Handle PROVE Follows'
  OBVIOUS
<1>1. /\ online /\ toClient # <<>> /\ toClient' = Tail(toClient)
      /\ rooms' = RoomsAfter(Head(toClient)) /\ UNCHANGED <<truth, online>>
  BY DEF Handle
<1>2. ASSUME NEW r \in RoomNames
      PROVE  Brings(r, toClient', {rooms'[r]}, Same(truth[r]))
  <2>1. Brings(r, toClient, {rooms[r]}, Same(truth[r]))
    BY <1>1 DEF Follows
  <2>2. rooms'[r] = After(r, rooms[r], Head(toClient))
    BY <1>1 DEF RoomsAfter
  <2> QED BY <1>1, <2>1, <2>2, BringsRest
<1> QED BY <1>1, <1>2 DEF Follows, AllProper

(* A session begins with the list; it ends with no room.                    *)
LEMMA SessionFollows ==
  RoomsInv /\ Follows /\ (SessionInitialized \/ ConnectionClosed) => Follows'
<1> SUFFICES ASSUME RoomsInv, Follows, SessionInitialized \/ ConnectionClosed PROVE Follows'
  OBVIOUS
<1>1. CASE SessionInitialized
  <2>1. ~online /\ online' /\ toClient' = ListUpdate(truth) /\ UNCHANGED <<truth, rooms>>
    BY <1>1 DEF SessionInitialized
  <2>2. ASSUME NEW r \in RoomNames
        PROVE  Brings(r, ListUpdate(truth), {rooms[r]}, Same(truth[r]))
    <3>1. rooms[r] \in Seen(truth[r])
      BY <2>1 DEF Follows, Away, Seen, Presence, Known
    <3>2. Brings(r, ListUpdate(truth), Seen(truth[r]), Same(truth[r]))
      BY ListUpdateSays DEF RoomsInv, ServerTyped, Follows, AllProper, ProperRoom
    <3> QED BY <3>1, <3>2, BringsLess
  <2> QED BY <2>1, <2>2 DEF Follows, AllProper
<1>2. CASE ConnectionClosed
  <2>1. /\ ~online' /\ toClient' = <<>> /\ rooms' = [r \in RoomNames |-> None]
        /\ truth' = [r \in RoomNames |-> [truth[r] EXCEPT !.joined = truth[r].joined \ {Me}]]
    BY <1>2 DEF ConnectionClosed
  <2>2. ASSUME NEW r \in RoomNames
        PROVE  ProperRoom(truth'[r]) /\ Me \notin truth'[r].joined
    <3> DEFINE s == truth[r]
    <3>1. s \in ServerRoom /\ ProperRoom(s)
      BY DEF RoomsInv, ServerTyped, Follows, AllProper
    <3>2. truth'[r] = [s EXCEPT !.joined = s.joined \ {Me}]
      BY <2>1
    <3>3. /\ truth'[r].joined = s.joined \ {Me} /\ truth'[r].owner = s.owner
          /\ truth'[r].members = s.members /\ truth'[r].operators = s.operators
      BY <3>1, <3>2 DEF ServerRoom
    <3> QED BY <3>1, <3>3 DEF ProperRoom, SoundRoom, Entitled
  <2> QED BY <2>1, <2>2 DEF Follows, AllProper, Away
<1> QED BY <1>1, <1>2

(* Every step.                                                              *)
LEMMA FollowsNext == RoomsInv /\ Follows /\ [Next]_vars => Follows'
<1> SUFFICES ASSUME RoomsInv, Follows, [Next]_vars PROVE Follows'
  OBVIOUS
<1>1. CASE UNCHANGED <<truth, rooms, toClient, online>>
  BY <1>1 DEF Follows, AllProper, Away
<1>2. \/ Change \/ Serve \/ Handle \/ SessionInitialized \/ ConnectionClosed
      \/ UNCHANGED <<truth, rooms, toClient, online>>
  BY DEF Next, vars, CompleteFutures, Execute, Return
<1> QED BY <1>1, <1>2, ChangeFollows, ServeFollows, HandleFollows, SessionFollows

(* RoomsAgree: when no message is under way the rooms of the client are those of *)
(* the server, however the changes of the others, our own requests and lost     *)
(* sessions came in between.                                                  *)
THEOREM RoomsFollow == Spec => []RoomsAgree
<1>1. RoomsInv /\ Follows => RoomsAgree
  <2> SUFFICES ASSUME RoomsInv, Follows, online, toClient = <<>>, NEW r \in RoomNames
               PROVE  IF rooms[r] = None
                      THEN Me \notin AllMembers(truth, r) \cup truth[r].joined
                      ELSE /\ Agrees(rooms[r], truth[r])
                           /\ Me \in AllMembers(truth, r) =>
                                /\ rooms[r].private
                                /\ rooms[r].members = truth[r].members
                                /\ rooms[r].operators = truth[r].operators
    BY DEF RoomsAgree
  <2>1. {rooms[r]} \in SUBSET Known /\ Brings(r, <<>>, {rooms[r]}, Same(truth[r]))
    BY DEF RoomsInv, RoomsTyped, Follows
  <2>2. rooms[r] \in Same(truth[r])
    BY <2>1, SetsTyped, BringsNothing
  <2>3. AllMembers(truth, r) = Entitled(truth[r])
    BY DEF AllMembers, Entitled
  <2>4. rooms[r].joined \in BOOLEAN \/ rooms[r] = None
    BY DEF RoomsInv, RoomsTyped, Known, Room
  <2> QED BY <2>2, <2>3, <2>4 DEF Same, Presence, Rights, Agrees
<1>2. Init => Follows
  BY FollowsInit
<1>3. RoomsInv /\ RoomsInv' /\ Follows /\ [Next]_vars => Follows'
  BY FollowsNext
<1>4. Spec => []Follows
  BY <1>2, <1>3, RoomsInvariant, PTL DEF Spec
<1> QED BY <1>1, <1>4, RoomsInvariant, PTL
=============================================================================
