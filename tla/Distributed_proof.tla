--------------------------- MODULE Distributed_proof ---------------------------
(***************************************************************************)
(* What the distributed network keeps for any connections, users, levels and   *)
(* limits: types, the agreement of parent, candidates and connections, of what  *)
(* server and children were told, and that nobody waits in a circle.             *)
(***************************************************************************)
EXTENDS Distributed, TLAPS

Advertised == Places(Names \cup {None}, Levels \cup {None})
Told       == Places(Names \cup {None}, Nat \cup {None})
Send       == [why : {"set", "unset", "session"}, conn : Conns \cup {None}]

(* Peers were connected, and nothing is known of who is no peer.                *)
PeersKnown ==
  \A c \in Conns :
    /\ c \in peers => link[c] \in {"open", "closing", "closed"}
    /\ c \notin peers => branch[c] = Unknown

(* The values of a parent stay complete, so that our place is known.             *)
ParentComplete == parent # None => Complete(branch[parent])

(* Who waits for a message to the server is the handler that sent it, once; a     *)
(* parent that is to be forgotten is closed.                                  *)
SendsKnown ==
  /\ \A i \in DOMAIN sends :
       /\ sends[i].why = "set" => sends[i].conn \in Conns /\ reader[sends[i].conn] = "server"
       /\ sends[i].why = "unset" => sends[i].conn \in Conns /\ link[sends[i].conn] = "closed"
  /\ \A i, j \in DOMAIN sends :
       sends[i].why = "set" /\ sends[j].why = "set" /\ sends[i].conn = sends[j].conn => i = j

ReadersKnown ==
  /\ reader[Server] \in {"reads", "children", "parent"}
  /\ \A c \in Conns : reader[c] \in {"reads", "tasks", "others", "server"}

(* Someone sets a parent and has not told the server yet.                       *)
Setting == \E c \in Conns : reader[c] \in {"tasks", "others"}

ServerTold == session => Setting \/ (serverTold.search <=> parent = None)

(* The children are told when the last of those who wait is.                    *)
Informed == \A c \in children : link[c] = "open" => told[c] = Place

LastTells ==
  \E j \in DOMAIN sends :
    /\ sends[j].why # "session" /\ (sends[j].why = "unset" => parent = None)
    /\ \A k \in DOMAIN sends : k > j => sends[k].why = "session"

NobodyTells == \A k \in DOMAIN sends : sends[k].why = "session"

ChildrenTold ==
  spent.losses = 0 /\ spent.failures = 0 =>
    session /\ (Setting \/ LastTells \/ (NobodyTells /\ Informed))

DistInv ==
  /\ TypeOK /\ PeersKnown /\ ParentAgrees /\ ParentComplete /\ SendsKnown /\ ReadersKnown
  /\ AwaitedEnds /\ ServerTold /\ ClosedIsForgotten /\ ChildrenTold

---------------------------------------------------------------------------
(* Closing is not taken back.                                                 *)
ClosedStays ==
  \A c \in Conns :
    /\ link[c] \in {"closing", "closed"} => link'[c] \in {"closing", "closed"}
    /\ link[c] = "closed" => link'[c] = "closed"

(* What most steps do to connections: they open none and close none for good      *)
(* that was open.                                                             *)
OnlyEnds ==
  \A c \in Conns :
    \/ link'[c] = link[c]
    \/ link[c] = "open" /\ link'[c] = "closing"
    \/ link[c] = "none" /\ link'[c] = "connecting"
    \/ link[c] = "connecting" /\ link'[c] = "closed"

NoLoss == spent'.losses = spent.losses /\ spent'.failures = spent.failures

(* The types of the variables that are functions or sequences.                   *)
LEMMA Facts ==
  ASSUME DistInv
  PROVE  /\ link \in [Conns -> {"none", "connecting", "open", "closing", "closed"}]
         /\ branch \in [Conns -> Advertised] /\ told \in [Conns -> Told]
         /\ sends \in Seq(Send) /\ reader \in [Readers ->
               {"reads", "tasks", "others", "server", "children", "parent"}]
         /\ awaited \in [Readers -> SUBSET Conns]
         /\ spent \in [{"messages", "losses", "failures"} -> Nat]
         /\ None \notin Conns /\ Server \notin Conns /\ Conns \subseteq Readers
         /\ Server \in Readers
BY DistributedAssumption DEF DistInv, TypeOK, Advertised, Told, Send, Readers

(* A place has a root and a level, as a parent has advertised both.               *)
LEMMA PlaceType ==
  ASSUME NEW p, NEW b \in [Conns -> Advertised], p \in Conns \cup {None},
         p # None => Complete(b[p])
  PROVE  (IF p = None \/ b[p].root = Me THEN At(Me, 0) ELSE At(b[p].root, b[p].level + 1))
           \in Places(Names, Nat)
<1>1. At(Me, 0) \in Places(Names, Nat)
  BY DEF At, Places, Names
<1>2. ASSUME p # None
      PROVE  At(b[p].root, b[p].level + 1) \in Places(Names, Nat)
  <2>1. b[p] \in Advertised /\ b[p].level # None /\ b[p].root # None
    BY <1>2 DEF Complete
  <2>2. b[p].level \in Nat /\ b[p].root \in Names
    BY <2>1, DistributedAssumption DEF Advertised, Places
  <2>3. b[p].level + 1 \in Nat
    BY <2>2
  <2> QED BY <2>2, <2>3 DEF At, Places
<1> QED BY <1>1, <1>2

(* Our place can be told.                                                      *)
LEMMA PlaceKnown ==
  ASSUME DistInv
  PROVE  Place \in Places(Names, Nat) /\ Place \in Told
<1>1. Place \in Places(Names, Nat)
  BY PlaceType, Facts DEF Place, DistInv, TypeOK, ParentComplete
<1>2. Places(Names, Nat) \subseteq Told
  BY DEF Places, Told
<1> QED BY <1>1, <1>2

(* Connections that only end leave peers, parent and candidates in agreement.      *)
LEMMA TreeStays ==
  ASSUME DistInv, OnlyEnds, UNCHANGED <<peers, branch, parent, children>>
  PROVE  PeersKnown' /\ ParentAgrees' /\ ParentComplete'
<1>1. PeersKnown'
  BY DEF DistInv, PeersKnown, OnlyEnds
<1>2. ParentIsThere'
  BY Facts DEF DistInv, TypeOK, ParentAgrees, ParentIsThere, OnlyEnds
<1>3. CandidateIsParent'
  BY Facts DEF DistInv, TypeOK, ParentAgrees, CandidateIsParent, Complete, OnlyEnds
<1>4. ParentComplete'
  BY DEF DistInv, ParentComplete, Complete
<1> QED BY <1>1, <1>2, <1>3, <1>4 DEF ParentAgrees

(* What is closing or closed stays so.                                          *)
LEMMA EndsAreFinal ==
  ASSUME DistInv, OnlyEnds
  PROVE  ClosedStays
BY DEF OnlyEnds, ClosedStays

(* A step that lets all who wait go on waiting.                                 *)
LEMMA WaitersStay ==
  ASSUME DistInv, ClosedStays, UNCHANGED <<reader, awaited, sends>>
  PROVE  SendsKnown' /\ ReadersKnown' /\ AwaitedEnds' /\ (Setting' <=> Setting)
<1>1. SendsKnown'
  BY DEF DistInv, SendsKnown, ClosedStays
<1>2. ReadersKnown'
  BY DEF DistInv, ReadersKnown
<1>3. AwaitedEnds'
  BY Facts DEF DistInv, AwaitedEnds, ClosedStays
<1>4. Setting' <=> Setting
  BY DEF Setting
<1> QED BY <1>1, <1>2, <1>3, <1>4

(* A step of which server and those who wait notice nothing.                     *)
LEMMA QuietStep ==
  ASSUME DistInv, ClosedStays, TypeOK', PeersKnown', ParentAgrees', ParentComplete', NoLoss,
         UNCHANGED <<reader, awaited, sends, session, parent, serverTold>>,
         \A c \in peers' : link'[c] = "closed" => c \in peers /\ link[c] = "closed",
         session /\ Informed => Informed'
  PROVE  DistInv'
<1>1. SendsKnown' /\ ReadersKnown' /\ AwaitedEnds' /\ (Setting' <=> Setting)
  BY WaitersStay
<1>2. ServerTold'
  BY <1>1 DEF DistInv, ServerTold
<1>3. ClosedIsForgotten'
  BY DEF DistInv, ClosedIsForgotten, NoLoss
<1>4. (LastTells' <=> LastTells) /\ (NobodyTells' <=> NobodyTells)
  BY DEF LastTells, NobodyTells
<1>5. ChildrenTold'
  BY <1>1, <1>4 DEF DistInv, ChildrenTold, NoLoss
<1> QED BY <1>1, <1>2, <1>3, <1>5 DEF DistInv

(* Connections that only end, too.                                             *)
LEMMA QuietEnds ==
  ASSUME DistInv, OnlyEnds, TypeOK', NoLoss,
         UNCHANGED <<tree, reader, awaited, sends, session, told, serverTold>>
  PROVE  DistInv'
<1>1. PeersKnown' /\ ParentAgrees' /\ ParentComplete' /\ ClosedStays
  BY TreeStays, EndsAreFinal DEF tree
<1>2. \A c \in peers' : link'[c] = "closed" => c \in peers /\ link[c] = "closed"
  BY Facts DEF DistInv, TypeOK, PeersKnown, OnlyEnds, tree
<1>3. Informed => Informed'
  BY Facts DEF DistInv, TypeOK, Informed, OnlyEnds, Place, tree
<1> QED BY <1>1, <1>2, <1>3, QuietStep DEF tree

---------------------------------------------------------------------------
(* A connection breaks, and nobody has noticed yet.                             *)
LEMMA ConnectionLostKeeps ==
  ASSUME DistInv, NEW c \in Conns, ConnectionLost(c)
  PROVE  DistInv'
<1>1. OnlyEnds
  BY Facts DEF ConnectionLost, OnlyEnds
<1>2. TypeOK'
  BY DEF DistInv, TypeOK, ConnectionLost, tree, server, advised, control
<1>3. NoLoss
  BY DEF ConnectionLost, NoLoss
<1> QED BY <1>1, <1>2, <1>3, QuietEnds DEF ConnectionLost, server, advised, control

(* An attempt for a peer that asked for it.                                    *)
LEMMA ConnectToPeerKeeps ==
  ASSUME DistInv, NEW c \in Conns, ConnectToPeer(c)
  PROVE  DistInv'
<1>1. OnlyEnds
  BY Facts DEF ConnectToPeer, OnlyEnds
<1>2. TypeOK'
  BY DEF DistInv, TypeOK, ConnectToPeer, tree, server, advised, control
<1>3. NoLoss
  BY DEF ConnectToPeer, NoLoss
<1> QED BY <1>1, <1>2, <1>3, QuietEnds DEF ConnectToPeer, server, advised, control

(* Attempts for the users that the server named.                               *)
LEMMA PotentialParentsKeeps ==
  ASSUME DistInv, NEW cs \in SUBSET Conns, PotentialParents(cs)
  PROVE  DistInv'
<1>1. OnlyEnds
  BY Facts DEF PotentialParents, OnlyEnds
<1>2. TypeOK'
  <2>1. {UserOf[c] : c \in cs} \subseteq Users
    BY DistributedAssumption
  <2> QED BY <2>1 DEF DistInv, TypeOK, PotentialParents, tree, advised, control
<1>3. NoLoss
  BY DEF PotentialParents, NoLoss
<1> QED BY <1>1, <1>2, <1>3, QuietEnds DEF PotentialParents, advised, control

(* An attempt fails; it was no peer yet.                                       *)
LEMMA ConnectFailedKeeps ==
  ASSUME DistInv, NEW c \in Conns, ConnectFailed(c)
  PROVE  DistInv'
<1>1. OnlyEnds
  BY Facts DEF ConnectFailed, OnlyEnds
<1>2. TypeOK'
  BY DEF DistInv, TypeOK, ConnectFailed, tree, server, advised, control
<1>3. NoLoss
  BY DEF ConnectFailed, NoLoss
<1> QED BY <1>1, <1>2, <1>3, QuietEnds DEF ConnectFailed, server, advised, control

(* Counting a message counts no loss.                                         *)
LEMMA CountKeepsLosses ==
  ASSUME DistInv, CountMessage
  PROVE  NoLoss /\ spent' \in [{"messages", "losses", "failures"} -> Nat]
BY Facts DEF CountMessage, NoLoss

(* The limit concerns only those who are to be children.                         *)
LEMMA UserStatsKeeps ==
  ASSUME DistInv, NEW n \in Limits, UserStats(n)
  PROVE  DistInv'
<1>1. OnlyEnds
  BY DEF UserStats, OnlyEnds, links
<1>2. TypeOK'
  BY CountKeepsLosses DEF DistInv, TypeOK, UserStats, links, tree, advised, control
<1> QED BY <1>1, <1>2, CountKeepsLosses, QuietEnds DEF UserStats, advised, control

---------------------------------------------------------------------------
(* The reader of the server connection goes through a reset.                    *)
LEMMA ServerReads ==
  ASSUME DistInv, OnlyEnds, TypeOK', NoLoss,
         UNCHANGED <<tree, sends, session, told, serverTold>>,
         NEW x \in {"reads", "children", "parent"}, NEW w \in SUBSET Conns,
         reader' = [reader EXCEPT ![Server] = x], awaited' = [awaited EXCEPT ![Server] = w],
         x # "reads" => \A c \in w : link'[c] \in {"closing", "closed"}
  PROVE  DistInv'
<1>1. PeersKnown' /\ ParentAgrees' /\ ParentComplete' /\ ClosedStays
  BY TreeStays, EndsAreFinal DEF tree
<1>2. /\ reader'[Server] = x /\ awaited'[Server] = w
      /\ \A c \in Conns : reader'[c] = reader[c] /\ awaited'[c] = awaited[c]
  BY Facts
<1>3. SendsKnown'
  BY <1>1, <1>2 DEF DistInv, SendsKnown, ClosedStays
<1>4. ReadersKnown' /\ (Setting' <=> Setting)
  BY <1>2 DEF DistInv, ReadersKnown, Setting
<1>5. AwaitedEnds'
  <2>1. ASSUME NEW c \in Conns
        PROVE  /\ reader'[c] \in {"others", "children", "parent"} =>
                    \A d \in awaited'[c] : link'[d] \in {"closing", "closed"}
               /\ reader'[c] = "server" =>
                    \E i \in DOMAIN sends' : sends'[i] = [why |-> "set", conn |-> c]
    <3>1. awaited[c] \subseteq Conns /\ c \in Readers
      BY Facts
    <3> QED BY <1>1, <1>2, <3>1 DEF DistInv, AwaitedEnds, ClosedStays
  <2> QED BY <1>2, <2>1 DEF AwaitedEnds, Readers
<1>6. ServerTold'
  BY <1>4 DEF DistInv, ServerTold, tree
<1>7. \A c \in peers : link'[c] = "closed" => link[c] = "closed"
  BY Facts DEF DistInv, TypeOK, PeersKnown, OnlyEnds
<1>8. ClosedIsForgotten'
  BY <1>7 DEF DistInv, ClosedIsForgotten, NoLoss, tree
<1>9. (LastTells' <=> LastTells) /\ (NobodyTells' <=> NobodyTells)
  BY DEF LastTells, NobodyTells, tree
<1>10. Informed => Informed'
  BY Facts DEF DistInv, TypeOK, Informed, OnlyEnds, Place, tree
<1>11. ChildrenTold'
  BY <1>4, <1>9, <1>10 DEF DistInv, ChildrenTold, NoLoss
<1> QED BY <1>1, <1>3, <1>4, <1>5, <1>6, <1>8, <1>11 DEF DistInv

(* A reset waits for the children that it closes.                              *)
LEMMA ResetDistributedKeeps ==
  ASSUME DistInv, ResetDistributed
  PROVE  DistInv'
<1> DEFINE w == Open(children)
<1>1. OnlyEnds
  BY Facts DEF ResetDistributed, OnlyEnds, Open
<1>2. w \in SUBSET Conns /\ \A c \in w : link'[c] \in {"closing", "closed"}
  BY Facts DEF ResetDistributed, Open, DistInv, TypeOK
<1>3. /\ reader' = [reader EXCEPT ![Server] = "children"]
      /\ awaited' = [awaited EXCEPT ![Server] = w]
      /\ UNCHANGED <<tree, sends, session, told, serverTold>>
  BY DEF ResetDistributed, server, advised
<1>4. NoLoss /\ spent' \in [{"messages", "losses", "failures"} -> Nat]
  BY CountKeepsLosses DEF ResetDistributed
<1> HIDE DEF w
<1>5. TypeOK'
  BY <1>2, <1>3, <1>4, Facts
  DEF DistInv, TypeOK, ResetDistributed, tree, server, advised
<1> QED BY <1>1, <1>2, <1>3, <1>4, <1>5, ServerReads

(* Then for the parent.                                                        *)
LEMMA ResetParentKeeps ==
  ASSUME DistInv, ResetParent
  PROVE  DistInv'
<1> DEFINE w == Open({parent} \ {None})
<1>1. OnlyEnds
  BY Facts DEF ResetParent, OnlyEnds, Open
<1>2. w \in SUBSET Conns /\ \A c \in w : link'[c] \in {"closing", "closed"}
  BY Facts DEF ResetParent, Open, DistInv, TypeOK
<1>3. /\ reader' = [reader EXCEPT ![Server] = "parent"]
      /\ awaited' = [awaited EXCEPT ![Server] = w]
      /\ UNCHANGED <<tree, sends, session, told, serverTold>>
  BY DEF ResetParent, server, advised
<1>4. NoLoss
  BY DEF ResetParent, NoLoss
<1> HIDE DEF w
<1>5. TypeOK'
  BY <1>2, <1>3, Facts DEF DistInv, TypeOK, ResetParent, tree, server, advised
<1> QED BY <1>1, <1>2, <1>3, <1>4, <1>5, ServerReads

(* Then for nobody.                                                            *)
LEMMA ResetDoneKeeps ==
  ASSUME DistInv, ResetDone
  PROVE  DistInv'
<1>1. OnlyEnds
  BY DEF ResetDone, OnlyEnds, links
<1>2. /\ reader' = [reader EXCEPT ![Server] = "reads"]
      /\ awaited' = [awaited EXCEPT ![Server] = {}]
      /\ UNCHANGED <<tree, sends, session, told, serverTold>>
  BY DEF ResetDone, server, advised
<1>3. NoLoss
  BY DEF ResetDone, NoLoss
<1>4. TypeOK'
  BY <1>2, Facts DEF DistInv, TypeOK, ResetDone, links, tree, server, advised
<1> DEFINE x == "reads"  w == {}
<1>5. x \in {"reads", "children", "parent"} /\ x = "reads" /\ w \in SUBSET Conns
  OBVIOUS
<1>6. reader' = [reader EXCEPT ![Server] = x] /\ awaited' = [awaited EXCEPT ![Server] = w]
  BY <1>2
<1> HIDE DEF x, w
<1> QED BY <1>1, <1>2, <1>3, <1>4, <1>5, <1>6, ServerReads

---------------------------------------------------------------------------
(* Without a session the server knows nothing and nothing is promised.             *)
LEMMA SessionDestroyedKeeps ==
  ASSUME DistInv, SessionDestroyed
  PROVE  DistInv'
<1>1. spent'.losses = spent.losses + 1 /\ spent'.failures = spent.failures /\ spent.losses \in Nat
      /\ spent' \in [{"messages", "losses", "failures"} -> Nat]
  BY Facts DEF SessionDestroyed
<1>2. TypeOK'
  BY <1>1 DEF DistInv, TypeOK, SessionDestroyed, links, tree, advised, control
<1>3. OnlyEnds /\ UNCHANGED <<tree, reader, awaited, sends>> /\ ~session' /\ UNCHANGED link
  BY DEF SessionDestroyed, OnlyEnds, links, control
<1>4. PeersKnown' /\ ParentAgrees' /\ ParentComplete' /\ ClosedStays
  BY <1>3, TreeStays, EndsAreFinal DEF tree
<1>5. SendsKnown' /\ ReadersKnown' /\ AwaitedEnds'
  BY <1>3, <1>4, WaitersStay
<1>6. ServerTold'
  BY <1>3 DEF ServerTold
<1>7. ClosedIsForgotten'
  BY <1>1, <1>3 DEF DistInv, ClosedIsForgotten, tree
<1>8. ChildrenTold'
  <2>1. spent'.losses # 0
    BY <1>1
  <2> QED BY <2>1 DEF ChildrenTold
<1> QED BY <1>2, <1>4, <1>5, <1>6, <1>7, <1>8 DEF DistInv

(* A message to the server: who sent it waits after the others.                 *)
LEMMA Appended ==
  ASSUME DistInv, NEW why \in {"set", "unset", "session"}, NEW c \in Conns \cup {None},
         sends' = Append(sends, [why |-> why, conn |-> c])
  PROVE  /\ sends' \in Seq(Send) /\ Len(sends') = Len(sends) + 1 /\ Len(sends) \in Nat
         /\ DOMAIN sends' = 1..(Len(sends) + 1) /\ DOMAIN sends = 1..Len(sends)
         /\ \A i \in DOMAIN sends : i \in DOMAIN sends' /\ sends'[i] = sends[i]
         /\ sends'[Len(sends) + 1] = [why |-> why, conn |-> c]
<1>1. [why |-> why, conn |-> c] \in Send /\ sends \in Seq(Send)
  BY Facts DEF Send
<1> QED BY <1>1

(* A new session is told our place at once.                                     *)
LEMMA SessionInitializedKeeps ==
  ASSUME DistInv, SessionInitialized
  PROVE  DistInv'
<1>1. /\ serverTold' = [place |-> Place', search |-> parent' = None]
      /\ sends' = Append(sends, [why |-> "session", conn |-> None])
      /\ UNCHANGED <<links, tree, potential, limit, told, reader, awaited, spent>>
      /\ session' = TRUE /\ ~session
  BY DEF SessionInitialized, TellServer
<1>2. /\ sends' \in Seq(Send) /\ Len(sends') = Len(sends) + 1 /\ Len(sends) \in Nat
      /\ DOMAIN sends' = 1..(Len(sends) + 1) /\ DOMAIN sends = 1..Len(sends)
      /\ \A i \in DOMAIN sends : i \in DOMAIN sends' /\ sends'[i] = sends[i]
      /\ sends'[Len(sends) + 1] = [why |-> "session", conn |-> None]
  BY <1>1, Appended
<1>3. OnlyEnds /\ UNCHANGED <<tree, link>>
  BY <1>1 DEF OnlyEnds, links
<1>4. PeersKnown' /\ ParentAgrees' /\ ParentComplete' /\ ClosedStays
  BY <1>3, TreeStays, EndsAreFinal DEF tree
<1>5. TypeOK'
  <2>1. serverTold' \in [place : Places(Names, Nat), search : BOOLEAN]
    <3>1. Place' = Place
      BY <1>3 DEF Place, tree
    <3> QED BY <1>1, <3>1, PlaceKnown
  <2> QED BY <1>1, <1>2, <2>1 DEF DistInv, TypeOK, links, tree, Send
<1>6. SendsKnown'
  BY <1>1, <1>2, <1>3 DEF DistInv, SendsKnown
<1>7. ReadersKnown'
  BY <1>1 DEF DistInv, ReadersKnown
<1>8. AwaitedEnds'
  BY <1>1, <1>2, <1>3 DEF DistInv, AwaitedEnds
<1>9. ServerTold'
  BY <1>1 DEF ServerTold
<1>10. ClosedIsForgotten'
  BY <1>1, <1>2, <1>3 DEF DistInv, ClosedIsForgotten, tree
<1>11. ChildrenTold'
  BY <1>1 DEF DistInv, ChildrenTold
<1> QED BY <1>4, <1>5, <1>6, <1>7, <1>8, <1>9, <1>10, <1>11 DEF DistInv

(* The first of those who wait goes on, and the others move up.                 *)
LEMMA MovedUp ==
  ASSUME DistInv, sends # <<>>, sends' = Tail(sends)
  PROVE  /\ sends' \in Seq(Send) /\ Head(sends) = sends[1] /\ 1 \in DOMAIN sends
         /\ sends[1] \in Send /\ Len(sends) \in Nat
         /\ DOMAIN sends = 1..Len(sends) /\ DOMAIN sends' = 1..(Len(sends) - 1)
         /\ \A i \in DOMAIN sends' : i + 1 \in DOMAIN sends /\ sends'[i] = sends[i + 1]
         /\ \A i \in DOMAIN sends : i # 1 => i - 1 \in DOMAIN sends' /\ sends'[i - 1] = sends[i]
<1>1. sends \in Seq(Send)
  BY Facts
<1> QED BY <1>1

(* The handler whose message was written or failed reads again.                    *)
LEMMA HeadGoes ==
  ASSUME DistInv, sends # <<>>, sends' = Tail(sends), UNCHANGED <<link, awaited>>,
         reader' = IF Head(sends).why = "set"
                   THEN [reader EXCEPT ![Head(sends).conn] = "reads"] ELSE reader
  PROVE  /\ SendsKnown' /\ ReadersKnown' /\ AwaitedEnds' /\ (Setting' <=> Setting)
         /\ reader' \in [Readers -> {"reads", "tasks", "others", "server", "children", "parent"}]
<1> DEFINE c == Head(sends).conn
<1>1. /\ Head(sends) = sends[1] /\ 1 \in DOMAIN sends
      /\ DOMAIN sends = 1..Len(sends) /\ DOMAIN sends' = 1..(Len(sends) - 1) /\ Len(sends) \in Nat
      /\ \A i \in DOMAIN sends' : i + 1 \in DOMAIN sends /\ sends'[i] = sends[i + 1]
      /\ \A i \in DOMAIN sends : i # 1 => i - 1 \in DOMAIN sends' /\ sends'[i - 1] = sends[i]
  BY MovedUp
<1>2. \A i \in DOMAIN sends' : i + 1 # 1 /\ i \in Nat
  BY <1>1
<1>3. CASE Head(sends).why = "set"
  <2>1. /\ c \in Conns /\ reader[c] = "server" /\ reader'[c] = "reads"
        /\ \A r \in Readers \ {c} : reader'[r] = reader[r]
        /\ reader' \in [Readers -> {"reads", "tasks", "others", "server", "children", "parent"}]
    BY <1>1, <1>3, Facts DEF DistInv, SendsKnown
  <2>2. \A i \in DOMAIN sends : i # 1 /\ sends[i].why = "set" => sends[i].conn # c
    BY <1>1, <1>3 DEF DistInv, SendsKnown
  <2>3. SendsKnown'
    <3>1. ASSUME NEW i \in DOMAIN sends'
          PROVE  /\ sends'[i].why = "set" =>
                      sends'[i].conn \in Conns /\ reader'[sends'[i].conn] = "server"
                 /\ sends'[i].why = "unset" =>
                      sends'[i].conn \in Conns /\ link'[sends'[i].conn] = "closed"
      BY <1>1, <1>2, <2>1, <2>2, Facts DEF DistInv, SendsKnown
    <3>2. ASSUME NEW i \in DOMAIN sends', NEW j \in DOMAIN sends', sends'[i].why = "set",
                 sends'[j].why = "set", sends'[i].conn = sends'[j].conn
          PROVE  i = j
      <4>1. i + 1 = j + 1
        BY <1>1, <3>2 DEF DistInv, SendsKnown
      <4> QED BY <4>1, <1>2
    <3> QED BY <3>1, <3>2 DEF SendsKnown
  <2>4. ReadersKnown'
    BY <2>1, Facts DEF DistInv, ReadersKnown
  <2>5. AwaitedEnds'
    <3>1. ASSUME NEW r \in Readers, reader'[r] = "server"
          PROVE  \E i \in DOMAIN sends' : sends'[i] = [why |-> "set", conn |-> r]
      <4>1. r # c /\ reader[r] = "server"
        BY <2>1, <3>1
      <4>2. PICK i \in DOMAIN sends : sends[i] = [why |-> "set", conn |-> r]
        BY <4>1 DEF DistInv, AwaitedEnds
      <4>3. i # 1
        BY <1>1, <4>1, <4>2
      <4> QED BY <1>1, <4>2, <4>3
    <3>2. ASSUME NEW r \in Readers, reader'[r] \in {"others", "children", "parent"}
          PROVE  \A d \in awaited'[r] : link'[d] \in {"closing", "closed"}
      BY <2>1, <3>2 DEF DistInv, AwaitedEnds
    <3> QED BY <3>1, <3>2 DEF AwaitedEnds
  <2>6. Setting' <=> Setting
    BY <2>1, Facts DEF Setting
  <2> QED BY <2>1, <2>3, <2>4, <2>5, <2>6
<1>4. CASE Head(sends).why # "set"
  <2>1. reader' = reader
    BY <1>4
  <2>2. SendsKnown'
    <3>1. ASSUME NEW i \in DOMAIN sends'
          PROVE  /\ sends'[i].why = "set" =>
                      sends'[i].conn \in Conns /\ reader'[sends'[i].conn] = "server"
                 /\ sends'[i].why = "unset" =>
                      sends'[i].conn \in Conns /\ link'[sends'[i].conn] = "closed"
      BY <1>1, <2>1 DEF DistInv, SendsKnown
    <3>2. ASSUME NEW i \in DOMAIN sends', NEW j \in DOMAIN sends', sends'[i].why = "set",
                 sends'[j].why = "set", sends'[i].conn = sends'[j].conn
          PROVE  i = j
      <4>1. i + 1 = j + 1
        BY <1>1, <3>2 DEF DistInv, SendsKnown
      <4> QED BY <4>1, <1>2
    <3> QED BY <3>1, <3>2 DEF SendsKnown
  <2>3. ReadersKnown' /\ (Setting' <=> Setting)
    BY <2>1 DEF DistInv, ReadersKnown, Setting
  <2>4. AwaitedEnds'
    <3>1. ASSUME NEW r \in Readers, reader[r] = "server"
          PROVE  \E i \in DOMAIN sends' : sends'[i] = [why |-> "set", conn |-> r]
      <4>1. PICK i \in DOMAIN sends : sends[i] = [why |-> "set", conn |-> r]
        BY <3>1 DEF DistInv, AwaitedEnds
      <4>2. i # 1
        BY <1>1, <1>4, <4>1
      <4> QED BY <1>1, <4>1, <4>2
    <3> QED BY <2>1, <3>1 DEF DistInv, AwaitedEnds
  <2> QED BY <2>1, <2>2, <2>3, <2>4, Facts
<1> QED BY <1>3, <1>4

(* A failed write ends the session.                                            *)
LEMMA SendFailedKeeps ==
  ASSUME DistInv, SendFailed
  PROVE  DistInv'
<1>1. /\ sends # <<>> /\ sends' = Tail(sends) /\ session' = FALSE
      /\ reader' = IF Head(sends).why = "set"
                   THEN [reader EXCEPT ![Head(sends).conn] = "reads"] ELSE reader
      /\ UNCHANGED <<links, tree, potential, limit, told, serverTold, awaited>>
  BY DEF SendFailed, advised
<1>2. spent' \in [{"messages", "losses", "failures"} -> Nat] /\ spent'.failures # 0
  <2>1. spent' = [spent EXCEPT !.failures = @ + 1] /\ spent.failures \in Nat
    BY Facts DEF SendFailed
  <2> QED BY <2>1, Facts
<1>3. /\ SendsKnown' /\ ReadersKnown' /\ AwaitedEnds'
      /\ reader' \in [Readers -> {"reads", "tasks", "others", "server", "children", "parent"}]
  BY <1>1, HeadGoes DEF links
<1>4. TypeOK'
  BY <1>1, <1>2, <1>3, MovedUp DEF DistInv, TypeOK, links, tree, Send
<1>5. PeersKnown' /\ ParentAgrees' /\ ParentComplete'
  BY <1>1, TreeStays DEF OnlyEnds, links, tree
<1>6. ServerTold' /\ ClosedIsForgotten' /\ ChildrenTold'
  BY <1>1, <1>2 DEF ServerTold, ClosedIsForgotten, ChildrenTold
<1> QED BY <1>3, <1>4, <1>5, <1>6 DEF DistInv

(* A peer that is closed, and thus not our parent, is forgotten.                *)
LEMMA Forgotten ==
  ASSUME DistInv, NEW c \in Conns, link'[c] = "closed", Forget(c), parent' \in {parent, None},
         c # parent', \A d \in Conns \ {c} : link'[d] = link[d],
         parent' = None /\ parent # None => parent = c
  PROVE  /\ PeersKnown' /\ ParentAgrees' /\ ParentComplete'
         /\ peers' = peers \ {c} /\ children' = children \ {c} /\ branch' \in [Conns -> Advertised]
         /\ branch'[c] = Unknown /\ \A d \in Conns \ {c} : branch'[d] = branch[d]
<1>1. /\ peers' = peers \ {c} /\ children' = children \ {c}
      /\ branch' = [branch EXCEPT ![c] = Unknown] /\ Unknown \in Advertised
  BY DEF Forget, Unknown, At, Advertised, Places
<1>2. /\ branch' \in [Conns -> Advertised] /\ branch'[c] = Unknown
      /\ \A d \in Conns \ {c} : branch'[d] = branch[d]
  BY <1>1, Facts
<1>3. PeersKnown'
  BY <1>1, <1>2 DEF DistInv, PeersKnown
<1>4. parent \in Conns \cup {None} /\ peers \subseteq Conns
  BY DEF DistInv, TypeOK
<1>5. ParentIsThere'
  BY <1>1, <1>4, Facts DEF DistInv, ParentAgrees, ParentIsThere
<1>6. CandidateIsParent'
  BY <1>1, <1>2, <1>4 DEF DistInv, ParentAgrees, CandidateIsParent, Complete
<1>7. ParentComplete'
  BY <1>2, <1>4 DEF DistInv, ParentComplete, Complete
<1> QED BY <1>1, <1>2, <1>3, <1>5, <1>6, <1>7 DEF ParentAgrees

(* Who waited tells the children our place, if it is the last that does.          *)
LEMMA SentKeeps ==
  ASSUME DistInv, Sent
  PROVE  DistInv'
<1> DEFINE c == Head(sends).conn
<1>1. /\ sends # <<>> /\ sends' = Tail(sends)
      /\ UNCHANGED <<links, parent, server, serverTold, awaited, spent>>
  BY DEF Sent
<1>2. /\ Head(sends) = sends[1] /\ 1 \in DOMAIN sends /\ sends[1] \in Send
      /\ sends' \in Seq(Send) /\ Len(sends) \in Nat
      /\ DOMAIN sends = 1..Len(sends) /\ DOMAIN sends' = 1..(Len(sends) - 1)
      /\ \A i \in DOMAIN sends' : i + 1 \in DOMAIN sends /\ sends'[i] = sends[i + 1]
      /\ \A i \in DOMAIN sends : i # 1 => i - 1 \in DOMAIN sends' /\ sends'[i - 1] = sends[i]
  BY <1>1, MovedUp
<1>3. \/ /\ Head(sends).why = "set" /\ reader' = [reader EXCEPT ![c] = "reads"]
         /\ IF session THEN TellChildren(Place) ELSE UNCHANGED told
         /\ UNCHANGED <<peers, branch, children>>
      \/ /\ Head(sends).why = "unset" /\ reader' = reader
         /\ TellChildren(At(Me, 0)) /\ Forget(c)
      \/ /\ Head(sends).why = "session" /\ reader' = reader
         /\ UNCHANGED <<told, peers, branch, children>>
  BY DEF Sent
<1>4. /\ SendsKnown' /\ ReadersKnown' /\ AwaitedEnds' /\ (Setting' <=> Setting)
      /\ reader' \in [Readers -> {"reads", "tasks", "others", "server", "children", "parent"}]
  <2>1. reader' = IF Head(sends).why = "set"
                  THEN [reader EXCEPT ![Head(sends).conn] = "reads"] ELSE reader
    BY <1>3
  <2> QED BY <1>1, <2>1, HeadGoes DEF links
<1>5. Head(sends).why = "unset" => c \in Conns /\ link[c] = "closed" /\ c # parent
  BY <1>2, Facts DEF DistInv, SendsKnown, ParentAgrees, ParentIsThere
<1>6. /\ PeersKnown' /\ ParentAgrees' /\ ParentComplete' /\ branch' \in [Conns -> Advertised]
      /\ peers' \subseteq peers /\ children' \subseteq children
      /\ Head(sends).why = "unset" => c \notin peers'
  <2>1. CASE Head(sends).why = "unset"
    <3>1. Forget(c) /\ UNCHANGED <<link, parent>>
      BY <1>1, <1>3, <2>1 DEF links
    <3> HIDE DEF c
    <3> QED BY <1>5, <2>1, <3>1, Forgotten DEF Forget
  <2>2. CASE Head(sends).why # "unset"
    <3>1. UNCHANGED <<link, parent, peers, branch, children>>
      BY <1>1, <1>3, <2>2 DEF links
    <3> QED BY <2>2, <3>1, TreeStays, Facts DEF OnlyEnds
  <2> QED BY <2>1, <2>2
<1>7. told' \in [Conns -> Told]
  <2>1. At(Me, 0) \in Told
    BY DEF At, Told, Places, Names
  <2> QED BY <1>3, <2>1, PlaceKnown, Facts DEF TellChildren
<1>8. TypeOK'
  BY <1>1, <1>2, <1>4, <1>6, <1>7
  DEF DistInv, TypeOK, links, server, Send, Told, Advertised
<1>9. ServerTold'
  BY <1>1, <1>4 DEF DistInv, ServerTold, server
<1>10. ClosedIsForgotten'
  <2>1. ASSUME spent.failures = 0, NEW d \in peers', link[d] = "closed"
        PROVE  \E i \in DOMAIN sends' : sends'[i] = [why |-> "unset", conn |-> d]
    <3>1. PICK i \in DOMAIN sends : sends[i] = [why |-> "unset", conn |-> d]
      BY <1>6, <2>1 DEF DistInv, ClosedIsForgotten
    <3>2. i # 1
      BY <1>2, <1>6, <3>1
    <3> QED BY <1>2, <3>1, <3>2
  <2> QED BY <1>1, <2>1 DEF ClosedIsForgotten, links
<1>11. ChildrenTold'
  <2>1. SUFFICES ASSUME spent.losses = 0, spent.failures = 0
                 PROVE  session' /\ (Setting' \/ LastTells' \/ (NobodyTells' /\ Informed'))
    BY <1>1 DEF ChildrenTold
  <2>2. session /\ session' /\ (Setting' \/ LastTells \/ (NobodyTells /\ Informed))
    BY <1>4, <1>1, <2>1 DEF DistInv, ChildrenTold, server
  <2>3. \A i \in DOMAIN sends' : i \in Nat /\ i + 1 # 1
    BY <1>2
  <2>4. CASE NobodyTells /\ Informed
    <3>1. NobodyTells'
      BY <1>2, <2>4 DEF NobodyTells
    <3>2. UNCHANGED <<told, peers, branch, children, parent, link>>
      BY <1>1, <1>2, <1>3, <2>4 DEF NobodyTells, links
    <3> QED BY <2>2, <2>4, <3>1, <3>2 DEF Informed, Place
  <2>5. CASE LastTells
    <3>1. PICK j \in DOMAIN sends :
            /\ sends[j].why # "session" /\ (sends[j].why = "unset" => parent = None)
            /\ \A k \in DOMAIN sends : k > j => sends[k].why = "session"
      BY <2>5 DEF LastTells
    <3>2. CASE j # 1
      <4>1. j - 1 \in DOMAIN sends' /\ sends'[j - 1] = sends[j]
        BY <1>2, <3>2
      <4>2. \A k \in DOMAIN sends' : k > j - 1 => sends'[k].why = "session"
        BY <1>2, <3>1
      <4> QED BY <1>1, <2>2, <3>1, <4>1, <4>2 DEF LastTells
    <3>3. CASE j = 1
      <4>1. NobodyTells'
        BY <1>2, <2>3, <3>1, <3>3 DEF NobodyTells
      <4>2. Informed'
        <5>1. CASE Head(sends).why = "set"
          <6>1. Place' = Place /\ TellChildren(Place) /\ children' = children /\ link' = link
            BY <1>1, <1>3, <2>2, <5>1 DEF Place, links
          <6> QED BY <6>1, Facts DEF Informed, TellChildren, DistInv, TypeOK
        <5>2. CASE Head(sends).why = "unset"
          <6>1. Place' = At(Me, 0)
            BY <1>1, <1>2, <3>1, <3>3, <5>2 DEF Place
          <6>2. TellChildren(At(Me, 0)) /\ link' = link
            BY <1>1, <1>3, <5>2 DEF links
          <6> QED BY <1>6, <6>1, <6>2, Facts DEF Informed, TellChildren, DistInv, TypeOK
        <5> QED BY <1>2, <3>1, <3>3, <5>1, <5>2 DEF Send
      <4> QED BY <2>2, <4>1, <4>2
    <3> QED BY <3>2, <3>3
  <2> QED BY <2>2, <2>4, <2>5
<1> QED BY <1>4, <1>6, <1>8, <1>9, <1>10, <1>11 DEF DistInv

(* A connection is closed: a lost parent is announced or forgotten.               *)
LEMMA ClosedKeeps ==
  ASSUME DistInv, NEW c \in Conns, Closed(c)
  PROVE  DistInv'
<1>1. /\ link[c] = "closing" /\ link' = [link EXCEPT ![c] = "closed"]
      /\ listed' = listed \ {c} /\ told' = [told EXCEPT ![c] = Unknown]
      /\ UNCHANGED <<asked, attempts, server, reader, awaited, spent>>
      /\ parent' = IF parent = c THEN None ELSE parent
  BY DEF Closed, Lost
<1>2. /\ link'[c] = "closed" /\ \A d \in Conns \ {c} : link'[d] = link[d]
      /\ link' \in [Conns -> {"none", "connecting", "open", "closing", "closed"}] /\ ClosedStays
  BY <1>1, Facts DEF ClosedStays
<1>3. told' \in [Conns -> Told] /\ \A d \in Conns \ {c} : told'[d] = told[d]
  <2>1. Unknown \in Told
    BY DEF Unknown, At, Told, Places
  <2> QED BY <1>1, <2>1, Facts
<1>4. parent \in Conns \cup {None} /\ peers \subseteq Conns /\ children \subseteq Conns
  BY DEF DistInv, TypeOK
<1>5. CASE parent = c /\ session
  <2>1. /\ parent' = None /\ serverTold' = [place |-> Place', search |-> parent' = None]
        /\ sends' = Append(sends, [why |-> "unset", conn |-> c])
        /\ UNCHANGED <<peers, branch, children>>
    BY <1>1, <1>5 DEF Closed, Lost, TellServer
  <2>2. /\ sends' \in Seq(Send) /\ Len(sends') = Len(sends) + 1 /\ Len(sends) \in Nat
        /\ DOMAIN sends' = 1..(Len(sends) + 1) /\ DOMAIN sends = 1..Len(sends)
        /\ \A i \in DOMAIN sends : i \in DOMAIN sends' /\ sends'[i] = sends[i]
        /\ sends'[Len(sends) + 1] = [why |-> "unset", conn |-> c]
    BY <2>1, Appended
  <2>3. \A i \in DOMAIN sends' : i \in DOMAIN sends \/ i = Len(sends) + 1
    BY <2>2
  <2>4. TypeOK'
    <3>1. Place' = At(Me, 0) /\ At(Me, 0) \in Places(Names, Nat)
      BY <2>1 DEF Place, At, Places, Names
    <3>2. serverTold' \in [place : Places(Names, Nat), search : BOOLEAN]
      BY <2>1, <3>1
    <3> QED BY <1>1, <1>2, <1>3, <2>1, <2>2, <3>2
        DEF DistInv, TypeOK, server, Send, Told
  <2>5. PeersKnown'
    BY <1>2, <2>1 DEF DistInv, PeersKnown
  <2>6. ParentAgrees' /\ ParentComplete'
    BY <1>2, <1>4, <1>5, <2>1
    DEF DistInv, ParentAgrees, ParentIsThere, CandidateIsParent, ParentComplete, Complete
  <2>7. SendsKnown'
    <3>1. ASSUME NEW i \in DOMAIN sends'
          PROVE  /\ sends'[i].why = "set" =>
                      /\ i \in DOMAIN sends /\ sends'[i] = sends[i]
                      /\ sends'[i].conn \in Conns /\ reader'[sends'[i].conn] = "server"
                 /\ sends'[i].why = "unset" =>
                      sends'[i].conn \in Conns /\ link'[sends'[i].conn] = "closed"
      <4>1. CASE i \in DOMAIN sends
        BY <1>1, <1>2, <2>2, <4>1 DEF DistInv, SendsKnown, ClosedStays
      <4>2. CASE i = Len(sends) + 1
        BY <1>2, <2>2, <4>2
      <4> QED BY <2>3, <4>1, <4>2
    <3> QED BY <3>1 DEF DistInv, SendsKnown
  <2>8. ReadersKnown'
    BY <1>1 DEF DistInv, ReadersKnown
  <2>9. AwaitedEnds'
    BY <1>1, <1>2, <2>2, Facts DEF DistInv, AwaitedEnds, ClosedStays
  <2>10. ServerTold'
    BY <2>1 DEF ServerTold
  <2>11. ClosedIsForgotten'
    <3>1. ASSUME spent.failures = 0, NEW d \in peers, link'[d] = "closed"
          PROVE  \E i \in DOMAIN sends' : sends'[i] = [why |-> "unset", conn |-> d]
      <4>1. CASE d = c
        BY <2>2, <4>1
      <4>2. CASE d # c
        <5>1. PICK i \in DOMAIN sends : sends[i] = [why |-> "unset", conn |-> d]
          BY <1>2, <1>4, <3>1, <4>2 DEF DistInv, ClosedIsForgotten
        <5> QED BY <2>2, <5>1
      <4> QED BY <4>1, <4>2
    <3> QED BY <1>1, <2>1, <3>1 DEF ClosedIsForgotten
  <2>12. ChildrenTold'
    <3>1. LastTells'
      <4>1. Len(sends) + 1 \in DOMAIN sends' /\ ~(\E k \in DOMAIN sends' : k > Len(sends) + 1)
        BY <2>2
      <4> QED BY <2>1, <2>2, <4>1 DEF LastTells
    <3> QED BY <1>1, <3>1 DEF DistInv, ChildrenTold, server
  <2> QED BY <2>4, <2>5, <2>6, <2>7, <2>8, <2>9, <2>10, <2>11, <2>12 DEF DistInv
<1>6. CASE ~(parent = c /\ session)
  <2>1. Forget(c) /\ UNCHANGED <<serverTold, sends>>
    BY <1>1, <1>6 DEF Closed, Lost
  <2>2. /\ PeersKnown' /\ ParentAgrees' /\ ParentComplete'
        /\ peers' = peers \ {c} /\ children' = children \ {c} /\ branch' \in [Conns -> Advertised]
        /\ \A d \in Conns \ {c} : branch'[d] = branch[d]
    BY <1>1, <1>2, <1>4, <2>1, Facts, Forgotten
  <2>3. TypeOK'
    BY <1>1, <1>2, <1>3, <2>1, <2>2 DEF DistInv, TypeOK, server, Told, Advertised
  <2>4. \A d \in peers' : link'[d] = "closed" => d \in peers /\ link[d] = "closed"
    BY <1>2, <1>4, <2>2
  <2>5. CASE parent # c
    <3>1. UNCHANGED <<reader, awaited, sends, session, parent, serverTold>> /\ NoLoss
      BY <1>1, <2>1, <2>5 DEF server, NoLoss
    <3>2. Place' = Place
      BY <1>4, <2>2, <2>5, <3>1 DEF Place
    <3>3. Informed => Informed'
      BY <1>2, <1>3, <1>4, <2>2, <3>2 DEF Informed
    <3> QED BY <1>2, <2>2, <2>3, <2>4, <3>1, <3>3, QuietStep
  <2>6. CASE parent = c /\ ~session
    <3>1. UNCHANGED <<reader, awaited, sends, session, spent>>
      BY <1>1, <2>1 DEF server
    <3>2. SendsKnown' /\ ReadersKnown' /\ AwaitedEnds'
      BY <1>2, <3>1, WaitersStay
    <3>3. ServerTold' /\ ChildrenTold'
      BY <2>6, <3>1 DEF DistInv, ServerTold, ChildrenTold
    <3>4. ClosedIsForgotten'
      BY <2>4, <3>1 DEF DistInv, ClosedIsForgotten
    <3> QED BY <2>2, <2>3, <3>2, <3>3, <3>4 DEF DistInv
  <2> QED BY <1>6, <2>5, <2>6
<1> QED BY <1>5, <1>6

---------------------------------------------------------------------------
(* A connection comes up: nothing is known of its values yet, and a child is       *)
(* told our place.                                                            *)
LEMMA InitializedKeeps ==
  ASSUME DistInv, NEW c \in Conns, link[c] \in {"none", "connecting"}, Initialized(c),
         listed' \subseteq Conns, attempts' \subseteq asked,
         UNCHANGED <<asked, branch, parent, server, serverTold, control, spent>>
  PROVE  DistInv'
<1>1. /\ UNCHANGED <<asked, branch, parent, potential, limit, session, serverTold, reader>>
      /\ UNCHANGED <<awaited, sends, spent>> /\ NoLoss
  BY DEF server, control, NoLoss
<1>2. /\ c \notin peers /\ branch[c] = Unknown /\ peers' = peers \cup {c}
      /\ peers \subseteq Conns /\ children \subseteq Conns /\ children \subseteq peers
      /\ parent \in Conns \cup {None} /\ parent # c
  BY Facts DEF DistInv, TypeOK, PeersKnown, ParentAgrees, ParentIsThere, Initialized
<1>3. /\ link' \in [Conns -> {"none", "connecting", "open", "closing", "closed"}]
      /\ link'[c] \in {"open", "closing"} /\ \A d \in Conns \ {c} : link'[d] = link[d]
      /\ \/ UNCHANGED <<children, told>>
         \/ /\ children' = children \cup {c}
            /\ told' = IF session THEN [told EXCEPT ![c] = Place] ELSE told
  BY Facts DEF Initialized, NewChild
<1>4. Place' = Place /\ Place \in Told
  BY <1>1, PlaceKnown DEF Place
<1>5. /\ told' \in [Conns -> Told] /\ \A d \in Conns \ {c} : told'[d] = told[d]
      /\ session /\ c \in children' => told'[c] = Place
  BY <1>2, <1>3, <1>4, Facts
<1>6. children' \subseteq children \cup {c} /\ ClosedStays
  BY <1>3 DEF ClosedStays
<1>7. TypeOK'
  BY <1>1, <1>2, <1>3, <1>5, <1>6 DEF DistInv, TypeOK, Told
<1>8. PeersKnown'
  BY <1>1, <1>2, <1>3 DEF DistInv, PeersKnown
<1>9. ~Complete(Unknown)
  BY DEF Complete, Unknown, At
<1>10. ParentAgrees' /\ ParentComplete'
  <2>1. ParentIsThere'
    BY <1>1, <1>2, <1>3, <1>6 DEF DistInv, ParentAgrees, ParentIsThere
  <2>2. CandidateIsParent'
    BY <1>1, <1>2, <1>3, <1>9 DEF DistInv, ParentAgrees, CandidateIsParent, Complete
  <2>3. ParentComplete'
    BY <1>1 DEF DistInv, ParentComplete, Complete
  <2> QED BY <2>1, <2>2, <2>3 DEF ParentAgrees
<1>11. \A d \in peers' : link'[d] = "closed" => d \in peers /\ link[d] = "closed"
  BY <1>2, <1>3
<1>12. session /\ Informed => Informed'
  BY <1>2, <1>3, <1>4, <1>5, <1>6 DEF Informed
<1> QED BY <1>1, <1>6, <1>7, <1>8, <1>10, <1>11, <1>12, QuietStep

(* A peer connects.                                                          *)
LEMMA AcceptedKeeps ==
  ASSUME DistInv, NEW c \in Conns, Accepted(c)
  PROVE  DistInv'
<1>1. listed' \subseteq Conns /\ attempts' \subseteq asked
  BY DEF Accepted, DistInv, TypeOK
<1> QED BY <1>1, InitializedKeeps DEF Accepted

(* An attempt succeeds.                                                       *)
LEMMA ConnectedKeeps ==
  ASSUME DistInv, NEW c \in Conns, Connected(c)
  PROVE  DistInv'
<1>1. listed' \subseteq Conns /\ attempts' \subseteq asked
  BY DEF Connected, DistInv, TypeOK
<1> QED BY <1>1, InitializedKeeps DEF Connected

---------------------------------------------------------------------------
(* The handler that sets a parent goes on: it waits for attempts or connections,    *)
(* or tells the server and waits for that.                                     *)
HandlerWaits(c, x, w) ==
  /\ x \in {"tasks", "others"} /\ w \subseteq Conns
  /\ reader' = [reader EXCEPT ![c] = x] /\ awaited' = [awaited EXCEPT ![c] = w]
  /\ x = "others" => \A d \in w : link'[d] \in {"closing", "closed"}
  /\ UNCHANGED <<serverTold, sends>>

(* While the handler waits, the server and the children need not be told.           *)
LEMMA HandlerWaitsKeeps ==
  ASSUME DistInv, NEW c \in Conns, reader[c] \in {"reads", "tasks", "others"},
         NEW x, NEW w, HandlerWaits(c, x, w), ClosedStays, NoLoss, UNCHANGED session, peers' = peers,
         \A d \in peers : link'[d] = "closed" => link[d] = "closed"
  PROVE  /\ SendsKnown' /\ ReadersKnown' /\ AwaitedEnds' /\ ServerTold' /\ ClosedIsForgotten'
         /\ ChildrenTold' /\ reader' \in [Readers ->
               {"reads", "tasks", "others", "server", "children", "parent"}]
         /\ awaited' \in [Readers -> SUBSET Conns]
<1>1. /\ reader'[c] = x /\ awaited'[c] = w /\ x \in {"tasks", "others"}
      /\ \A r \in Readers \ {c} : reader'[r] = reader[r] /\ awaited'[r] = awaited[r]
      /\ reader' \in [Readers -> {"reads", "tasks", "others", "server", "children", "parent"}]
      /\ awaited' \in [Readers -> SUBSET Conns]
  BY Facts DEF HandlerWaits
<1>2. sends' = sends
  BY DEF HandlerWaits
<1>3. SendsKnown'
  BY <1>1, <1>2, Facts DEF DistInv, SendsKnown, ClosedStays
<1>4. ReadersKnown' /\ Setting'
  BY <1>1, Facts DEF DistInv, ReadersKnown, Setting
<1>5. AwaitedEnds'
  <2>1. ASSUME NEW r \in Readers, r # c
        PROVE  /\ reader'[r] \in {"others", "children", "parent"} =>
                    \A d \in awaited'[r] : link'[d] \in {"closing", "closed"}
               /\ reader'[r] = "server" =>
                    \E i \in DOMAIN sends' : sends'[i] = [why |-> "set", conn |-> r]
    <3>1. awaited[r] \subseteq Conns
      BY Facts
    <3> QED BY <1>1, <1>2, <2>1, <3>1 DEF DistInv, AwaitedEnds, ClosedStays
  <2> QED BY <1>1, <2>1 DEF AwaitedEnds, HandlerWaits
<1>6. ServerTold' /\ ClosedIsForgotten'
  BY <1>2, <1>4 DEF DistInv, ServerTold, ClosedIsForgotten, NoLoss
<1>7. ChildrenTold'
  BY <1>4 DEF DistInv, ChildrenTold, NoLoss
<1> QED BY <1>1, <1>3, <1>4, <1>5, <1>6, <1>7

(* The handler tells the server, if there is a session, and is the last to wait.     *)
LEMMA AnnounceKeeps ==
  ASSUME DistInv, NEW c \in Conns, reader[c] \in {"reads", "tasks", "others"},
         Announce(c), ClosedStays, NoLoss, UNCHANGED session, peers' = peers,
         Place' \in Places(Names, Nat),
         \A d \in peers : link'[d] = "closed" => link[d] = "closed"
  PROVE  /\ SendsKnown' /\ ReadersKnown' /\ AwaitedEnds' /\ ServerTold' /\ ClosedIsForgotten'
         /\ ChildrenTold' /\ reader' \in [Readers ->
               {"reads", "tasks", "others", "server", "children", "parent"}]
         /\ awaited' \in [Readers -> SUBSET Conns] /\ sends' \in Seq(Send)
         /\ serverTold' \in [place : Places(Names, Nat), search : BOOLEAN]
<1> DEFINE x == IF session THEN "server" ELSE "reads"
<1>1. /\ awaited' = [awaited EXCEPT ![c] = {}] /\ reader' = [reader EXCEPT ![c] = x]
      /\ IF session THEN TellServer("set", c) ELSE UNCHANGED <<serverTold, sends>>
  BY DEF Announce
<1>2. x \in {"server", "reads"} /\ (session => x = "server") /\ (~session => x = "reads")
  OBVIOUS
<1> HIDE DEF x
<1>3. /\ reader'[c] = x /\ awaited'[c] = {}
      /\ \A r \in Readers \ {c} : reader'[r] = reader[r] /\ awaited'[r] = awaited[r]
      /\ reader' \in [Readers -> {"reads", "tasks", "others", "server", "children", "parent"}]
      /\ awaited' \in [Readers -> SUBSET Conns]
  BY <1>1, <1>2, Facts
<1>4. ReadersKnown'
  BY <1>2, <1>3, Facts DEF DistInv, ReadersKnown
<1>5. \A i \in DOMAIN sends : sends[i].why = "set" => sends[i].conn # c
  BY DEF DistInv, SendsKnown
<1>6. ASSUME NEW r \in Readers, reader'[r] \in {"others", "children", "parent"}
      PROVE  \A d \in awaited'[r] : link'[d] \in {"closing", "closed"}
  <2>1. r # c /\ awaited[r] \subseteq Conns
    BY <1>2, <1>3, <1>6, Facts
  <2> QED BY <1>3, <1>6, <2>1 DEF DistInv, AwaitedEnds, ClosedStays
<1>7. CASE session
  <2>1. /\ serverTold' = [place |-> Place', search |-> parent' = None]
        /\ sends' = Append(sends, [why |-> "set", conn |-> c])
    BY <1>1, <1>7 DEF TellServer
  <2>2. /\ sends' \in Seq(Send) /\ Len(sends') = Len(sends) + 1 /\ Len(sends) \in Nat
        /\ DOMAIN sends' = 1..(Len(sends) + 1) /\ DOMAIN sends = 1..Len(sends)
        /\ \A i \in DOMAIN sends : i \in DOMAIN sends' /\ sends'[i] = sends[i]
        /\ sends'[Len(sends) + 1] = [why |-> "set", conn |-> c]
    BY <2>1, Appended
  <2>3. \A i \in DOMAIN sends' : i \in DOMAIN sends \/ i = Len(sends) + 1
    BY <2>2
  <2>4. SendsKnown'
    <3>1. ASSUME NEW i \in DOMAIN sends'
          PROVE  /\ sends'[i].why = "set" =>
                      sends'[i].conn \in Conns /\ reader'[sends'[i].conn] = "server"
                 /\ sends'[i].why = "unset" =>
                      sends'[i].conn \in Conns /\ link'[sends'[i].conn] = "closed"
      <4>1. CASE i \in DOMAIN sends
        BY <1>3, <1>5, <2>2, <4>1, Facts DEF DistInv, SendsKnown, ClosedStays
      <4>2. CASE i = Len(sends) + 1
        BY <1>2, <1>3, <1>7, <2>2, <4>2
      <4> QED BY <2>3, <4>1, <4>2
    <3>2. ASSUME NEW i \in DOMAIN sends', NEW j \in DOMAIN sends', sends'[i].why = "set",
                 sends'[j].why = "set", sends'[i].conn = sends'[j].conn
          PROVE  i = j
      <4>1. CASE i \in DOMAIN sends /\ j \in DOMAIN sends
        BY <2>2, <3>2, <4>1 DEF DistInv, SendsKnown
      <4>2. CASE i \notin DOMAIN sends \/ j \notin DOMAIN sends
        BY <1>5, <2>2, <2>3, <3>2, <4>2
      <4> QED BY <4>1, <4>2
    <3> QED BY <3>1, <3>2 DEF SendsKnown
  <2>5. AwaitedEnds'
    <3>1. ASSUME NEW r \in Readers, reader'[r] = "server"
          PROVE  \E i \in DOMAIN sends' : sends'[i] = [why |-> "set", conn |-> r]
      <4>1. CASE r = c
        BY <2>2, <4>1
      <4>2. CASE r # c
        <5>1. PICK i \in DOMAIN sends : sends[i] = [why |-> "set", conn |-> r]
          BY <1>3, <3>1, <4>2 DEF DistInv, AwaitedEnds
        <5> QED BY <2>2, <5>1
      <4> QED BY <4>1, <4>2
    <3> QED BY <1>6, <3>1 DEF AwaitedEnds
  <2>6. ServerTold'
    BY <2>1 DEF ServerTold
  <2>7. ClosedIsForgotten'
    <3>1. ASSUME spent.failures = 0, NEW d \in peers, link'[d] = "closed"
          PROVE  \E i \in DOMAIN sends' : sends'[i] = [why |-> "unset", conn |-> d]
      <4>1. PICK i \in DOMAIN sends : sends[i] = [why |-> "unset", conn |-> d]
        BY <3>1 DEF DistInv, ClosedIsForgotten
      <4> QED BY <2>2, <4>1
    <3> QED BY <3>1 DEF ClosedIsForgotten, NoLoss
  <2>8. ChildrenTold'
    <3>1. Len(sends) + 1 \in DOMAIN sends' /\ ~(\E k \in DOMAIN sends' : k > Len(sends) + 1)
      BY <2>2
    <3>2. LastTells'
      BY <2>2, <3>1 DEF LastTells
    <3> QED BY <1>7, <3>2 DEF ChildrenTold
  <2>9. serverTold' \in [place : Places(Names, Nat), search : BOOLEAN]
    BY <2>1
  <2> QED BY <1>3, <1>4, <2>2, <2>4, <2>5, <2>6, <2>7, <2>8, <2>9
<1>8. CASE ~session
  <2>1. UNCHANGED <<serverTold, sends>> /\ x = "reads"
    BY <1>1, <1>2, <1>8
  <2>2. SendsKnown'
    BY <1>3, <1>5, <2>1, Facts DEF DistInv, SendsKnown, ClosedStays
  <2>3. AwaitedEnds'
    BY <1>3, <1>6, <2>1 DEF DistInv, AwaitedEnds
  <2>4. ServerTold' /\ ChildrenTold'
    BY <1>8 DEF DistInv, ServerTold, ChildrenTold, NoLoss
  <2>5. ClosedIsForgotten'
    BY <2>1 DEF DistInv, ClosedIsForgotten, NoLoss
  <2> QED BY <1>3, <1>4, <2>1, <2>2, <2>3, <2>4, <2>5, Facts DEF DistInv, TypeOK
<1> QED BY <1>7, <1>8

(* All connections but those of parent and children end, and the handler waits     *)
(* for them or goes on.                                                       *)
LEMMA OthersEnd ==
  ASSUME DistInv, NEW c \in Conns, DisconnectOthers(c)
  PROVE  /\ OnlyEnds /\ listed' \subseteq Conns
         /\ link' \in [Conns -> {"none", "connecting", "open", "closing", "closed"}]
         /\ parent' \in Conns /\ link[parent'] = "open" => link'[parent'] = "open"
         /\ Announce(c) \/ \E x, w : HandlerWaits(c, x, w)
<1> DEFINE others == listed \ (children \cup {parent'})
<1>1. link' = AfterDisconnect(others) /\ listed' = listed \ Connecting(others)
  BY DEF DisconnectOthers
<1>2. listed \subseteq Conns /\ others \subseteq Conns /\ parent' \notin others
  BY DEF DistInv, TypeOK
<1>3. Open(others) \subseteq Conns /\ \A d \in Open(others) : link[d] = "open"
  BY <1>2 DEF Open
<1> HIDE DEF others
<1>4. \A d \in Conns : link'[d] = IF d \in Open(others) THEN "closing"
                               ELSE IF link[d] = "connecting" /\ d \in asked \ attempts'
                               THEN "closed" ELSE link[d]
  BY <1>1 DEF AfterDisconnect
<1>5. OnlyEnds
  BY <1>3, <1>4 DEF OnlyEnds
<1>6. link' \in [Conns -> {"none", "connecting", "open", "closing", "closed"}]
  BY <1>1, <1>3, <1>4, Facts DEF AfterDisconnect
<1>7. parent' \in Conns /\ link[parent'] = "open" => link'[parent'] = "open"
  BY <1>2, <1>4 DEF Open
<1>8. CASE Open(others) = {}
  BY <1>1, <1>2, <1>5, <1>6, <1>7, <1>8 DEF DisconnectOthers, others
<1>9. CASE Open(others) # {}
  <2>1. /\ reader' = [reader EXCEPT ![c] = "others"]
        /\ awaited' = [awaited EXCEPT ![c] = Open(others)]
        /\ UNCHANGED <<serverTold, sends>>
    BY <1>9 DEF DisconnectOthers, others
  <2>2. \A d \in Open(others) : link'[d] \in {"closing", "closed"}
    BY <1>3, <1>4
  <2>3. HandlerWaits(c, "others", Open(others))
    BY <1>3, <2>1, <2>2 DEF HandlerWaits
  <2> QED BY <1>1, <1>2, <1>5, <1>6, <1>7, <2>3
<1> QED BY <1>8, <1>9

(* The handler that sets a parent, with peers, parent and candidates in order.       *)
LEMMA SettingGoesOn ==
  ASSUME DistInv, NEW c \in Conns, reader[c] \in {"reads", "tasks", "others"},
         Announce(c) \/ \E x, w : HandlerWaits(c, x, w), OnlyEnds, NoLoss,
         PeersKnown', ParentAgrees', ParentComplete',
         link' \in [Conns -> {"none", "connecting", "open", "closing", "closed"}],
         listed' \subseteq Conns, attempts' \subseteq asked, parent' \in Conns \cup {None},
         branch' \in [Conns -> Advertised],
         spent' \in [{"messages", "losses", "failures"} -> Nat],
         UNCHANGED <<asked, peers, children, server, told>>
  PROVE  DistInv'
<1>1. ClosedStays /\ UNCHANGED <<potential, limit, session>> /\ peers' = peers
  BY EndsAreFinal DEF server
<1>2. \A d \in peers : link'[d] = "closed" => link[d] = "closed"
  BY Facts DEF DistInv, TypeOK, PeersKnown, OnlyEnds
<1>3. Place' \in Places(Names, Nat)
  BY PlaceType DEF Place, ParentComplete
<1>4. /\ SendsKnown' /\ ReadersKnown' /\ AwaitedEnds' /\ ServerTold' /\ ClosedIsForgotten'
      /\ ChildrenTold' /\ reader' \in [Readers ->
            {"reads", "tasks", "others", "server", "children", "parent"}]
      /\ awaited' \in [Readers -> SUBSET Conns] /\ sends' \in Seq(Send)
      /\ serverTold' \in [place : Places(Names, Nat), search : BOOLEAN]
  <2>1. CASE Announce(c)
    BY <1>1, <1>2, <1>3, <2>1, AnnounceKeeps
  <2>2. CASE \E x, w : HandlerWaits(c, x, w)
    <3>1. PICK x, w : HandlerWaits(c, x, w)
      BY <2>2
    <3>2. UNCHANGED <<serverTold, sends>> /\ sends \in Seq(Send)
          /\ serverTold \in [place : Places(Names, Nat), search : BOOLEAN]
      BY <3>1, Facts DEF HandlerWaits, DistInv, TypeOK
    <3> QED BY <1>1, <1>2, <3>1, <3>2, HandlerWaitsKeeps
  <2> QED BY <2>1, <2>2
<1>5. TypeOK'
  BY <1>1, <1>4 DEF DistInv, TypeOK, Send, Advertised
<1> QED BY <1>4, <1>5 DEF DistInv

(* The attempts have ended.                                                    *)
LEMMA TasksCancelledKeeps ==
  ASSUME DistInv, NEW c \in Conns, TasksCancelled(c)
  PROVE  DistInv'
<1>1. /\ reader[c] = "tasks" /\ attempts' = attempts \ awaited[c] /\ DisconnectOthers(c)
      /\ UNCHANGED <<asked, tree, server, told, spent>>
  BY DEF TasksCancelled
<1>2. /\ OnlyEnds /\ listed' \subseteq Conns
      /\ link' \in [Conns -> {"none", "connecting", "open", "closing", "closed"}]
      /\ Announce(c) \/ \E x, w : HandlerWaits(c, x, w)
  BY <1>1, OthersEnd
<1>3. PeersKnown' /\ ParentAgrees' /\ ParentComplete'
  BY <1>1, <1>2, TreeStays DEF tree
<1>4. /\ attempts' \subseteq asked /\ parent' \in Conns \cup {None}
      /\ branch' \in [Conns -> Advertised]
      /\ spent' \in [{"messages", "losses", "failures"} -> Nat] /\ NoLoss
  BY <1>1, Facts DEF DistInv, TypeOK, tree, NoLoss
<1>5. UNCHANGED <<asked, peers, children, server, told>>
  BY <1>1 DEF tree
<1> QED BY <1>1, <1>2, <1>3, <1>4, <1>5, SettingGoesOn

(* The other connections have ended.                                           *)
LEMMA OthersClosedKeeps ==
  ASSUME DistInv, NEW c \in Conns, OthersClosed(c)
  PROVE  DistInv'
<1>1. /\ reader[c] = "others" /\ Announce(c)
      /\ UNCHANGED <<links, tree, server, told, spent>>
  BY DEF OthersClosed
<1>2. /\ OnlyEnds /\ listed' \subseteq Conns /\ attempts' \subseteq asked
      /\ link' \in [Conns -> {"none", "connecting", "open", "closing", "closed"}]
  BY <1>1, Facts DEF OnlyEnds, links, DistInv, TypeOK
<1>3. PeersKnown' /\ ParentAgrees' /\ ParentComplete'
  BY <1>1, <1>2, TreeStays DEF tree
<1>4. /\ parent' \in Conns \cup {None} /\ branch' \in [Conns -> Advertised]
      /\ spent' \in [{"messages", "losses", "failures"} -> Nat] /\ NoLoss
  BY <1>1, Facts DEF DistInv, TypeOK, tree, NoLoss
<1>5. UNCHANGED <<asked, peers, children, server, told>>
  BY <1>1 DEF tree, links
<1> QED BY <1>1, <1>2, <1>3, <1>4, <1>5, SettingGoesOn

---------------------------------------------------------------------------
(* New values of a peer that was complete stay complete: the parent's go to the    *)
(* children, and another peer becomes the parent or is refused.                  *)
LEMMA HeardKeeps ==
  ASSUME DistInv, NEW c \in Conns, Reads(c), NEW b \in Advertised,
         Complete(branch[c]) => Complete(b), branch' = [branch EXCEPT ![c] = b],
         UNCHANGED <<asked, attempts, peers, children, server>>, Heard(c)
  PROVE  DistInv'
<1>1. /\ link[c] = "open" /\ reader[c] = "reads" /\ c \in peers /\ NoLoss
      /\ spent' \in [{"messages", "losses", "failures"} -> Nat]
  BY CountKeepsLosses DEF Reads
<1>2. /\ branch' \in [Conns -> Advertised] /\ branch'[c] = b
      /\ \A d \in Conns \ {c} : branch'[d] = branch[d]
  BY Facts
<1>3. /\ parent \in Conns \cup {None} /\ peers \subseteq Conns /\ children \subseteq Conns
      /\ attempts \subseteq asked /\ asked \subseteq Conns /\ listed \subseteq Conns
      /\ UNCHANGED <<potential, limit, session>>
  BY DEF DistInv, TypeOK, server
<1>4. CASE /\ UNCHANGED <<link, listed, parent, serverTold, control>>
           /\ c = parent /\ PassOn(c)
  <2>1. ParentComplete'
    BY <1>2, <1>4 DEF DistInv, ParentComplete
  <2>2. Place' \in Places(Names, Nat) /\ Places(Names, Nat) \subseteq Told
    <3>1. Place' \in Places(Names, Nat)
      BY <1>2, <1>3, <1>4, <2>1, PlaceType DEF Place, ParentComplete
    <3> QED BY <3>1 DEF Places, Told
  <2>3. told' \in [Conns -> Told]
    BY <1>4, <2>2, Facts DEF PassOn, TellChildren
  <2>4. TypeOK'
    BY <1>1, <1>2, <1>3, <1>4, <2>3 DEF DistInv, TypeOK, control, Told, Advertised
  <2>5. PeersKnown'
    BY <1>1, <1>2, <1>3, <1>4 DEF DistInv, PeersKnown
  <2>6. ParentAgrees'
    BY <1>2, <1>3, <1>4
    DEF DistInv, ParentAgrees, ParentIsThere, CandidateIsParent, Complete
  <2>7. session => Informed'
    <3>1. ASSUME session, NEW d \in children, link[d] = "open" PROVE told'[d] = Place'
      BY <1>3, <1>4, <3>1 DEF PassOn, TellChildren
    <3> QED BY <1>4, <3>1 DEF Informed
  <2>8. ClosedStays /\ UNCHANGED <<reader, awaited, sends>>
    BY <1>4 DEF ClosedStays, control
  <2> QED BY <1>1, <1>3, <1>4, <2>1, <2>4, <2>5, <2>6, <2>7, <2>8, QuietStep
<1>5. CASE /\ UNCHANGED <<listed, parent, advised, control>> /\ c # parent
           /\ \/ ~Complete(b) /\ UNCHANGED link
              \/ Refuse(c)
  <2>1. /\ ParentComplete' /\ Place' = Place
    BY <1>2, <1>3, <1>5 DEF DistInv, ParentComplete, Complete, Place
  <2>2. /\ link' \in [Conns -> {"none", "connecting", "open", "closing", "closed"}]
        /\ \A d \in Conns \ {c} : link'[d] = link[d]
        /\ link'[c] \in {"open", "closing"} /\ (link'[c] = "open" => ~Complete(b))
    BY <1>1, <1>5, Facts DEF Refuse
  <2>3. TypeOK'
    BY <1>1, <1>2, <1>3, <1>5, <2>2 DEF DistInv, TypeOK, control, advised, Advertised
  <2>4. PeersKnown'
    BY <1>1, <1>2, <1>3, <2>2 DEF DistInv, PeersKnown
  <2>5. ParentIsThere'
    BY <1>3, <1>5, <2>2 DEF DistInv, ParentAgrees, ParentIsThere
  <2>6. CandidateIsParent'
    BY <1>2, <1>3, <1>5, <2>2 DEF DistInv, ParentAgrees, CandidateIsParent, Complete
  <2>7. Informed => Informed'
    BY <1>1, <1>3, <1>5, <2>1, <2>2 DEF Informed, advised
  <2>8. ClosedStays /\ UNCHANGED <<reader, awaited, sends, serverTold>>
    BY <1>1, <1>5, <2>2 DEF ClosedStays, control, advised
  <2>9. \A d \in peers' : link'[d] = "closed" => d \in peers /\ link[d] = "closed"
    BY <1>3, <2>2
  <2> QED BY <1>1, <1>3, <1>5, <2>1, <2>3, <2>4, <2>5, <2>6, <2>7, <2>8, <2>9, QuietStep
          DEF ParentAgrees
<1>6. CASE parent = None /\ Complete(b) /\ SetParent(c) /\ UNCHANGED told
  <2>1. parent' = c /\ c # None
    BY <1>6, Facts DEF SetParent
  <2>2. /\ OnlyEnds /\ listed' \subseteq Conns /\ link'[c] = "open"
        /\ link' \in [Conns -> {"none", "connecting", "open", "closing", "closed"}]
        /\ Announce(c) \/ \E x, w : HandlerWaits(c, x, w)
    <3>1. CASE attempts = {}
      BY <1>1, <1>6, <2>1, <3>1, OthersEnd DEF SetParent
    <3>2. CASE attempts # {}
      <4>1. /\ reader' = [reader EXCEPT ![c] = "tasks"]
            /\ awaited' = [awaited EXCEPT ![c] = attempts]
            /\ UNCHANGED <<link, listed, serverTold, sends>>
        BY <1>6, <3>2 DEF SetParent
      <4>2. HandlerWaits(c, "tasks", attempts)
        BY <1>3, <4>1 DEF HandlerWaits
      <4> QED BY <1>1, <1>3, <4>1, <4>2, Facts DEF OnlyEnds
    <3> QED BY <3>1, <3>2
  <2>3. PeersKnown'
    BY <1>1, <1>2, <1>3, <2>2 DEF DistInv, PeersKnown, OnlyEnds
  <2>4. ParentIsThere' /\ ParentComplete'
    BY <1>1, <1>2, <1>3, <1>6, <2>1, <2>2
    DEF DistInv, ParentAgrees, ParentIsThere, ParentComplete
  <2>5. CandidateIsParent'
    <3>1. ASSUME NEW d \in peers, link'[d] = "open", Complete(branch'[d]), d # c PROVE FALSE
      <4>1. link[d] = "open" /\ branch'[d] = branch[d] /\ d # None
        BY <1>2, <1>3, <2>2, <3>1, Facts DEF OnlyEnds
      <4> QED BY <1>6, <3>1, <4>1 DEF DistInv, ParentAgrees, CandidateIsParent
    <3> QED BY <1>3, <2>1, <3>1 DEF CandidateIsParent, Complete
  <2> QED BY <1>1, <1>2, <1>3, <1>6, <2>1, <2>2, <2>3, <2>4, <2>5, SettingGoesOn
          DEF ParentAgrees
<1>7. \/ UNCHANGED <<link, listed, parent, serverTold, control>> /\ c = parent /\ PassOn(c)
      \/ /\ UNCHANGED <<listed, parent, advised, control>> /\ c # parent
         /\ (~Complete(b) /\ UNCHANGED link) \/ Refuse(c)
      \/ parent = None /\ Complete(b) /\ SetParent(c) /\ UNCHANGED told
  BY <1>2 DEF Heard
<1> QED BY <1>4, <1>5, <1>6, <1>7

(* Who is at level 0 is the root; other levels leave the root.                     *)
LEMMA BranchLevelKeeps ==
  ASSUME DistInv, NEW c \in Conns, NEW level \in Levels, BranchLevel(c, level)
  PROVE  DistInv'
<1> DEFINE b == At(IF level = 0 THEN UserOf[c] ELSE branch[c].root, level)
<1>1. /\ branch[c] \in Advertised /\ UserOf[c] \in Names /\ None \notin Names
      /\ level # None
  BY Facts, DistributedAssumption DEF Names
<1>2. b \in Advertised /\ (Complete(branch[c]) => Complete(b))
  BY <1>1 DEF Advertised, Places, At, Complete
<1>3. /\ branch' = [branch EXCEPT ![c] = b] /\ Reads(c) /\ Heard(c)
      /\ UNCHANGED <<asked, attempts, peers, children, server>>
  BY DEF BranchLevel
<1> HIDE DEF b
<1> QED BY <1>2, <1>3, HeardKeeps

(* A root is a name.                                                          *)
LEMMA BranchRootKeeps ==
  ASSUME DistInv, NEW c \in Conns, NEW root \in Roots, BranchRoot(c, root)
  PROVE  DistInv'
<1> DEFINE b == [branch[c] EXCEPT !.root = root]
<1>1. branch[c] \in Advertised /\ root \in Names /\ None \notin Names
  BY Facts, DistributedAssumption DEF Names
<1>2. b \in Advertised /\ (Complete(branch[c]) => Complete(b))
  BY <1>1 DEF Advertised, Places, Complete
<1>3. /\ branch' = [branch EXCEPT ![c] = b] /\ Reads(c) /\ Heard(c)
      /\ UNCHANGED <<asked, attempts, peers, children, server>>
  BY DEF BranchRoot
<1> HIDE DEF b
<1> QED BY <1>2, <1>3, HeardKeeps

---------------------------------------------------------------------------
(* At first there are no peers.                                                *)
LEMMA DistInit == Init => DistInv
<1> SUFFICES ASSUME Init PROVE DistInv
  OBVIOUS
<1>1. sends = <<>> /\ DOMAIN sends = {} /\ sends \in Seq(Send)
  BY DEF Init
<1>2. Unknown \in Advertised /\ Unknown \in Told /\ At(Me, 0) \in Places(Names, Nat)
  BY DEF Unknown, At, Advertised, Told, Places, Names
<1>3. TypeOK
  <2>1. /\ link \in [Conns -> {"none", "connecting", "open", "closing", "closed"}]
        /\ asked \subseteq Conns /\ attempts \subseteq asked /\ listed \subseteq Conns
        /\ peers \subseteq Conns /\ children \subseteq Conns /\ parent \in Conns \cup {None}
        /\ branch \in [Conns -> Advertised] /\ told \in [Conns -> Told]
    BY <1>2 DEF Init
  <2>2. /\ potential \subseteq Users /\ limit \in Limits /\ session \in BOOLEAN
        /\ serverTold \in [place : Places(Names, Nat), search : BOOLEAN]
    BY <1>2 DEF Init
  <2>3. /\ reader \in [Readers -> {"reads", "tasks", "others", "server", "children", "parent"}]
        /\ awaited \in [Readers -> SUBSET Conns]
    BY DEF Init
  <2>4. spent \in [{"messages", "losses", "failures"} -> Nat]
    <3>1. spent = [messages |-> 0, losses |-> 0, failures |-> 0]
      BY DEF Init
    <3> QED BY <3>1
  <2> QED BY <1>1, <2>1, <2>2, <2>3, <2>4 DEF TypeOK, Send, Advertised, Told
<1>4. PeersKnown /\ ParentAgrees /\ ParentComplete
  BY DEF Init, PeersKnown, ParentAgrees, ParentIsThere, CandidateIsParent, ParentComplete
<1>5. SendsKnown /\ ReadersKnown /\ AwaitedEnds
  BY <1>1 DEF Init, SendsKnown, ReadersKnown, AwaitedEnds, Readers
<1>6. ServerTold /\ ClosedIsForgotten
  BY DEF Init, ServerTold, ClosedIsForgotten
<1>7. ChildrenTold
  BY <1>1 DEF Init, ChildrenTold, NobodyTells, Informed
<1> QED BY <1>3, <1>4, <1>5, <1>6, <1>7 DEF DistInv

(* The invariant is about the variables alone.                                  *)
LEMMA DistStutters == DistInv /\ UNCHANGED vars => DistInv'
<1> SUFFICES ASSUME DistInv, UNCHANGED vars PROVE DistInv'
  OBVIOUS
<1>1. OnlyEnds /\ NoLoss /\ UNCHANGED <<tree, reader, awaited, sends, session, told, serverTold>>
  BY DEF vars, links, server, advised, control, OnlyEnds, NoLoss
<1>2. TypeOK'
  BY DEF DistInv, TypeOK, vars, links, tree, server, advised, control
<1> QED BY <1>1, <1>2, QuietEnds

(* Every action keeps the invariant.                                          *)
LEMMA DistSteps == DistInv /\ [Next]_vars => DistInv'
<1> SUFFICES ASSUME DistInv, [Next]_vars PROVE DistInv'
  OBVIOUS
<1>1. ASSUME Own PROVE DistInv'
  BY <1>1, TasksCancelledKeeps, OthersClosedKeeps, ResetParentKeeps, ResetDoneKeeps, SentKeeps
  DEF Own
<1>2. ASSUME Peers PROVE DistInv'
  BY <1>2, AcceptedKeeps, ConnectToPeerKeeps, ConnectedKeeps, ConnectFailedKeeps,
     ConnectionLostKeeps, BranchLevelKeeps, BranchRootKeeps DEF Peers
<1>3. ASSUME ServerSide PROVE DistInv'
  BY <1>3, PotentialParentsKeeps, UserStatsKeeps, ResetDistributedKeeps, SessionDestroyedKeeps,
     SessionInitializedKeeps, SendFailedKeeps DEF ServerSide
<1>4. ASSUME NEW c \in Conns, Closed(c) PROVE DistInv'
  BY <1>4, ClosedKeeps
<1> QED BY <1>1, <1>2, <1>3, <1>4, DistStutters DEF Next

(* The inductive invariant, of every behaviour.                                *)
THEOREM DistInvariant == Spec => []DistInv
<1> QED BY DistInit, DistSteps, PTL DEF Spec

(* Types: the objects of DistributedNetwork and its peers.                      *)
THEOREM TypeCorrect == Spec => []TypeOK
<1>1. DistInv => TypeOK
  BY DEF DistInv
<1> QED BY <1>1, DistInvariant, PTL

(* The parent's connection is there, and who advertised level and root is the       *)
(* parent or refused (_set_parent, _unset_parent, _check_if_new_parent).          *)
THEOREM ParentAndCandidates == Spec => []ParentAgrees
<1>1. DistInv => ParentAgrees
  BY DEF DistInv
<1> QED BY <1>1, DistInvariant, PTL

(* A closed peer is forgotten unless a write to the server failed                 *)
(* (_on_state_changed).                                                       *)
THEOREM ForgottenWhenClosed == Spec => []ClosedIsForgotten
<1>1. DistInv => ClosedIsForgotten
  BY DEF DistInv
<1> QED BY <1>1, DistInvariant, PTL

(* Once nobody is setting a parent or telling the server, the server was told to   *)
(* look for a parent exactly if we have none, a branch root included               *)
(* (_notify_server_of_parent).                                                *)
THEOREM SearchIsKnown == Spec => []ServerKnowsSearch
<1>1. DistInv => ServerKnowsSearch
  BY DEF DistInv, ServerTold, Setting, ServerKnowsSearch, TypeOK
<1> QED BY <1>1, DistInvariant, PTL

(* In one session the children know our place when nothing is under way             *)
(* (_notify_children_of_branch_values).                                       *)
THEOREM ChildrenKnowPlace == Spec => []ChildrenInformed
<1>1. ASSUME DistInv PROVE ChildrenInformed
  <2>1. SUFFICES ASSUME Quiet, spent.losses = 0, spent.failures = 0
                 PROVE  \A c \in children : link[c] = "open" => told[c] = Place
    BY DEF ChildrenInformed
  <2>2. DOMAIN sends = {} /\ \A c \in Conns : reader[c] = "reads"
    <3>1. sends = <<>> /\ DOMAIN <<>> = {}
      BY <2>1 DEF Quiet
    <3> QED BY <1>1, <2>1, <3>1, Facts DEF Quiet
  <2>3. ~Setting /\ ~LastTells
    BY <2>2 DEF Setting, LastTells
  <2> QED BY <1>1, <2>1, <2>3 DEF DistInv, ChildrenTold, Informed
<1> QED BY <1>1, DistInvariant, PTL

(* Nobody waits in a circle: what is awaited is closing, closed or being sent        *)
(* (_set_parent, _reset).                                                     *)
THEOREM NoCircle == Spec => []AwaitedEnds
<1>1. DistInv => AwaitedEnds
  BY DEF DistInv
<1> QED BY <1>1, DistInvariant, PTL
=============================================================================
