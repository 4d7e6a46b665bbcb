----------------------------- MODULE Distributed -----------------------------
(***************************************************************************)
(* DistributedNetwork: our place in the tree along which searches travel.    *)
(* Peers connect, advertise the level and the root of their branch, one of   *)
(* them becomes our parent, others our children; the server and the children *)
(* are to be told where we are.                                             *)
(*                                                                          *)
(* An action runs a piece of code between two suspensions.  Handlers that    *)
(* suspend are those of messages, which run in the reader of the connection  *)
(* the message came from, and those of a connection that was closed.         *)
(***************************************************************************)
EXTENDS Naturals, Sequences, FiniteSets

CONSTANTS Conns,         \* distributed connections, each used once
          Server,        \* the reader of the server connection
          Named,         \* those of them that come from PotentialParents
          Users, Me,     \* user names
          Roots,         \* names that peers advertise as roots
          UserOf,        \* the user at the other end of a connection
          Levels,        \* levels that peers advertise
          Limits,        \* numbers of children the statistics allow
          None,
          MaxMessages,   \* bound: levels, roots, statistics and resets
          MaxLosses      \* bound: sessions that end, in a failed write or not

ASSUME DistributedAssumption ==
  /\ IsFiniteSet(Conns) /\ Server \notin Conns /\ None \notin Conns
  /\ UserOf \in [Conns -> Users] /\ None \notin Users \cup {Me}
  /\ Roots \subseteq Users \cup {Me}
  /\ Levels \subseteq Nat /\ Limits \subseteq Nat /\ None \notin Nat
  /\ Named \subseteq Conns
  /\ MaxMessages \in Nat /\ MaxLosses \in Nat

Names   == Users \cup {Me}
Readers == Conns \cup {Server}

VARIABLES
  link,        \* what became of a connection
  asked,       \* connections that we asked for
  attempts,    \* those of them whose task in _potential_parent_tasks runs
  listed,      \* Network.peer_connections
  peers,       \* distributed_peers
  branch,      \* DistributedPeer.branch_level and branch_root
  parent,
  children,
  potential,   \* potential_parents
  limit,       \* _max_children, 0 if children are not accepted
  told,        \* the place a child was told last
  serverTold,  \* what the server was told last
  session,     \* there is a session
  reader,      \* where the handler of the last message of a connection is
  awaited,     \* connections or attempts whose end it awaits
  sends,       \* those who await that the server was told, in order
  spent        \* how much of each bound is used up

links   == <<link, asked, attempts, listed>>
tree    == <<peers, branch, parent, children>>
server  == <<potential, limit, session>>
advised == <<told, serverTold>>
control == <<reader, awaited, sends>>
vars    == <<links, tree, server, advised, control, spent>>

---------------------------------------------------------------------------
(* _get_advertised_branch_values: our place in the tree.  A root that is     *)
(* ourselves means that the branch leads back to us.                        *)
At(root, level) == [root |-> root, level |-> level]
Unknown         == At(None, None)

Place ==
  IF parent = None \/ branch[parent].root = Me THEN At(Me, 0)
  ELSE At(branch[parent].root, branch[parent].level + 1)

Init ==
  /\ link = [c \in Conns |-> "none"] /\ asked = {} /\ attempts = {} /\ listed = {}
  /\ peers = {} /\ branch = [c \in Conns |-> Unknown]
  /\ parent = None /\ children = {}
  /\ potential = {} /\ limit \in Limits \ {0} /\ session = TRUE
  /\ told = [c \in Conns |-> Unknown]
  /\ serverTold = [place |-> At(Me, 0), search |-> TRUE]
  /\ reader = [r \in Readers |-> "reads"] /\ awaited = [r \in Readers |-> {}]
  /\ sends = <<>>
  /\ spent = [messages |-> 0, losses |-> 0, failures |-> 0]

---------------------------------------------------------------------------
(* Telling others.  Messages to the server and to children are written in   *)
(* the order in which they were queued.                                     *)

TellChildren(place) ==
  told' = [c \in Conns |-> IF c \in children /\ link[c] = "open" THEN place ELSE told[c]]

(* _notify_server_of_parent, with a session; its caller waits.             *)
TellServer(why, c) ==
  /\ serverTold' = [place |-> Place', search |-> parent' = None]
  /\ sends' = Append(sends, [why |-> why, conn |-> c])

---------------------------------------------------------------------------
(* Closing.                                                                *)

Open(cs)       == {c \in cs : link[c] = "open"}
Connecting(cs) == {c \in cs : link[c] = "connecting"}

(* disconnect: an open connection is closed.  An attempt that still runs     *)
(* brings its connection up later all the same; a cancelled one does not.    *)
AfterDisconnect(cs) ==
  [c \in Conns |->
     IF c \in Open(cs) THEN "closing"
     ELSE IF link[c] = "connecting" /\ c \in asked \ attempts' THEN "closed"
     ELSE link[c]]

(* All that had to be done when the connection closed is done.             *)
Done(c) ==
  /\ link[c] = "closed"
  /\ \A i \in DOMAIN sends : sends[i] # [why |-> "unset", conn |-> c]

Forget(c) ==
  /\ peers' = peers \ {c} /\ children' = children \ {c}
  /\ branch' = [branch EXCEPT ![c] = Unknown]

(* Mutants: without a session the parent is kept; a parent that could not be  *)
(* announced is not forgotten; the loss is not announced.                   *)
LostWhileOffline(c) ==
  /\ parent' = IF parent = c /\ session THEN None ELSE parent
  /\ IF parent = c /\ session THEN TellServer("unset", c) /\ UNCHANGED <<peers, branch, children>>
     ELSE Forget(c) /\ UNCHANGED <<serverTold, sends>>

LostEarlyReturn(c) ==
  /\ parent' = IF parent = c THEN None ELSE parent
  /\ IF parent = c
     THEN /\ IF session THEN TellServer("unset", c) ELSE UNCHANGED <<serverTold, sends>>
          /\ UNCHANGED <<peers, branch, children>>
     ELSE Forget(c) /\ UNCHANGED <<serverTold, sends>>

LostUnannounced(c) ==
  /\ parent' = IF parent = c THEN None ELSE parent
  /\ Forget(c) /\ UNCHANGED <<serverTold, sends>>

(* _on_state_changed: a lost parent is announced before it is forgotten.    *)
Lost(c) ==
  /\ parent' = IF parent = c THEN None ELSE parent
  /\ IF parent = c /\ session THEN TellServer("unset", c) /\ UNCHANGED <<peers, branch, children>>
     ELSE Forget(c) /\ UNCHANGED <<serverTold, sends>>

Closed(c) ==
  /\ link[c] = "closing"
  /\ link' = [link EXCEPT ![c] = "closed"]
  /\ listed' = listed \ {c}
  /\ told' = [told EXCEPT ![c] = Unknown]
  /\ UNCHANGED <<asked, attempts, server, reader, awaited, spent>>
  /\ Lost(c)

(* A reader that handles no message notices the end of the connection; a    *)
(* write fails at any time.                                                 *)
ConnectionLost(c) ==
  /\ link[c] = "open"
  /\ reader[c] = "reads" \/ c \in children \cup {parent}
  /\ link' = [link EXCEPT ![c] = "closing"]
  /\ UNCHANGED <<asked, attempts, listed, tree, server, advised, control, spent>>

---------------------------------------------------------------------------
(* A new parent.                                                           *)

(* _set_parent from the notification of the server on.                      *)
Announce(c) ==
  /\ awaited' = [awaited EXCEPT ![c] = {}]
  /\ IF session
     THEN TellServer("set", c) /\ reader' = [reader EXCEPT ![c] = "server"]
     ELSE reader' = [reader EXCEPT ![c] = "reads"] /\ UNCHANGED <<serverTold, sends>>

(* Mutant: attempts are awaited as well.                                   *)
DisconnectOthersAndAttempts(c) ==
  LET others == listed \ (children \cup {parent'}) IN
  /\ link' = AfterDisconnect(others)
  /\ listed' = listed \ Connecting(others)
  /\ IF others = {} THEN Announce(c)
     ELSE /\ reader' = [reader EXCEPT ![c] = "others"]
          /\ awaited' = [awaited EXCEPT ![c] = others]
          /\ UNCHANGED <<serverTold, sends>>

(* All connections but those of the parent and the children are closed.     *)
DisconnectOthers(c) ==
  LET others == listed \ (children \cup {parent'}) IN
  /\ link' = AfterDisconnect(others)
  /\ listed' = listed \ Connecting(others)
  /\ IF Open(others) = {} THEN Announce(c)
     ELSE /\ reader' = [reader EXCEPT ![c] = "others"]
          /\ awaited' = [awaited EXCEPT ![c] = Open(others)]
          /\ UNCHANGED <<serverTold, sends>>

SetParent(c) ==
  /\ parent' = c
  /\ IF attempts = {} THEN DisconnectOthers(c)
     ELSE /\ reader' = [reader EXCEPT ![c] = "tasks"]
          /\ awaited' = [awaited EXCEPT ![c] = attempts]
          /\ UNCHANGED <<link, listed, serverTold, sends>>

(* The tasks of the potential parents have been cancelled, those that ended  *)
(* in time excepted.                                                        *)
TasksCancelled(c) ==
  /\ reader[c] = "tasks"
  /\ attempts' = attempts \ awaited[c]
  /\ UNCHANGED <<asked, tree, server, told, spent>>
  /\ DisconnectOthers(c)

OthersClosed(c) ==
  /\ reader[c] = "others" /\ \A d \in awaited[c] : Done(d)
  /\ UNCHANGED <<links, tree, server, told, spent>>
  /\ Announce(c)

---------------------------------------------------------------------------
CountMessage ==
  /\ spent.messages < MaxMessages
  /\ spent' = [spent EXCEPT !.messages = @ + 1]

(* What peers send.                                                        *)

(* Mutant: the level is enough.                                            *)
CompleteLevel(b) == b.level # None

Complete(b) == b.level # None /\ b.root # None

(* Mutants: only a new root is passed on; a candidate that comes too late     *)
(* stays.                                                                  *)
PassOnRoot(c) ==
  IF session /\ branch'[c].root # branch[c].root THEN TellChildren(Place')
  ELSE UNCHANGED told
RefuseSilently(c) == UNCHANGED link

(* The children are told of the parent's new values.                       *)
PassOn(c) == IF session THEN TellChildren(Place') ELSE UNCHANGED told

(* We have a parent.                                                       *)
Refuse(c) == link' = [link EXCEPT ![c] = "closing"]

(* _check_if_new_parent, or what a parent's new values lead to.             *)
Heard(c) ==
  \/ /\ c = parent
     /\ UNCHANGED <<link, listed, parent, serverTold, control>>
     /\ PassOn(c)
  \/ /\ c # parent /\ ~Complete(branch'[c])
     /\ UNCHANGED <<link, listed, parent, advised, control>>
  \/ /\ parent = None /\ Complete(branch'[c])
     /\ SetParent(c)
     /\ UNCHANGED told
  \/ /\ parent \notin {c, None} /\ Complete(branch'[c])
     /\ Refuse(c)
     /\ UNCHANGED <<listed, parent, advised, control>>

Reads(c) ==
  /\ link[c] = "open" /\ reader[c] = "reads" /\ c \in peers
  /\ CountMessage

(* Who is at level 0 is the root.                                          *)
BranchLevel(c, level) ==
  /\ Reads(c)
  /\ branch' = [branch EXCEPT ![c] =
                  At(IF level = 0 THEN UserOf[c] ELSE @.root, level)]
  /\ UNCHANGED <<asked, attempts, peers, children, server>>
  /\ Heard(c)

BranchRoot(c, root) ==
  /\ Reads(c) /\ root # branch[c].root
  /\ branch' = [branch EXCEPT ![c].root = root]
  /\ UNCHANGED <<asked, attempts, peers, children, server>>
  /\ Heard(c)

---------------------------------------------------------------------------
(* New connections.                                                        *)

(* _check_if_new_child and _add_child, which fails without a session, after  *)
(* the child was added.                                                    *)
NewChild(c) ==
  \/ /\ UserOf[c] \in potential
     /\ link' = [link EXCEPT ![c] = "open"]
     /\ UNCHANGED <<children, told>>
  \/ /\ UserOf[c] \notin potential /\ Cardinality(children) >= limit
     /\ link' = [link EXCEPT ![c] = "closing"]
     /\ UNCHANGED <<children, told>>
  \/ /\ UserOf[c] \notin potential /\ Cardinality(children) < limit
     /\ link' = [link EXCEPT ![c] = "open"]
     /\ children' = children \cup {c}
     /\ told' = IF session THEN [told EXCEPT ![c] = Place] ELSE told

Initialized(c) ==
  /\ peers' = peers \cup {c}
  /\ IF c \in asked THEN link' = [link EXCEPT ![c] = "open"] /\ UNCHANGED <<children, told>>
     ELSE NewChild(c)

(* A peer connects to us.                                                  *)
Accepted(c) ==
  /\ link[c] = "none" /\ c \notin Named
  /\ listed' = listed \cup {c}
  /\ Initialized(c)
  /\ UNCHANGED <<asked, attempts, branch, parent, server, serverTold, control, spent>>

(* A peer asks us, through the server, to connect to it.                    *)
ConnectToPeer(c) ==
  /\ session /\ reader[Server] = "reads"
  /\ link[c] = "none" /\ c \notin Named
  /\ link' = [link EXCEPT ![c] = "connecting"]
  /\ listed' = listed \cup {c}
  /\ UNCHANGED <<asked, attempts, tree, server, advised, control, spent>>

(* The server names users that could be our parent.                        *)
PotentialParents(cs) ==
  /\ session /\ reader[Server] = "reads"
  /\ cs # {} /\ \A c \in cs : link[c] = "none" /\ c \in Named
  /\ potential' = potential \cup {UserOf[c] : c \in cs}
  /\ link' = [c \in Conns |-> IF c \in cs THEN "connecting" ELSE link[c]]
  /\ asked' = asked \cup cs /\ attempts' = attempts \cup cs /\ listed' = listed \cup cs
  /\ UNCHANGED <<tree, limit, session, advised, control, spent>>

Connected(c) ==
  /\ link[c] = "connecting"
  /\ attempts' = attempts \ {c}
  /\ Initialized(c)
  /\ UNCHANGED <<asked, listed, branch, parent, server, serverTold, control, spent>>

ConnectFailed(c) ==
  /\ link[c] = "connecting"
  /\ link' = [link EXCEPT ![c] = "closed"]
  /\ attempts' = attempts \ {c} /\ listed' = listed \ {c}
  /\ UNCHANGED <<asked, tree, server, advised, control, spent>>

---------------------------------------------------------------------------
(* The server.  A search it sends (ServerSearchRequest) is passed on to the     *)
(* children and changes nothing here, not even if we are a branch root.        *)

(* Our speed and the server's parameters say how many children we may have.  *)
UserStats(n) ==
  /\ session /\ reader[Server] = "reads"
  /\ CountMessage
  /\ limit' = n
  /\ UNCHANGED <<links, tree, potential, session, advised, control>>

(* ResetDistributed: the children are closed, then the parent.             *)
ResetDistributed ==
  /\ session /\ reader[Server] = "reads"
  /\ CountMessage
  /\ link' = [c \in Conns |-> IF c \in Open(children) THEN "closing" ELSE link[c]]
  /\ reader' = [reader EXCEPT ![Server] = "children"]
  /\ awaited' = [awaited EXCEPT ![Server] = Open(children)]
  /\ UNCHANGED <<asked, attempts, listed, tree, server, advised, sends>>

ResetParent ==
  /\ reader[Server] = "children" /\ \A c \in awaited[Server] : Done(c)
  /\ link' = [c \in Conns |-> IF c \in Open({parent} \ {None}) THEN "closing" ELSE link[c]]
  /\ reader' = [reader EXCEPT ![Server] = "parent"]
  /\ awaited' = [awaited EXCEPT ![Server] = Open({parent} \ {None})]
  /\ UNCHANGED <<asked, attempts, listed, tree, server, advised, sends, spent>>

ResetDone ==
  /\ reader[Server] = "parent" /\ \A c \in awaited[Server] : Done(c)
  /\ reader' = [reader EXCEPT ![Server] = "reads"]
  /\ awaited' = [awaited EXCEPT ![Server] = {}]
  /\ UNCHANGED <<links, tree, server, advised, sends, spent>>

SessionDestroyed ==
  /\ session /\ spent.losses + spent.failures < MaxLosses
  /\ session' = FALSE
  /\ spent' = [spent EXCEPT !.losses = @ + 1]
  /\ UNCHANGED <<links, tree, potential, limit, advised, control>>

SessionInitialized ==
  /\ ~session
  /\ session' = TRUE
  /\ UNCHANGED <<links, tree, potential, limit, told, reader, awaited, spent>>
  /\ TellServer("session", None)

(* The first of those who wait is told that its messages were sent.         *)
Sent ==
  /\ sends # <<>>
  /\ sends' = Tail(sends)
  /\ LET c == Head(sends).conn IN
     \/ /\ Head(sends).why = "set"
        /\ IF session THEN TellChildren(Place) ELSE UNCHANGED told
        /\ reader' = [reader EXCEPT ![c] = "reads"]
        /\ UNCHANGED <<peers, branch, children>>
     \/ /\ Head(sends).why = "unset"
        /\ TellChildren(At(Me, 0))
        /\ Forget(c)
        /\ UNCHANGED reader
     \/ /\ Head(sends).why = "session"
        /\ UNCHANGED <<told, reader, peers, branch, children>>
  /\ UNCHANGED <<links, parent, server, serverTold, awaited, spent>>

(* A write fails and ends the session; whoever waits gets the exception.    *)
SendFailed ==
  /\ sends # <<>> /\ spent.failures < MaxLosses
  /\ session => spent.losses + spent.failures < MaxLosses
  /\ sends' = Tail(sends)
  /\ session' = FALSE
  /\ reader' = IF Head(sends).why = "set"
               THEN [reader EXCEPT ![Head(sends).conn] = "reads"] ELSE reader
  /\ spent' = [spent EXCEPT !.failures = @ + 1]
  /\ UNCHANGED <<links, tree, potential, limit, advised, awaited>>

---------------------------------------------------------------------------
Own ==
  \/ \E c \in Conns : TasksCancelled(c) \/ OthersClosed(c)
  \/ ResetParent \/ ResetDone \/ Sent

Peers ==
  \E c \in Conns :
    \/ Accepted(c) \/ ConnectToPeer(c) \/ Connected(c) \/ ConnectFailed(c)
    \/ ConnectionLost(c)
    \/ \E level \in Levels : BranchLevel(c, level)
    \/ \E root \in Roots : BranchRoot(c, root)

ServerSide ==
  \/ \E cs \in SUBSET Conns : PotentialParents(cs)
  \/ \E n \in Limits : UserStats(n)
  \/ ResetDistributed \/ SessionDestroyed \/ SessionInitialized \/ SendFailed

Next == Own \/ Peers \/ ServerSide \/ \E c \in Conns : Closed(c)

Spec == Init /\ [][Next]_vars

---------------------------------------------------------------------------
Places(roots, levels) == [root : roots, level : levels]

(* Every variable keeps the type of the object it stands for.              *)
TypeOK ==
  /\ link \in [Conns -> {"none", "connecting", "open", "closing", "closed"}]
  /\ asked \subseteq Conns /\ attempts \subseteq asked /\ listed \subseteq Conns
  /\ peers \subseteq Conns /\ children \subseteq Conns /\ parent \in Conns \cup {None}
  /\ branch \in [Conns -> Places(Names \cup {None}, Levels \cup {None})]
  /\ potential \subseteq Users /\ limit \in Limits /\ session \in BOOLEAN
  /\ told \in [Conns -> Places(Names \cup {None}, Nat \cup {None})]
  /\ serverTold \in [place : Places(Names, Nat), search : BOOLEAN]
  /\ reader \in [Readers -> {"reads", "tasks", "others", "server", "children", "parent"}]
  /\ awaited \in [Readers -> SUBSET Conns]
  /\ sends \in Seq([why : {"set", "unset", "session"}, conn : Conns \cup {None}])
  /\ spent \in [{"messages", "losses", "failures"} -> Nat]

(* Nothing is under way: nobody waits and no handler of a message runs.     *)
Quiet == sends = <<>> /\ \A r \in Readers : reader[r] = "reads"

(* A parent is a peer whose connection is there, or is being closed by        *)
(* someone who will unset it: after no order of events are we left with a    *)
(* parent that is gone, and nobody looks for another.  Children are peers.   *)
ParentIsThere ==
  /\ children \subseteq peers
  /\ parent # None => parent \in peers /\ link[parent] \in {"open", "closing"}

(* "Upon disconnect that peer will be removed from this list": peers and     *)
(* children are connected, or someone is about to forget them, unless the    *)
(* server could not be told.                                               *)
ClosedIsForgotten ==
  spent.failures = 0 =>
    \A c \in peers : link[c] = "closed" =>
      \E i \in DOMAIN sends : sends[i] = [why |-> "unset", conn |-> c]

(* A peer that advertised its level and its root is our parent or on its way  *)
(* out: two candidates that complete their values while we set or lose a     *)
(* parent are neither both kept nor forgotten.                             *)
CandidateIsParent ==
  \A c \in peers : link[c] = "open" /\ Complete(branch[c]) => c = parent

(* Setting, losing and refusing a parent leaves the parent and the candidates   *)
(* in agreement with the connections (_set_parent, _unset_parent and the       *)
(* handlers of branch values, which suspend in between).                       *)
ParentAgrees == ParentIsThere /\ CandidateIsParent

(* With debug.search_for_parent on, its default: once nobody is setting a       *)
(* parent or telling the server, the server was last told to look for one       *)
(* exactly if we have none, however setting, losing and resetting the parent and *)
(* the session interleave (_notify_server_of_parent).  That includes a branch     *)
(* root, to whom the server sends its searches: DESIGN.rst says that it turns the *)
(* search off then, the code never does.                                       *)
ServerKnowsSearch ==
  session /\ sends = <<>> /\ (\A c \in Conns : reader[c] = "reads") =>
    serverTold.search = (parent = None)

(* "These values are to be sent to the children": when nothing is under way   *)
(* every child was told the place where we are, whatever parents came, went   *)
(* and changed their values, as long as the session lasts.                  *)
ChildrenInformed ==
  Quiet /\ spent.losses = 0 /\ spent.failures = 0 =>
    \A c \in children : link[c] = "open" => told[c] = Place

(* No circle of waiting: whoever sets a parent or resets waits only for       *)
(* connections that are closing or closed, and for a send that is under way. *)
AwaitedEnds ==
  \A r \in Readers :
    /\ reader[r] \in {"others", "children", "parent"} =>
         \A c \in awaited[r] : link[c] \in {"closing", "closed"}
    /\ reader[r] = "server" =>
         \E i \in DOMAIN sends : sends[i] = [why |-> "set", conn |-> r]
=============================================================================
