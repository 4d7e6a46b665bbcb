----------------------------- MODULE Session_proof -----------------------------
(***************************************************************************)
(* What Session and Search keep for every bound: types, EofIsFinal,           *)
(* SessionAgrees and ReaderLoops, from one inductive invariant, and           *)
(* ResultsBelong from a second one about tickets.  Then what Shares keeps: its  *)
(* types and PeersSeeAlike, from a third one about items and walks.           *)
(***************************************************************************)
EXTENDS Search, Shares, TLAPS, FiniteSetTheorems

(* Who may be connecting: one task at a time, and nobody reads or announces     *)
(* meanwhile.                                                                *)
OneConnects ==
  /\ app = "new" => conn = "UNINITIALIZED"
  /\ app = "connects" => conn = "CONNECTING"
  /\ app \in {"new", "connects"} => dog = "off" /\ stage = 0
  /\ dog = "waits" => conn = "CLOSED"
  /\ dog = "connects" => conn = "CONNECTING" /\ stage = 0
  /\ conn = "CONNECTING" => app = "connects" \/ dog = "connects"
  /\ conn = "UNINITIALIZED" => app = "new"

(* The application and the watchdog never log in or announce together, and a    *)
(* reader is started when that is over.                                       *)
OneLogsIn ==
  /\ app \in {"new", "connects", "login", "announces"} =>
       dog \in {"off", "polls", "waits"} /\ reader = "none"
  /\ dog \in {"connects", "login", "announces"} => reader = "none"
  /\ stage # 0 <=> app = "announces" \/ dog = "announces"
  /\ conn = "CLOSING" /\ last.by = "dog" => dog \in {"login", "announces"}

(* A connection that may be made again was lost before.                        *)
LossesCount ==
  /\ conn \in {"CONNECTED", "CLOSING"} => opens # 0
  /\ opens <= spent.losses + 1
  /\ \/ opens <= spent.losses
     \/ conn = "CONNECTED"
     \/ conn \in {"CLOSING", "CLOSED"} /\ last.reason = "REQUESTED"

(* The services that were told have the session.                              *)
Told ==
  /\ session = 0 /\ stage # 0 => cut
  /\ \A k \in Keepers : session = 0 /\ held[k] # 0 => cut
  /\ session # 0 /\ conn = "CONNECTED" =>
       \A i \in 1..8 : (stage = 0 \/ i < stage) /\ Services[i] \in Keepers
                          => held[Services[i]] = session

(* The wishlist task runs on a connection whose interval came.                 *)
Helping ==
  /\ conn # "CONNECTED" => helpers = {}
  /\ "wishlist" \in helpers => spent.intervals # 0

SessionInv ==
  /\ TypeOK /\ OneConnects /\ OneLogsIn /\ LossesCount /\ Told /\ Helping
  /\ SessionIsConnected /\ EofIsFinal /\ ReaderLoops


---------------------------------------------------------------------------
(* The first connection: nothing was up before.                               *)
LEMMA StartKeeps ==
  ASSUME SessionInv, Start
  PROVE  SessionInv'
<1>1. TypeOK'
  BY DEF SessionInv, TypeOK, Start, shared
<1>2. OneConnects'
  BY DEF SessionInv, OneConnects, Start, shared
<1>3. OneLogsIn'
  BY DEF SessionInv, OneLogsIn, Start, shared
<1>4. LossesCount'
  BY DEF SessionInv, LossesCount, OneConnects, Start
<1>5. Told'
  BY DEF SessionInv, Told, Start, shared
<1>6. Helping'
  BY DEF SessionInv, Helping, OneConnects, Start
<1>7. SessionIsConnected'
  BY DEF SessionInv, SessionIsConnected, OneConnects, Start, shared
<1>8. EofIsFinal'
  BY DEF SessionInv, EofIsFinal, Start
<1>9. ReaderLoops'
  BY DEF SessionInv, ReaderLoops, Start
<1> QED BY <1>1, <1>2, <1>3, <1>4, <1>5, <1>6, <1>7, <1>8, <1>9 DEF SessionInv

(* Nobody else connects, and there was no session.                            *)
LEMMA AppConnectedKeeps ==
  ASSUME SessionInv, AppConnected
  PROVE  SessionInv'
<1>1. LossesCount'
  BY DEF SessionInv, LossesCount, TypeOK, AppConnected, Opened
<1>2. TypeOK'
  <2>1. spent' \in [losses : 0..MaxLosses, intervals : 0..MaxIntervals]
    BY SessionAssumption DEF SessionInv, TypeOK, AppConnected, Opened
  <2>2. opens' \in 0..(MaxLosses + 1) /\ opens' = opens + 1
    BY SessionAssumption, <1>1, <2>1 DEF SessionInv, TypeOK, LossesCount, AppConnected, Opened
  <2>3. session' \in 0..opens' /\ held' \in [Keepers -> 0..opens']
    <3>1. 0..opens \subseteq 0..opens'
      BY <2>2 DEF SessionInv, TypeOK
    <3> QED BY <3>1 DEF SessionInv, TypeOK, AppConnected, Opened, shared
  <2>4. conn' = "CONNECTED" /\ last' = last /\ reader' = reader /\ stage' = stage /\ cut' = cut
        /\ watched' = TRUE /\ refused' = FALSE /\ helpers' = helpers \cup {"ping", "upnp"}
    BY DEF AppConnected, Opened, StartsWatchdog, shared
  <2>5. app' \in {app, "login"} /\ dog' \in {"login", "polls"}
    BY DEF AppConnected, Opened, StartsWatchdog
  <2> QED BY <2>1, <2>2, <2>3, <2>4, <2>5 DEF SessionInv, TypeOK
<1>3. OneConnects'
  BY DEF SessionInv, OneConnects, AppConnected, Opened, StartsWatchdog
<1>4. OneLogsIn'
  BY DEF SessionInv, OneLogsIn, AppConnected, Opened, StartsWatchdog, shared
<1>5. Told'
  BY DEF SessionInv, Told, SessionIsConnected, OneConnects, AppConnected,
    Opened, shared
<1>6. Helping'
  BY DEF SessionInv, Helping, AppConnected, Opened
<1>7. SessionIsConnected'
  BY DEF SessionInv, SessionIsConnected, AppConnected, Opened, shared
<1>8. EofIsFinal'
  BY DEF SessionInv, EofIsFinal, AppConnected, Opened
<1>9. ReaderLoops'
  BY DEF SessionInv, ReaderLoops, OneLogsIn, SessionIsConnected, AppConnected,
    Opened, shared
<1> QED BY <1>1, <1>2, <1>3, <1>4, <1>5, <1>6, <1>7, <1>8, <1>9 DEF SessionInv

(* A failure counts as a loss.                                                *)
LEMMA AppConnectFailedKeeps ==
  ASSUME SessionInv, AppConnectFailed
  PROVE  SessionInv'
<1>1. TypeOK'
  BY SessionAssumption DEF SessionInv, TypeOK, Reasons, AppConnectFailed,
    ConnectFailed, Loss, shared
<1>2. OneConnects'
  BY DEF SessionInv, OneConnects, AppConnectFailed, ConnectFailed
<1>3. OneLogsIn'
  BY DEF SessionInv, OneLogsIn, AppConnectFailed, ConnectFailed, shared
<1>4. LossesCount'
  BY DEF SessionInv, LossesCount, TypeOK, AppConnectFailed, ConnectFailed,
    Loss
<1>5. Told'
  BY DEF SessionInv, Told, AppConnectFailed, ConnectFailed, shared
<1>6. Helping'
  BY DEF SessionInv, Helping, AppConnectFailed, ConnectFailed
<1>7. SessionIsConnected'
  BY DEF SessionInv, SessionIsConnected, AppConnectFailed, ConnectFailed,
    shared
<1>8. EofIsFinal'
  BY DEF SessionInv, EofIsFinal, AppConnectFailed, ConnectFailed
<1>9. ReaderLoops'
  BY DEF SessionInv, ReaderLoops, AppConnectFailed, ConnectFailed
<1> QED BY <1>1, <1>2, <1>3, <1>4, <1>5, <1>6, <1>7, <1>8, <1>9 DEF SessionInv

(* The watchdog starts to wait only on a closed connection.                   *)
LEMMA DogSeesClosedKeeps ==
  ASSUME SessionInv, DogSeesClosed
  PROVE  SessionInv'
<1>1. TypeOK'
  BY DEF SessionInv, TypeOK, DogSeesClosed, link, shared
<1>2. OneConnects'
  BY DEF SessionInv, OneConnects, DogSeesClosed, link
<1>3. OneLogsIn'
  BY DEF SessionInv, OneLogsIn, DogSeesClosed, link, shared
<1>4. EofIsFinal'
  BY DEF SessionInv, EofIsFinal, Busy, DogSeesClosed, link
<1>5. ReaderLoops'
  BY DEF SessionInv, ReaderLoops, DogSeesClosed, link
<1>6. LossesCount' /\ Told' /\ Helping' /\ SessionIsConnected'
  BY DEF SessionInv, LossesCount, Told, Helping, SessionIsConnected,
    DogSeesClosed, link, shared
<1> QED BY <1>1, <1>2, <1>3, <1>4, <1>5, <1>6 DEF SessionInv

(* A watchdog that waits was not ended, so the closing was a loss.            *)
LEMMA DogConnectsKeeps ==
  ASSUME SessionInv, DogConnects
  PROVE  SessionInv'
<1>1. TypeOK'
  BY DEF SessionInv, TypeOK, DogConnects, HandlersAreShort, shared
<1>2. OneConnects'
  BY DEF SessionInv, OneConnects, DogConnects, HandlersAreShort, shared
<1>3. OneLogsIn'
  BY DEF SessionInv, OneLogsIn, OneConnects, DogConnects, HandlersAreShort,
    shared
<1>4. LossesCount'
  BY DEF SessionInv, LossesCount, OneConnects, EofIsFinal, Busy, DogConnects,
    HandlersAreShort
<1>5. Told'
  BY DEF SessionInv, Told, DogConnects, HandlersAreShort, shared
<1>6. Helping'
  BY DEF SessionInv, Helping, OneConnects, DogConnects, HandlersAreShort
<1>7. SessionIsConnected'
  BY DEF SessionInv, SessionIsConnected, OneConnects, DogConnects,
    HandlersAreShort, shared
<1>8. EofIsFinal'
  BY DEF SessionInv, EofIsFinal, DogConnects, HandlersAreShort
<1>9. ReaderLoops'
  BY DEF SessionInv, ReaderLoops, DogConnects, HandlersAreShort
<1> QED BY <1>1, <1>2, <1>3, <1>4, <1>5, <1>6, <1>7, <1>8, <1>9 DEF SessionInv

(* As for the application: reader and announcement were over.                 *)
LEMMA DogConnectedKeeps ==
  ASSUME SessionInv, DogConnected
  PROVE  SessionInv'
<1>1. LossesCount'
  BY DEF SessionInv, LossesCount, TypeOK, DogConnected, Opened
<1>2. TypeOK'
  <2>1. spent' \in [losses : 0..MaxLosses, intervals : 0..MaxIntervals]
    BY SessionAssumption DEF SessionInv, TypeOK, DogConnected, Opened
  <2>2. opens' \in 0..(MaxLosses + 1) /\ opens' = opens + 1
    BY SessionAssumption, <1>1, <2>1 DEF SessionInv, TypeOK, LossesCount, DogConnected, Opened
  <2>3. session' \in 0..opens' /\ held' \in [Keepers -> 0..opens']
    <3>1. 0..opens \subseteq 0..opens'
      BY <2>2 DEF SessionInv, TypeOK
    <3> QED BY <3>1 DEF SessionInv, TypeOK, DogConnected, Opened, shared
  <2>4. conn' = "CONNECTED" /\ last' = last /\ reader' = reader /\ stage' = stage /\ cut' = cut
        /\ watched' = TRUE /\ refused' = FALSE /\ helpers' = helpers \cup {"ping", "upnp"}
    BY DEF DogConnected, Opened, StartsWatchdog, shared
  <2>5. app' \in {app, "login"} /\ dog' \in {"login", "polls"}
    BY DEF DogConnected, Opened, StartsWatchdog
  <2> QED BY <2>1, <2>2, <2>3, <2>4, <2>5 DEF SessionInv, TypeOK
<1>3. OneConnects'
  BY DEF SessionInv, OneConnects, DogConnected, Opened, StartsWatchdog
<1>4. OneLogsIn'
  BY DEF SessionInv, OneLogsIn, DogConnected, Opened, StartsWatchdog, shared
<1>5. Told'
  BY DEF SessionInv, Told, SessionIsConnected, DogConnected, Opened, shared
<1>6. Helping'
  BY DEF SessionInv, Helping, DogConnected, Opened
<1>7. SessionIsConnected'
  BY DEF SessionInv, SessionIsConnected, DogConnected, Opened, shared
<1>8. EofIsFinal'
  BY DEF SessionInv, EofIsFinal, DogConnected, Opened
<1>9. ReaderLoops'
  BY DEF SessionInv, ReaderLoops, OneLogsIn, SessionIsConnected, DogConnected,
    Opened, shared
<1> QED BY <1>1, <1>2, <1>3, <1>4, <1>5, <1>6, <1>7, <1>8, <1>9 DEF SessionInv

(* A failure counts as a loss.                                                *)
LEMMA DogConnectFailedKeeps ==
  ASSUME SessionInv, DogConnectFailed
  PROVE  SessionInv'
<1>1. TypeOK'
  BY SessionAssumption DEF SessionInv, TypeOK, Reasons, DogConnectFailed,
    ConnectFailed, Loss, shared
<1>2. OneConnects'
  BY DEF SessionInv, OneConnects, DogConnectFailed, ConnectFailed
<1>3. OneLogsIn'
  BY DEF SessionInv, OneLogsIn, DogConnectFailed, ConnectFailed, shared
<1>4. LossesCount'
  BY DEF SessionInv, LossesCount, TypeOK, DogConnectFailed, ConnectFailed,
    Loss
<1>5. Told'
  BY DEF SessionInv, Told, DogConnectFailed, ConnectFailed, shared
<1>6. Helping'
  BY DEF SessionInv, Helping, DogConnectFailed, ConnectFailed
<1>7. SessionIsConnected'
  BY DEF SessionInv, SessionIsConnected, DogConnectFailed, ConnectFailed,
    shared
<1>8. EofIsFinal'
  BY DEF SessionInv, EofIsFinal, DogConnectFailed, ConnectFailed
<1>9. ReaderLoops'
  BY DEF SessionInv, ReaderLoops, DogConnectFailed, ConnectFailed
<1> QED BY <1>1, <1>2, <1>3, <1>4, <1>5, <1>6, <1>7, <1>8, <1>9 DEF SessionInv

(* The session is named by the connection it came on, and the announcement begins. *)
LEMMA LoginAcceptedKeeps ==
  ASSUME SessionInv, NEW t \in {"app", "dog"}, LoginAccepted(t)
  PROVE  SessionInv'
<1>1. TypeOK'
  <2>1. Len(Services) = 8
    BY DEF Services
  <2>2. app' \in {app, "announces"} /\ dog' \in {dog, "announces"}
    BY DEF LoginAccepted, Goes
  <2>3. session' \in 0..opens' /\ stage' \in 0..Len(Services) /\ cut' = FALSE
    BY <2>1 DEF SessionInv, TypeOK, LoginAccepted, link
  <2>4. UNCHANGED <<conn, opens, last, watched, reader, helpers, held, refused, spent>>
    BY DEF LoginAccepted, link
  <2>5. /\ app' \in {"new", "connects", "login", "announces", "up", "failed", "stopping", "stopped"}
        /\ dog' \in {"off", "polls", "waits", "connects", "login", "announces"}
    BY <2>2 DEF SessionInv, TypeOK
  <2> QED BY <2>3, <2>4, <2>5 DEF SessionInv, TypeOK
<1>2. OneConnects'
  BY DEF SessionInv, OneConnects, LoginAccepted, Goes, link
<1>3. OneLogsIn'
  BY DEF SessionInv, OneLogsIn, LoginAccepted, LogsIn, Goes, link
<1>4. Told'
  BY DEF SessionInv, Told, LossesCount, LoginAccepted
<1>5. SessionIsConnected'
  BY DEF SessionInv, SessionIsConnected, LoginAccepted, link
<1>6. EofIsFinal'
  BY DEF SessionInv, EofIsFinal, Busy, LoginAccepted, LogsIn, Goes, link
<1>7. ReaderLoops'
  BY DEF SessionInv, ReaderLoops, LoginAccepted, Goes
<1>8. LossesCount' /\ Helping'
  BY DEF SessionInv, LossesCount, Helping, LoginAccepted, link
<1> QED BY <1>1, <1>2, <1>3, <1>4, <1>5, <1>6, <1>7, <1>8 DEF SessionInv

(* A refusal counts as a loss and changes no session.                         *)
LEMMA LoginRefusedKeeps ==
  ASSUME SessionInv, NEW t \in {"app", "dog"}, LoginRefused(t)
  PROVE  SessionInv'
<1>1. TypeOK'
  BY SessionAssumption DEF SessionInv, TypeOK, LoginRefused, Loss, Goes, link,
    shared
<1>2. OneConnects'
  BY DEF SessionInv, OneConnects, LoginRefused, Goes, link
<1>3. OneLogsIn'
  BY DEF SessionInv, OneLogsIn, LoginRefused, LogsIn, Goes, link, shared
<1>4. LossesCount'
  BY DEF SessionInv, LossesCount, TypeOK, LoginRefused, Loss, link
<1>5. Helping'
  BY DEF SessionInv, Helping, LoginRefused, Loss, link
<1>6. EofIsFinal'
  BY DEF SessionInv, EofIsFinal, LoginRefused, link
<1>7. ReaderLoops'
  BY DEF SessionInv, ReaderLoops, LoginRefused, Loss, Goes, shared
<1>8. Told' /\ SessionIsConnected'
  BY DEF SessionInv, Told, SessionIsConnected, LoginRefused, link, shared
<1> QED BY <1>1, <1>2, <1>3, <1>4, <1>5, <1>6, <1>7, <1>8 DEF SessionInv

(* A login on a closed connection changes no session.                         *)
LEMMA LoginLostKeeps ==
  ASSUME SessionInv, NEW t \in {"app", "dog"}, LoginLost(t)
  PROVE  SessionInv'
<1>1. TypeOK'
  BY DEF SessionInv, TypeOK, LoginLost, Goes, link, shared
<1>2. OneConnects'
  BY DEF SessionInv, OneConnects, LoginLost, Goes, link
<1>3. OneLogsIn'
  BY DEF SessionInv, OneLogsIn, LoginLost, LogsIn, Goes, link, shared, Busy
<1>4. EofIsFinal'
  BY DEF SessionInv, EofIsFinal, Busy, LoginLost, LogsIn, Goes, link
<1>5. ReaderLoops'
  BY DEF SessionInv, ReaderLoops, LoginLost, Goes, link
<1>6. LossesCount' /\ Told' /\ Helping' /\ SessionIsConnected'
  BY DEF SessionInv, LossesCount, Told, Helping, SessionIsConnected,
    LoginLost, link, shared
<1> QED BY <1>1, <1>2, <1>3, <1>4, <1>5, <1>6 DEF SessionInv

(* A login that breaks closes the connection.                                 *)
LEMMA LoginBrokenKeeps ==
  ASSUME SessionInv, NEW t \in {"app", "dog"}, LoginBroken(t)
  PROVE  SessionInv'
<1>1. TypeOK'
  <2>1. PICK reason \in {"READ_ERROR", "TIMEOUT", "EOF"} : Disconnect(t, reason)
    BY DEF LoginBroken
  <2>2. spent' \in [losses : 0..MaxLosses, intervals : 0..MaxIntervals]
    BY SessionAssumption DEF SessionInv, TypeOK, LoginBroken, Loss
  <2>3. last' \in [by : {"none", "app", "dog", "reader", "ping"}, reason : Reasons]
    BY <2>1 DEF Disconnect, Reasons
  <2>4. app' \in {app, "stopping"} /\ stage' \in {0, stage} /\ dog' \in {dog, "off"}
    BY <2>1 DEF LoginBroken, Disconnect
  <2>8. watched' = FALSE \/ watched' = watched
    BY <2>1 DEF Disconnect
  <2>5. conn' = "CLOSING" /\ helpers' = {} /\ UNCHANGED <<opens, reader, session, held, cut, refused>>
    BY <2>1 DEF Disconnect
  <2>6. Len(Services) = 8
    BY DEF Services
  <2>7. /\ app' \in {"new", "connects", "login", "announces", "up", "failed", "stopping", "stopped"}
        /\ dog' \in {"off", "polls", "waits", "connects", "login", "announces"}
        /\ stage' \in 0..Len(Services)
    BY <2>4, <2>6 DEF SessionInv, TypeOK
  <2>9. watched' \in BOOLEAN
    BY <2>8 DEF SessionInv, TypeOK
  <2> QED BY <2>2, <2>3, <2>5, <2>7, <2>9 DEF SessionInv, TypeOK
<1>2. OneConnects'
  BY DEF SessionInv, OneConnects, LoginBroken, Disconnect
<1>3. OneLogsIn'
  BY DEF SessionInv, OneLogsIn, LoginBroken, LogsIn, Disconnect
<1>4. LossesCount'
  BY DEF SessionInv, LossesCount, TypeOK, LoginBroken, Loss, Disconnect
<1>5. Told'
  BY DEF SessionInv, Told, LoginBroken, Disconnect
<1>6. Helping'
  BY DEF SessionInv, Helping, LoginBroken, Disconnect
<1>7. SessionIsConnected'
  BY DEF SessionInv, SessionIsConnected, LoginBroken, Disconnect
<1>8. EofIsFinal'
  BY DEF SessionInv, EofIsFinal, Busy, LoginBroken, Disconnect, EndsWatchdog
<1>9. ReaderLoops'
  BY DEF SessionInv, ReaderLoops, LoginBroken, Disconnect
<1> QED BY <1>1, <1>2, <1>3, <1>4, <1>5, <1>6, <1>7, <1>8, <1>9 DEF SessionInv

(* One more service has the session; after the last one, the reader starts.   *)
LEMMA AnnounceKeeps ==
  ASSUME SessionInv, NEW t \in {"app", "dog"}, Announce(t)
  PROVE  SessionInv'
<1>1. TypeOK'
  BY DEF SessionInv, TypeOK, Announce, Goes, StartsReader, link
<1>2. OneConnects'
  BY DEF SessionInv, OneConnects, OneLogsIn, Announce, Announces, Goes, link
<1>3. OneLogsIn'
  BY DEF SessionInv, OneLogsIn, TypeOK, Announce, Announces, Goes, link, Busy
<1>4. Told'
  BY DEF SessionInv, Told, OneLogsIn, SessionIsConnected, TypeOK, Services,
    Announce, Announces, link
<1>5. EofIsFinal'
  BY DEF SessionInv, EofIsFinal, Busy, Announce, Announces, Goes, link
<1>6. ReaderLoops'
  BY DEF SessionInv, ReaderLoops, OneLogsIn, TypeOK, Services, Announce, Goes,
    StartsReader, link
<1>7. LossesCount' /\ Helping' /\ SessionIsConnected'
  BY DEF SessionInv, LossesCount, Helping, SessionIsConnected, Announce, link
<1> QED BY <1>1, <1>2, <1>3, <1>4, <1>5, <1>6, <1>7 DEF SessionInv

(* An announcement that breaks closes the connection and goes on.             *)
LEMMA AnnounceBrokenKeeps ==
  ASSUME SessionInv, NEW t \in {"app", "dog"}, AnnounceBroken(t)
  PROVE  SessionInv'
<1>1. TypeOK'
  BY SessionAssumption DEF SessionInv, TypeOK, Reasons, AnnounceBroken, Loss,
    Disconnect, EndsWatchdog
<1>2. OneConnects'
  BY DEF SessionInv, OneConnects, AnnounceBroken, Disconnect
<1>3. OneLogsIn'
  BY DEF SessionInv, OneLogsIn, AnnounceBroken, Announces, Disconnect
<1>4. LossesCount'
  BY DEF SessionInv, LossesCount, TypeOK, AnnounceBroken, Loss, Disconnect
<1>5. Told'
  BY DEF SessionInv, Told, AnnounceBroken, Disconnect
<1>6. Helping'
  BY DEF SessionInv, Helping, AnnounceBroken, Disconnect
<1>7. SessionIsConnected'
  BY DEF SessionInv, SessionIsConnected, AnnounceBroken, Disconnect
<1>8. EofIsFinal'
  BY DEF SessionInv, EofIsFinal, AnnounceBroken, Disconnect
<1>9. ReaderLoops'
  BY DEF SessionInv, ReaderLoops, AnnounceBroken, Disconnect
<1> QED BY <1>1, <1>2, <1>3, <1>4, <1>5, <1>6, <1>7, <1>8, <1>9 DEF SessionInv

(* The reader is still there while it handles.                                *)
LEMMA HandleKeeps ==
  ASSUME SessionInv, Handle
  PROVE  SessionInv'
<1>1. TypeOK'
  BY DEF SessionInv, TypeOK, Handle, link, shared
<1>2. OneLogsIn'
  BY DEF SessionInv, OneLogsIn, Handle, link, shared
<1>3. ReaderLoops'
  BY DEF SessionInv, ReaderLoops, Handle
<1>4. OneConnects' /\ LossesCount' /\ Told' /\ Helping' /\ SessionIsConnected' /\ EofIsFinal'
  BY DEF SessionInv, OneConnects, LossesCount, Told, Helping,
    SessionIsConnected, EofIsFinal, Handle, link, shared
<1> QED BY <1>1, <1>2, <1>3, <1>4 DEF SessionInv

(* On a connection that is up the reader goes on.                             *)
LEMMA HandlerReturnsKeeps ==
  ASSUME SessionInv, HandlerReturns
  PROVE  SessionInv'
<1>1. TypeOK'
  BY DEF SessionInv, TypeOK, HandlerReturns, link, shared
<1>2. OneLogsIn'
  BY DEF SessionInv, OneLogsIn, HandlerReturns, link, shared
<1>3. ReaderLoops'
  BY DEF SessionInv, ReaderLoops, OneLogsIn, HandlerReturns, link
<1>4. OneConnects' /\ LossesCount' /\ Told' /\ Helping' /\ SessionIsConnected' /\ EofIsFinal'
  BY DEF SessionInv, OneConnects, LossesCount, Told, Helping,
    SessionIsConnected, EofIsFinal, Busy, HandlerReturns, link, shared
<1> QED BY <1>1, <1>2, <1>3, <1>4 DEF SessionInv

(* The reader ends only with a second interval.                               *)
LEMMA WishlistIntervalKeeps ==
  ASSUME SessionInv, WishlistInterval
  PROVE  SessionInv'
<1>1. TypeOK'
  BY SessionAssumption DEF SessionInv, TypeOK, WishlistInterval, link, shared
<1>2. OneLogsIn'
  BY DEF SessionInv, OneLogsIn, WishlistInterval, link, shared
<1>3. LossesCount'
  BY DEF SessionInv, LossesCount, WishlistInterval, link
<1>4. Helping'
  BY DEF SessionInv, Helping, TypeOK, WishlistInterval, link
<1>5. ReaderLoops'
  BY DEF SessionInv, ReaderLoops, Helping, TypeOK, WishlistInterval
<1>6. OneConnects' /\ Told' /\ SessionIsConnected' /\ EofIsFinal'
  BY DEF SessionInv, OneConnects, Told, SessionIsConnected, EofIsFinal,
    WishlistInterval, link, shared
<1> QED BY <1>1, <1>2, <1>3, <1>4, <1>5, <1>6 DEF SessionInv

(* A reader that breaks closes the connection.                                *)
LEMMA ReaderBrokenKeeps ==
  ASSUME SessionInv, ReaderBroken
  PROVE  SessionInv'
<1>1. TypeOK'
  <2>1. PICK reason \in {"READ_ERROR", "TIMEOUT", "EOF", "WRITE_ERROR"} : Disconnect("reader", reason)
    BY DEF ReaderBroken
  <2>2. spent' \in [losses : 0..MaxLosses, intervals : 0..MaxIntervals]
    BY SessionAssumption DEF SessionInv, TypeOK, ReaderBroken, Loss
  <2>3. last' \in [by : {"none", "app", "dog", "reader", "ping"}, reason : Reasons]
    BY <2>1 DEF Disconnect, Reasons
  <2>4. app' \in {app, "stopping"} /\ stage' \in {0, stage} /\ dog' \in {dog, "off"}
    BY <2>1 DEF ReaderBroken, Disconnect
  <2>8. watched' = FALSE \/ watched' = watched
    BY <2>1 DEF Disconnect
  <2>5. conn' = "CLOSING" /\ helpers' = {} /\ UNCHANGED <<opens, reader, session, held, cut, refused>>
    BY <2>1 DEF Disconnect
  <2>6. Len(Services) = 8
    BY DEF Services
  <2>7. /\ app' \in {"new", "connects", "login", "announces", "up", "failed", "stopping", "stopped"}
        /\ dog' \in {"off", "polls", "waits", "connects", "login", "announces"}
        /\ stage' \in 0..Len(Services)
    BY <2>4, <2>6 DEF SessionInv, TypeOK
  <2>9. watched' \in BOOLEAN
    BY <2>8 DEF SessionInv, TypeOK
  <2> QED BY <2>2, <2>3, <2>5, <2>7, <2>9 DEF SessionInv, TypeOK
<1>2. OneConnects'
  BY DEF SessionInv, OneConnects, ReaderBroken, Disconnect
<1>3. OneLogsIn'
  BY DEF SessionInv, OneLogsIn, ReaderBroken, Disconnect
<1>4. LossesCount'
  BY DEF SessionInv, LossesCount, TypeOK, ReaderBroken, Loss, Disconnect
<1>5. Told'
  BY DEF SessionInv, Told, ReaderBroken, Disconnect
<1>6. Helping'
  BY DEF SessionInv, Helping, ReaderBroken, Disconnect
<1>7. SessionIsConnected'
  BY DEF SessionInv, SessionIsConnected, ReaderBroken, Disconnect
<1>8. EofIsFinal'
  BY DEF SessionInv, EofIsFinal, ReaderBroken, Disconnect, EndsWatchdog
<1>9. ReaderLoops'
  BY DEF SessionInv, ReaderLoops, ReaderBroken, Disconnect
<1> QED BY <1>1, <1>2, <1>3, <1>4, <1>5, <1>6, <1>7, <1>8, <1>9 DEF SessionInv

(* The reader ends on a connection that is not up.                            *)
LEMMA ReaderEndsKeeps ==
  ASSUME SessionInv, ReaderEnds
  PROVE  SessionInv'
<1>1. TypeOK'
  BY DEF SessionInv, TypeOK, ReaderEnds, link, shared
<1>2. OneLogsIn'
  BY DEF SessionInv, OneLogsIn, ReaderEnds, link, shared
<1>3. ReaderLoops'
  BY DEF SessionInv, ReaderLoops, ReaderEnds, link
<1>4. OneConnects' /\ LossesCount' /\ Told' /\ Helping' /\ SessionIsConnected' /\ EofIsFinal'
  BY DEF SessionInv, OneConnects, LossesCount, Told, Helping,
    SessionIsConnected, EofIsFinal, Busy, ReaderEnds, link, shared
<1> QED BY <1>1, <1>2, <1>3, <1>4 DEF SessionInv

(* A ping that breaks closes the connection.                                  *)
LEMMA PingBrokenKeeps ==
  ASSUME SessionInv, PingBroken
  PROVE  SessionInv'
<1>1. TypeOK'
  BY SessionAssumption DEF SessionInv, TypeOK, Reasons, PingBroken, Loss,
    Disconnect, EndsWatchdog
<1>2. OneConnects'
  BY DEF SessionInv, OneConnects, PingBroken, Disconnect
<1>3. OneLogsIn'
  BY DEF SessionInv, OneLogsIn, PingBroken, Disconnect
<1>4. LossesCount'
  BY DEF SessionInv, LossesCount, TypeOK, PingBroken, Loss, Disconnect
<1>5. Told'
  BY DEF SessionInv, Told, PingBroken, Disconnect
<1>6. Helping'
  BY DEF SessionInv, Helping, PingBroken, Disconnect
<1>7. SessionIsConnected'
  BY DEF SessionInv, SessionIsConnected, PingBroken, Disconnect
<1>8. EofIsFinal'
  BY DEF SessionInv, EofIsFinal, PingBroken, Disconnect
<1>9. ReaderLoops'
  BY DEF SessionInv, ReaderLoops, PingBroken, Disconnect
<1> QED BY <1>1, <1>2, <1>3, <1>4, <1>5, <1>6, <1>7, <1>8, <1>9 DEF SessionInv

(* The session goes, and with it what the services have, unless they are still being told. *)
LEMMA ClosedKeeps ==
  ASSUME SessionInv, Closed
  PROVE  SessionInv'
<1>1. TypeOK'
  BY DEF SessionInv, TypeOK, Closed, SessionDestroyed, Nobody
<1>2. OneConnects'
  BY DEF SessionInv, OneConnects, Closed
<1>3. OneLogsIn'
  BY DEF SessionInv, OneLogsIn, Closed, Busy
<1>4. LossesCount'
  BY DEF SessionInv, LossesCount, Closed
<1>5. Told'
  <2>1. cut' = (cut \/ (session # 0 /\ stage > 0)) /\ session' = 0 /\ conn' = "CLOSED"
    BY DEF Closed, SessionDestroyed
  <2>2. stage' = 0 \/ stage' = stage
    BY DEF Closed
  <2>3. session' = 0 /\ stage' # 0 => cut'
    <3>1. session = 0 /\ stage # 0 => cut
      BY DEF SessionInv, Told
    <3>2. stage' # 0 => stage > 0
      BY <2>2 DEF SessionInv, TypeOK
    <3> QED BY <2>1, <2>2, <3>1, <3>2
  <2>4. ASSUME NEW k \in Keepers, held'[k] # 0
        PROVE  cut'
    <3>1. CASE session # 0
      BY <2>4, <3>1 DEF Closed, SessionDestroyed, Nobody
    <3>2. CASE session = 0
      BY <2>1, <2>4, <3>2 DEF Closed, SessionDestroyed, SessionInv, Told
    <3> QED BY <3>1, <3>2
  <2> QED BY <2>1, <2>3, <2>4 DEF Told
<1>6. Helping'
  BY DEF SessionInv, Helping, Closed
<1>7. SessionIsConnected'
  BY DEF SessionInv, SessionIsConnected, Closed, SessionDestroyed
<1>8. EofIsFinal'
  <2>1. conn = "CLOSING" /\ last' = last /\ watched' = watched
    BY DEF Closed
  <2>2. CASE last.reason \in {"REQUESTED", "EOF"}
    <3>1. ~watched /\ (dog = "off" \/ Busy("dog"))
      BY <2>1, <2>2 DEF SessionInv, EofIsFinal
    <3>2. dog' = "off"
      <4>1. CASE Busy("dog")
        BY <3>1, <4>1 DEF Closed
      <4>2. CASE dog = "off" /\ ~Busy("dog")
        BY <4>2 DEF Closed
      <4> QED BY <3>1, <4>1, <4>2
    <3> QED BY <2>1, <3>1, <3>2 DEF EofIsFinal
  <2>3. CASE last.reason \notin {"REQUESTED", "EOF"}
    BY <2>1, <2>3 DEF EofIsFinal
  <2> QED BY <2>2, <2>3
<1>9. ReaderLoops'
  BY DEF SessionInv, ReaderLoops, Closed
<1> QED BY <1>1, <1>2, <1>3, <1>4, <1>5, <1>6, <1>7, <1>8, <1>9 DEF SessionInv

(* A stop ends the watchdog, unless the connection was closed before.         *)
LEMMA StopKeeps ==
  ASSUME SessionInv, Stop
  PROVE  SessionInv'
<1>1. TypeOK'
  <2>1. CASE Disconnect("app", "REQUESTED") /\ app' = "stopping" /\ UNCHANGED spent
    <3>1. last' \in [by : {"none", "app", "dog", "reader", "ping"}, reason : Reasons]
      BY <2>1 DEF Disconnect, Reasons
    <3>2. stage' \in {0, stage} /\ dog' \in {dog, "off"}
      BY <2>1 DEF Disconnect
    <3>6. watched' = FALSE \/ watched' = watched
      BY <2>1 DEF Disconnect
    <3>7. watched' \in BOOLEAN
      BY <3>6 DEF SessionInv, TypeOK
    <3>3. conn' = "CLOSING" /\ helpers' = {} /\ UNCHANGED <<opens, reader, session, held, cut, refused>>
      BY <2>1 DEF Disconnect
    <3>4. Len(Services) = 8
      BY DEF Services
    <3>5. /\ dog' \in {"off", "polls", "waits", "connects", "login", "announces"}
          /\ stage' \in 0..Len(Services)
      BY <3>2, <3>4 DEF SessionInv, TypeOK
    <3> QED BY <2>1, <3>1, <3>3, <3>5, <3>7 DEF SessionInv, TypeOK
  <2>2. CASE conn \in {"CLOSING", "CLOSED"} /\ app' = "stopped"
             /\ UNCHANGED <<link, dog, watched, reader, helpers, shared, refused, spent>>
    BY <2>2 DEF SessionInv, TypeOK, link, shared
  <2>3. CASE /\ app' = "stopped" /\ conn' = "CLOSED"
             /\ last' = [by |-> "app", reason |-> "REQUESTED"]
             /\ watched' = FALSE /\ dog' = "off"
             /\ UNCHANGED <<opens, reader, helpers, shared, refused, spent>>
    BY <2>3 DEF SessionInv, TypeOK, Reasons, shared
  <2> QED BY <2>1, <2>2, <2>3 DEF Stop
<1>2. OneConnects'
  BY DEF SessionInv, OneConnects, Stop, link, Disconnect
<1>3. OneLogsIn'
  BY DEF SessionInv, OneLogsIn, OneConnects, Stop, link, shared, Disconnect
<1>4. LossesCount'
  BY DEF SessionInv, LossesCount, Stop, link, Disconnect
<1>5. Told'
  BY DEF SessionInv, Told, OneConnects, OneLogsIn, Stop, link, shared,
    Disconnect
<1>6. Helping'
  BY DEF SessionInv, Helping, Stop, Disconnect
<1>7. SessionIsConnected'
  BY DEF SessionInv, SessionIsConnected, Stop, link, shared, Disconnect
<1>8. EofIsFinal'
  BY DEF SessionInv, EofIsFinal, Busy, Stop, link, Disconnect, EndsWatchdog
<1>9. ReaderLoops'
  BY DEF SessionInv, ReaderLoops, Stop, link, Disconnect
<1> QED BY <1>1, <1>2, <1>3, <1>4, <1>5, <1>6, <1>7, <1>8, <1>9 DEF SessionInv

---------------------------------------------------------------------------
(* The initial state satisfies the invariant.                                 *)
LEMMA SessionInit == Init => SessionInv
<1> SUFFICES ASSUME Init PROVE SessionInv
  OBVIOUS
<1>1. Len(Services) = 8
  BY DEF Services
<1>2. TypeOK
  <2>1. held \in [Keepers -> 0..opens] /\ session \in 0..opens
    BY DEF Init, Nobody
  <2>2. spent \in [losses : 0..MaxLosses, intervals : 0..MaxIntervals] /\ opens \in 0..(MaxLosses + 1)
    BY SessionAssumption DEF Init
  <2>3. last \in [by : {"none", "app", "dog", "reader", "ping"}, reason : Reasons]
    BY DEF Init, Reasons
  <2>4. /\ conn \in {"UNINITIALIZED", "CONNECTING", "CONNECTED", "CLOSING", "CLOSED"}
        /\ app \in {"new", "connects", "login", "announces", "up", "failed", "stopping", "stopped"}
        /\ dog \in {"off", "polls", "waits", "connects", "login", "announces"}
        /\ reader \in {"none", "reads", "handles"}
    BY DEF Init
  <2>5. watched \in BOOLEAN /\ cut \in BOOLEAN /\ refused \in BOOLEAN
    BY DEF Init
  <2>6. helpers \subseteq {"ping", "upnp", "wishlist"} /\ stage \in 0..Len(Services)
    BY <1>1 DEF Init
  <2> QED BY <2>1, <2>2, <2>3, <2>4, <2>5, <2>6 DEF TypeOK
<1>3. OneConnects /\ OneLogsIn /\ LossesCount /\ Helping /\ SessionIsConnected
  BY DEF Init, OneConnects, OneLogsIn, LossesCount, Helping, SessionIsConnected
<1>4. Told
  BY DEF Init, Told, Nobody
<1>5. EofIsFinal /\ ReaderLoops
  BY DEF Init, EofIsFinal, ReaderLoops
<1> QED BY <1>2, <1>3, <1>4, <1>5 DEF SessionInv

(* A step of something else leaves it alone.                                  *)
LEMMA SessionStutters ==
  ASSUME SessionInv, UNCHANGED vars
  PROVE  SessionInv'
<1>1. TypeOK' /\ OneConnects' /\ OneLogsIn' /\ LossesCount'
  BY DEF SessionInv, TypeOK, OneConnects, OneLogsIn, LossesCount, vars, link, tasks, shared
<1>2. Told' /\ Helping' /\ SessionIsConnected'
  BY DEF SessionInv, Told, Helping, SessionIsConnected, vars, link, tasks, shared
<1>3. EofIsFinal' /\ ReaderLoops'
  BY DEF SessionInv, EofIsFinal, ReaderLoops, Busy, vars, link, tasks, shared
<1> QED BY <1>1, <1>2, <1>3 DEF SessionInv

(* Every step keeps it.                                                       *)
LEMMA SessionSteps ==
  ASSUME SessionInv, [Next]_vars
  PROVE  SessionInv'
<1>1. CASE Start \/ AppConnected \/ AppConnectFailed
  BY <1>1, StartKeeps, AppConnectedKeeps, AppConnectFailedKeeps
<1>2. CASE DogSeesClosed \/ DogConnects \/ DogConnected \/ DogConnectFailed
  BY <1>2, DogSeesClosedKeeps, DogConnectsKeeps, DogConnectedKeeps, DogConnectFailedKeeps
<1>3. ASSUME NEW t \in {"app", "dog"},
             \/ LoginAccepted(t) \/ LoginRefused(t) \/ LoginLost(t) \/ LoginBroken(t)
             \/ Announce(t) \/ AnnounceBroken(t)
      PROVE  SessionInv'
  BY <1>3, LoginAcceptedKeeps, LoginRefusedKeeps, LoginLostKeeps, LoginBrokenKeeps,
     AnnounceKeeps, AnnounceBrokenKeeps
<1>4. CASE Handle \/ HandlerReturns \/ WishlistInterval \/ ReaderBroken \/ ReaderEnds
  BY <1>4, HandleKeeps, HandlerReturnsKeeps, WishlistIntervalKeeps, ReaderBrokenKeeps,
     ReaderEndsKeeps
<1>5. CASE PingBroken \/ Closed \/ Stop
  BY <1>5, PingBrokenKeeps, ClosedKeeps, StopKeeps
<1>6. CASE UNCHANGED vars
  BY <1>6, SessionStutters
<1> QED BY <1>1, <1>2, <1>3, <1>4, <1>5, <1>6 DEF Next

(* When the announcement is over, every service that keeps the session was told. *)
LEMMA ToldIsShared == SessionInv => SessionIsShared
<1> SUFFICES ASSUME SessionInv, NEW k \in Keepers
             PROVE  /\ session # 0 /\ stage = 0 /\ conn = "CONNECTED" => held[k] = session
                    /\ session = 0 /\ held[k] # 0 => cut
  BY DEF SessionIsShared
<1>1. PICK i \in 1..8 : Services[i] = k
  BY DEF Keepers, Services
<1> QED BY <1>1 DEF SessionInv, Told

(* The inductive invariant of a session, whatever the bounds.                   *)
THEOREM SessionInvariant == Spec => []SessionInv
BY SessionInit, SessionSteps, PTL DEF Spec

(* Searches, commands and the wishlist do nothing to the session: every step of *)
(* Search is a step of Session or leaves it alone.                             *)
THEOREM SearchesKeepSession == SearchSpec => Spec
<1>1. SearchInit => Init
  BY DEF SearchInit
<1>2. [SearchNext]_<<vars, searchVars>> => [Next]_vars
  BY DEF SearchNext, Search, WishlistSearch, Draw, Sent, SendFails, TimerFires, RemoveRequest
<1> QED BY <1>1, <1>2, PTL DEF SearchSpec, Spec

(* Every variable of the session keeps its type, for all bounds.                *)
THEOREM TypeCorrect == SearchSpec => []TypeOK
<1>1. SessionInv => TypeOK
  BY DEF SessionInv
<1> QED BY <1>1, SessionInvariant, SearchesKeepSession, PTL

(* A connection that the application or the server closed stays closed, however  *)
(* many losses, logins and searches there were.                               *)
THEOREM ClosedStaysClosed == SearchSpec => []EofIsFinal
<1>1. SessionInv => EofIsFinal
  BY DEF SessionInv
<1> QED BY <1>1, SessionInvariant, SearchesKeepSession, PTL

(* Client, services and connection agree on the session: it is that of the      *)
(* connection there is, and every service that keeps it has it.                 *)
THEOREM OneSession == SearchSpec => []SessionAgrees
<1>1. SessionInv => SessionAgrees
  BY ToldIsShared DEF SessionInv, SessionAgrees
<1> QED BY <1>1, SessionInvariant, SearchesKeepSession, PTL

(* Somebody reads what the server sends, and only one at a time.                *)
THEOREM SomebodyReads == SearchSpec => []ReaderLoops
<1>1. SessionInv => ReaderLoops
  BY DEF SessionInv
<1> QED BY <1>1, SessionInvariant, SearchesKeepSession, PTL

---------------------------------------------------------------------------
(* Requests and their tickets, for any searches, commands and items of the     *)
(* wishlist: the requests of one generator have tickets of their own.           *)
Drawn(r) == {q \in Generator(r) : ticket[q] # 0}

(* Tickets count the requests of their generator that have one.                 *)
TicketsCount ==
  /\ ticket \in [Requests -> {0} \cup Tickets]
  /\ \A r \in Requests : ticket[r] <= Cardinality(Drawn(r))

(* No two requests of one generator have the same ticket.                       *)
TicketsDiffer ==
  \A q, r \in Requests :
    /\ ticket[r] # 0 /\ ticket[q] = ticket[r]
    /\ q \in Commands <=> r \in Commands
    => q = r

(* The table holds a request under its ticket, and only what has a ticket is     *)
(* sent or timed.                                                             *)
TableKnows ==
  /\ table \in [Tickets -> Requests \cup {None}]
  /\ \A t \in Tickets : table[t] # None => ticket[table[t]] = t
  /\ sending \subseteq Requests /\ timed \subseteq Requests \ Commands
  /\ indefinite \subseteq Requests
  /\ \A r \in sending \cup timed : ticket[r] # 0

SearchInv == TicketsCount /\ TicketsDiffer /\ TableKnows

(* Tickets and their generators are finite and natural.                          *)
LEMMA RequestsFinite ==
  /\ IsFiniteSet(Requests) /\ Cardinality(Requests) \in Nat
  /\ Tickets \subseteq Nat \ {0} /\ None \notin Requests
<1>1. IsFiniteSet(Requests) /\ None \notin Requests
  BY SearchAssumption DEF Requests
<1> QED BY <1>1, FS_CardinalityType DEF Tickets

(* What was drawn from a generator is finite, and there is no more of it than    *)
(* there are requests.                                                        *)
LEMMA DrawnFinite ==
  ASSUME NEW r \in Requests
  PROVE  /\ IsFiniteSet(Drawn(r)) /\ Cardinality(Drawn(r)) \in Nat
         /\ Drawn(r) \subseteq Requests /\ Cardinality(Drawn(r)) <= Cardinality(Requests)
<1>1. Drawn(r) \subseteq Requests
  BY DEF Drawn, Generator, Requests
<1> QED BY <1>1, RequestsFinite, FS_Subset, FS_CardinalityType

(* A request that draws is one more of its generator.                           *)
LEMMA DrawCounts ==
  ASSUME NEW r \in Requests, TicketsCount, Draw(r)
  PROVE  /\ ticket' = [ticket EXCEPT ![r] = Cardinality(Drawn(r)) + 1]
         /\ \A q \in Requests :
              (q \in Commands <=> r \in Commands) =>
                Cardinality(Drawn(q)') = Cardinality(Drawn(r)) + 1
         /\ \A q \in Requests :
              ~(q \in Commands <=> r \in Commands) => Drawn(q)' = Drawn(q)
         /\ Cardinality(Drawn(r)) + 1 \in Tickets
<1> DEFINE n == Cardinality(Drawn(r)) + 1
<1>1. NextTicket(r) = n /\ ticket[r] = 0 /\ n \in Nat \ {0}
  <2>1. ticket[r] = 0
    BY DEF Draw
  <2>2. NextTicket(r) = 1 + Cardinality(Drawn(r))
    BY DEF NextTicket, Drawn
  <2> QED BY <2>1, <2>2, DrawnFinite
<1>2. ticket' = [ticket EXCEPT ![r] = n]
  BY <1>1 DEF Draw
<1>3. r \in Generator(r) /\ r \notin Drawn(r)
  BY <1>1, SearchAssumption DEF Generator, Drawn, Requests
<1>4. ASSUME NEW q \in Requests, q \in Commands <=> r \in Commands
      PROVE  Drawn(q)' = Drawn(r) \cup {r} /\ Generator(q) = Generator(r)
  <2>1. Generator(q) = Generator(r) /\ Generator(r) \subseteq Requests
    BY <1>4 DEF Generator, Requests
  <2> QED BY <1>1, <1>2, <1>3, <2>1 DEF Drawn, TicketsCount
<1>5. Cardinality(Drawn(r) \cup {r}) = n
  BY <1>3, DrawnFinite, FS_AddElement
<1>6. ASSUME NEW q \in Requests, ~(q \in Commands <=> r \in Commands)
      PROVE  Drawn(q)' = Drawn(q)
  <2>1. Generator(q) \subseteq Requests /\ r \notin Generator(q)
    BY <1>6, SearchAssumption DEF Generator, Requests
  <2> QED BY <1>2, <2>1 DEF Drawn, TicketsCount
<1>7. n \in Tickets
  <2>1. Drawn(r) \cup {r} \subseteq Requests
    BY DrawnFinite
  <2>2. n <= Cardinality(Requests)
    BY <2>1, <1>5, RequestsFinite, FS_Subset
  <2> QED BY <1>1, <2>2, RequestsFinite DEF Tickets
<1> QED BY <1>2, <1>4, <1>5, <1>6, <1>7

(* Drawing keeps the tickets of a generator apart.                              *)
LEMMA DrawKeeps ==
  ASSUME NEW r \in Requests, SearchInv, Draw(r)
  PROVE  SearchInv'
<1> DEFINE n == Cardinality(Drawn(r)) + 1
<1>1. ticket' = [ticket EXCEPT ![r] = n] /\ n \in Tickets /\ n \in Nat \ {0}
  BY DrawCounts, RequestsFinite DEF SearchInv
<1>2. ticket \in [Requests -> {0} \cup Tickets] /\ ticket[r] = 0
  BY DEF SearchInv, TicketsCount, Draw
<1>6. \A q \in Requests : ticket[q] \in Nat /\ ticket[q] <= Cardinality(Drawn(q))
  <2>1. {0} \cup Tickets \subseteq Nat
    BY RequestsFinite
  <2> QED BY <1>2, <2>1 DEF SearchInv, TicketsCount
<1>3. TicketsCount'
  <2>1. ticket' \in [Requests -> {0} \cup Tickets]
    BY <1>1, <1>2
  <2>2. ASSUME NEW q \in Requests PROVE ticket'[q] <= Cardinality(Drawn(q)')
    <3>1. CASE q \in Commands <=> r \in Commands
      <4>1. Cardinality(Drawn(q)') = n /\ Cardinality(Drawn(r)) \in Nat
        BY <3>1, DrawCounts, DrawnFinite DEF SearchInv
      <4>2. ticket[q] <= Cardinality(Drawn(r)) /\ ticket[q] \in Nat
        <5>1. Drawn(q) = Drawn(r)
          BY <3>1 DEF Drawn, Generator
        <5> QED BY <5>1, <1>6
      <4> QED BY <1>1, <1>2, <4>1, <4>2
    <3>2. CASE ~(q \in Commands <=> r \in Commands)
      BY <1>1, <1>2, <3>2, DrawCounts DEF SearchInv, TicketsCount
    <3> QED BY <3>1, <3>2
  <2> QED BY <2>1, <2>2 DEF TicketsCount, Tickets, Requests
<1>4. TicketsDiffer'
  <2>1. ASSUME NEW q \in Requests, q \in Commands <=> r \in Commands, q # r
        PROVE  ticket[q] # n
    <3>1. Drawn(q) = Drawn(r)
      BY <2>1 DEF Drawn, Generator
    <3>2. ticket[q] <= Cardinality(Drawn(r)) /\ ticket[q] \in Nat /\ Cardinality(Drawn(r)) \in Nat
      BY <3>1, <1>6, DrawnFinite
    <3> QED BY <3>2
  <2> QED BY <1>1, <1>2, <2>1 DEF SearchInv, TicketsDiffer
<1>5. TableKnows'
  <2>1. UNCHANGED <<table, timed, indefinite>> /\ sending' \subseteq sending \cup {r}
    BY DEF Draw
  <2>2. \A t \in Tickets : table[t] # None => table[t] # r /\ table[t] \in Requests
    BY <1>2, RequestsFinite DEF SearchInv, TableKnows
  <2> QED BY <1>1, <1>2, <2>1, <2>2 DEF SearchInv, TableKnows
<1> QED BY <1>3, <1>4, <1>5 DEF SearchInv

(* Whoever leaves the tickets alone keeps what is said of them.                  *)
LEMMA TicketsKept ==
  ASSUME SearchInv, ticket' = ticket
  PROVE  TicketsCount' /\ TicketsDiffer'
BY DEF SearchInv, TicketsCount, TicketsDiffer, Drawn

(* Every step of Search keeps the invariant.                                    *)
LEMMA SearchSteps ==
  ASSUME SearchInv, [SearchNext]_<<vars, searchVars>>
  PROVE  SearchInv'
<1>1. CASE Next /\ WishlistCut
  <2>1. UNCHANGED <<ticket, table, timed, indefinite>> /\ sending' \subseteq sending
    BY <1>1 DEF WishlistCut
  <2> QED BY <2>1, TicketsKept DEF SearchInv, TableKnows
<1>2. ASSUME NEW r \in Requests, Search(r) \/ WishlistSearch(r)
      PROVE  SearchInv'
  BY <1>2, DrawKeeps DEF Search, WishlistSearch
<1>3. ASSUME NEW r \in Requests, Sent(r) PROVE SearchInv'
  <2>1. /\ r \in sending /\ ticket' = ticket /\ sending' = sending \ {r}
        /\ table' = [table EXCEPT ![ticket[r]] = r]
        /\ timed' \in {timed, timed \cup {r}} /\ (timed' # timed => r \notin Commands)
        /\ indefinite' \in {indefinite, indefinite \cup {r}}
    BY <1>3 DEF Sent, Timed
  <2>2. ticket[r] # 0 /\ ticket[r] \in Tickets
    BY <2>1 DEF SearchInv, TicketsCount, TableKnows
  <2> QED BY <2>1, <2>2, TicketsKept DEF SearchInv, TableKnows
<1>4. ASSUME NEW r \in Requests, SendFails(r) PROVE SearchInv'
  <2>1. UNCHANGED <<ticket, table, timed, indefinite>> /\ sending' \subseteq sending
    BY <1>4 DEF SendFails
  <2> QED BY <2>1, TicketsKept DEF SearchInv, TableKnows
<1>5. ASSUME NEW r \in Requests, TimerFires(r) PROVE SearchInv'
  <2>1. /\ ticket' = ticket /\ sending' = sending /\ timed' \subseteq timed
        /\ indefinite' = indefinite
        /\ table' = [table EXCEPT ![ticket[r]] = None]
    BY <1>5 DEF TimerFires
  <2> QED BY <2>1, TicketsKept DEF SearchInv, TableKnows
<1>6. ASSUME NEW t \in Tickets, RemoveRequest(t) PROVE SearchInv'
  <2>1. UNCHANGED <<ticket, sending, timed, indefinite>> /\ table' = [table EXCEPT ![t] = None]
    BY <1>6 DEF RemoveRequest
  <2> QED BY <2>1, TicketsKept DEF SearchInv, TableKnows
<1>7. CASE UNCHANGED <<vars, searchVars>>
  <2>1. UNCHANGED <<ticket, sending, table, timed, indefinite>>
    BY <1>7 DEF searchVars
  <2> QED BY <2>1, TicketsKept DEF SearchInv, TableKnows
<1> QED BY <1>1, <1>2, <1>3, <1>4, <1>5, <1>6, <1>7 DEF SearchNext

(* The initial state satisfies the invariant.                                   *)
LEMMA SearchStarts == SearchInit => SearchInv
<1> SUFFICES ASSUME SearchInit PROVE SearchInv
  OBVIOUS
<1>1. TicketsCount
  BY DrawnFinite DEF SearchInit, TicketsCount
<1>2. TicketsDiffer /\ TableKnows
  BY DEF SearchInit, TicketsDiffer, TableKnows
<1> QED BY <1>1, <1>2 DEF SearchInv

(* The inductive invariant of tickets and table.                                *)
THEOREM SearchInvariant == SearchSpec => []SearchInv
BY SearchStarts, SearchSteps, PTL DEF SearchSpec

(* Every variable of Search keeps its type, for any number of requests.          *)
THEOREM SearchTypeCorrect == SearchSpec => []SearchTypeOK
<1>1. TypeOK /\ SearchInv => SearchTypeOK
  BY DEF SearchInv, TicketsCount, TableKnows, SearchTypeOK
<1> QED BY <1>1, TypeCorrect, SearchInvariant, PTL

(* However many searches and wishes there are, and whatever is removed, timed    *)
(* out or lost, none of them gets the results of another.                       *)
THEOREM ResultsGoToTheirRequest == SearchSpec => []ResultsBelong
<1>1. SearchInv => ResultsBelong
  <2> SUFFICES ASSUME SearchInv, NEW r \in Requests \ Commands
               PROVE  Replied(r) \in {None, r} \cup Commands
    BY DEF ResultsBelong
  <2>1. CASE ticket[r] = 0
    BY <2>1 DEF Replied
  <2>2. CASE ticket[r] # 0
    <3>1. ticket[r] \in Tickets /\ Replied(r) = table[ticket[r]]
      BY <2>2 DEF Replied, SearchInv, TicketsCount
    <3>2. table[ticket[r]] # None =>
            table[ticket[r]] \in Requests /\ ticket[table[ticket[r]]] = ticket[r]
      BY <3>1 DEF SearchInv, TableKnows
    <3> QED BY <2>2, <3>1, <3>2 DEF SearchInv, TicketsDiffer
  <2> QED BY <2>1, <2>2
<1> QED BY <1>1, SearchInvariant, PTL

---------------------------------------------------------------------------
(* Shares.                                                                  *)
SharedItem == [owner : Objects, base : Dirs, file : Files, time : 1..MaxChanges + 1]

SharesTyped ==
  /\ directories \subseteq Dirs /\ fresh \cup overwritten \subseteq directories
  /\ gen \in [Dirs -> Nat] /\ mode \in [Objects -> Modes]
  /\ items \in [Dirs -> SUBSET SharedItem] /\ terms \in SUBSET SharedItem
  /\ walks \subseteq [object : Objects, found : SUBSET SharedItem, outdated : BOOLEAN]
  /\ disk \in [Files -> 0..used.changes + 1]
  /\ used \in [changes : 0..MaxChanges, shares : 0..MaxShares]

(* A directory gets an object when it is shared.  To be shared again it must   *)
(* have been removed first, so there are no more objects than the bound allows. *)
Counted ==
  \A d \in Dirs :
    /\ d \in directories => gen[d] >= 1
    /\ gen[d] <= used.shares + 1
    /\ d \notin Configured \cap directories => gen[d] <= used.shares

(* Items are kept in shared directories, and those they belong to are objects    *)
(* there are or were.                                                       *)
Made(o) == 1 <= o[2] /\ o[2] <= gen[o[1]]

Kept ==
  /\ \A d \in Dirs : items[d] # {} => d \in directories
  /\ \A d \in Dirs : \A i \in items[d] : Made(i.owner)
  /\ \A w \in walks : Made(w.object) /\ \A i \in w.found : i.owner = w.object

(* A walk that is not out of date found what a walk would find now; so did the   *)
(* last one of a directory that is fresh and not overwritten, and queries find   *)
(* its items.                                                              *)
Current ==
  /\ \A w \in walks : ~w.outdated =>
       \E d \in directories : w.object = Object(d) /\ w.found = Walked(d, directories)
  /\ \A d \in fresh : items[d] \subseteq terms
  /\ (\A d \in Dirs : gen[d] <= 1) =>
       \A d \in fresh \ overwritten : items[d] = Walked(d, directories)

SharesInv == SharesTyped /\ Counted /\ Kept /\ Current

---------------------------------------------------------------------------
(* The directories.                                                         *)
LEMMA Innermost ==
  ASSUME NEW d \in Dirs, NEW S \in SUBSET {e \in Dirs : Within(d, e)}, S # {}
  PROVE  LET inner == CHOOSE e \in S : \A f \in S : Within(e, f)
         IN  inner \in S /\ \A f \in S : Within(inner, f)
<1> DEFINE Inner(e) == \A f \in S : Within(e, f)
<1>1. \E e \in S : Inner(e)
  BY TreeAssumption DEF TreeAssumption
<1> HIDE DEF Inner
<1>2. (CHOOSE e \in S : Inner(e)) \in S /\ Inner(CHOOSE e \in S : Inner(e))
  BY <1>1
<1> QED BY <1>2 DEF Inner

(* The nearest parent is one of the parents.                                  *)
LEMMA NearestIs ==
  ASSUME NEW d \in Dirs, NEW S \in SUBSET Dirs, Parents(d, S) # {}
  PROVE  Nearest(d, S) \in Parents(d, S) /\ Nearest(d, S) \in S \ {d}
<1>1. Parents(d, S) \in SUBSET {e \in Dirs : Within(d, e)}
  BY DEF Parents, Within
<1>2. Nearest(d, S) \in Parents(d, S)
  BY <1>1, Innermost DEF Nearest
<1> QED BY <1>2, TreeAssumption DEF Parents, TreeAssumption

(* Items that are moved were in some directory before.                        *)
LEMMA MovedFrom ==
  ASSUME NEW I, NEW its \in [Dirs -> SUBSET I], NEW d \in Dirs, NEW S \in SUBSET Dirs
  PROVE  LET moved == Moved(its, d, S)
         IN  /\ moved \in [Dirs -> SUBSET I]
             /\ \A e \in Dirs : moved[e] # {} => e = d \/ its[e] # {}
             /\ \A e \in Dirs : \A i \in moved[e] : \E f \in Dirs : i \in its[f]
<1> DEFINE moved == Moved(its, d, S)
<1>1. CASE Parents(d, S) = {}
  <2>1. moved = [its EXCEPT ![d] = {}]
    BY <1>1 DEF Moved
  <2> HIDE DEF moved
  <2> QED BY <2>1 DEF moved
<1>2. CASE Parents(d, S) # {}
  <2> DEFINE p == Nearest(d, S)
  <2>1. p \in Dirs /\ p # d
    BY <1>2, NearestIs
  <2>2. moved = [its EXCEPT ![d] = ItemsOf(d, its[p]), ![p] = Without(@, ItemsOf(d, @))]
    BY <1>2 DEF Moved
  <2> HIDE DEF moved, p
  <2>3. /\ moved[d] = ItemsOf(d, its[p]) /\ moved[p] = Without(its[p], ItemsOf(d, its[p]))
        /\ \A e \in Dirs \ {d, p} : moved[e] = its[e]
        /\ DOMAIN moved = Dirs /\ moved = [e \in Dirs |-> moved[e]]
    BY <2>1, <2>2
  <2>4. moved[d] \subseteq its[p] /\ moved[p] \subseteq its[p]
    BY <2>3 DEF ItemsOf, Without
  <2>5. \A e \in Dirs : moved[e] \subseteq I
    BY <2>1, <2>3, <2>4
  <2>6. moved \in [Dirs -> SUBSET I]
    BY <2>3, <2>5
  <2>7. \A e \in Dirs : moved[e] # {} => e = d \/ its[e] # {}
    BY <2>3, <2>4
  <2>8. \A e \in Dirs : \A i \in moved[e] : \E f \in Dirs : i \in its[f]
    BY <2>1, <2>3, <2>4
  <2> QED BY <2>6, <2>7, <2>8 DEF moved
<1> QED BY <1>1, <1>2

(* Directories that are around the same file: the one that has no child there   *)
(* is the innermost.                                                        *)
LEMMA HomeIs ==
  ASSUME SharesTyped, NEW f \in Files, NEW d \in Dirs
  PROVE  d \in Holders(f) /\ (\A c \in Children(d, directories) : ~Within(Folder[f], c))
           <=> Holders(f) # {} /\ d = Home(f)
<1> DEFINE H == Holders(f)
<1>1. Folder[f] \in Dirs /\ H \in SUBSET {e \in Dirs : Within(Folder[f], e)}
  BY SharesAssumption DEF SharesAssumption, SharesTyped, Holders
<1>2. H # {} => Home(f) \in H /\ \A e \in H : Within(Home(f), e)
  BY <1>1, Innermost DEF Home
<1>3. ASSUME d \in H, \A c \in Children(d, directories) : ~Within(Folder[f], c)
      PROVE  d = Home(f)
  <2>1. Home(f) \in H /\ Within(Home(f), d)
    BY <1>2, <1>3
  <2>2. Home(f) \in directories /\ Within(Folder[f], Home(f))
    BY <2>1 DEF Holders
  <2> QED BY <1>3, <2>1, <2>2 DEF Children, Within
<1>4. ASSUME H # {}, d = Home(f), NEW c \in Children(d, directories), Within(Folder[f], c)
      PROVE  FALSE
  <2>1. c \in H /\ <<c, d>> \in Below
    BY <1>4 DEF Children, Holders
  <2>2. Within(d, c) /\ c \in Dirs
    BY <1>1, <1>2, <1>4, <2>1
  <2> QED BY <2>1, <2>2, TreeAssumption DEF Within, TreeAssumption
<1> QED BY <1>2, <1>3, <1>4

---------------------------------------------------------------------------
(* Items.                                                                  *)

(* What a walk finds belongs to the directory it walked.                      *)
LEMMA WalkedTyped ==
  ASSUME SharesTyped, Counted, NEW d \in directories
  PROVE  /\ Object(d) \in Objects /\ Made(Object(d))
         /\ Walked(d, directories) \in SUBSET SharedItem
         /\ \A i \in Walked(d, directories) : i.owner = Object(d)
<1>1. d \in Dirs /\ gen[d] \in Nat /\ gen[d] >= 1 /\ gen[d] <= MaxShares + 1
  BY SharesAssumption DEF SharesTyped, Counted, SharesAssumption
<1>2. Object(d) \in Objects /\ Made(Object(d)) /\ Object(d)[1] = d
  BY <1>1, SharesAssumption DEF Object, Objects, Made, SharesAssumption
<1>3. ASSUME NEW i \in Walked(d, directories)
      PROVE  i \in SharedItem /\ i.owner = Object(d)
  <2>1. PICK f \in Files : disk[f] # 0 /\ i = Item(Object(d), f, disk[f])
    BY DEF Walked
  <2>2. disk[f] \in 1..MaxChanges + 1
    BY <2>1, SharesAssumption DEF SharesTyped, SharesAssumption
  <2> QED BY <1>1, <1>2, <2>1, <2>2 DEF Item, SharedItem
<1> QED BY <1>2, <1>3

(* The result of a walk: items that were there or are found, equal to those that *)
(* are found; the same, if every directory was shared only once.               *)
LEMMA AppliedIs ==
  ASSUME NEW its \in SUBSET SharedItem, NEW found \in SUBSET SharedItem
  PROVE  /\ Applied(its, found) \subseteq its \cup found
         /\ (\A i \in its \cup found : i.owner[2] = 1) => Applied(its, found) = found
<1> DEFINE S1 == Joined(its, found)
<1>1. S1 \subseteq its \cup found /\ its \subseteq S1
  BY DEF Joined
<1>2. Keys(found) \subseteq Keys(S1)
  BY DEF Joined, Keys
<1>3. Without(found, S1) = {}
  BY <1>2 DEF Without, Keys
<1>4. Applied(its, found) =
        {i \in S1 : Key(i) \notin Keys({j \in S1 : Key(j) \notin Keys(found)})}
  BY <1>3 DEF Applied, Without
<1> HIDE DEF S1
<1>5. Applied(its, found) = {i \in S1 : Key(i) \in Keys(found)}
  BY <1>4 DEF Keys
<1>6. ASSUME \A i \in its \cup found : i.owner[2] = 1
      PROVE  Applied(its, found) = found
  <2>1. ASSUME NEW i \in S1, NEW j \in found, Key(i) = Key(j)
        PROVE  i = j
    <3>1. i \in SharedItem /\ j \in SharedItem /\ i.owner[2] = 1 /\ j.owner[2] = 1
      BY <1>1, <1>6
    <3>2. i.owner[1] = j.owner[1] /\ i.base = j.base /\ i.file = j.file /\ i.time = j.time
      BY <2>1 DEF Key
    <3>3. i.owner = j.owner
      BY <3>1, <3>2 DEF SharedItem, Objects
    <3> QED BY <3>1, <3>2, <3>3 DEF SharedItem
  <2>2. Applied(its, found) \subseteq found
    BY <1>5, <2>1 DEF Keys
  <2>3. ASSUME NEW j \in found PROVE j \in S1
    <3>1. PICK i \in S1 : Key(i) = Key(j)
      BY <1>2 DEF Keys
    <3> QED BY <2>1, <3>1
  <2>4. found \subseteq Applied(its, found)
    BY <1>5, <2>3 DEF Keys
  <2> QED BY <2>2, <2>4
<1> QED BY <1>1, <1>5, <1>6

---------------------------------------------------------------------------
(* At first nothing was scanned.                                             *)
LEMMA SharesInitInv == SharesInit => SharesInv
<1> SUFFICES ASSUME SharesInit PROVE SharesInv
  OBVIOUS
<1>1. used = [changes |-> 0, shares |-> 0] /\ MaxChanges \in Nat /\ MaxShares \in Nat
  BY SharesAssumption DEF SharesInit, SharesAssumption
<1>2. mode \in [Objects -> Modes]
  BY SharesAssumption DEF SharesInit, SharesAssumption
<1>3. /\ disk \in [Files -> 0..used.changes + 1]
      /\ used \in [changes : 0..MaxChanges, shares : 0..MaxShares]
  BY <1>1 DEF SharesInit
<1>4. SharesTyped
  BY <1>2, <1>3, SharesAssumption DEF SharesInit, SharesTyped, SharesAssumption
<1>5. Counted /\ Kept /\ Current
  BY <1>1 DEF SharesInit, Counted, Kept, Current
<1> QED BY <1>4, <1>5 DEF SharesInv

(* A walk finds the same as long as neither the directories nor the disk change. *)
LEMMA WalkedSame ==
  ASSUME UNCHANGED <<directories, gen, disk>>
  PROVE  \A d : Object(d)' = Object(d) /\ Walked(d, directories)' = Walked(d, directories)
  BY DEF Walked, Object

(* A walk under way when something changes finds what it would have found.     *)
LEMMA OutdatedWalks ==
  ASSUME SharesTyped, Outdated
  PROVE  \A v \in walks' :
           /\ v \in [object : Objects, found : SUBSET SharedItem, outdated : BOOLEAN]
           /\ v.outdated
           /\ \E w \in walks : v.object = w.object /\ v.found = w.found
  BY DEF Outdated, SharesTyped

(* What is kept stays made, and nothing is fresh, when something changes.       *)
LEMMA KeptOutdated ==
  ASSUME SharesInv, Outdated, \A d \in Dirs : gen[d] <= gen'[d] /\ gen'[d] \in Nat,
         items' \in [Dirs -> SUBSET SharedItem],
         \A d \in Dirs : items'[d] # {} => d \in directories',
         \A d \in Dirs : \A i \in items'[d] : \E e \in Dirs : i \in items[e]
  PROVE  Kept' /\ Current'
<1>1. \A o \in Objects : Made(o) => Made(o)'
  BY DEF Made, Objects, SharesInv, SharesTyped
<1>2. \A d \in Dirs : \A i \in items'[d] : Made(i.owner)'
  BY <1>1 DEF SharesInv, SharesTyped, Kept, SharedItem
<1>3. \A v \in walks' : Made(v.object)' /\ \A i \in v.found : i.owner = v.object
  <2> TAKE v \in walks'
  <2>1. PICK w \in walks : v.object = w.object /\ v.found = w.found
    BY OutdatedWalks DEF SharesInv
  <2>2. w.object \in Objects
    BY DEF SharesInv, SharesTyped
  <2> QED BY <1>1, <2>1, <2>2 DEF SharesInv, Kept
<1>4. Kept'
  BY <1>2, <1>3 DEF Kept
<1>5. fresh' = {} /\ overwritten' = {} /\ \A v \in walks' : v.outdated
  BY OutdatedWalks DEF SharesInv, Outdated
<1> QED BY <1>4, <1>5 DEF Current

(* A directory is added, and gets the items that its nearest parent has in it.   *)
LEMMA AddInv ==
  ASSUME SharesInv, NEW d \in Dirs, NEW m \in Modes, Add(d, m)
  PROVE  SharesInv'
<1> USE DEF SharesInv
<1>1. /\ d \notin directories /\ used.shares < MaxShares
      /\ used' = [used EXCEPT !.shares = used.shares + 1]
      /\ directories' = directories \cup {d} /\ gen' = [gen EXCEPT ![d] = gen[d] + 1]
      /\ mode' = [mode EXCEPT ![<<d, gen[d] + 1>>] = m]
      /\ items' = Moved(items, d, directories)
      /\ Outdated /\ UNCHANGED <<terms, disk>>
  BY DEF Add, Shares
<1>2. /\ used.changes \in 0..MaxChanges /\ used.shares \in 0..MaxShares
      /\ MaxShares \in Nat /\ MaxChanges \in Nat /\ directories \in SUBSET Dirs
  BY SharesAssumption DEF SharesTyped, SharesAssumption
<1>3. /\ used'.changes = used.changes /\ used'.shares = used.shares + 1
      /\ used' \in [changes : 0..MaxChanges, shares : 0..MaxShares]
  BY <1>1, <1>2 DEF SharesTyped
<1>4. /\ items' \in [Dirs -> SUBSET SharedItem]
      /\ \A e \in Dirs : items'[e] # {} => e = d \/ items[e] # {}
      /\ \A e \in Dirs : \A i \in items'[e] : \E f \in Dirs : i \in items[f]
  <2> DEFINE moved == Moved(items, d, directories)
  <2>1. items \in [Dirs -> SUBSET SharedItem]
    BY DEF SharesTyped
  <2>2. /\ moved \in [Dirs -> SUBSET SharedItem]
        /\ \A e \in Dirs : moved[e] # {} => e = d \/ items[e] # {}
        /\ \A e \in Dirs : \A i \in moved[e] : \E f \in Dirs : i \in items[f]
    BY <1>2, <2>1, MovedFrom
  <2>3. items' = moved
    BY <1>1
  <2> HIDE DEF moved
  <2> QED BY <2>2, <2>3
<1>5. /\ gen' \in [Dirs -> Nat] /\ gen'[d] = gen[d] + 1
      /\ \A e \in Dirs \ {d} : gen'[e] = gen[e]
  BY <1>1 DEF SharesTyped
<1>6. SharesTyped'
  <2>1. mode' \in [Objects -> Modes]
    BY <1>1 DEF SharesTyped
  <2>2. walks' \subseteq [object : Objects, found : SUBSET SharedItem, outdated : BOOLEAN]
    BY <1>1, OutdatedWalks
  <2>3. directories' \subseteq Dirs /\ fresh' = {} /\ overwritten' = {}
    BY <1>1, <1>2 DEF Outdated
  <2> QED BY <1>1, <1>3, <1>4, <1>5, <2>1, <2>2, <2>3 DEF SharesTyped
<1>7. Counted'
  BY <1>1, <1>2, <1>3, <1>5 DEF Counted, SharesTyped
<1>8. Kept' /\ Current'
  <2>1. \A e \in Dirs : items'[e] # {} => e \in directories'
    BY <1>1, <1>4 DEF Kept
  <2>2. \A e \in Dirs : gen[e] <= gen'[e] /\ gen'[e] \in Nat
    BY <1>5 DEF SharesTyped
  <2> QED BY <1>1, <1>4, <2>1, <2>2, KeptOutdated
<1> QED BY <1>6, <1>7, <1>8

(* A directory is removed, and its items go to its nearest parent.              *)
LEMMA RemoveInv ==
  ASSUME SharesInv, NEW d \in Dirs, Remove(d)
  PROVE  SharesInv'
<1> USE DEF SharesInv
<1>1. /\ d \in directories /\ used.shares < MaxShares
      /\ used' = [used EXCEPT !.shares = used.shares + 1]
      /\ directories' = directories \ {d} /\ Outdated /\ UNCHANGED <<gen, mode, terms, disk>>
  BY DEF Remove, Shares
<1>2. /\ used.changes \in 0..MaxChanges /\ used.shares \in 0..MaxShares
      /\ MaxShares \in Nat /\ MaxChanges \in Nat /\ directories \in SUBSET Dirs
  BY SharesAssumption DEF SharesTyped, SharesAssumption
<1>3. /\ used'.changes = used.changes /\ used'.shares = used.shares + 1
      /\ used' \in [changes : 0..MaxChanges, shares : 0..MaxShares]
  BY <1>1, <1>2 DEF SharesTyped
<1>4. /\ items' \in [Dirs -> SUBSET SharedItem]
      /\ \A e \in Dirs : items'[e] # {} => e \in directories \ {d}
      /\ \A e \in Dirs : \A i \in items'[e] : \E f \in Dirs : i \in items[f]
  <2>1. CASE Parents(d, directories) = {}
    <3>1. items' = [items EXCEPT ![d] = {}]
      BY <2>1 DEF Remove
    <3> QED BY <3>1 DEF SharesTyped, Kept
  <2>2. CASE Parents(d, directories) # {}
    <3> DEFINE p == Nearest(d, directories)
    <3>1. p \in directories \ {d} /\ p \in Dirs
      BY <1>2, <2>2, NearestIs
    <3>2. items' = [items EXCEPT ![d] = {}, ![p] = Joined(@, items[d])]
      BY <2>2 DEF Remove
    <3> HIDE DEF p
    <3>3. Joined(items[p], items[d]) \subseteq items[p] \cup items[d]
      BY DEF Joined
    <3>4. /\ items'[p] = Joined(items[p], items[d]) /\ items'[d] = {}
          /\ \A e \in Dirs \ {d, p} : items'[e] = items[e]
          /\ DOMAIN items' = Dirs /\ items' = [e \in Dirs |-> items'[e]]
      BY <3>1, <3>2 DEF SharesTyped
    <3>5. \A e \in Dirs : items'[e] \subseteq SharedItem
      BY <3>1, <3>3, <3>4 DEF SharesTyped
    <3>6. items' \in [Dirs -> SUBSET SharedItem]
      BY <3>4, <3>5
    <3>7. \A e \in Dirs : items'[e] # {} => e \in directories \ {d}
      BY <3>1, <3>4 DEF Kept
    <3>8. \A e \in Dirs : \A i \in items'[e] : \E f \in Dirs : i \in items[f]
      BY <3>1, <3>3, <3>4
    <3> QED BY <3>6, <3>7, <3>8
  <2> QED BY <2>1, <2>2
<1>5. SharesTyped'
  <2>1. walks' \subseteq [object : Objects, found : SUBSET SharedItem, outdated : BOOLEAN]
    BY <1>1, OutdatedWalks
  <2>2. directories' \subseteq Dirs /\ fresh' = {} /\ overwritten' = {}
    BY <1>1, <1>2 DEF Outdated
  <2> QED BY <1>1, <1>3, <1>4, <2>1, <2>2 DEF SharesTyped
<1>6. Counted'
  BY <1>1, <1>2, <1>3 DEF Counted, SharesTyped
<1>7. Kept' /\ Current'
  BY <1>1, <1>4, KeptOutdated DEF SharesTyped
<1> QED BY <1>5, <1>6, <1>7

(* The share mode of a directory says nothing about its items.                  *)
LEMMA UpdateInv ==
  ASSUME SharesInv, NEW d \in Dirs, NEW m \in Modes, Update(d, m)
  PROVE  SharesInv'
<1> USE DEF SharesInv
<1>1. /\ used.shares < MaxShares /\ used' = [used EXCEPT !.shares = used.shares + 1]
      /\ mode' = [mode EXCEPT ![Object(d)] = m]
      /\ UNCHANGED <<directories, gen, items, terms, walks, disk, fresh, overwritten>>
  BY DEF Update, Shares
<1>2. /\ used.changes \in 0..MaxChanges /\ used.shares \in 0..MaxShares
      /\ MaxShares \in Nat /\ MaxChanges \in Nat
  BY SharesAssumption DEF SharesTyped, SharesAssumption
<1>3. /\ used'.changes = used.changes /\ used'.shares = used.shares + 1
      /\ used' \in [changes : 0..MaxChanges, shares : 0..MaxShares]
  BY <1>1, <1>2 DEF SharesTyped
<1>4. SharesTyped'
  <2>1. mode' \in [Objects -> Modes]
    BY <1>1 DEF SharesTyped
  <2> QED BY <1>1, <1>3, <2>1 DEF SharesTyped
<1>5. Counted' /\ Kept'
  BY <1>1, <1>2, <1>3 DEF Counted, Kept, Made, SharesTyped
<1>6. Current'
  BY <1>1, WalkedSame DEF Current
<1> QED BY <1>4, <1>5, <1>6

(* A file changes on disk: all that was walked before is out of date.            *)
LEMMA ChangeInv ==
  ASSUME SharesInv, NEW f \in Files, Change(f)
  PROVE  SharesInv'
<1> USE DEF SharesInv
<1>1. /\ used.changes < MaxChanges /\ used' = [used EXCEPT !.changes = used.changes + 1]
      /\ \E t \in {0, disk[f] + 1} : disk' = [disk EXCEPT ![f] = t]
      /\ Outdated /\ UNCHANGED <<directories, gen, mode, items, terms>>
  BY DEF Change
<1>2. /\ used.changes \in 0..MaxChanges /\ used.shares \in 0..MaxShares
      /\ MaxShares \in Nat /\ MaxChanges \in Nat
  BY SharesAssumption DEF SharesTyped, SharesAssumption
<1>3. /\ used'.changes = used.changes + 1 /\ used'.shares = used.shares
      /\ used' \in [changes : 0..MaxChanges, shares : 0..MaxShares]
  BY <1>1, <1>2 DEF SharesTyped
<1>4. SharesTyped'
  <2>1. disk' \in [Files -> 0..used'.changes + 1]
    <3>1. \A g \in Files : disk[g] \in 0..used.changes + 1
      BY DEF SharesTyped
    <3>2. PICK t \in {0, disk[f] + 1} : disk' = [disk EXCEPT ![f] = t]
      BY <1>1
    <3>3. t \in 0..used'.changes + 1 /\ \A g \in Files : disk[g] \in 0..used'.changes + 1
      BY <1>2, <1>3, <3>1
    <3> QED BY <3>2, <3>3 DEF SharesTyped
  <2>2. walks' \subseteq [object : Objects, found : SUBSET SharedItem, outdated : BOOLEAN]
    BY <1>1, OutdatedWalks
  <2>3. fresh' = {} /\ overwritten' = {}
    BY <1>1 DEF Outdated
  <2> QED BY <1>1, <1>3, <2>1, <2>2, <2>3 DEF SharesTyped
<1>5. Counted'
  BY <1>1, <1>3 DEF Counted
<1>6. Kept' /\ Current'
  <2>1. \A d \in Dirs : \A i \in items'[d] : \E e \in Dirs : i \in items[e]
    BY <1>1
  <2>2. \A d \in Dirs : items'[d] # {} => d \in directories'
    BY <1>1 DEF Kept
  <2> QED BY <1>1, <2>1, <2>2, KeptOutdated DEF SharesTyped
<1> QED BY <1>4, <1>5, <1>6

(* Items that no directory holds leave the term map.                           *)
LEMMA CollectInv == SharesInv /\ Collect => SharesInv'
<1> SUFFICES ASSUME SharesInv, Collect PROVE SharesInv'
  OBVIOUS
<1> USE DEF SharesInv
<1>1. /\ terms' = terms \cap Indexed(items)
      /\ UNCHANGED <<directories, gen, mode, items, walks, disk, fresh, overwritten, used>>
  BY DEF Collect
<1>2. SharesTyped' /\ Counted' /\ Kept'
  BY <1>1 DEF SharesTyped, Counted, Kept, Made
<1>3. Current'
  <2>1. \A d \in fresh : items[d] \subseteq Indexed(items)
    BY DEF Indexed, SharesTyped
  <2>2. \A d \in fresh : items[d] \subseteq terms'
    BY <1>1, <2>1 DEF Current
  <2> QED BY <1>1, <2>2, WalkedSame DEF Current
<1> QED BY <1>2, <1>3

(* Walks begin, and find what there is.                                       *)
LEMMA ScanInv ==
  ASSUME SharesInv, NEW S \in SUBSET Dirs, Scan(S)
  PROVE  SharesInv'
<1> USE DEF SharesInv
<1>1. /\ S \subseteq directories /\ walks' = walks \cup {Walk(d) : d \in S}
      /\ UNCHANGED <<directories, gen, mode, items, terms, disk, fresh, overwritten, used>>
  BY DEF Scan
<1>2. ASSUME NEW d \in S
      PROVE  /\ Walk(d) \in [object : Objects, found : SUBSET SharedItem, outdated : BOOLEAN]
             /\ Made(Walk(d).object) /\ \A i \in Walk(d).found : i.owner = Walk(d).object
             /\ Walk(d).object = Object(d) /\ Walk(d).found = Walked(d, directories)
  <2>1. d \in directories
    BY <1>1
  <2> QED BY <2>1, WalkedTyped DEF Walk
<1>3. SharesTyped' /\ Counted' /\ Kept'
  BY <1>1, <1>2 DEF SharesTyped, Counted, Kept, Made
<1>4. Current'
  <2>1. \A w \in walks' : ~w.outdated =>
          \E d \in directories : w.object = Object(d) /\ w.found = Walked(d, directories)
    BY <1>1, <1>2 DEF Current
  <2> QED BY <1>1, <2>1, WalkedSame DEF Current
<1> QED BY <1>3, <1>4

(* A walk fails: the items stay as they are.                                  *)
LEMMA WalkFailsInv ==
  ASSUME SharesInv, NEW w \in walks, WalkFails(w)
  PROVE  SharesInv'
<1> USE DEF SharesInv
<1> DEFINE d == w.object[1]
<1>1. /\ walks' = walks \ {w} /\ terms \subseteq terms' /\ terms' \subseteq terms \cup items[d]
      /\ UNCHANGED <<directories, gen, mode, items, disk, fresh, overwritten, used>>
  BY DEF WalkFails
<1>2. d \in Dirs
  BY DEF SharesTyped, Objects
<1> HIDE DEF d
<1>3. SharesTyped' /\ Counted' /\ Kept'
  BY <1>1, <1>2 DEF SharesTyped, Counted, Kept, Made
<1>4. Current'
  BY <1>1, WalkedSame DEF Current
<1> QED BY <1>3, <1>4

(* The result of a walk is applied.                                           *)
LEMMA WalksInv ==
  ASSUME SharesInv, NEW w \in walks, Walks(w)
  PROVE  SharesInv'
<1> USE DEF SharesInv
<1> DEFINE d == w.object[1]
<1> DEFINE current == d \in directories /\ Object(d) = w.object
<1> DEFINE kept == IF current THEN Applied(items[d], w.found) ELSE w.found
<1>1. /\ walks' = walks \ {w} /\ UNCHANGED <<directories, gen, mode, disk, used>>
      /\ items' = IF current THEN [items EXCEPT ![d] = kept] ELSE items
      /\ fresh' = IF current /\ ~w.outdated THEN fresh \cup {d} ELSE fresh
      /\ overwritten' = IF ~current THEN overwritten
                        ELSE IF w.outdated THEN overwritten \cup {d} ELSE overwritten \ {d}
  BY DEF Walks
<1>2. /\ d \in Dirs /\ items[d] \in SUBSET SharedItem /\ w.found \in SUBSET SharedItem
      /\ w.object \in Objects /\ w.outdated \in BOOLEAN
  BY DEF SharesTyped, Objects
<1>3. /\ terms' \subseteq terms \cup kept /\ kept \subseteq terms'
      /\ terms \cap Indexed(items') \subseteq terms'
  BY DEF Walks
<1>4. kept \subseteq items[d] \cup w.found
  BY <1>2, AppliedIs
<1> HIDE DEF d, current, kept
<1>5. /\ items' \in [Dirs -> SUBSET SharedItem]
      /\ \A e \in Dirs \ {d} : items'[e] = items[e]
      /\ current => items'[d] = kept
      /\ ~current => items' = items
  BY <1>1, <1>2, <1>4 DEF SharesTyped
<1>6. current => d \in directories
  BY DEF current
<1>7. SharesTyped'
  <2>1. terms' \subseteq SharedItem
    BY <1>2, <1>3, <1>4 DEF SharesTyped
  <2>2. fresh' \cup overwritten' \subseteq directories
    BY <1>1, <1>6 DEF SharesTyped
  <2> QED BY <1>1, <1>5, <2>1, <2>2 DEF SharesTyped
<1>8. Counted' /\ Kept'
  <2>1. \A e \in Dirs : items'[e] # {} => e \in directories
    BY <1>5, <1>6 DEF Kept
  <2>2. \A i \in kept : Made(i.owner)
    BY <1>2, <1>4 DEF Kept
  <2>3. \A e \in Dirs : \A i \in items'[e] : Made(i.owner)
    BY <1>5, <2>2 DEF Kept
  <2> QED BY <1>1, <2>1, <2>3 DEF Counted, Kept, Made
<1>9. Current'
  <2>1. \A e \in fresh' : items'[e] \subseteq terms'
    <3> TAKE e \in fresh'
    <3>1. e \in Dirs
      BY <1>1, <1>6 DEF SharesTyped
    <3>2. CASE current /\ e = d
      BY <1>3, <1>5, <3>2
    <3>3. CASE ~(current /\ e = d)
      <4>1. e \in fresh /\ items'[e] = items[e]
        BY <1>1, <1>5, <3>1, <3>3
      <4>2. items'[e] \subseteq Indexed(items')
        BY <3>1 DEF Indexed
      <4> QED BY <1>3, <4>1, <4>2 DEF Current
    <3> QED BY <3>2, <3>3
  <2>2. ASSUME \A e \in Dirs : gen[e] <= 1, NEW e \in fresh' \ overwritten'
        PROVE  items'[e] = Walked(e, directories)
    <3>1. e \in Dirs
      BY <1>1, <1>6 DEF SharesTyped
    <3>2. CASE current /\ e = d
      <4>1. ~w.outdated
        BY <1>1, <3>2
      <4>2. PICK a \in directories : w.object = Object(a) /\ w.found = Walked(a, directories)
        BY <4>1 DEF Current
      <4>3. a = d
        BY <4>2 DEF Object, d
      <4>4. ASSUME NEW o \in Objects, Made(o)
            PROVE  o[2] = 1
        <5>1. o[1] \in Dirs /\ o[2] \in Nat
          BY SharesAssumption DEF Objects, SharesAssumption
        <5> QED BY <2>2, <4>4, <5>1 DEF Made, SharesTyped
      <4>5. \A i \in items[d] \cup w.found : i.owner[2] = 1
        BY <1>2, <4>4 DEF Kept, SharedItem
      <4>6. kept = w.found
        BY <1>2, <3>2, <4>5, AppliedIs DEF kept
      <4> QED BY <1>5, <3>2, <4>2, <4>3, <4>6
    <3>3. CASE ~(current /\ e = d)
      <4>1. e \in fresh \ overwritten /\ items'[e] = items[e]
        BY <1>1, <1>5, <3>1, <3>3
      <4> QED BY <2>2, <4>1 DEF Current
    <3> QED BY <3>2, <3>3
  <2>3. \A v \in walks' : ~v.outdated =>
          \E e \in directories : v.object = Object(e) /\ v.found = Walked(e, directories)
    BY <1>1 DEF Current
  <2>4. UNCHANGED <<directories, gen, disk>>
    BY <1>1
  <2> QED BY <2>1, <2>2, <2>3, <2>4, WalkedSame DEF Current
<1> QED BY <1>7, <1>8, <1>9

(* The items that are loaded belong to the directories they were kept in.       *)
LEMMA LoadedTyped ==
  ASSUME SharesInv, NEW new, NEW d \in Dirs, NEW i \in Loaded(new)[d]
  PROVE  i \in SharedItem /\ Made(i.owner)
<1>1. PICK e \in directories : i \in Restored[e]
  BY DEF Loaded
<1>2. e \in Dirs
  BY DEF SharesInv, SharesTyped
<1>3. PICK j \in items[e] : i = [j EXCEPT !.owner = Object(e)]
  BY <1>1, <1>2 DEF Restored
<1>4. j \in SharedItem /\ Object(e) \in Objects /\ Made(Object(e))
  BY <1>2, WalkedTyped DEF SharesInv, SharesTyped
<1>5. i \in SharedItem /\ i.owner = Object(e)
  BY <1>3, <1>4 DEF SharedItem
<1> QED BY <1>4, <1>5

(* The client starts again: what it loads is kept in configured directories, and  *)
(* nothing is fresh.                                                       *)
LEMMA RestartInv == SharesInv /\ Restart => SharesInv'
<1> SUFFICES ASSUME SharesInv, Restart PROVE SharesInv'
  OBVIOUS
<1> USE DEF SharesInv
<1> DEFINE new == Configured \ directories
<1>1. /\ used.changes < MaxChanges /\ used' = [used EXCEPT !.changes = used.changes + 1]
      /\ gen' = [d \in Dirs |-> IF d \in new THEN gen[d] + 1 ELSE gen[d]]
      /\ mode' = [o \in Objects |-> IF o[1] \in Configured /\ o[2] = gen'[o[1]]
                                    THEN ConfiguredMode[o[1]] ELSE mode[o]]
      /\ items' = [d \in Dirs |-> IF d \in Configured THEN Loaded(new)[d] ELSE {}]
      /\ terms' = Indexed(items')
      /\ directories' = Configured /\ walks' = {} /\ fresh' = {} /\ overwritten' = {}
      /\ UNCHANGED disk
  BY DEF Restart
<1>2. /\ used.changes \in 0..MaxChanges /\ used.shares \in 0..MaxShares
      /\ MaxShares \in Nat /\ MaxChanges \in Nat /\ Configured \subseteq Dirs
      /\ ConfiguredMode \in [Configured -> Modes]
  BY SharesAssumption DEF SharesTyped, SharesAssumption
<1>3. /\ used'.changes = used.changes + 1 /\ used'.shares = used.shares
      /\ used' \in [changes : 0..MaxChanges, shares : 0..MaxShares]
  BY <1>1, <1>2 DEF SharesTyped
<1>4. gen' \in [Dirs -> Nat] /\ \A d \in Dirs : gen[d] <= gen'[d]
  BY <1>1 DEF SharesTyped
<1>5. \A d \in Dirs : \A i \in items'[d] : i \in SharedItem /\ Made(i.owner)'
  <2> TAKE d \in Dirs
  <2> TAKE i \in items'[d]
  <2>1. i \in Loaded(new)[d]
    BY <1>1
  <2>2. i \in SharedItem /\ Made(i.owner)
    BY <2>1, LoadedTyped
  <2>3. i.owner \in Objects
    BY <2>2 DEF SharedItem
  <2>4. i.owner[1] \in Dirs /\ i.owner[2] \in Nat
    BY <1>2, <2>3 DEF Objects
  <2> HIDE DEF new
  <2>5. /\ gen[i.owner[1]] \in Nat /\ gen'[i.owner[1]] \in Nat
        /\ gen[i.owner[1]] <= gen'[i.owner[1]]
    BY <1>4, <2>4 DEF SharesTyped
  <2> QED BY <2>2, <2>4, <2>5 DEF Made
<1>6. SharesTyped'
  <2>1. disk' \in [Files -> 0..used'.changes + 1]
    BY <1>1, <1>2, <1>3 DEF SharesTyped
  <2>2. mode' \in [Objects -> Modes]
    BY <1>1, <1>2 DEF SharesTyped
  <2>3. items' \in [Dirs -> SUBSET SharedItem]
    <3>1. DOMAIN items' = Dirs /\ items' = [d \in Dirs |-> items'[d]]
      BY <1>1
    <3> QED BY <1>5, <3>1
  <2>4. terms' \subseteq SharedItem
    BY <1>1, <1>5 DEF Indexed
  <2> QED BY <1>1, <1>2, <1>3, <1>4, <2>1, <2>2, <2>3, <2>4 DEF SharesTyped
<1>7. Counted'
  BY <1>1, <1>2, <1>3 DEF Counted, SharesTyped
<1>8. Kept'
  <2>1. \A d \in Dirs : items'[d] # {} => d \in directories'
    BY <1>1
  <2> QED BY <1>1, <1>5, <2>1 DEF Kept
<1>9. Current'
  BY <1>1 DEF Current
<1> QED BY <1>6, <1>7, <1>8, <1>9

(* Every step keeps the invariant.                                            *)
LEMMA SharesNextInv == SharesInv /\ [SharesNext]_sharesVars => SharesInv'
<1> SUFFICES ASSUME SharesInv, [SharesNext]_sharesVars PROVE SharesInv'
  OBVIOUS
<1>1. CASE UNCHANGED sharesVars
  BY <1>1, WalkedSame DEF sharesVars, SharesInv, SharesTyped, Counted, Kept, Made, Current
<1>2. CASE SharesNext
  BY <1>2, AddInv, UpdateInv, RemoveInv, ChangeInv, CollectInv, ScanInv, WalkFailsInv,
     WalksInv, RestartInv DEF SharesNext
<1> QED BY <1>1, <1>2

(* In every state of Shares: walks that nothing outdated, and directories that    *)
(* are fresh and not overwritten, have what is on disk.                         *)
THEOREM SharesInvariant == SharesSpec => []SharesInv
<1> QED BY SharesInitInv, SharesNextInv, PTL DEF SharesSpec

(* Every variable of Shares keeps its type.                                   *)
THEOREM SharesTypeCorrect == SharesSpec => []SharesTypeOK
<1>1. SharesInv => SharesTypeOK
  <2> SUFFICES ASSUME SharesInv PROVE SharesTypeOK
    OBVIOUS
  <2> USE DEF SharesInv
  <2>1. gen \in [Dirs -> 0..MaxShares + 1]
    <3>1. used.shares \in 0..MaxShares /\ MaxShares \in Nat
      BY SharesAssumption DEF SharesTyped, SharesAssumption
    <3>2. \A d \in Dirs : gen[d] \in 0..MaxShares + 1
      BY <3>1 DEF SharesTyped, Counted
    <3> QED BY <3>2 DEF SharesTyped
  <2>2. \A i \in terms \cup Indexed(items) : i \in SharedItem
    BY DEF SharesTyped, Indexed
  <2>3. \A i \in SharedItem : IsItem(i)
    BY DEF SharedItem, IsItem
  <2>4. used.changes \in 0..MaxChanges /\ used.shares \in 0..MaxShares
    BY DEF SharesTyped
  <2>5. \A w \in walks : w.object \in Objects /\ w.outdated \in BOOLEAN
    BY DEF SharesTyped
  <2> QED BY <2>1, <2>2, <2>3, <2>4, <2>5 DEF SharesTyped, Kept, SharesTypeOK
<1> QED BY <1>1, SharesInvariant, PTL

---------------------------------------------------------------------------
(* Items lie in the directories that hold them, and in those they belong to.     *)
Lies(i, d) == Within(Folder[i.file], i.owner[1]) /\ Within(Folder[i.file], d)

Contained ==
  /\ \A d \in Dirs : \A i \in items[d] : Lies(i, d)
  /\ \A w \in walks : \A i \in w.found : Lies(i, w.object[1])

LEMMA WithinTransitive ==
  ASSUME NEW d \in Dirs, NEW e \in Dirs, NEW f \in Dirs, Within(d, e), Within(e, f)
  PROVE  Within(d, f)
BY TreeAssumption DEF Within, TreeAssumption

(* An item of a directory that get_absolute_path has in another one lies in it.  *)
LEMMA PathLies ==
  ASSUME NEW i \in SharedItem, NEW c \in Dirs, NEW d \in Dirs, Lies(i, c), Within(Path(i), d)
  PROVE  Lies(i, d)
<1>1. i.file \in Files /\ Folder[i.file] \in Dirs /\ i.owner[1] \in Dirs
  BY SharesAssumption DEF SharedItem, Objects, SharesAssumption
<1>2. Within(Folder[i.file], d)
  BY <1>1, WithinTransitive DEF Path, Lies
<1> QED BY <1>2 DEF Lies

LEMMA MovedContained ==
  ASSUME SharesTyped, Contained, NEW d \in Dirs
  PROVE  \A e \in Dirs : \A i \in Moved(items, d, directories)[e] : Lies(i, e)
<1> DEFINE moved == Moved(items, d, directories)
<1>1. CASE Parents(d, directories) = {}
  <2>1. moved = [items EXCEPT ![d] = {}]
    BY <1>1 DEF Moved
  <2> HIDE DEF moved
  <2>2. \A e \in Dirs : moved[e] \subseteq items[e]
    BY <2>1 DEF SharesTyped
  <2>3. \A e \in Dirs : \A i \in moved[e] : Lies(i, e)
    BY <2>2 DEF Contained
  <2> QED BY <2>3 DEF moved
<1>2. CASE Parents(d, directories) # {}
  <2> DEFINE p == Nearest(d, directories)
  <2>1. p \in Dirs /\ p # d
    BY <1>2, NearestIs DEF SharesTyped
  <2>2. moved = [items EXCEPT ![d] = ItemsOf(d, items[p]), ![p] = Without(@, ItemsOf(d, @))]
    BY <1>2 DEF Moved
  <2> HIDE DEF moved, p
  <2>3. /\ moved[d] = ItemsOf(d, items[p])
        /\ \A e \in Dirs \ {d} : moved[e] \subseteq items[e]
    BY <2>1, <2>2 DEF SharesTyped, Without
  <2>4. \A i \in moved[d] : Lies(i, d)
    <3> TAKE i \in moved[d]
    <3>1. i \in items[p] /\ i \in SharedItem /\ Within(Path(i), d)
      BY <2>1, <2>3 DEF ItemsOf, SharesTyped
    <3> QED BY <2>1, <3>1, PathLies DEF Contained
  <2>5. \A e \in Dirs : \A i \in moved[e] : Lies(i, e)
    BY <2>3, <2>4 DEF Contained
  <2> QED BY <2>5 DEF moved
<1> QED BY <1>1, <1>2

LEMMA RemoveContained ==
  ASSUME SharesInv, Contained, NEW d \in Dirs, Remove(d)
  PROVE  \A e \in Dirs : \A i \in items'[e] : Lies(i, e)
<1> USE DEF SharesInv
<1>1. CASE Parents(d, directories) = {}
  <2>1. items' = [items EXCEPT ![d] = {}]
    BY <1>1 DEF Remove
  <2> QED BY <2>1 DEF SharesTyped, Contained
<1>2. CASE Parents(d, directories) # {}
  <2> DEFINE p == Nearest(d, directories)
  <2>1. p \in Dirs /\ p # d /\ <<d, p>> \in Below
    BY <1>2, NearestIs DEF SharesTyped, Parents
  <2>2. items' = [items EXCEPT ![d] = {}, ![p] = Joined(@, items[d])]
    BY <1>2 DEF Remove
  <2> HIDE DEF p
  <2>3. /\ items'[p] \subseteq items[p] \cup items[d]
        /\ \A e \in Dirs \ {p} : items'[e] \subseteq items[e]
    BY <2>1, <2>2 DEF SharesTyped, Joined
  <2>4. \A i \in items[d] : Lies(i, p)
    <3> TAKE i \in items[d]
    <3>1. i \in SharedItem /\ Lies(i, d) /\ Within(d, p)
      BY <2>1 DEF SharesTyped, Contained, Within
    <3>2. Folder[i.file] \in Dirs
      BY <3>1, SharesAssumption DEF SharedItem, SharesAssumption
    <3> QED BY <2>1, <3>1, <3>2, WithinTransitive DEF Lies
  <2> QED BY <2>1, <2>3, <2>4 DEF Contained
<1> QED BY <1>1, <1>2

(* What is loaded from the cache is put in directories around it.               *)
LEMMA RestartContained ==
  ASSUME SharesInv, Contained, Restart
  PROVE  \A d \in Dirs : \A i \in items'[d] : Lies(i, d)
<1> USE DEF SharesInv
<1> DEFINE new == Configured \ directories
<1>1. SUFFICES ASSUME NEW d \in Dirs, NEW i \in Loaded(new)[d] PROVE Lies(i, d)
  BY DEF Restart
<1>2. PICK e \in directories : i \in Restored[e] /\ Place(i, e, new) = d
  BY <1>1 DEF Loaded
<1>3. e \in Dirs /\ new \subseteq Dirs
  BY SharesAssumption DEF SharesTyped, SharesAssumption
<1>4. PICK j \in items[e] : i = [j EXCEPT !.owner = Object(e)]
  BY <1>2, <1>3 DEF Restored
<1>5. i \in SharedItem /\ Lies(i, e)
  <2>1. j \in SharedItem /\ Object(e) \in Objects /\ Lies(j, e)
    BY <1>2, <1>3, WalkedTyped DEF SharesTyped, Contained
  <2>2. i \in SharedItem /\ i.file = j.file /\ i.owner = Object(e) /\ Object(e)[1] = e
    BY <1>4, <2>1 DEF SharedItem, Object
  <2> QED BY <2>1, <2>2 DEF Lies
<1> DEFINE places == {e} \cup {c \in new : /\ Parents(c, directories) # {} /\ Within(Path(i), c)
                                           /\ Nearest(c, directories) = e}
<1>6. places # {} /\ \A c \in places : c \in Dirs /\ Lies(i, c)
  BY <1>3, <1>5, PathLies
<1>7. places \in SUBSET {c \in Dirs : Within(Folder[i.file], c)} /\ Folder[i.file] \in Dirs
  BY <1>5, <1>6, SharesAssumption DEF Lies, SharedItem, SharesAssumption
<1>8. Place(i, e, new) = CHOOSE c \in places : \A f \in places : Within(c, f)
  BY DEF Place
<1> HIDE DEF places, new
<1>9. d \in places
  BY <1>2, <1>6, <1>7, <1>8, Innermost
<1> QED BY <1>6, <1>9

LEMMA WalkedContained ==
  ASSUME NEW d
  PROVE  \A i \in Walked(d, directories) : Lies(i, d)
BY DEF Walked, Item, Object, Lies

LEMMA ContainedNext == SharesInv /\ Contained /\ [SharesNext]_sharesVars => Contained'
<1> SUFFICES ASSUME SharesInv, Contained, [SharesNext]_sharesVars PROVE Contained'
  OBVIOUS
<1> USE DEF SharesInv
<1>1. ASSUME Outdated PROVE \A v \in walks' : \A i \in v.found : Lies(i, v.object[1])
  BY <1>1, OutdatedWalks DEF Contained
<1>2. CASE UNCHANGED sharesVars
  BY <1>2 DEF sharesVars, Contained
<1>3. ASSUME NEW d \in Dirs, NEW m \in Modes, Add(d, m) PROVE Contained'
  <2>1. items' = Moved(items, d, directories) /\ Outdated
    BY <1>3 DEF Add
  <2> QED BY <1>1, <2>1, MovedContained DEF Contained
<1>4. ASSUME NEW d \in Dirs, Remove(d) PROVE Contained'
  <2>1. Outdated
    BY <1>4 DEF Remove
  <2> QED BY <1>1, <1>4, <2>1, RemoveContained DEF Contained
<1>5. ASSUME NEW d \in Dirs, NEW m \in Modes, Update(d, m) PROVE Contained'
  BY <1>5 DEF Update, Contained
<1>6. ASSUME NEW S \in SUBSET Dirs, Scan(S) PROVE Contained'
  <2>1. walks' = walks \cup {Walk(d) : d \in S} /\ UNCHANGED items
    BY <1>6 DEF Scan
  <2>2. \A d \in S : \A i \in Walk(d).found : Lies(i, Walk(d).object[1])
    BY WalkedContained DEF Walk, Object
  <2> QED BY <2>1, <2>2 DEF Contained
<1>7. ASSUME NEW w \in walks, Walks(w) PROVE Contained'
  <2> DEFINE d == w.object[1]
  <2>1. d \in Dirs /\ items[d] \in SUBSET SharedItem /\ w.found \in SUBSET SharedItem
    BY DEF SharesTyped, Objects
  <2>2. Applied(items[d], w.found) \subseteq items[d] \cup w.found
    BY <2>1, AppliedIs
  <2>3. /\ walks' = walks \ {w}
        /\ items' = items \/ items' = [items EXCEPT ![d] = Applied(items[d], w.found)]
    BY <1>7 DEF Walks
  <2>4. \A e \in Dirs : items'[e] \subseteq items[e] \/ (e = d /\ items'[e] \subseteq items[d] \cup w.found)
    BY <2>2, <2>3 DEF SharesTyped
  <2> QED BY <2>3, <2>4 DEF Contained
<1>8. ASSUME NEW w \in walks, WalkFails(w) PROVE Contained'
  BY <1>8 DEF WalkFails, Contained
<1>9. ASSUME NEW f \in Files, Change(f) PROVE Contained'
  BY <1>1, <1>9 DEF Change, Contained
<1>10. CASE Collect
  BY <1>10 DEF Collect, Contained
<1>11. CASE Restart
  <2>1. walks' = {}
    BY <1>11 DEF Restart
  <2> QED BY <1>11, <2>1, RestartContained DEF Contained
<1> QED BY <1>2, <1>3, <1>4, <1>5, <1>6, <1>7, <1>8, <1>9, <1>10, <1>11 DEF SharesNext

LEMMA ContainedInvariant == SharesSpec => []Contained
<1>1. SharesInit => Contained
  BY DEF SharesInit, Contained
<1> QED BY <1>1, ContainedNext, SharesInvariant, PTL DEF SharesSpec

(* PeersSeeAlike: for a file whose directories were scanned after the last change *)
(* and not overwritten by an older scan that ended later, searching, browsing    *)
(* and asking for it agree with the disk and with each other, whatever the state  *)
(* of the other directories.                                                 *)
THEOREM PeersAgree == SharesSpec => []PeersSeeAlike
<1>1. SharesInv /\ Contained => PeersSeeAlike
  <2> SUFFICES ASSUME SharesInv, Contained, NEW f \in Files,
                      Holders(f) \subseteq fresh \ overwritten,
                      {i \in terms : i.file = f} \subseteq Indexed(items),
                      \A d \in Dirs : gen[d] <= 1
               PROVE  /\ f \in Found <=> f \in Visible
                      /\ f \in Browsed <=> f \in Visible
                      /\ f \in Requested <=> f \in Visible
    BY DEF PeersSeeAlike
  <2> USE DEF SharesInv
  <2>1. \A d \in Holders(f) : /\ d \in directories /\ d \in Dirs
                              /\ items[d] = Walked(d, directories) /\ items[d] \subseteq terms
    BY DEF Current, SharesTyped, Holders
  <2>2. ASSUME NEW d \in Dirs, NEW i \in items[d], i.file = f
        PROVE  d \in Holders(f)
    BY <2>2 DEF Kept, Contained, Lies, Holders
  <2>3. ASSUME NEW d \in Holders(f)
        PROVE  (\E i \in items[d] : i.file = f) <=> disk[f] # 0 /\ d = Home(f)
    <3> DEFINE G == {g \in Files : /\ disk[g] # 0 /\ Within(Folder[g], d)
                                   /\ \A c \in Children(d, directories) : ~Within(Folder[g], c)}
    <3>1. items[d] = {Item(Object(d), g, disk[g]) : g \in G}
      BY <2>1 DEF Walked
    <3>2. \A g \in G : Item(Object(d), g, disk[g]).file = g
      BY DEF Item
    <3>3. (\E i \in items[d] : i.file = f) <=> f \in G
      <4> HIDE DEF G
      <4> QED BY <3>1, <3>2
    <3>4. (\A c \in Children(d, directories) : ~Within(Folder[f], c)) <=> d = Home(f)
      BY <2>1, HomeIs
    <3>5. Within(Folder[f], d)
      BY DEF Holders
    <3> QED BY <3>3, <3>4, <3>5
  <2>4. ASSUME Holders(f) # {}
        PROVE  Home(f) \in Holders(f)
    <3>1. Folder[f] \in Dirs /\ Holders(f) \in SUBSET {e \in Dirs : Within(Folder[f], e)}
      BY SharesAssumption DEF SharesAssumption, SharesTyped, Holders
    <3> QED BY <2>4, <3>1, Innermost DEF Home
  <2>5. f \in Visible <=> \E d \in Holders(f) : /\ ~IsLocked(Object(d))
                                                /\ \E i \in items[d] : i.file = f
    BY <2>3, <2>4 DEF Visible
  <2>6. \A d \in Holders(f) : \A i \in items[d] : i.owner = Object(d) /\ OnDisk(i)
    BY <2>1 DEF Walked, Item, Object, OnDisk
  <2>7. \A i : i.file = f => (i \in Indexed(items) <=> \E d \in Holders(f) : i \in items[d])
    BY <2>1, <2>2 DEF Indexed
  <2>8. f \in Browsed <=> f \in Visible
    <3>1. f \in Browsed <=> \E d \in directories : /\ ~IsLocked(Object(d))
                                                   /\ \E i \in items[d] : i.file = f
      BY DEF Browsed
    <3>2. \A d \in directories : (\E i \in items[d] : i.file = f) => d \in Holders(f)
      BY <2>2 DEF SharesTyped
    <3> QED BY <2>1, <2>5, <3>1, <3>2
  <2>9. f \in Requested <=> f \in Visible
    BY <2>5, <2>6, <2>7 DEF Requested
  <2>10. f \in Found <=> f \in Visible
    <3>1. \A i : i.file = f => (i \in terms <=> \E d \in Holders(f) : i \in items[d])
      BY <2>1, <2>7
    <3> QED BY <2>5, <2>6, <3>1 DEF Found
  <2> QED BY <2>8, <2>9, <2>10
<1> QED BY <1>1, SharesInvariant, ContainedInvariant, PTL
====
