------------------------------- MODULE Session -------------------------------
(***************************************************************************)
(* The connection to the server and the session on it: SoulSeekClient.login  *)
(* announces a session to the services, ServerConnection.disconnect destroys *)
(* it, the watchdog connects and logs in again, and stop ends it all.        *)
(*                                                                          *)
(* Three tasks log in, read and close: the application, the watchdog and the *)
(* reader of the connection; the ping only writes.  An action is what one of *)
(* them does between two suspensions.  Credentials are configured and        *)
(* reconnect.auto is on.                                                    *)
(***************************************************************************)
EXTENDS Naturals, Sequences

CONSTANTS MaxLosses,      \* bound: connections that fail, break or are refused
          MaxIntervals    \* bound: WishlistInterval messages on a connection

ASSUME SessionAssumption == MaxLosses \in Nat /\ MaxIntervals \in Nat

VARIABLES
  conn,      \* ServerConnection.state
  opens,     \* connections opened so far, the last one being this one
  last,      \* who called disconnect last, and why
  app,       \* what the application is doing
  dog,       \* what the watchdog task is doing
  watched,   \* _connection_watchdog_task holds a task
  reader,    \* the reader task of the connection
  helpers,   \* background tasks that hold a task
  session,   \* SoulSeekClient.session, named by its connection; 0 is None
  held,      \* _session of the services that keep one
  stage,     \* the listener of SessionInitializedEvent being called, or 0
  cut,       \* the connection closed while the session was announced
  refused,   \* the server refused the last login
  spent      \* losses and WishlistInterval messages so far

tasks   == <<app, dog, watched, reader, helpers>>
shared  == <<session, held, stage, cut>>
link    == <<conn, opens, last>>
vars    == <<link, tasks, shared, refused, spent>>

---------------------------------------------------------------------------
(* The listeners of SessionInitializedEvent, in the order in which           *)
(* SoulSeekClient constructs them, and those of them that keep the session.  *)
Services == <<"network", "distributed", "users", "rooms", "interests",
              "shares", "transfers", "searches">>
Keepers  == {"distributed", "users", "shares", "searches"}

Reasons == {"CONNECT_FAILED", "REQUESTED", "READ_ERROR", "WRITE_ERROR",
            "TIMEOUT", "EOF"}

Nobody == [k \in Keepers |-> 0]

Init ==
  /\ conn = "UNINITIALIZED" /\ opens = 0
  /\ last = [by |-> "none", reason |-> "CONNECT_FAILED"]
  /\ app = "new" /\ dog = "off" /\ watched = FALSE /\ reader = "none" /\ helpers = {}
  /\ session = 0 /\ held = Nobody /\ stage = 0 /\ cut = FALSE /\ refused = FALSE
  /\ spent = [losses |-> 0, intervals |-> 0]

Loss == /\ spent.losses < MaxLosses
        /\ spent' = [spent EXCEPT !.losses = @ + 1]

(* A task that waits for its own disconnect does nothing else.               *)
Busy(t) == conn = "CLOSING" /\ last.by = t

---------------------------------------------------------------------------
(* Opening the connection.  CONNECTED starts the ping, the UPnP job and the  *)
(* watchdog if there is none; the one that connects stays what it is.        *)
StartsWatchdog == /\ watched' = TRUE
                  /\ dog' = IF dog = "connects" THEN "login" ELSE "polls"

Opened ==
  /\ conn = "CONNECTING"
  /\ conn' = "CONNECTED" /\ opens' = opens + 1
  /\ helpers' = helpers \cup {"ping", "upnp"}
  /\ StartsWatchdog
  /\ spent' = [spent EXCEPT !.intervals = 0]
  /\ refused' = FALSE
  /\ UNCHANGED <<last, reader, shared>>

ConnectFailed(t) ==
  /\ conn = "CONNECTING" /\ Loss
  /\ conn' = "CLOSED" /\ last' = [by |-> t, reason |-> "CONNECT_FAILED"]
  /\ UNCHANGED <<opens, watched, reader, helpers, shared, refused>>

Start ==
  /\ app = "new"
  /\ app' = "connects" /\ conn' = "CONNECTING"
  /\ UNCHANGED <<opens, last, dog, watched, reader, helpers, shared, refused, spent>>

AppConnected == app = "connects" /\ Opened /\ app' = "login"

AppConnectFailed ==
  app = "connects" /\ ConnectFailed("app") /\ app' = "failed" /\ UNCHANGED dog

(* The watchdog looks at the state every half second and sleeps for the      *)
(* reconnect timeout before it connects.  Handlers, announcements and a      *)
(* failing login take less than that (the bound HandlersAreShort).           *)
DogSeesClosed ==
  /\ dog = "polls" /\ conn = "CLOSED"
  /\ dog' = "waits"
  /\ UNCHANGED <<link, app, watched, reader, helpers, shared, refused, spent>>

HandlersAreShort == reader = "none" /\ stage = 0 /\ app # "login"

DogConnects ==
  /\ dog = "waits" /\ HandlersAreShort
  /\ dog' = "connects" /\ conn' = "CONNECTING"
  /\ UNCHANGED <<opens, last, app, watched, reader, helpers, shared, refused, spent>>

DogConnected == dog = "connects" /\ Opened /\ UNCHANGED app

(* Mutant: a failure to connect is not caught and ends the watchdog.         *)
DogConnectRaises ==
  dog = "connects" /\ ConnectFailed("dog") /\ dog' = "off" /\ UNCHANGED app

DogConnectFailed ==
  dog = "connects" /\ ConnectFailed("dog") /\ dog' = "polls" /\ UNCHANGED app

---------------------------------------------------------------------------
(* disconnect: the watchdog ends only when the connection is closed on        *)
(* request or by the server.  It may be the task that disconnects; then it    *)
(* is cancelled while it waits for the transport to close.                   *)
(* Mutant: only a requested close ends the watchdog.                         *)
EndsOnRequestOnly(reason) == reason = "REQUESTED"

EndsWatchdog(reason) == reason \in {"REQUESTED", "EOF"}

Disconnect(t, reason) ==
  /\ conn = "CONNECTED"
  /\ conn' = "CLOSING" /\ last' = [by |-> t, reason |-> reason]
  /\ helpers' = {}
  /\ IF EndsWatchdog(reason)
     THEN /\ watched' = FALSE
          /\ dog' = IF t = "dog" THEN dog ELSE "off"
          /\ stage' = IF dog = "announces" /\ t # "dog" THEN 0 ELSE stage
     ELSE UNCHANGED <<watched, dog, stage>>
  /\ UNCHANGED <<opens, reader, session, held, cut, refused>>

(* CLOSED: the client destroys the session and tells those that keep it.     *)
(* Mutant: the session stays when the connection closes.                     *)
SessionKept == UNCHANGED <<session, held, cut>>

(* Mutant: the session goes, the services are not told.                      *)
SessionNotTold == session' = 0 /\ held' = held /\ cut' = (cut \/ (session # 0 /\ stage > 0))

SessionDestroyed ==
  /\ session' = 0
  /\ held' = IF session # 0 THEN Nobody ELSE held
  /\ cut' = (cut \/ (session # 0 /\ stage > 0))

Closed ==
  /\ conn = "CLOSING" /\ conn' = "CLOSED"
  /\ SessionDestroyed
  /\ app' = CASE Busy("app") /\ app = "stopping" -> "stopped"
              [] Busy("app") /\ app = "login"    -> "failed"
              [] OTHER                           -> app
  /\ dog' = CASE Busy("dog") /\ ~watched      -> "off"
              [] Busy("dog") /\ watched /\ dog = "login" -> "polls"
              [] OTHER                        -> dog
  /\ stage' = IF Busy("dog") /\ ~watched THEN 0 ELSE stage
  /\ reader' = IF Busy("reader") THEN "none" ELSE reader
  /\ UNCHANGED <<opens, last, watched, helpers, refused, spent>>

---------------------------------------------------------------------------
(* login, by the application or by the watchdog.                             *)
LogsIn(t) == /\ ~Busy(t)
             /\ IF t = "app" THEN app = "login" ELSE dog = "login"

(* Mutant: the watchdog is over when its login is.                            *)
DogEndsAfterLogin(t, then) ==
  IF t = "app" THEN app' = then /\ UNCHANGED dog ELSE dog' = then /\ UNCHANGED app

Goes(t, then) ==
  IF t = "app" THEN app' = then /\ UNCHANGED dog
  ELSE /\ dog' = CASE then = "up" -> "polls" [] then = "failed" -> "polls"
                   [] OTHER -> then
       /\ UNCHANGED app

LoginAccepted(t) ==
  /\ LogsIn(t) /\ conn \in {"CONNECTED", "CLOSING"}
  /\ session' = opens /\ stage' = 1 /\ cut' = FALSE
  /\ Goes(t, "announces")
  /\ UNCHANGED <<link, watched, reader, helpers, held, refused, spent>>

LoginRefused(t) ==
  /\ LogsIn(t) /\ conn = "CONNECTED" /\ Loss
  /\ refused' = TRUE /\ Goes(t, "failed")
  /\ UNCHANGED <<link, watched, reader, helpers, shared>>

LoginLost(t) ==
  /\ LogsIn(t) /\ conn \in {"CLOSING", "CLOSED"}
  /\ Goes(t, "failed")
  /\ UNCHANGED <<link, watched, reader, helpers, shared, refused, spent>>

LoginBroken(t) ==
  /\ LogsIn(t) /\ Loss
  /\ \E reason \in {"READ_ERROR", "TIMEOUT", "EOF"} : Disconnect(t, reason)
  /\ UNCHANGED app

(* One listener after another takes the session and sends.  When the last    *)
(* one returned, login starts the reader, which ends at once if the          *)
(* connection is closing.                                                   *)
Announces(t) == /\ ~Busy(t)
                /\ IF t = "app" THEN app = "announces" ELSE dog = "announces"

(* Mutant: login leaves the reader to the caller.                            *)
ReaderNotStarted == UNCHANGED reader

StartsReader == reader' = IF conn = "CONNECTED" THEN "reads" ELSE "none"

Announce(t) ==
  /\ Announces(t)
  /\ held' = IF Services[stage] \in Keepers
             THEN [held EXCEPT ![Services[stage]] = opens] ELSE held
  /\ IF stage = Len(Services)
     THEN stage' = 0 /\ Goes(t, "up") /\ StartsReader
     ELSE stage' = stage + 1 /\ UNCHANGED <<app, dog, reader>>
  /\ UNCHANGED <<link, watched, helpers, session, cut, refused, spent>>

AnnounceBroken(t) ==
  Announces(t) /\ Loss /\ Disconnect(t, "WRITE_ERROR") /\ UNCHANGED app

---------------------------------------------------------------------------
(* The reader.  A handler may suspend; the connection may close meanwhile.   *)
Handle ==
  /\ reader = "reads" /\ conn = "CONNECTED"
  /\ reader' = "handles"
  /\ UNCHANGED <<link, app, dog, watched, helpers, shared, refused, spent>>

HandlerReturns ==
  /\ reader = "handles" /\ ~Busy("reader")
  /\ reader' = IF conn = "CONNECTED" THEN "reads" ELSE "none"
  /\ UNCHANGED <<link, app, dog, watched, helpers, shared, refused, spent>>

(* WishlistInterval: a wishlist task that runs is cancelled and awaited, and  *)
(* the CancelledError of that task goes through the reader.                  *)
WishlistInterval ==
  /\ reader = "reads" /\ conn = "CONNECTED" /\ spent.intervals < MaxIntervals
  /\ spent' = [spent EXCEPT !.intervals = @ + 1]
  /\ IF "wishlist" \in helpers
     THEN reader' = "none" /\ helpers' = helpers \ {"wishlist"}
     ELSE helpers' = helpers \cup {"wishlist"} /\ UNCHANGED reader
  /\ UNCHANGED <<link, app, dog, watched, shared, refused>>

ReaderBroken ==
  /\ Loss
  /\ \/ /\ reader = "reads"
        /\ \E reason \in {"READ_ERROR", "TIMEOUT", "EOF"} : Disconnect("reader", reason)
     \/ reader = "handles" /\ Disconnect("reader", "WRITE_ERROR")
  /\ UNCHANGED app

ReaderEnds ==
  /\ reader = "reads" /\ conn # "CONNECTED" /\ ~Busy("reader")
  /\ reader' = "none"
  /\ UNCHANGED <<link, app, dog, watched, helpers, shared, refused, spent>>

(* A ping that cannot be written disconnects, in the task of the ping.       *)
PingBroken ==
  /\ "ping" \in helpers /\ Loss
  /\ Disconnect("ping", "WRITE_ERROR") /\ UNCHANGED app

(* stop: disconnect does nothing on a connection that is closing or closed.   *)
Stop ==
  /\ app \in {"up", "failed"}
  /\ \/ /\ conn \in {"CLOSING", "CLOSED"}
        /\ app' = "stopped"
        /\ UNCHANGED <<link, dog, watched, reader, helpers, shared, refused, spent>>
     \/ /\ conn = "CONNECTING"
        /\ app' = "stopped" /\ conn' = "CLOSED"
        /\ last' = [by |-> "app", reason |-> "REQUESTED"]
        /\ watched' = FALSE /\ dog' = "off"
        /\ UNCHANGED <<opens, reader, helpers, shared, refused, spent>>
     \/ Disconnect("app", "REQUESTED") /\ app' = "stopping" /\ UNCHANGED spent

---------------------------------------------------------------------------
Next ==
  \/ Start \/ AppConnected \/ AppConnectFailed
  \/ DogSeesClosed \/ DogConnects \/ DogConnected \/ DogConnectFailed
  \/ \E t \in {"app", "dog"} :
       \/ LoginAccepted(t) \/ LoginRefused(t) \/ LoginLost(t) \/ LoginBroken(t)
       \/ Announce(t) \/ AnnounceBroken(t)
  \/ Handle \/ HandlerReturns \/ WishlistInterval \/ ReaderBroken \/ ReaderEnds
  \/ PingBroken \/ Closed \/ Stop

Spec == Init /\ [][Next]_vars

(* The loop runs every task that is ready; a login is answered, refused or    *)
(* ends with the read timeout, connecting ends with its own timeout.         *)
Fairness ==
  /\ WF_vars(AppConnected \/ AppConnectFailed)
  /\ WF_vars(DogSeesClosed) /\ WF_vars(DogConnects)
  /\ WF_vars(DogConnected \/ DogConnectFailed)
  /\ \A t \in {"app", "dog"} :
       /\ WF_vars(LoginAccepted(t) \/ LoginRefused(t) \/ LoginLost(t) \/ LoginBroken(t))
       /\ WF_vars(Announce(t))
  /\ WF_vars(HandlerReturns) /\ WF_vars(ReaderEnds) /\ WF_vars(Closed)

FairSpec == Spec /\ Fairness

---------------------------------------------------------------------------
TypeOK ==
  /\ conn \in {"UNINITIALIZED", "CONNECTING", "CONNECTED", "CLOSING", "CLOSED"}
  /\ opens \in 0..(MaxLosses + 1)
  /\ last \in [by : {"none", "app", "dog", "reader", "ping"}, reason : Reasons]
  /\ app \in {"new", "connects", "login", "announces", "up", "failed",
              "stopping", "stopped"}
  /\ dog \in {"off", "polls", "waits", "connects", "login", "announces"}
  /\ watched \in BOOLEAN /\ cut \in BOOLEAN /\ refused \in BOOLEAN
  /\ reader \in {"none", "reads", "handles"}
  /\ helpers \subseteq {"ping", "upnp", "wishlist"}
  /\ session \in 0..opens /\ held \in [Keepers -> 0..opens]
  /\ stage \in 0..Len(Services)
  /\ spent \in [losses : 0..MaxLosses, intervals : 0..MaxIntervals]

(* A session is that of the connection there is now: neither a login that     *)
(* ends late nor a reconnection leaves the client with the session of a       *)
(* connection that is gone (login and _on_connection_state_changed).          *)
SessionIsConnected ==
  session # 0 => session = opens /\ conn \in {"CONNECTED", "CLOSING"}

(* Once the announcement is over, every service that keeps the session has    *)
(* the client's, and a service may keep a destroyed one only if the           *)
(* connection closed while it was announced.                                 *)
SessionIsShared ==
  \A k \in Keepers :
    /\ session # 0 /\ stage = 0 /\ conn = "CONNECTED" => held[k] = session
    /\ session = 0 /\ held[k] # 0 => cut

(* Client, services and connection agree on the session.                      *)
SessionAgrees == SessionIsConnected /\ SessionIsShared

(* The reader loop runs until the connection is closed: while there is a      *)
(* session and its announcement is over, somebody reads what the server       *)
(* sends, unless a second WishlistInterval ended the reader; and nobody does    *)
(* while a login reads the answer itself, as asyncio allows one reader only    *)
(* and the connection would be closed.                                       *)
ReaderLoops ==
  /\ conn = "CONNECTED" /\ session # 0 /\ stage = 0 /\ spent.intervals < 2 => reader # "none"
  /\ reader = "reads" => app # "login" /\ dog # "login"

(* A connection that was closed on request or by the server is not opened     *)
(* again by the watchdog, whichever task the closing went through.            *)
EofIsFinal ==
  conn \in {"CLOSING", "CLOSED"} /\ last.reason \in {"REQUESTED", "EOF"}
    => ~watched /\ (dog = "off" \/ Busy("dog"))

(* A connection that was lost is made and logged in on again, unless the      *)
(* server refuses, closes it or the application stops.                       *)
SessionRegained ==
  watched ~> ((session # 0 /\ stage = 0) \/ ~watched \/ refused)
=============================================================================
