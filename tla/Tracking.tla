------------------------------ MODULE Tracking ------------------------------
(***************************************************************************)
(* How UserTrackingManager keeps one user tracked by the server: the entry  *)
(* of that user in _tracked_users with its flags, its queue of requests, the *)
(* task that handles them one by one and the timer that asks again, against  *)
(* the connection to the server.  Users share nothing but the connection, so *)
(* one of them is enough.                                                   *)
(*                                                                          *)
(* An action runs a piece of code between two suspensions.  `at` says where *)
(* the tracking task is suspended; "get" is between two requests.           *)
(***************************************************************************)
EXTENDS Naturals, Sequences, SequencesExt

CONSTANTS Flags,           \* the members of TrackingFlag in use
          MaxAsks,         \* bound: calls of track_user and untrack_user
          MaxCloses,       \* bound: times the connection is lost or not made
          MaxTimeouts,     \* bound: waits that end with the answer under way
          MaxWriteErrors   \* bound: writes that fail on an open connection

ASSUME BoundsAssumption ==
  /\ MaxAsks \in Nat /\ MaxCloses \in Nat
  /\ MaxTimeouts \in Nat /\ MaxWriteErrors \in Nat

VARIABLES
  tracked,    \* the user has an entry in _tracked_users
  flags,      \* TrackedUser.flags
  state,      \* TrackedUser.state
  queue,      \* TrackedUser.queue
  at,         \* where the tracking task is
  then,       \* where it goes on after an await that several places make
  retry,      \* TrackedUser.retry_task is asleep
  conn,       \* ServerConnection.state
  toServer,   \* messages the server has not handled yet
  toClient,   \* answers to AddUser that were not handled yet
  exists,     \* the user has an account
  watched,    \* the server sends us the updates of the user
  spent       \* how much of each bound is used up

entry == <<tracked, flags, state, queue, at, then, retry>>
link  == <<conn, toServer, toClient>>
world == <<exists, watched>>
vars  == <<entry, link, world, spent>>

Spend(what) == spent' = [spent EXCEPT ![what] = @ + 1]

---------------------------------------------------------------------------
(* Requests.  A retry asks to add no flag.                                 *)

Request == [op : {"add", "remove"}, change : SUBSET Flags]
AddFlag(change)    == [op |-> "add", change |-> change]
RemoveFlag(change) == [op |-> "remove", change |-> change]
Retry              == AddFlag({})

Apply(r, fs) == IF r.op = "add" THEN fs \cup r.change ELSE fs \ r.change

Init ==
  /\ tracked = FALSE /\ flags = {} /\ state = "UNTRACKED" /\ queue = <<>>
  /\ at = "none" /\ then = "get" /\ retry = FALSE
  /\ conn = "CONNECTED" /\ toServer = <<>> /\ toClient = <<>>
  /\ exists \in BOOLEAN /\ watched = FALSE
  /\ spent = [asks |-> 0, closes |-> 0, timeouts |-> 0, writeErrors |-> 0]

(* track_user: a new entry comes with a task of its own.  An entry whose    *)
(* task has ended stays until the callback of the task removes it.          *)
TrackUser(f) ==
  /\ spent.asks < MaxAsks
  /\ tracked' = TRUE
  /\ queue' = Append(queue, AddFlag({f}))
  /\ at' = IF tracked THEN at ELSE "get"
  /\ Spend("asks")
  /\ UNCHANGED <<flags, state, then, retry, link, world>>

UntrackUser(f) ==
  /\ spent.asks < MaxAsks
  /\ tracked
  /\ queue' = Append(queue, RemoveFlag({f}))
  /\ Spend("asks")
  /\ UNCHANGED <<tracked, flags, state, at, then, retry, link, world>>

(* _request_retry: the sleep is over.                                      *)
RetryFires ==
  /\ retry
  /\ retry' = FALSE
  /\ queue' = Append(queue, Retry)
  /\ UNCHANGED <<tracked, flags, state, at, then, link, world, spent>>

---------------------------------------------------------------------------
(* The tracking task.                                                      *)

(* What follows the removal of the last flag: the task ends only if nothing *)
(* is queued.                                                              *)
Emptied == IF queue' = <<>> THEN "returned" ELSE "get"

(* cancel_task(retry_task): a timer that sleeps is cancelled and awaited,   *)
(* otherwise the code goes on at once.                                     *)
CancelRetry(next) ==
  /\ retry' = FALSE
  /\ IF retry THEN at' = "cancel" /\ then' = next
     ELSE /\ at' = IF next = "emptied" THEN Emptied ELSE next
          /\ UNCHANGED then

(* Mutants: users that were never confirmed are not told to the server, or   *)
(* every request without flags is; a retry counts as any other request.      *)
AfterLastConfirmed == IF state = "TRACKED" THEN "remove" ELSE "emptied"
AfterLastAlways    == "remove"
AddDueNoRetry(r)   == flags = {}

(* RemoveUser is due when there were flags before, AddUser for the first     *)
(* flag and for a retry.                                                    *)
AfterLast == IF flags # {} THEN "remove" ELSE "emptied"
AddDue(r) == flags = {} \/ r.change = {}

TakeRequest ==
  /\ at = "get" /\ queue # <<>>
  /\ queue' = Tail(queue)
  /\ flags' = Apply(Head(queue), flags)
  /\ \/ /\ flags' = {}
        /\ CancelRetry(AfterLast)
     \/ /\ flags' # {} /\ AddDue(Head(queue))
        /\ at' = "add"
        /\ UNCHANGED <<then, retry>>
     \/ /\ flags' # {} /\ ~AddDue(Head(queue))
        /\ UNCHANGED <<at, then, retry>>
  /\ UNCHANGED <<tracked, state, link, world, spent>>

(* send_server_messages writes the message in a task of its own: when the   *)
(* connection is closing or closed the message is dropped silently, and     *)
(* without a connection the caller gets an exception.                       *)
Send(message) ==
  toServer' = IF conn = "CONNECTED" THEN Append(toServer, message) ELSE toServer

SendRemove ==
  /\ at = "remove"
  /\ Send("RemoveUser")
  /\ at' = "removed"
  /\ UNCHANGED <<tracked, flags, state, queue, then, retry, conn, toClient,
                 world, spent>>

(* _set_tracking_state announces the state to listeners that may suspend.   *)
Untracked ==
  /\ at = "removed"
  /\ state' = "UNTRACKED"
  /\ at' = "announce" /\ then' = "emptied"
  /\ UNCHANGED <<tracked, flags, queue, retry, link, world, spent>>

SendAdd ==
  /\ at = "add"
  /\ Send("AddUser")
  /\ at' = IF conn = "CONNECTING" THEN "failed" ELSE "added"
  /\ UNCHANGED <<tracked, flags, state, queue, then, retry, conn, toClient,
                 world, spent>>

(* Only now does the task register that it waits for the answer.           *)
AwaitAnswer ==
  /\ at = "added"
  /\ at' = "answer"
  /\ UNCHANGED <<tracked, flags, state, queue, then, retry, link, world, spent>>

(* Mutant: asks again without waiting for the timer.                       *)
RetryLaterAtOnce ==
  /\ state' = "RETRY_PENDING"
  /\ at' = "announce" /\ then' = "add"
  /\ UNCHANGED <<tracked, flags, queue, retry, link, world>>

(* _set_tracking_state(RETRY_PENDING), up to its first suspension.         *)
RetryLater ==
  /\ state' = "RETRY_PENDING"
  /\ IF retry THEN at' = "cancel" /\ then' = "sleep" /\ retry' = FALSE
     ELSE at' = "announce" /\ then' = "get" /\ retry' = TRUE
  /\ UNCHANGED <<tracked, flags, queue, link, world>>

Failed ==
  /\ at \in {"failed", "refused"}
  /\ RetryLater
  /\ UNCHANGED spent

(* The answer is on its way as long as the connection lasts: then a timeout *)
(* of 10 seconds is a slow answer.                                         *)
AnswerPending ==
  conn = "CONNECTED" /\ (toClient # <<>> \/ Contains(toServer, "AddUser"))

Timeout ==
  /\ at \in {"answer", "accepted", "refused"}
  /\ IF at # "answer" \/ AnswerPending
     THEN spent.timeouts < MaxTimeouts /\ Spend("timeouts")
     ELSE UNCHANGED spent
  /\ RetryLater

(* Mutant: whether the user exists is not looked at.                       *)
ConfirmedAnyway ==
  /\ at \in {"accepted", "refused"}
  /\ state' = "TRACKED"
  /\ at' = "announce" /\ then' = "get"
  /\ UNCHANGED <<tracked, flags, queue, retry, link, world, spent>>

Confirmed ==
  /\ at = "accepted"
  /\ state' = "TRACKED"
  /\ at' = "announce" /\ then' = "get"
  /\ UNCHANGED <<tracked, flags, queue, retry, link, world, spent>>

(* The awaited timer is cancelled, or the listeners are through.           *)
Resume ==
  /\ at \in {"cancel", "announce"}
  /\ UNCHANGED queue
  /\ IF then = "sleep" THEN retry' = TRUE /\ at' = "announce" /\ then' = "get"
     ELSE /\ at' = IF then = "emptied" THEN Emptied ELSE then
          /\ UNCHANGED <<retry, then>>
  /\ UNCHANGED <<tracked, flags, state, link, world, spent>>

(* _on_tracking_task_done: the entry is removed with all it holds.         *)
Forget ==
  /\ at \in {"returned", "cancelled"}
  /\ tracked' = FALSE /\ flags' = {} /\ state' = "UNTRACKED" /\ queue' = <<>>
  /\ at' = "none" /\ then' = "get"
  /\ UNCHANGED <<retry, link, world, spent>>

---------------------------------------------------------------------------
(* The server and the connection.                                          *)

ServerHandles ==
  /\ conn = "CONNECTED" /\ toServer # <<>>
  /\ toServer' = Tail(toServer)
  /\ \/ /\ Head(toServer) = "AddUser"
        /\ watched' = exists
        /\ toClient' = Append(toClient, exists)
     \/ /\ Head(toServer) = "RemoveUser"
        /\ watched' = FALSE
        /\ UNCHANGED toClient
  /\ UNCHANGED <<entry, conn, exists, spent>>

(* on_message_received completes the wait there is, whichever request the   *)
(* answer is for; an answer nobody waits for is dropped.                    *)
ReceiveAnswer ==
  /\ conn = "CONNECTED" /\ toClient # <<>>
  /\ toClient' = Tail(toClient)
  /\ at' = IF at # "answer" THEN at
           ELSE IF Head(toClient) THEN "accepted" ELSE "refused"
  /\ UNCHANGED <<tracked, flags, state, queue, then, retry, conn, toServer,
                 world, spent>>

(* The account is created.                                                 *)
Registers ==
  /\ ~exists
  /\ exists' = TRUE
  /\ UNCHANGED <<entry, link, watched, spent>>

(* disconnect: from CLOSING on nothing is sent or handled, and the server   *)
(* forgets whom it watched for us.                                         *)
LoseConnection ==
  /\ conn \in {"CONNECTING", "CONNECTED"}
  /\ conn' = "CLOSING" /\ toServer' = <<>> /\ toClient' = <<>> /\ watched' = FALSE
  /\ UNCHANGED exists

(* The connection is lost, or cannot be made.                              *)
ConnectionLost ==
  /\ spent.closes < MaxCloses
  /\ LoseConnection
  /\ Spend("closes")
  /\ UNCHANGED entry

(* A write that fails calls disconnect itself, in the task that              *)
(* send_server_messages created and the tracking task awaits.  On CLOSED that *)
(* task awaits the cancelled tracking task: neither of them ever goes on.    *)
WriteError ==
  /\ spent.writeErrors < MaxWriteErrors
  /\ conn = "CONNECTED" /\ at \in {"add", "remove"}
  /\ LoseConnection
  /\ at' = "stuck"
  /\ Spend("writeErrors")
  /\ UNCHANGED <<tracked, flags, state, queue, then, retry>>

(* Mutant: only the timer is cancelled.                                    *)
ConnectionClosedTimerOnly ==
  /\ conn = "CLOSING"
  /\ conn' = "CLOSED"
  /\ retry' = FALSE
  /\ UNCHANGED <<tracked, flags, state, queue, at, then, toServer, toClient, world, spent>>

(* stop on CLOSED: the tracking task and its timer are cancelled.  A task   *)
(* that awaits the timer it cancelled takes the cancellation for the one of  *)
(* the timer and goes on.                                                  *)
ConnectionClosed ==
  /\ conn = "CLOSING"
  /\ conn' = "CLOSED"
  /\ at' = IF at \in {"none", "cancel", "returned", "cancelled", "stuck"}
           THEN at ELSE "cancelled"
  /\ retry' = FALSE
  /\ UNCHANGED <<tracked, flags, state, queue, then, toServer, toClient, world, spent>>

(* The task waits for more than a turn of the loop.                        *)
Waits == at \in {"none", "announce", "answer", "stuck"} \/ (at = "get" /\ queue = <<>>)

(* The watchdog connects again, ten seconds later.  TrackUser stands for     *)
(* what is tracked at login, too.                                           *)
Connecting ==
  /\ conn = "CLOSED" /\ Waits
  /\ conn' = "CONNECTING"
  /\ UNCHANGED <<entry, toServer, toClient, world, spent>>

Connected ==
  /\ conn = "CONNECTING"
  /\ conn' = "CONNECTED"
  /\ UNCHANGED <<entry, toServer, toClient, world, spent>>

---------------------------------------------------------------------------
Ask == \E f \in Flags : TrackUser(f) \/ UntrackUser(f)

TaskStep ==
  \/ TakeRequest \/ SendRemove \/ Untracked \/ SendAdd \/ AwaitAnswer
  \/ Failed \/ Confirmed \/ Resume \/ Forget

Next ==
  \/ Ask \/ TaskStep \/ Timeout \/ RetryFires
  \/ ServerHandles \/ ReceiveAnswer \/ Registers
  \/ ConnectionLost \/ WriteError \/ ConnectionClosed
  \/ Connecting \/ Connected

Spec == Init /\ [][Next]_vars

(* The loop runs the task, timers fire, the server handles what it is sent  *)
(* and the watchdog reconnects.  Nobody has to ask, and accounts need not be *)
(* created.                                                                *)
Fairness ==
  /\ WF_vars(TaskStep) /\ WF_vars(Timeout) /\ WF_vars(RetryFires)
  /\ WF_vars(ServerHandles) /\ WF_vars(ReceiveAnswer)
  /\ WF_vars(ConnectionClosed) /\ SF_vars(Connecting) /\ WF_vars(Connected)

FairSpec == Spec /\ Fairness

---------------------------------------------------------------------------
At == {"none", "get", "cancel", "remove", "removed", "announce", "add", "failed",
       "added", "answer", "accepted", "refused", "returned", "cancelled", "stuck"}

(* Every variable keeps the type of the object it stands for.              *)
TypeOK ==
  /\ tracked \in BOOLEAN /\ flags \subseteq Flags
  /\ state \in {"UNTRACKED", "TRACKED", "RETRY_PENDING"}
  /\ queue \in Seq(Request)
  /\ at \in At /\ then \in {"get", "remove", "emptied", "sleep"}
  /\ retry \in BOOLEAN
  /\ conn \in {"CONNECTED", "CLOSING", "CLOSED", "CONNECTING"}
  /\ toServer \in Seq({"AddUser", "RemoveUser"}) /\ toClient \in Seq(BOOLEAN)
  /\ exists \in BOOLEAN /\ watched \in BOOLEAN
  /\ spent \in [{"asks", "closes", "timeouts", "writeErrors"} -> Nat]

(* The last flag is gone and RemoveUser is still to be sent.               *)
RemoveDue == at = "remove" \/ (at = "cancel" /\ then = "remove")

(* The server watches the user, or will once it has handled what was sent.  *)
Watching == IF toServer = <<>> THEN watched ELSE Last(toServer) = "AddUser"

(* "Otherwise there is a ghost user being tracked": once nobody wants a user *)
(* the server does not watch it, although AddUser may have timed out, been   *)
(* answered late or been sent again by a retry.                             *)
NoGhost == flags = {} /\ ~RemoveDue => ~Watching

(* The connection serves the user: a task that hangs in a failed write will  *)
(* never use it again.                                                      *)
Up == conn = "CONNECTED" /\ at # "stuck"

(* A user that is wanted and said to be TRACKED is watched by the server,    *)
(* or was asked for last: no answer to an older request and no lost          *)
(* connection leaves TRACKED behind.                                        *)
TrackedIsWatched == state = "TRACKED" /\ flags # {} /\ Up => Watching

(* Between two requests a user that is wanted is TRACKED or will be asked    *)
(* for again: no cancellation and no order of requests loses the retry.  And *)
(* a timer never outlives the task it belongs to.                           *)
PendingIsRetried ==
  /\ at = "get" =>
       \/ flags = {} /\ state = "UNTRACKED"
       \/ flags # {} /\ state = "TRACKED"
       \/ flags # {} /\ state = "RETRY_PENDING" /\ (retry \/ Contains(queue, Retry))
  /\ at \in {"none", "returned", "cancelled", "stuck"} /\ conn # "CLOSING" => ~retry

(* "Prevent RemoveUser from being called multiple times if there are         *)
(* multiple entries on the queue".                                          *)
RemoveOnce ==
  \A i \in 1..(Len(toServer) - 1) :
    toServer[i] = "RemoveUser" => toServer[i + 1] = "AddUser"

(* "Keeps the user tracking state in sync with the server": when requests    *)
(* and losses of the connection end, the server watches the user exactly if  *)
(* the user is wanted and has an account; unless a write failed while the      *)
(* task was sending, after which the task waits for itself.                    *)
Agree == conn = "CONNECTED" => watched = (exists /\ flags # {})

InSyncUnlessStuck == <>[](Agree \/ at = "stuck")

(* Requests, messages, timeouts and retries together do nothing that Watch   *)
(* does not allow, and a user nobody wants is left.                         *)
Promise == INSTANCE Watch WITH wanted <- flags # {}, known <- state,
                               watching <- Watching, up <- Up

WatchKept == Promise!FairSpec
=============================================================================
