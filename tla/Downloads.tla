----------------------------- MODULE Downloads -----------------------------
(***************************************************************************)
(* The download side of TransferManager: the management cycle that asks the *)
(* uploaders to queue the files, the peers that offer them or give up, the  *)
(* task that receives a file, and the application's calls                   *)
(* (transfer/manager.py).                                                  *)
(***************************************************************************)
EXTENDS TransferLoop

CONSTANTS Users,        \* the peers
          UserOf,       \* the peer a file is downloaded from
          CachedStates, \* states of the downloads that start from the cache
          CallJobs,     \* what the application and the peers may call
          Changeable,   \* what may change around the manager
          MaxChanges    \* bound on the number of these changes

Jobs == {"download", "download_paused", "abort", "queue", "pause", "remove",
         "peer_offer", "peer_refusal"}

ASSUME DownloadsAssumption ==
  /\ UserOf \in [Transfers -> Users]
  /\ CachedStates \subseteq {"QUEUED", "COMPLETE", "INCOMPLETE", "FAILED",
                             "ABORTED", "PAUSED"}
  /\ CallJobs \subseteq Jobs
  /\ Changeable \subseteq {"status", "upload_failed", "restart"}
  /\ MaxChanges \in Nat

VARIABLES
  offline,  \* the users whose User.status is OFFLINE
  changes   \* how often the world has changed

vars == <<loopVars, offline, changes>>
peerVars == <<offline, changes>>

Listed == ToSet(listed)
Position(d) == CHOOSE i \in DOMAIN listed : listed[i] = d

---------------------------------------------------------------------------
(* The management cycle.                                                   *)

(* The downloads whose uploader should be told: those that wait and those  *)
(* that stopped for no stated reason.                                      *)
Outstanding(d) ==
  LET t == transfer[d] IN
  \/ t.state \in {"QUEUED", "INCOMPLETE"}
  \/ t.state = "FAILED" /\ t.fail_reason = None

(* _get_queued_transfers                                                   *)
Eligible == {d \in Listed : /\ UserOf[d] \notin offline
                            /\ ~transfer[d].remotely_queued
                            /\ Outstanding(d)}

(* manage_transfers: a task for every eligible download; a task of an       *)
(* earlier cycle that is still under way loses its handle.                  *)
QueueDownloads ==
  \E task \in [Eligible -> Unused(Tasks)], order \in [1..Cardinality(Eligible) -> Eligible] :
    /\ \A d, e \in Eligible : d # e => task[d] # task[e]
    /\ \A i, j \in DOMAIN order : i < j => Position(order[i]) < Position(order[j])
    /\ rqHandle' = [d \in Transfers |-> IF d \in Eligible THEN task[d] ELSE rqHandle[d]]
    /\ co' = [c \in Coroutine |->
                IF \E d \in Eligible : task[d] = c
                THEN New(CHOOSE d \in Eligible : task[d] = c, "queue_remotely")
                ELSE co[c]]
    /\ ready' = Rest \o [i \in DOMAIN order |-> Step(task[order[i]])]

TransferCycle ==
  /\ CycleBegins /\ wanted' = FALSE /\ mgmt' = "sleep"
  /\ QueueDownloads
  /\ UNCHANGED <<transfer, listed, lock, handle, shares, peerVars>>

---------------------------------------------------------------------------
(* The tasks of a download.                                                *)

At(c, job, pc) == /\ Runs(Step(c)) /\ c \in Tasks /\ ~co[c].cancelled
                  /\ co[c].job = job /\ co[c].pc = pc

(* _queue_remotely: a connection to the peer is sought.                    *)
QueuesRemotely(c) ==
  /\ At(c, "queue_remotely", "start")
  /\ Suspend(c, "queueing")
  /\ UNCHANGED peerVars

(* PeerTransferQueue was sent, or could not be.                            *)
QueuedRemotely(c) ==
  /\ At(c, "queue_remotely", "queueing")
  /\ \/ /\ transfer' = [transfer EXCEPT ![co[c].tr].remotely_queued = TRUE]
        /\ wanted' = TRUE
        /\ co' = [co EXCEPT ![c] = Finished(c)]
        /\ ready' = Rest \o WakeManager \o Ended(c)
        /\ UNCHANGED <<listed, lock, handle, rqHandle, mgmt, shares>>
     \/ Enter(c, "queue", None, "done")
  /\ UNCHANGED peerVars

(* _initialize_download                                                    *)
Initialize(c) ==
  /\ At(c, "receive", "start")
  /\ Enter(c, "initialize", None, "replying")
  /\ UNCHANGED peerVars

(* PeerTransferReply was sent, or could not be.                            *)
Replied(c) ==
  /\ At(c, "receive", "replying")
  /\ \/ Suspend(c, "file_wait")
     \/ Enter(c, "queue", None, "done")
  /\ UNCHANGED peerVars

(* The peer opened a file connection and sent the ticket, or did not within *)
(* a minute.                                                               *)
FileConnected(c) ==
  /\ At(c, "receive", "file_wait")
  /\ \/ Suspend(c, "offset")
     \/ Enter(c, "queue", None, "done")
  /\ UNCHANGED peerVars

(* The offset was sent, and the path is chosen before its directory is made;*)
(* or it could not be sent.                                                *)
OffsetSent(c) ==
  /\ At(c, "receive", "offset")
  /\ \/ /\ transfer' = [transfer EXCEPT ![co[c].tr].localPath = TRUE]
        /\ co' = [co EXCEPT ![c].pc = "path"]
        /\ ready' = Rest
        /\ UNCHANGED <<listed, lock, handle, rqHandle, mgmt, wanted, shares>>
     \/ Enter(c, "incomplete", None, "done")
  /\ UNCHANGED peerVars

(* _download_file: the directory was made, or could not be.                *)
PathPrepared(c) ==
  /\ At(c, "receive", "path")
  /\ \/ Enter(c, "start_transferring", None, "opening")
     \/ Enter(c, "fail", "File read error.", "done")
  /\ UNCHANGED peerVars

(* The file is opened, unless the path was reset meanwhile: then the task   *)
(* ends with an exception.                                                 *)
Opened(c) ==
  /\ c \in Tasks /\ co[c].pc = "opening"
  /\ IF transfer[co[c].tr].localPath
     THEN co' = [co EXCEPT ![c].pc = "receiving"] /\ UNCHANGED ready
     ELSE co' = [co EXCEPT ![c] = Finished(c)] /\ ready' = ready \o Ended(c)
  /\ UNCHANGED <<transfer, listed, lock, handle, rqHandle, left, mgmt, wanted,
                 shares, peerVars>>

(* Mutant: the end of the connection is not told from the end of the file.  *)
ReceivedReturns(c) ==
  /\ At(c, "receive", "receiving")
  /\ \/ Enter(c, "complete", None, "done")
     \/ Return(c)
     \/ Enter(c, "incomplete", None, "done")
     \/ Enter(c, "fail", "File read error.", "closing")
  /\ UNCHANGED peerVars

(* All bytes came, the peer closed the connection early, the connection     *)
(* broke, or the file could not be written.                                *)
Received(c) ==
  /\ At(c, "receive", "receiving")
  /\ \/ Enter(c, "complete", None, "done")
     \/ Enter(c, "fail", "Cancelled", "done")
     \/ Enter(c, "incomplete", None, "done")
     \/ Enter(c, "fail", "File read error.", "closing")
  /\ UNCHANGED peerVars

Closed(c) ==
  /\ At(c, "receive", "closing")
  /\ Return(c)
  /\ UNCHANGED peerVars

---------------------------------------------------------------------------
(* Peers that offer a file or refuse it.                                   *)

(* The task that receives an offered file replaces the one in the handle.  *)
Accepts(c, before) ==
  LET d == co[c].tr IN
  \E k \in Unused(Tasks) :
    /\ handle' = [handle EXCEPT ![d] = k]
    /\ co' = [co EXCEPT ![k] = New(d, "receive"), ![c] = Finished(c)]
    /\ ready' = Append(before, Step(k))

(* _on_peer_transfer_request, direction DOWNLOAD: the offer is refused, is  *)
(* ignored while the download is processed, or is taken up; a failed        *)
(* download is queued first.                                               *)
Refuses(t) == t.state \in {"ABORTED", "PAUSED", "COMPLETE"} \/ IsProcessing(t)

PeerOffers(c) ==
  /\ Runs(Step(c)) /\ c \in Calls /\ co[c].pc = "start" /\ co[c].job = "peer_offer"
  /\ LET d == co[c].tr
         t == transfer[d] IN
     IF d \notin Listed \/ Refuses(t) THEN Return(c)
     ELSE IF t.state = "FAILED" THEN Enter(c, "queue", Remotely, "offered")
     ELSE /\ Accepts(c, Rest)
          /\ UNCHANGED <<transfer, listed, lock, rqHandle, mgmt, wanted, shares>>
  /\ UNCHANGED peerVars

Offered(c) ==
  /\ c \in Calls /\ co[c].pc = "offered"
  /\ Accepts(c, ready)
  /\ UNCHANGED <<transfer, listed, lock, rqHandle, left, mgmt, wanted, shares, peerVars>>

(* PeerTransferQueueFailed, with whatever reason the peer gives.           *)
PeerRefuses(c) ==
  /\ Runs(Step(c)) /\ c \in Calls /\ co[c].pc = "start" /\ co[c].job = "peer_refusal"
  /\ IF co[c].tr \in Listed THEN Enter(c, "fail", "Cancelled", "done") ELSE Return(c)
  /\ UNCHANGED peerVars

---------------------------------------------------------------------------
(* The application: download.  One that was removed while the call was on   *)
(* its way is another Transfer object when it is added again, and none of   *)
(* Transfers.                                                              *)

DownloadCall(c) ==
  /\ Runs(Step(c)) /\ c \in Calls /\ co[c].pc = "start"
  /\ co[c].job \in {"download", "download_paused"}
  /\ LET d  == co[c].tr
         op == IF co[c].job = "download" THEN "queue" ELSE "pause" IN
     \/ d \in Listed /\ Enter(c, op, None, "done")
     \/ d \notin Listed /\ transfer[d].state # "VIRGIN" /\ Return(c)
     \/ /\ d \notin Listed /\ transfer[d].state = "VIRGIN"
        /\ listed' = Append(listed, d)
        /\ transfer' = [transfer EXCEPT ![d] = Apply(@, "VIRGIN", op, None)]
        /\ wanted' = TRUE
        /\ ready' = Rest \o WakeManager
        /\ co' = [co EXCEPT ![c] = Finished(c)]
        /\ UNCHANGED <<lock, handle, rqHandle, mgmt, shares>>
  /\ UNCHANGED peerVars

(* The application only has the transfers it got from download; a peer may  *)
(* name any file.                                                          *)
Call ==
  /\ Unused(Calls) # {}
  /\ \E job \in CallJobs, d \in Transfers :
       /\ \/ d \in Listed
          \/ /\ transfer[d].state = "VIRGIN"
             /\ job \in {"download", "download_paused", "peer_offer", "peer_refusal"}
       /\ Arrives(CHOOSE c \in Unused(Calls) : TRUE, job, d)
  /\ UNCHANGED peerVars

---------------------------------------------------------------------------
(* The world around the manager.                                           *)

Changes(what) ==
  what \in Changeable /\ changes < MaxChanges /\ changes' = changes + 1

(* Mutant: the flag is taken back and no cycle requested.                  *)
RequestUnheard(Reset) ==
  /\ Quiet
  /\ transfer' = [d \in Transfers |->
       IF d \in Reset THEN [transfer[d] EXCEPT !.remotely_queued = FALSE] ELSE transfer[d]]
  /\ UNCHANGED <<listed, lock, handle, rqHandle, co, ready, left, mgmt, wanted, shares>>

(* request_management_cycle from an event listener, after it took back the  *)
(* remotely_queued flag of the downloads in Reset.                          *)
Request(Reset) ==
  /\ Quiet
  /\ transfer' = [d \in Transfers |->
       IF d \in Reset THEN [transfer[d] EXCEPT !.remotely_queued = FALSE] ELSE transfer[d]]
  /\ wanted' = TRUE
  /\ ready' = ready \o WakeManager
  /\ UNCHANGED <<listed, lock, handle, rqHandle, co, left, mgmt, shares>>

(* A peer that went offline has lost its queue.                            *)
StatusChanges ==
  /\ Changes("status")
  /\ \E p \in Users :
       \/ /\ p \notin offline /\ offline' = offline \cup {p}
          /\ Request({d \in Listed : UserOf[d] = p})
       \/ /\ p \in offline /\ offline' = offline \ {p}
          /\ Request({})

(* PeerUploadFailed                                                        *)
PeerUploadFailed ==
  /\ Changes("upload_failed")
  /\ \E d \in Listed : Request({d})
  /\ UNCHANGED offline

ClientRestarts ==
  /\ Changes("restart")
  /\ Restart
  /\ offline' = {}

---------------------------------------------------------------------------
CachedDownload(s) ==
  [NewTransfer(FALSE) EXCEPT !.state = s,
     !.abort_reason = IF s = "ABORTED" THEN "Requested" ELSE None,
     !.localPath = s \in {"COMPLETE", "INCOMPLETE"}]

Init ==
  /\ \E known \in SUBSET Transfers :
       /\ CachedStates = {} => known = {}
       /\ listed \in {q \in [1..Cardinality(known) -> known] :
                        \A i, j \in DOMAIN q : i # j => q[i] # q[j]}
       /\ \E s \in [known -> CachedStates] :
            transfer = [d \in Transfers |->
              IF d \in known THEN CachedDownload(s[d]) ELSE NewTransfer(FALSE)]
  /\ lock = [d \in Transfers |-> [holder |-> None, waiters |-> <<>>]]
  /\ handle = [d \in Transfers |-> None]
  /\ rqHandle = [d \in Transfers |-> None]
  /\ co = [c \in Coroutine |-> Idle(None)]
  /\ mgmt = "get" /\ shares = FALSE
  /\ wanted = (listed # <<>>)
  /\ ready = (IF wanted THEN <<Manage>> ELSE <<>>) /\ left = 0
  /\ offline = {}
  /\ changes = 0

TaskStep(c) ==
  \/ QueuesRemotely(c) \/ QueuedRemotely(c)
  \/ Initialize(c) \/ Replied(c) \/ FileConnected(c) \/ OffsetSent(c)
  \/ PathPrepared(c) \/ Opened(c) \/ Received(c) \/ Closed(c)
  \/ Cancelled(c) /\ UNCHANGED peerVars
  \/ DoneCallback(c) /\ UNCHANGED peerVars
  \/ TaskGathered(c) /\ UNCHANGED peerVars

CallStep(c) ==
  \/ PeerOffers(c) \/ Offered(c) \/ PeerRefuses(c) \/ DownloadCall(c)
  \/ CallStarts(c) /\ UNCHANGED peerVars
  \/ Removed(c) /\ UNCHANGED peerVars

StopStep(c) ==
  \/ LockGranted(c) /\ UNCHANGED peerVars
  \/ TasksStopped(c) /\ UNCHANGED peerVars
  \/ FileUnlinked(c) /\ UNCHANGED peerVars

ManagerStep == TransferCycle \/ (ManagerWaits /\ UNCHANGED peerVars)

LoopStep ==
  \/ \E c \in Tasks : TaskStep(c)
  \/ \E c \in Calls : CallStep(c)
  \/ \E c \in Coroutine : StopStep(c)
  \/ ManagerStep

Next ==
  \/ LoopStep
  \/ \E c \in Coroutine : Wakes(c) /\ UNCHANGED peerVars
  \/ ManagerWakes /\ UNCHANGED peerVars
  \/ Call \/ StatusChanges \/ PeerUploadFailed \/ ClientRestarts

Spec == Init /\ [][Next]_vars

---------------------------------------------------------------------------
PeerTypeOK == offline \subseteq Users /\ changes \in 0..MaxChanges

(* Every variable keeps the type of the object it stands for.              *)
TypeOK == LoopTypeOK /\ PeerTypeOK

(* "For downloads we try to continue with incomplete downloads [...] Failed *)
(* downloads without a reason are retried": when no cycle is requested, a   *)
(* task is telling the uploader of such a download, or waits for the lock to*)
(* queue it again, or an operation that will request a cycle holds the lock.*)
(* (One that is QUEUED because telling failed is not retried before         *)
(* something else asks for a cycle.)                                       *)
Tells(c, d) ==
  /\ co[c].tr = d /\ co[c].job = "queue_remotely" /\ ~co[c].cancelled
  /\ \/ co[c].pc \in {"start", "queueing"}
     \/ co[c].pc = "lock" /\ co[c].class = transfer[d].state /\ co[c].op = "queue"

IncompleteRetried ==
  ~wanted =>
    \A d \in Eligible :
      transfer[d].state # "QUEUED" =>
        lock[d].holder # None \/ \E c \in Tasks : Tells(c, d)

(* A download does not stay DOWNLOADING when nothing receives it: a task is *)
(* reading from the peer or about to, or waits for the lock to say how that *)
(* ended, or an operation is stopping the download.  (Two tasks that receive*)
(* the same download can leave it DOWNLOADING without a path: the second one*)
(* then ends with an exception.)                                           *)
Receives(c, d) ==
  /\ co[c].tr = d /\ co[c].job = "receive" /\ ~co[c].cancelled
  /\ \/ co[c].pc \in {"path", "opening", "receiving"}
     \/ co[c].pc = "lock"
        /\ \/ co[c].op = "start_transferring"
           \/ co[c].class = "DOWNLOADING" /\ co[c].op \in {"complete", "fail", "incomplete"}

DownloadingHasTask ==
  \A d \in Transfers :
    transfer[d].state = "DOWNLOADING" /\ transfer[d].localPath =>
      lock[d].holder # None \/ \E c \in Tasks : Receives(c, d)
=============================================================================
