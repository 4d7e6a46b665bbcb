------------------------------ MODULE Uploads ------------------------------
(***************************************************************************)
(* The upload side of TransferManager: peers that ask for files, the        *)
(* management cycle that hands out upload slots, the tasks that initialise   *)
(* and send an upload, the application's abort, queue and pause, and the    *)
(* shares cycle that aborts and requeues uploads when the block list or the *)
(* shares change (transfer/manager.py).                                     *)
(***************************************************************************)
EXTENDS TransferLoop

CONSTANTS Users,        \* the peers
          UserOf,       \* the peer an upload is for
          Rank,         \* friends and privileged users rank higher
          Slots,        \* settings.transfers.limits.upload_slots
          CachedStates, \* states of the uploads that start from the cache
          CallJobs,     \* what the application and the peers may call
          Changeable,   \* what may change around the manager
          MaxChanges    \* bound on the number of these changes

Jobs == {"abort", "queue", "pause", "remove", "peer_queue", "peer_request"}

ASSUME UploadsAssumption ==
  /\ UserOf \in [Transfers -> Users]
  /\ Rank \in [Users -> Nat]
  /\ Slots \in Nat
  /\ CachedStates \subseteq {"QUEUED", "COMPLETE", "INCOMPLETE", "FAILED",
                             "ABORTED", "PAUSED"}
  /\ CallJobs \subseteq Jobs
  /\ Changeable \subseteq {"status", "blocked", "shared", "restart"}
  /\ MaxChanges \in Nat

VARIABLES
  status,    \* User.status of each peer
  blocked,   \* settings.users.blocked with BlockingFlag.UPLOADS
  noticed,   \* the block list has been compared since it last changed
  shared,    \* the uploads whose file is in the shares cache
  changes    \* how many changes of these there have been

vars == <<loopVars, status, blocked, noticed, shared, changes>>
peerVars == <<status, blocked, noticed, shared, changes>>

Listed == ToSet(listed)
InState(states) == {u \in Listed : transfer[u].state \in states}

---------------------------------------------------------------------------
(* Choosing the uploads to start.                                          *)

Processing == {u \in Listed : IsProcessing(transfer[u])}   \* get_uploading

(* Mutant: an upload that is being initialised has no slot yet.            *)
FreeSlotsTransferring ==
  LET taken == Cardinality({u \in Listed : IsTransferring(transfer[u])})
  IN  IF taken < Slots THEN Slots - taken ELSE 0

FreeSlots ==
  IF Cardinality(Processing) < Slots THEN Slots - Cardinality(Processing) ELSE 0

Position(u) == CHOOSE i \in DOMAIN listed : listed[i] = u

(* Mutant: a user who is being served may be served a second upload.        *)
EligibleWhileServed ==
  {u \in InState({"QUEUED"}) :
     /\ status[UserOf[u]] # "offline"
     /\ \A v \in InState({"QUEUED"}) :
          UserOf[v] = UserOf[u] => Position(u) <= Position(v)}

(* _get_queued_transfers: one upload per user, the first one queued, unless *)
(* the user is offline or is being served.                                  *)
Eligible ==
  {u \in InState({"QUEUED"}) :
     /\ status[UserOf[u]] # "offline"
     /\ \A v \in Processing : UserOf[v] # UserOf[u]
     /\ \A v \in InState({"QUEUED"}) :
          UserOf[v] = UserOf[u] => Position(u) <= Position(v)}

RankOf(u) == Rank[UserOf[u]] + (IF status[UserOf[u]] = "online" THEN 1 ELSE 0)

(* _prioritize_uploads sorts by rank and reverses: equals come out last     *)
(* first.                                                                   *)
Precedes(u, v) ==
  \/ RankOf(u) > RankOf(v)
  \/ RankOf(u) = RankOf(v) /\ Position(u) > Position(v)

Chosen == {u \in Eligible :
             Cardinality({v \in Eligible : Precedes(v, u)}) < FreeSlots}

---------------------------------------------------------------------------
(* The management cycle.                                                   *)

(* manage_transfers: a task for every chosen upload, in order of priority;  *)
(* then the job ends and the management task sleeps.                        *)
StartUploads ==
  \E task \in [Chosen -> Unused(Tasks)], order \in [1..Cardinality(Chosen) -> Chosen] :
    /\ \A u, v \in Chosen : u # v => task[u] # task[v]
    /\ \A i, j \in DOMAIN order : i < j => Precedes(order[i], order[j])
    /\ handle' = [u \in Transfers |-> IF u \in Chosen THEN task[u] ELSE handle[u]]
    /\ co' = [c \in Coroutine |->
                IF \E u \in Chosen : task[u] = c
                THEN New(CHOOSE u \in Chosen : task[u] = c, "upload") ELSE co[c]]
    /\ ready' = Rest \o [i \in DOMAIN order |-> Step(task[order[i]])]
    /\ mgmt' = "sleep"
    /\ UNCHANGED <<listed, lock, rqHandle, peerVars>>

(* _evaluate_aborted_state: why the upload should be aborted, if it should. *)
AbortCause(u) ==
  IF transfer[u].abort_reason = "Requested" THEN "Requested"
  ELSE IF UserOf[u] \in blocked THEN "Blocked"
  ELSE IF u \notin shared THEN "File not shared"
  ELSE None

Evaluated    == {u \in Listed : transfer[u].state \notin {"COMPLETE", "FAILED"}}
Contradicted == {u \in Evaluated :
                   (transfer[u].state = "ABORTED") # (AbortCause(u) # None)}

(* manage_shares_changed: the operations are bound to the states found now  *)
(* and run as tasks of their own; a reason that changed is recorded.        *)
SharesOperation(u) ==
  LET aborted == transfer[u].state = "ABORTED" IN
  [New(u, "shares") EXCEPT
     !.class = transfer[u].state,
     !.op  = IF aborted THEN "queue" ELSE "abort",
     !.arg = IF aborted THEN None ELSE AbortCause(u)]

RecordedReasons ==
  [u \in Transfers |->
     IF u \in Evaluated \ Contradicted /\ AbortCause(u) # None
     THEN [transfer[u] EXCEPT !.abort_reason = AbortCause(u)]
     ELSE transfer[u]]

SharesChanged ==
  /\ \E order \in [1..Cardinality(Contradicted) -> Contradicted] :
       /\ \A i, j \in DOMAIN order : i < j => Position(order[i]) < Position(order[j])
       /\ ready' = Rest \o [i \in DOMAIN order |-> Step(order[i])]
  /\ co' = [c \in Coroutine |->
              IF c \in Contradicted THEN SharesOperation(c) ELSE co[c]]
  /\ mgmt' = "shares"
  /\ UNCHANGED <<listed, lock, handle, rqHandle, peerVars>>

(* _management_job                                                         *)
TransferCycle ==
  /\ CycleBegins /\ ~shares
  /\ wanted' = FALSE
  /\ StartUploads
  /\ UNCHANGED <<transfer, shares>>

SharesCycle ==
  /\ CycleBegins /\ shares
  /\ wanted' = FALSE /\ shares' = FALSE
  /\ transfer' = RecordedReasons
  /\ IF Contradicted = {} THEN StartUploads ELSE SharesChanged

SharesCycleEnds ==
  /\ Runs(Manage) /\ mgmt = "shares"
  /\ StartUploads
  /\ UNCHANGED <<transfer, wanted, shares>>

SharesOperationStarts(u) ==
  /\ Runs(Step(u)) /\ u \in Transfers /\ co[u].pc = "start"
  /\ EnterAs(u, co[u].class, co[u].op, co[u].arg, "done")
  /\ UNCHANGED peerVars

---------------------------------------------------------------------------
(* The task of an upload: _initialize_upload and _upload_file.              *)

At(c, pc) == Runs(Step(c)) /\ c \in Tasks /\ co[c].pc = pc /\ ~co[c].cancelled

Initialize(c) ==
  /\ At(c, "start")
  /\ Enter(c, "initialize", None, "request")
  /\ UNCHANGED peerVars

(* PeerTransferRequest was sent, or could not be.                          *)
Requested(c) ==
  /\ At(c, "request")
  /\ \/ Suspend(c, "reply")
     \/ Enter(c, "queue", None, "done")
  /\ UNCHANGED peerVars

(* Mutant: the handler of the timeout returns without queueing the upload.  *)
RepliedTimeoutReturns(c) ==
  /\ At(c, "reply")
  /\ \/ Suspend(c, "connect")
     \/ Enter(c, "fail", "Cancelled", "done")
     \/ Return(c)
  /\ UNCHANGED peerVars

(* PeerTransferReply: allowed, refused, or none in time.                   *)
Replied(c) ==
  /\ At(c, "reply")
  /\ \/ Suspend(c, "connect")
     \/ Enter(c, "fail", "Cancelled", "done")
     \/ Enter(c, "queue", None, "done")
  /\ UNCHANGED peerVars

(* The file connection is made, the ticket sent and the offset received, or *)
(* one of the three failed.                                                 *)
Connected(c) ==
  /\ At(c, "connect")
  /\ \/ Enter(c, "start_transferring", None, "sending")
     \/ Enter(c, "queue", None, "done")
  /\ UNCHANGED peerVars

(* The file was sent, could not be read, or the peer could not be written   *)
(* to: then it is told, if it can be.                                       *)
Sent(c) ==
  /\ At(c, "sending")
  /\ \/ Suspend(c, "eof")
     \/ Enter(c, "fail", "File read error.", "closing")
     \/ Enter(c, "fail", None, "notify")
  /\ UNCHANGED peerVars

(* The peer closed the connection.                                         *)
Closed(c) ==
  /\ At(c, "eof")
  /\ \/ Enter(c, "complete", None, "done")
     \/ Enter(c, "fail", None, "done")
  /\ UNCHANGED peerVars

Reported(c) ==
  /\ (At(c, "notify") \/ At(c, "closing"))
  /\ Return(c)
  /\ UNCHANGED peerVars

---------------------------------------------------------------------------
(* Peers asking for a file: _on_peer_transfer_queue (peer_queue) and        *)
(* _on_peer_transfer_request with direction UPLOAD (peer_request).           *)

Handling(c, pc) == Runs(Step(c)) /\ c \in Calls /\ co[c].pc = pc
                   /\ co[c].job \in {"peer_queue", "peer_request"}

PeerAsks(c) ==
  /\ Handling(c, "start")
  /\ LET u == co[c].tr IN
     IF UserOf[u] \in blocked THEN Return(c)
     ELSE IF u \in shared THEN Suspend(c, IF u \in Listed THEN "lookup" ELSE "adding")
     ELSE IF u \in Listed THEN Enter(c, "fail", "File not shared.", "done")
     ELSE Return(c)
  /\ UNCHANGED peerVars

(* find_shared_item came back: the file may be gone from the disk.  Only a  *)
(* finished or failed upload is queued again, and only by PeerTransferQueue.*)
FileLookedUp(c) ==
  /\ Handling(c, "lookup")
  /\ \/ Enter(c, "fail", "File not shared.", "done")
     \/ /\ co[c].job = "peer_queue"
        /\ transfer[co[c].tr].state \in {"FAILED", "COMPLETE"}
        /\ Enter(c, "queue", None, "done")
     \/ /\ \/ co[c].job = "peer_request"
           \/ transfer[co[c].tr].state \notin {"FAILED", "COMPLETE"}
        /\ Return(c)
  /\ UNCHANGED peerVars

(* Mutant: the new upload is queued before the manager listens to it.       *)
UploadAddedUnheard(c) ==
  /\ Handling(c, "adding")
  /\ LET u == co[c].tr IN
     \/ Return(c)
     \/ /\ transfer[u].state = "VIRGIN"
        /\ listed' = Append(listed, u)
        /\ transfer' = [transfer EXCEPT ![u] = Apply(@, "VIRGIN", "queue", None)]
        /\ ready' = Rest
        /\ co' = [co EXCEPT ![c] = Finished(c)]
        /\ UNCHANGED <<lock, handle, rqHandle, mgmt, wanted, shares>>
  /\ UNCHANGED peerVars

(* _add_upload and the queue() that follows it; when another handler added  *)
(* the upload meanwhile, the new object is queued and forgotten.            *)
UploadAdded(c) ==
  /\ Handling(c, "adding")
  /\ LET u == co[c].tr IN
     \/ Return(c)
     \/ /\ transfer[u].state = "VIRGIN"
        /\ listed' = Append(listed, u)
        /\ transfer' = [transfer EXCEPT ![u] = Apply(@, "VIRGIN", "queue", None)]
        /\ wanted' = TRUE
        /\ ready' = Rest \o WakeManager
        /\ co' = [co EXCEPT ![c] = Finished(c)]
        /\ UNCHANGED <<lock, handle, rqHandle, mgmt, shares>>
  /\ UNCHANGED peerVars

---------------------------------------------------------------------------
(* The world around the manager.                                           *)

(* request_management_cycle from an event listener.                        *)
Request(flag) ==
  /\ wanted' = TRUE
  /\ shares' = (shares \/ flag)
  /\ ready' = ready \o WakeManager
  /\ Quiet
  /\ UNCHANGED <<transfer, listed, lock, handle, rqHandle, co, left, mgmt>>

Call ==
  /\ Unused(Calls) # {}
  /\ \E job \in CallJobs, u \in Transfers :
       /\ \/ u \in Listed
          \/ transfer[u].state = "VIRGIN" /\ job \in {"peer_queue", "peer_request"}
       /\ Arrives(CHOOSE c \in Unused(Calls) : TRUE, job, u)
  /\ UNCHANGED peerVars

Changes(what) ==
  what \in Changeable /\ changes < MaxChanges /\ changes' = changes + 1

StatusChanges ==
  /\ Changes("status")
  /\ \E p \in Users : \E s \in {"offline", "online"} \ {status[p]} :
       status' = [status EXCEPT ![p] = s]
  /\ Request(FALSE)
  /\ UNCHANGED <<blocked, noticed, shared>>

(* The settings change at once; the user manager compares them with a copy  *)
(* at intervals and emits BlockListChangedEvent.                            *)
BlockListChanges ==
  /\ Quiet /\ Changes("blocked")
  /\ \E p \in Users :
       blocked' = IF p \in blocked THEN blocked \ {p} ELSE blocked \cup {p}
  /\ noticed' = FALSE
  /\ UNCHANGED <<loopVars, status, shared>>

BlockListNoticed ==
  /\ ~noticed /\ noticed' = TRUE
  /\ Request(TRUE)
  /\ UNCHANGED <<status, blocked, shared, changes>>

SharesChange ==
  /\ Changes("shared")
  /\ \E u \in Transfers :
       shared' = IF u \in shared THEN shared \ {u} ELSE shared \cup {u}
  /\ Request(TRUE)
  /\ UNCHANGED <<status, blocked, noticed>>

(* After a restart peers are unknown and the block list is compared anew.  *)
ClientRestarts ==
  /\ Changes("restart")
  /\ Restart
  /\ status' = [p \in Users |-> "unknown"] /\ noticed' = TRUE
  /\ UNCHANGED <<blocked, shared>>

---------------------------------------------------------------------------
(* A start from the cache: read_cache has added the known uploads, and the  *)
(* management task finds the request this left.                             *)
CachedUpload(s) ==
  [NewTransfer(TRUE) EXCEPT !.state = s,
     !.abort_reason = IF s = "ABORTED" THEN "Requested" ELSE None]

Init ==
  /\ \E known \in SUBSET Transfers :
       /\ CachedStates = {} => known = {}
       /\ listed \in {q \in [1..Cardinality(known) -> known] :
                        \A i, j \in DOMAIN q : i # j => q[i] # q[j]}
       /\ \E s \in [known -> CachedStates] :
            transfer = [u \in Transfers |->
              IF u \in known THEN CachedUpload(s[u]) ELSE NewTransfer(TRUE)]
  /\ lock = [u \in Transfers |-> [holder |-> None, waiters |-> <<>>]]
  /\ handle = [u \in Transfers |-> None]
  /\ rqHandle = [u \in Transfers |-> None]
  /\ co = [c \in Coroutine |-> Idle(None)]
  /\ mgmt = "get" /\ shares = FALSE
  /\ wanted = (listed # <<>>)
  /\ ready = (IF wanted THEN <<Manage>> ELSE <<>>) /\ left = 0
  /\ status = [p \in Users |-> "unknown"]
  /\ blocked = {} /\ noticed = TRUE
  /\ shared = Transfers
  /\ changes = 0

TaskStep(c) ==
  \/ Initialize(c) \/ Requested(c) \/ Replied(c) \/ Connected(c)
  \/ Sent(c) \/ Closed(c) \/ Reported(c)
  \/ Cancelled(c) /\ UNCHANGED peerVars
  \/ DoneCallback(c) /\ UNCHANGED peerVars
  \/ TaskGathered(c) /\ UNCHANGED peerVars

CallStep(c) ==
  \/ PeerAsks(c) \/ FileLookedUp(c) \/ UploadAdded(c)
  \/ CallStarts(c) /\ UNCHANGED peerVars
  \/ Removed(c) /\ UNCHANGED peerVars

StopStep(c) ==
  \/ LockGranted(c) /\ UNCHANGED peerVars
  \/ TasksStopped(c) /\ UNCHANGED peerVars

IOWakes(c) == Wakes(c) /\ UNCHANGED peerVars

PauseEnds == ManagerWakes /\ UNCHANGED peerVars

ManagerStep ==
  \/ ManagerWaits /\ UNCHANGED peerVars
  \/ TransferCycle \/ SharesCycle \/ SharesCycleEnds
  \/ \E u \in Transfers : \/ SharesOperationStarts(u)
                          \/ ShareGathered(u) /\ UNCHANGED peerVars

World ==
  Call \/ StatusChanges \/ BlockListChanges \/ SharesChange \/ ClientRestarts

(* The loop runs the next callback.                                        *)
LoopStep ==
  \/ \E c \in Tasks : TaskStep(c)
  \/ \E c \in Calls : CallStep(c)
  \/ \E c \in Coroutine : StopStep(c)
  \/ ManagerStep

Next ==
  \/ LoopStep
  \/ \E c \in Coroutine : IOWakes(c)
  \/ PauseEnds
  \/ BlockListNoticed
  \/ World

Spec == Init /\ [][Next]_vars

(* The loop runs every callback and turn after turn, timers fire, and I/O   *)
(* that was cancelled comes back.  Peers owe nothing: neither an answer nor *)
(* the end of a connection ever has to come.                               *)
Fairness ==
  /\ WF_vars(LoopStep)
  /\ SF_vars(PauseEnds)
  /\ \A c \in Coroutine : SF_vars(co[c].cancelled /\ IOWakes(c))

FairSpec == Spec /\ Fairness

---------------------------------------------------------------------------
PeerTypeOK ==
  /\ status \in [Users -> {"unknown", "offline", "online"}]
  /\ blocked \subseteq Users /\ shared \subseteq Transfers
  /\ noticed \in BOOLEAN /\ changes \in 0..MaxChanges

(* Every variable keeps the type of the object it stands for.              *)
TypeOK == LoopTypeOK /\ PeerTypeOK

(* An upload that counts against the slots has an operation that holds its  *)
(* lock and is stopping it, or a task that still drives it: one that awaits  *)
(* the next event of the protocol, or waits for the lock with an operation   *)
(* that its state class defines.  No path through the error handling leaks a *)
(* slot, whatever is aborted, queued, blocked or unshared meanwhile.         *)
AwaitsLock(c, class, ops) ==
  co[c].pc = "lock" /\ co[c].class = class /\ co[c].op \in ops

Drives(c, u) ==
  /\ co[c].tr = u /\ ~co[c].cancelled
  /\ \/ /\ transfer[u].state = "INITIALIZING"
        /\ \/ co[c].pc \in {"request", "reply", "connect"}
           \/ AwaitsLock(c, "INITIALIZING", {"queue", "fail", "start_transferring"})
     \/ /\ transfer[u].state = "UPLOADING"
        /\ \/ co[c].pc \in {"sending", "eof"}
           \/ AwaitsLock(c, "UPLOADING", {"fail", "complete"})

SlotHasDriver ==
  \A u \in Transfers :
    IsProcessing(transfer[u]) =>
      lock[u].holder # None \/ \E c \in Tasks : Drives(c, u)

(* The management task never waits with work to do: when nothing is         *)
(* requested, every upload the next cycle would start is being started by a *)
(* task that has not yet run or waits for the lock, or an operation that    *)
(* will request a cycle holds its lock.                                    *)
Starts(c, u) ==
  /\ co[c].tr = u /\ ~co[c].cancelled
  /\ co[c].pc = "start" \/ AwaitsLock(c, "QUEUED", {"initialize"})

NoLostRequest ==
  ~wanted /\ mgmt # "shares" =>
    \A u \in Chosen : lock[u].holder # None \/ \E c \in Tasks : Starts(c, u)

(* A call of abort or pause returns: the tasks it cancels end wherever they  *)
(* wait, and the operations before it at the lock finish; none of them       *)
(* awaits the other.                                                        *)
StopReturns ==
  \A c \in Calls :
    Alive(c) /\ co[c].job \in {"abort", "queue", "pause"} ~> ~Alive(c)

(* A request for a management cycle is served, however long peers keep the  *)
(* tasks waiting and whatever holds the locks.                              *)
RequestServed == wanted ~> ~wanted

(* As long as nobody aborts, pauses, removes, blocks or unshares, the       *)
(* uploads that are processing never exceed                                 *)
(* settings.transfers.limits.upload_slots: the cycle counts the slots before*)
(* the tasks it creates have taken theirs, and a task gives its slot back by*)
(* itself.                                                                  *)
SlotLimit == Cardinality(Processing) <= Slots

(* Under the same condition no user has two uploads under way, although an  *)
(* upload that is being served can be queued again at any time.             *)
OneUploadPerUser ==
  \A u, v \in Processing : UserOf[u] = UserOf[v] => u = v

(* "This will cancel all pending transfers": once an abort is through, no   *)
(* task of the upload goes on.                                              *)
AbortCancelsTasks ==
  \A u \in InState({"ABORTED"}) : \A c \in Tasks : co[c].tr = u => ~Alive(c)
=============================================================================
