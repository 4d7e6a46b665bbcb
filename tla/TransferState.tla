--------------------------- MODULE TransferState ---------------------------
(***************************************************************************)
(* The state of one transfer and what each operation of its state object   *)
(* does to it (transfer/state.py, transfer/model.py).  Every operation of   *)
(* the code is a coroutine method of a state OBJECT: the object is looked   *)
(* up before the transfer's lock is taken, so the class that runs (`bound`) *)
(* need not be the class of the state the transfer is in by then.           *)
(***************************************************************************)
EXTENDS Naturals

None     == "none"
Remotely == "remotely"

State == {"VIRGIN", "QUEUED", "INITIALIZING", "INCOMPLETE", "DOWNLOADING",
          "UPLOADING", "COMPLETE", "FAILED", "ABORTED", "PAUSED"}

Operation == {"fail", "abort", "queue", "initialize", "complete",
              "incomplete", "start_transferring", "pause"}

(* The operations each state class overrides.  The others log a warning,   *)
(* change nothing and return False.                                        *)
Overrides ==
  [VIRGIN       |-> {"queue", "pause"},
   QUEUED       |-> {"initialize", "fail", "abort", "pause"},
   INITIALIZING |-> {"abort", "pause", "queue", "fail", "start_transferring"},
   DOWNLOADING  |-> {"fail", "complete", "abort", "pause", "incomplete"},
   UPLOADING    |-> {"fail", "complete", "abort", "pause"},
   COMPLETE     |-> {"queue"},
   INCOMPLETE   |-> {"fail", "queue", "initialize", "abort", "pause"},
   FAILED       |-> {"queue"},
   PAUSED       |-> {"queue", "abort", "fail"},
   ABORTED      |-> {"queue"}]

Defines(class, op) == op \in Overrides[class]

(* The state an overridden operation moves to.                             *)
Target(upload, op) ==
  CASE op = "queue"              -> "QUEUED"
    [] op = "initialize"         -> "INITIALIZING"
    [] op = "start_transferring" -> IF upload THEN "UPLOADING" ELSE "DOWNLOADING"
    [] op = "complete"           -> "COMPLETE"
    [] op = "incomplete"         -> "INCOMPLETE"
    [] op = "fail"               -> "FAILED"
    [] op = "abort"              -> "ABORTED"
    [] op = "pause"              -> "PAUSED"

(* Reasons for failing and aborting (FailReason, AbortReason).  What a peer  *)
(* gives as a reason can be any text; Cancelled stands for it.               *)
Reason == {None, "Cancelled", "File read error.", "File not shared.",
           "Requested", "Blocked", "File not shared"}

(* The fields of Transfer that decide what happens next; localPath is       *)
(* whether local_path is set.  The start and completion times only serve the*)
(* reported speed.                                                          *)
Transfer ==
  [state           : State,
   upload          : BOOLEAN,
   remotely_queued : BOOLEAN,
   fail_reason     : Reason,
   abort_reason    : Reason,
   localPath       : BOOLEAN]

NewTransfer(upload) ==
  [state |-> "VIRGIN", upload |-> upload, remotely_queued |-> FALSE,
   fail_reason |-> None, abort_reason |-> None, localPath |-> upload]

IsProcessing(t)   == t.state \in {"DOWNLOADING", "UPLOADING", "INITIALIZING"}
IsTransferring(t) == t.state \in {"DOWNLOADING", "UPLOADING"}
IsFinalized(t)    == t.state \in {"COMPLETE", "ABORTED", "FAILED"}

(* COMPLETE.queue and ABORTED.queue start a download over; an upload keeps *)
(* its path.                                                               *)
StartOver(t) == IF t.upload THEN t ELSE [t EXCEPT !.localPath = FALSE]

Forgive(t) == [t EXCEPT !.fail_reason = None, !.abort_reason = None]

QueueFields(t, class, arg) ==
  LET r == [t EXCEPT !.remotely_queued = (arg = Remotely)] IN
  CASE class = "COMPLETE" -> StartOver(r)
    [] class = "FAILED"   -> Forgive(r)
    [] class = "ABORTED"  -> Forgive(StartOver(r))
    [] OTHER              -> r

(* Mutant: fail records the state it leaves in place of the reason.         *)
FieldsMisreported(t, class, op, arg) ==
  CASE op = "queue" -> QueueFields(t, class, arg)
    [] op = "start_transferring" -> [t EXCEPT !.remotely_queued = FALSE]
    [] op = "fail"  -> [t EXCEPT !.fail_reason = class]
    [] op = "abort" -> [t EXCEPT !.abort_reason = arg, !.localPath = t.upload /\ @]
    [] OTHER        -> t

(* What an operation leaves in the other fields; arg is the reason given to *)
(* fail and abort, and Remotely for queue(remotely=True).  Aborting removes *)
(* the local file of a download, whichever class the operation is bound to.  *)
Fields(t, class, op, arg) ==
  CASE op = "queue" -> QueueFields(t, class, arg)
    [] op = "start_transferring" -> [t EXCEPT !.remotely_queued = FALSE]
    [] op = "fail"  -> [t EXCEPT !.fail_reason = arg]
    [] op = "abort" -> [t EXCEPT !.abort_reason = arg, !.localPath = t.upload /\ @]
    [] OTHER        -> t

(* One completed operation, run by the class it was bound to.              *)
Apply(t, class, op, arg) ==
  IF Defines(class, op)
  THEN [Fields(t, class, op, arg)
          EXCEPT !.state = Target(t.upload, op)]
  ELSE t
=============================================================================
