--------------------------- MODULE Uploads_proof ---------------------------
(***************************************************************************)
(* Theorems about Uploads, for any number of uploads, tasks, calls, peers   *)
(* and slots: the variables keep their types; an upload that takes a slot   *)
(* always has something that will give the slot back; no request for a      *)
(* management cycle is lost; and while nothing disturbs the tasks, neither  *)
(* the slots nor one upload per user are exceeded.                          *)
(***************************************************************************)
EXTENDS Uploads, TransferLoop_proof, FiniteSetTheorems

---------------------------------------------------------------------------
(* The inductive invariant.                                                *)

(* A handle names a task of its own transfer that has not been forgotten.  *)
HandleOwned ==
  \A u \in Transfers :
    /\ rqHandle[u] = None
    /\ handle[u] # None =>
         /\ co[handle[u]].tr = u /\ co[handle[u]].job = "upload"
         /\ co[handle[u]].pc # "idle"

OnlyUploads ==
  \A u \in Transfers : transfer[u].upload /\ transfer[u].state # "DOWNLOADING"

(* An operation that was suspended while it stops the tasks moves on to a   *)
(* state that takes no slot.                                               *)
Stopping(c) ==
  co[c].pc \in {"gather", "unlink"} =>
    co[c].op \in {"abort", "pause"} /\ Defines(co[c].class, co[c].op)

(* Only a task takes a slot, and it goes on from there.                    *)
TakesSlot(c, op, then) ==
  /\ op = "initialize" => c \in Tasks /\ then = "request"
  /\ op = "start_transferring" => c \in Tasks /\ then = "sending"

Entered(c) ==
  (co[c].pc = "lock" \/ (c \in Transfers /\ co[c].pc = "start")) =>
    TakesSlot(c, co[c].op, co[c].then)

SlotInv ==
  /\ HandleOwned /\ OnlyUploads /\ SlotHasDriver
  /\ \A c \in Coroutine : Stopping(c) /\ Entered(c)

UploadsInv == LoopInv /\ PeerTypeOK /\ SlotInv

---------------------------------------------------------------------------
(* Operations on a state object.                                           *)

(* A task that drives its upload leaves the state with an operation that    *)
(* this state defines.                                                     *)
Keeps(c, class, op) ==
  c \in Tasks /\ Drives(c, co[c].tr) =>
    LET state == transfer[co[c].tr].state IN
    /\ class = state
    /\ state = "INITIALIZING" => op \in {"queue", "fail", "start_transferring"}
    /\ state = "UPLOADING" => op \in {"fail", "complete"}

(* An operation that goes through takes a slot only for the task that      *)
(* runs it, and gives one back whenever its driver goes.                   *)
LEMMA SettleSlot ==
  ASSUME LoopInv, SlotInv, NEW c \in Coroutine, co[c].tr \in Transfers,
         NEW class, NEW op, NEW arg, NEW then, Bound(class, op, arg, then),
         NEW behind, Settle(c, class, op, arg, then, behind),
         Keeps(c, class, op), TakesSlot(c, op, then),
         lock[co[c].tr].holder = None \/ Defines(class, op)
  PROVE  SlotInv'
<1> DEFINE t == co[c].tr
           end == IF then = "done" THEN Finished(c)
                  ELSE [Idle(t) EXCEPT !.job = co[c].job, !.pc = then]
<1> USE DEF LoopInv, SlotInv
<1>1. /\ end.pc = then
      /\ c \in Tasks => end.tr = t /\ end.job = co[c].job
      /\ then # "done" => end.tr = t /\ ~end.cancelled
  BY LoopAssumption DEF Finished, Idle
<1>2. co' = [co EXCEPT ![c] = end] /\ UNCHANGED <<handle, rqHandle>>
  BY DEF Settle
<1>3. then \notin {"idle", "start", "lock", "gather", "unlink"}
  BY DEF Bound, IOPoint, Immediate
<1> HIDE DEF end
<1>4. \A x \in Coroutine : x # c => co'[x] = co[x]
  BY <1>2 DEF LoopTypeOK
<1>5. co'[c] = end
  BY <1>2 DEF LoopTypeOK
<1>6. HandleOwned'
  BY <1>1, <1>2, <1>3, <1>4, <1>5 DEF HandleOwned, LoopTypeOK, Coroutine
<1>7. \A x \in Coroutine : Stopping(x)' /\ Entered(x)'
  BY <1>1, <1>3, <1>4, <1>5 DEF Stopping, Entered, TakesSlot
<1> DEFINE r == Apply(transfer[t], class, op, arg)
<1>8. /\ r \in Transfer /\ r.upload = transfer[t].upload
      /\ r.state = IF Defines(class, op) THEN Target(transfer[t].upload, op)
                   ELSE transfer[t].state
  BY ApplyType DEF Bound, LoopTypeOK
<1>9. transfer' = [transfer EXCEPT ![t] = r]
      /\ \A u \in Transfers : u # t => lock'[u] = lock[u]
  BY DEF Settle, LoopTypeOK
<1> HIDE DEF r
<1>10. op \in Operation /\ transfer[t].upload
  BY DEF Bound, OnlyUploads
<1>11. Defines(class, op) =>
         /\ r.state = "INITIALIZING" => op = "initialize"
         /\ r.state = "UPLOADING" => op = "start_transferring"
         /\ r.state # "DOWNLOADING"
  BY <1>8, <1>10 DEF Target, Operation
<1>12. OnlyUploads'
  BY <1>8, <1>9, <1>11 DEF OnlyUploads, LoopTypeOK
<1>13. SlotHasDriver'
  <2> SUFFICES ASSUME NEW u \in Transfers, IsProcessing(transfer[u])', lock'[u].holder = None
               PROVE  \E d \in Tasks : Drives(d, u)'
    BY DEF SlotHasDriver
  <2>1. CASE u # t
    <3>1. transfer'[u] = transfer[u] /\ lock'[u] = lock[u]
      BY <1>9, <2>1 DEF LoopTypeOK
    <3>2. PICK d \in Tasks : Drives(d, u)
      BY <3>1 DEF SlotHasDriver, IsProcessing
    <3>3. d # c /\ d \in Coroutine
      BY <2>1, <3>2 DEF Drives, Coroutine
    <3> QED
      BY <1>4, <3>1, <3>2, <3>3 DEF Drives, AwaitsLock
  <2>2. CASE u = t /\ Defines(class, op)
    <3>1. transfer'[t].state = r.state
      BY <1>9 DEF LoopTypeOK
    <3>2. r.state \in {"INITIALIZING", "UPLOADING"}
      BY <1>11, <2>2, <3>1 DEF IsProcessing
    <3>3. c \in Tasks /\ then \in {"request", "sending"}
          /\ (r.state = "INITIALIZING" => then = "request")
          /\ (r.state = "UPLOADING" => then = "sending")
      BY <1>11, <2>2, <3>2 DEF TakesSlot
    <3> QED
      BY <1>1, <1>5, <2>2, <3>1, <3>2, <3>3 DEF Drives
  <2>3. CASE u = t /\ ~Defines(class, op)
    <3>1. transfer'[t].state = transfer[t].state
      BY <1>8, <1>9, <2>3 DEF LoopTypeOK
    <3>2. PICK d \in Tasks : Drives(d, t)
      BY <2>3, <3>1 DEF SlotHasDriver, IsProcessing
    <3>3. d # c
      BY <2>3, <3>2 DEF Keeps, Drives, Defines, Overrides, AwaitsLock
    <3> QED
      BY <1>4, <2>3, <3>1, <3>2, <3>3 DEF Drives, AwaitsLock, Coroutine
  <2> QED
    BY <2>1, <2>2, <2>3
<1> QED
  BY <1>6, <1>7, <1>12, <1>13

(* An operation that cancels the tasks of an upload holds its lock         *)
(* meanwhile.                                                              *)
LEMMA HoldSlot ==
  ASSUME LoopInv, SlotInv, NEW c \in Coroutine, co[c].tr \in Transfers,
         NEW class, NEW op, NEW arg, NEW then, NEW behind, NEW pc \in {"gather", "unlink"},
         NEW waits, waits \subseteq Handles(co[c].tr),
         Hold(c, class, op, arg, then, behind, pc, waits),
         op \in {"abort", "pause"}, Defines(class, op),
         UNCHANGED <<transfer, handle, rqHandle>>
  PROVE  SlotInv'
<1> DEFINE t == co[c].tr
           held == [co[c] EXCEPT !.pc = pc, !.class = class, !.op = op,
                                 !.arg = arg, !.then = then, !.waits = waits]
<1> USE DEF LoopInv, SlotInv
<1>1. co'[c] = held
  BY DEF Hold
<1>2. /\ held.tr = t /\ held.job = co[c].job /\ held.pc = pc /\ held.class = class
      /\ held.op = op
  BY DEF LoopTypeOK, CoroutineState
<1> HIDE DEF held
<1>3. ASSUME NEW x \in Coroutine, x # c
      PROVE  /\ co'[x].tr = co[x].tr /\ co'[x].job = co[x].job /\ co'[x].pc = co[x].pc
             /\ co'[x].class = co[x].class /\ co'[x].op = co[x].op
             /\ co'[x].then = co[x].then
             /\ x \notin waits => co'[x] = co[x]
  <2> DEFINE m == [co[x] EXCEPT !.cancelled = TRUE]
  <2>1. co'[x] = IF x \in waits /\ Alive(x) THEN m ELSE co[x]
    BY <1>3 DEF Hold
  <2>2. /\ m.tr = co[x].tr /\ m.job = co[x].job /\ m.pc = co[x].pc
        /\ m.class = co[x].class /\ m.op = co[x].op /\ m.then = co[x].then
    BY DEF LoopTypeOK, CoroutineState
  <2> HIDE DEF m
  <2> QED
    BY <2>1, <2>2
<1>4. \A x \in waits : x \in Tasks /\ co[x].tr = t
  BY DEF HandleOwned, Handles, LoopTypeOK
<1>5. HandleOwned'
  BY <1>1, <1>2, <1>3 DEF HandleOwned, LoopTypeOK, Coroutine
<1>6. \A x \in Coroutine : Stopping(x)' /\ Entered(x)'
  BY <1>1, <1>2, <1>3 DEF Stopping, Entered, TakesSlot
<1>7. SlotHasDriver'
  <2> SUFFICES ASSUME NEW u \in Transfers, IsProcessing(transfer[u]), lock'[u].holder = None
               PROVE  \E d \in Tasks : Drives(d, u)'
    BY DEF SlotHasDriver, IsProcessing
  <2>1. u # t /\ lock'[u] = lock[u]
    BY LoopAssumption DEF Hold, LoopTypeOK
  <2>2. PICK d \in Tasks : Drives(d, u)
    BY <2>1 DEF SlotHasDriver
  <2>3. co'[d] = co[d]
    BY <1>3, <1>4, <2>1, <2>2 DEF Drives, Coroutine
  <2> QED
    BY <2>2, <2>3 DEF Drives, AwaitsLock
<1> QED
  BY <1>5, <1>6, <1>7 DEF OnlyUploads

(* An operation that has the lock keeps every slot driven.                 *)
LEMMA PerformSlot ==
  ASSUME LoopInv, SlotInv, NEW c \in Coroutine, co[c].tr \in Transfers,
         NEW class, NEW op, NEW arg, NEW then, Bound(class, op, arg, then),
         NEW behind, Perform(c, class, op, arg, then, behind),
         Keeps(c, class, op), TakesSlot(c, op, then),
         lock[co[c].tr].holder = None
  PROVE  SlotInv'
<1> DEFINE t == co[c].tr
           stops == Defines(class, op) /\ op \in {"abort", "pause"}
<1>1. CASE stops /\ Handles(t) # {}
  <2>1. Hold(c, class, op, arg, then, behind, "gather", Handles(t))
        /\ UNCHANGED <<transfer, handle, rqHandle>>
    BY <1>1 DEF Perform
  <2> QED
    BY <1>1, <2>1, HoldSlot
<1>2. CASE stops /\ Handles(t) = {} /\ Unlinks(c, op)
  BY <1>2 DEF Unlinks, SlotInv, OnlyUploads
<1>3. CASE ~stops \/ (Handles(t) = {} /\ ~Unlinks(c, op))
  BY <1>3, SettleSlot DEF Perform
<1> QED
  BY <1>1, <1>2, <1>3

(* Calling an operation, at a free or a taken lock, keeps every slot       *)
(* driven.                                                                 *)
LEMMA EnterSlot ==
  ASSUME LoopInv, SlotInv, NEW c \in Coroutine, co[c].tr \in Transfers,
         NEW class, NEW op, NEW arg, NEW then, Bound(class, op, arg, then),
         EnterAs(c, class, op, arg, then),
         Keeps(c, class, op), TakesSlot(c, op, then)
  PROVE  SlotInv'
<1> DEFINE t == co[c].tr
<1> USE DEF LoopInv, SlotInv
<1>1. CASE lock[t].holder = None /\ lock[t].waiters = <<>>
  BY <1>1, PerformSlot DEF EnterAs
<1>2. CASE ~(lock[t].holder = None /\ lock[t].waiters = <<>>)
  <2> DEFINE w == [co[c] EXCEPT !.pc = "lock", !.class = class, !.op = op,
                                !.arg = arg, !.then = then]
  <2>1. /\ \A u \in Transfers : lock'[u].holder = lock[u].holder
        /\ co' = [co EXCEPT ![c] = w]
        /\ UNCHANGED <<transfer, handle, rqHandle>>
    <3>1. PICK q : lock' = [lock EXCEPT ![t].waiters = q]
      BY <1>2 DEF EnterAs
    <3>2. \A u \in Transfers : lock'[u].holder = lock[u].holder
      BY <3>1 DEF LoopTypeOK
    <3> QED
      BY <1>2, <3>2 DEF EnterAs
  <2>2. /\ w.tr = t /\ w.pc = "lock" /\ w.class = class /\ w.op = op /\ w.then = then
        /\ w.job = co[c].job /\ w.cancelled = co[c].cancelled
    BY DEF LoopTypeOK, CoroutineState
  <2> HIDE DEF w
  <2>3. co'[c] = w /\ \A x \in Coroutine : x # c => co'[x] = co[x]
    BY <2>1 DEF LoopTypeOK
  <2>4. HandleOwned'
    BY <2>1, <2>2, <2>3 DEF HandleOwned, LoopTypeOK, Coroutine
  <2>5. \A x \in Coroutine : Stopping(x)' /\ Entered(x)'
    BY <2>2, <2>3 DEF Stopping, Entered, TakesSlot
  <2>6. SlotHasDriver'
    <3> SUFFICES ASSUME NEW u \in Transfers, IsProcessing(transfer[u]), lock[u].holder = None
                 PROVE  \E d \in Tasks : Drives(d, u)'
      BY <2>1 DEF SlotHasDriver, IsProcessing
    <3>1. PICK d \in Tasks : Drives(d, u)
      BY DEF SlotHasDriver
    <3>2. CASE d # c
      BY <2>1, <2>3, <3>1, <3>2 DEF Drives, AwaitsLock, Coroutine
    <3>3. CASE d = c
      <4>1. u = t /\ ~co[c].cancelled
        BY <3>1, <3>3 DEF Drives
      <4>2. Drives(c, t)
        BY <3>1, <3>3, <4>1
      <4>3. transfer[t].state \in {"INITIALIZING", "UPLOADING"}
        BY <4>2 DEF Drives
      <4> QED
        BY <2>1, <2>2, <2>3, <3>3, <4>1, <4>2, <4>3 DEF Keeps, Drives, AwaitsLock
    <3> QED
      BY <3>2, <3>3
  <2> QED
    BY <2>1, <2>4, <2>5, <2>6 DEF OnlyUploads
<1> QED
  BY <1>1, <1>2

---------------------------------------------------------------------------
(* The other steps.                                                        *)

(* A coroutine that is not a driver, or ends up as one, changes; no slot is *)
(* taken or given.                                                         *)
LEMMA OneSlot ==
  ASSUME LoopInv, SlotInv, NEW c \in Coroutine, NEW r,
         co' = [co EXCEPT ![c] = r],
         c \in Tasks /\ r.pc # "idle" => r.tr = co[c].tr /\ r.job = co[c].job,
         r.pc = "idle" => c \notin {handle'[u] : u \in Transfers},
         r.pc \in {"gather", "unlink"} => r.op \in {"abort", "pause"} /\ Defines(r.class, r.op),
         r.pc = "lock" => FALSE,
         c \in Transfers => r.pc # "start",
         c \in Tasks /\ Drives(c, co[c].tr) =>
           /\ ~r.cancelled
           /\ transfer[co[c].tr].state = "INITIALIZING" => r.pc \in {"request", "reply", "connect"}
           /\ transfer[co[c].tr].state = "UPLOADING" => r.pc \in {"sending", "eof"},
         \A u \in Transfers :
           /\ lock'[u].holder = lock[u].holder
           /\ handle'[u] \in {handle[u], None}
           /\ rqHandle'[u] \in {rqHandle[u], None}
           /\ transfer'[u] = transfer[u]
  PROVE  SlotInv'
<1> USE DEF LoopInv, SlotInv
<1>1. co'[c] = r /\ \A x \in Coroutine : x # c => co'[x] = co[x]
  BY DEF LoopTypeOK
<1>2. HandleOwned'
  BY <1>1 DEF HandleOwned, LoopTypeOK, Coroutine
<1>3. \A x \in Coroutine : Stopping(x)' /\ Entered(x)'
  BY <1>1 DEF Stopping, Entered, TakesSlot
<1>4. SlotHasDriver'
  <2> SUFFICES ASSUME NEW u \in Transfers, IsProcessing(transfer[u]), lock[u].holder = None
               PROVE  \E d \in Tasks : Drives(d, u)'
    BY DEF SlotHasDriver, IsProcessing
  <2>1. PICK d \in Tasks : Drives(d, u)
    BY DEF SlotHasDriver
  <2>2. CASE d # c
    BY <1>1, <2>1, <2>2 DEF Drives, AwaitsLock, Coroutine
  <2>3. CASE d = c
    <3>1. u = co[c].tr
      BY <2>1, <2>3 DEF Drives
    <3>2. Drives(c, co[c].tr) /\ transfer[u].state \in {"INITIALIZING", "UPLOADING"}
      BY <2>1, <2>3, <3>1 DEF Drives
    <3>3. r.pc \in {"request", "reply", "connect", "sending", "eof"} /\ ~r.cancelled
      BY <2>1, <2>3, <3>1, <3>2
    <3>4. r.tr = u
      BY <2>1, <2>3, <3>1, <3>3
    <3> QED
      BY <1>1, <2>1, <2>3, <3>1, <3>2, <3>3, <3>4 DEF Drives
  <2> QED
    BY <2>2, <2>3
<1>5. OnlyUploads'
  BY DEF OnlyUploads
<1> QED
  BY <1>2, <1>3, <1>4, <1>5

(* Nothing that the slots depend on changes.                               *)
LEMMA NoSlot ==
  ASSUME SlotInv, UNCHANGED <<transfer, handle, rqHandle, lock, co>>
  PROVE  SlotInv'
BY DEF SlotInv, HandleOwned, OnlyUploads, SlotHasDriver, IsProcessing, Drives,
       AwaitsLock, Stopping, Entered

(* A coroutine that drives no upload ends.                                 *)
LEMMA EndSlot ==
  ASSUME LoopInv, SlotInv, NEW c \in Coroutine,
         co' = [co EXCEPT ![c] = Finished(c)],
         ~(c \in Tasks /\ Drives(c, co[c].tr)),
         \A u \in Transfers : lock'[u].holder = lock[u].holder,
         UNCHANGED <<transfer, handle, rqHandle>>
  PROVE  SlotInv'
<1>1. /\ Finished(c).pc = "done"
      /\ c \in Tasks => Finished(c).tr = co[c].tr /\ Finished(c).job = co[c].job
  BY FinishedType DEF LoopInv
<1> QED
  BY <1>1, OneSlot

(* A coroutine that drives no upload may return.                           *)
LEMMA ReturnSlot ==
  ASSUME LoopInv, SlotInv, NEW c \in Coroutine, Return(c),
         ~(c \in Tasks /\ Drives(c, co[c].tr))
  PROVE  SlotInv'
BY EndSlot DEF Return

(* A driver that goes on to the next event of the protocol still drives    *)
(* its upload.                                                             *)
LEMMA SuspendSlot ==
  ASSUME LoopInv, SlotInv, NEW c \in Coroutine, NEW pc \in IOPoint, Suspend(c, pc),
         c \in Tasks /\ Drives(c, co[c].tr) =>
           /\ transfer[co[c].tr].state = "INITIALIZING" => pc \in {"request", "reply", "connect"}
           /\ transfer[co[c].tr].state = "UPLOADING" => pc \in {"sending", "eof"}
  PROVE  SlotInv'
<1> DEFINE r == [co[c] EXCEPT !.pc = pc]
<1>1. r.pc = pc /\ r.tr = co[c].tr /\ r.job = co[c].job /\ r.cancelled = co[c].cancelled
  BY DEF LoopInv, LoopTypeOK, CoroutineState
<1>2. co' = [co EXCEPT ![c] = r]
  BY DEF Suspend
<1>3. pc \notin {"idle", "start", "lock", "gather", "unlink"}
  BY DEF IOPoint
<1>4. Drives(c, co[c].tr) => ~co[c].cancelled
  BY DEF Drives
<1> HIDE DEF r
<1> QED
  BY <1>1, <1>2, <1>3, <1>4, OneSlot DEF Suspend

---------------------------------------------------------------------------
(* The task of an upload.                                                  *)

(* A task calls an operation of the state it awaits to be in.              *)
LEMMA TaskEnters ==
  ASSUME LoopInv, SlotInv, NEW cb, Runs(cb),
         NEW c \in Tasks, co[c].tr \in Transfers, NEW op \in Operation, NEW arg \in Reason,
         NEW then \in IOPoint \cup {"done"}, Enter(c, op, arg, then),
         Keeps(c, transfer[co[c].tr].state, op), TakesSlot(c, op, then)
  PROVE  LoopInv' /\ SlotInv'
<1>1. Bound(transfer[co[c].tr].state, op, arg, then)
  BY DEF Bound, LoopInv, LoopTypeOK, Transfer
<1>2. left' \in Nat /\ ready # <<>> /\ c \in Coroutine
  BY RunsLeft DEF Coroutine
<1> QED
  BY <1>1, <1>2, EnterInv, EnterSlot DEF Enter

(* A task awaits the next event of the protocol.                           *)
LEMMA TaskSuspends ==
  ASSUME LoopInv, SlotInv, NEW cb, Runs(cb),
         NEW c \in Tasks, co[c].tr \in Transfers, NEW pc \in IOPoint, Suspend(c, pc),
         Drives(c, co[c].tr) =>
           /\ transfer[co[c].tr].state = "INITIALIZING" => pc \in {"request", "reply", "connect"}
           /\ transfer[co[c].tr].state = "UPLOADING" => pc \in {"sending", "eof"}
  PROVE  LoopInv' /\ SlotInv'
<1>1. left' \in Nat /\ ready # <<>> /\ c \in Coroutine
  BY RunsLeft DEF Coroutine
<1> QED
  BY <1>1, SuspendInv, SuspendSlot

(* Every step of _initialize_upload and _upload_file keeps the inductive   *)
(* invariant.                                                              *)
LEMMA TaskStepInv ==
  ASSUME UploadsInv, NEW c \in Tasks, TaskStep(c)
  PROVE  UploadsInv'
<1> USE DEF UploadsInv
<1> DEFINE t == co[c].tr
<1>1. PeerTypeOK'
  BY DEF TaskStep, PeerTypeOK, peerVars, Initialize, Requested, Replied, Connected,
         Sent, Closed, Reported
<1>2. c \in Coroutine /\ (Alive(c) => t \in Transfers)
  BY DEF Coroutine, LoopInv, Works
<1>3. CASE Initialize(c)
  <2>1. Runs(Step(c)) /\ co[c].pc = "start" /\ Enter(c, "initialize", None, "request")
    BY <1>3 DEF Initialize, At
  <2>2. Keeps(c, transfer[t].state, "initialize") /\ TakesSlot(c, "initialize", "request")
    BY <2>1 DEF Keeps, Drives, AwaitsLock, TakesSlot
  <2> QED
    BY <1>1, <1>2, <2>1, <2>2, TaskEnters DEF Alive, Operation, Reason, IOPoint
<1>4. CASE Requested(c)
  <2>1. Runs(Step(c)) /\ co[c].pc = "request"
    BY <1>4 DEF Requested, At
  <2>2. CASE Suspend(c, "reply")
    BY <1>1, <1>2, <2>1, <2>2, TaskSuspends DEF Alive, IOPoint, Drives, AwaitsLock
  <2>3. CASE Enter(c, "queue", None, "done")
    <3>1. Keeps(c, transfer[t].state, "queue") /\ TakesSlot(c, "queue", "done")
      BY <2>1 DEF Keeps, Drives, AwaitsLock, TakesSlot
    <3> QED
      BY <1>1, <1>2, <2>1, <2>3, <3>1, TaskEnters DEF Alive, Operation, Reason
  <2> QED
    BY <1>4, <2>2, <2>3 DEF Requested
<1>5. CASE Replied(c)
  <2>1. Runs(Step(c)) /\ co[c].pc = "reply"
    BY <1>5 DEF Replied, At
  <2>2. CASE Suspend(c, "connect")
    BY <1>1, <1>2, <2>1, <2>2, TaskSuspends DEF Alive, IOPoint, Drives, AwaitsLock
  <2>3. CASE Enter(c, "fail", "Cancelled", "done")
    <3>1. Keeps(c, transfer[t].state, "fail") /\ TakesSlot(c, "fail", "done")
      BY <2>1 DEF Keeps, Drives, AwaitsLock, TakesSlot
    <3> QED
      BY <1>1, <1>2, <2>1, <2>3, <3>1, TaskEnters DEF Alive, Operation, Reason
  <2>4. CASE Enter(c, "queue", None, "done")
    <3>1. Keeps(c, transfer[t].state, "queue") /\ TakesSlot(c, "queue", "done")
      BY <2>1 DEF Keeps, Drives, AwaitsLock, TakesSlot
    <3> QED
      BY <1>1, <1>2, <2>1, <2>4, <3>1, TaskEnters DEF Alive, Operation, Reason
  <2> QED
    BY <1>5, <2>2, <2>3, <2>4 DEF Replied
<1>6. CASE Connected(c)
  <2>1. Runs(Step(c)) /\ co[c].pc = "connect"
    BY <1>6 DEF Connected, At
  <2>2. CASE Enter(c, "start_transferring", None, "sending")
    <3>1. /\ Keeps(c, transfer[t].state, "start_transferring")
          /\ TakesSlot(c, "start_transferring", "sending")
      BY <2>1 DEF Keeps, Drives, AwaitsLock, TakesSlot
    <3> QED
      BY <1>1, <1>2, <2>1, <2>2, <3>1, TaskEnters DEF Alive, Operation, Reason, IOPoint
  <2>3. CASE Enter(c, "queue", None, "done")
    <3>1. Keeps(c, transfer[t].state, "queue") /\ TakesSlot(c, "queue", "done")
      BY <2>1 DEF Keeps, Drives, AwaitsLock, TakesSlot
    <3> QED
      BY <1>1, <1>2, <2>1, <2>3, <3>1, TaskEnters DEF Alive, Operation, Reason
  <2> QED
    BY <1>6, <2>2, <2>3 DEF Connected
<1>7. CASE Sent(c)
  <2>1. Runs(Step(c)) /\ co[c].pc = "sending"
    BY <1>7 DEF Sent, At
  <2>2. CASE Suspend(c, "eof")
    BY <1>1, <1>2, <2>1, <2>2, TaskSuspends DEF Alive, IOPoint, Drives, AwaitsLock
  <2>3. ASSUME NEW arg \in Reason, NEW then \in IOPoint, Enter(c, "fail", arg, then)
        PROVE  LoopInv' /\ SlotInv'
    <3>1. Keeps(c, transfer[t].state, "fail") /\ TakesSlot(c, "fail", then)
      BY <2>1 DEF Keeps, Drives, AwaitsLock, TakesSlot
    <3> QED
      BY <1>2, <2>1, <2>3, <3>1, TaskEnters DEF Alive, Operation
  <2> QED
    BY <1>1, <1>7, <2>2, <2>3 DEF Sent, Reason, IOPoint
<1>8. CASE Closed(c)
  <2>1. Runs(Step(c)) /\ co[c].pc = "eof"
    BY <1>8 DEF Closed, At
  <2>2. ASSUME NEW op \in {"complete", "fail"}, Enter(c, op, None, "done")
        PROVE  LoopInv' /\ SlotInv'
    <3>1. Keeps(c, transfer[t].state, op) /\ TakesSlot(c, op, "done")
      BY <2>1 DEF Keeps, Drives, AwaitsLock, TakesSlot
    <3> QED
      BY <1>2, <2>1, <2>2, <3>1, TaskEnters DEF Alive, Operation, Reason
  <2> QED
    BY <1>1, <1>8, <2>2 DEF Closed
<1>9. CASE Reported(c)
  <2>1. Runs(Step(c)) /\ co[c].pc \in {"notify", "closing"} /\ Return(c)
    BY <1>9 DEF Reported, At
  <2>2. ~Drives(c, t)
    BY <2>1 DEF Drives, AwaitsLock
  <2> QED
    BY <1>1, <1>2, <2>1, <2>2, RunsLeft, ReturnInv, ReturnSlot
<1>10. CASE Cancelled(c)
  <2>1. LoopInv'
    BY <1>2, <1>10, CancelledInv
  <2>2. ~Drives(c, t)
    BY <1>10 DEF Drives, Cancelled
  <2>3. /\ co' = [co EXCEPT ![c] = Finished(c)]
        /\ \A u \in Transfers : lock'[u].holder = lock[u].holder
        /\ UNCHANGED <<transfer, handle, rqHandle>>
    <3>1. PICK q : lock' = [lock EXCEPT ![t].waiters = q]
      BY <1>10 DEF Cancelled
    <3>2. \A u \in Transfers : lock'[u].holder = lock[u].holder
      BY <3>1 DEF LoopInv, LoopTypeOK
    <3> QED
      BY <1>10, <3>2 DEF Cancelled
  <2> QED
    BY <1>1, <1>2, <2>1, <2>2, <2>3, EndSlot
<1>11. CASE DoneCallback(c)
  <2>1. LoopInv'
    BY <1>11, DoneCallbackInv
  <2>2. /\ co' = [co EXCEPT ![c] = Idle(None)] /\ co[c].pc = "done"
        /\ UNCHANGED <<transfer, lock>>
    BY <1>11 DEF DoneCallback
  <2>3. \A u \in Transfers :
          /\ handle'[u] \in {handle[u], None} /\ rqHandle'[u] \in {rqHandle[u], None}
          /\ handle'[u] # c
    BY <1>11, LoopAssumption DEF DoneCallback, LoopInv, LoopTypeOK, SlotInv, HandleOwned, Coroutine
  <2>4. Idle(None).pc = "idle"
    BY DEF Idle
  <2>5. ~Drives(c, t)
    BY <2>2 DEF Drives, AwaitsLock
  <2>6. c \notin {handle'[u] : u \in Transfers}
    BY <2>3
  <2>7. SlotInv'
    BY <1>2, <2>2, <2>3, <2>4, <2>5, <2>6, LoopAssumption, OneSlot DEF Coroutine
  <2> QED
    BY <1>1, <2>1, <2>7
<1>12. CASE TaskGathered(c)
  <2>1. LoopInv'
    BY <1>12, TaskGatheredInv
  <2>2. PICK h \in Calls \cup Transfers : co' = [co EXCEPT ![h].waits = @ \ {c}]
    BY <1>12 DEF TaskGathered
  <2>3. UNCHANGED <<transfer, lock, handle, rqHandle>>
    BY <1>12 DEF TaskGathered
  <2> DEFINE w == co[h].waits \ {c}
             r == [co[h] EXCEPT !.waits = w]
  <2>4. co' = [co EXCEPT ![h] = r]
    BY <2>2
  <2>5. h \in Coroutine /\ h \notin Tasks
    BY LoopAssumption DEF Coroutine
  <2>6. co[h] \in CoroutineState
    BY <2>5 DEF LoopInv, LoopTypeOK
  <2> HIDE DEF w
  <2>7. /\ r.pc = co[h].pc /\ r.op = co[h].op /\ r.class = co[h].class
        /\ r.then = co[h].then
    BY <2>6 DEF CoroutineState
  <2> HIDE DEF r
  <2>8. co'[h] = r /\ \A x \in Coroutine : x # h => co'[x] = co[x]
    BY <2>4, <2>5 DEF LoopInv, LoopTypeOK
  <2>9. HandleOwned' /\ OnlyUploads'
    BY <2>3, <2>5, <2>8 DEF SlotInv, HandleOwned, OnlyUploads, LoopInv, LoopTypeOK, Coroutine
  <2>10. \A x \in Coroutine : Stopping(x)' /\ Entered(x)'
    BY <2>7, <2>8 DEF SlotInv, Stopping, Entered, TakesSlot
  <2>11. SlotHasDriver'
    BY <2>3, <2>5, <2>8 DEF SlotInv, SlotHasDriver, Drives, AwaitsLock, IsProcessing, Coroutine
  <2> QED
    BY <1>1, <2>1, <2>9, <2>10, <2>11 DEF SlotInv
<1> QED
  BY <1>3, <1>4, <1>5, <1>6, <1>7, <1>8, <1>9, <1>10, <1>11, <1>12 DEF TaskStep

---------------------------------------------------------------------------
(* Handlers, calls and operations that are under way.                      *)

(* A handler or a call from outside calls an operation.                    *)
LEMMA CallEnters ==
  ASSUME LoopInv, SlotInv, NEW cb, Runs(cb), NEW c \in Coroutine \ Tasks, co[c].tr \in Transfers,
         NEW class \in State, NEW op \in Operation \ {"initialize", "start_transferring"},
         NEW arg \in Reason, NEW then \in Immediate \cup {"done"},
         EnterAs(c, class, op, arg, then)
  PROVE  LoopInv' /\ SlotInv'
<1>1. Bound(class, op, arg, then)
  BY DEF Bound
<1>2. left' \in Nat /\ ready # <<>>
  BY RunsLeft
<1>3. Keeps(c, class, op) /\ TakesSlot(c, op, then)
  BY DEF Keeps, TakesSlot
<1> QED
  BY <1>1, <1>2, <1>3, EnterInv, EnterSlot

(* Every step of the message handlers and of the application's calls       *)
(* keeps the inductive invariant.                                          *)
LEMMA CallStepInv ==
  ASSUME UploadsInv, NEW c \in Calls, CallStep(c)
  PROVE  UploadsInv'
<1> USE DEF UploadsInv
<1> DEFINE t == co[c].tr
<1>1. PeerTypeOK'
  BY DEF CallStep, PeerTypeOK, peerVars, PeerAsks, FileLookedUp, UploadAdded
<1>11. CASE Removed(c)
  <2>1. LoopInv' /\ c \in Coroutine \ Tasks
    BY <1>11, RemovedInv, LoopAssumption DEF Coroutine
  <2>2. co' = [co EXCEPT ![c] = Finished(c)] /\ UNCHANGED <<transfer, lock, handle, rqHandle>>
    BY <1>11 DEF Removed
  <2> QED
    BY <1>1, <2>1, <2>2, EndSlot
<1> SUFFICES ASSUME ~Removed(c) PROVE UploadsInv'
  BY <1>11
<1>2. Runs(Step(c)) /\ c \in Coroutine \ Tasks /\ t \in Transfers
  BY LoopAssumption DEF Coroutine, LoopInv, Works, Alive, CallStep, PeerAsks,
     FileLookedUp, UploadAdded, CallStarts, Handling
<1>3. transfer[t].state \in State /\ left' \in Nat /\ ready # <<>> /\ Rest \in Seq(Callback)
  BY <1>2, RunsLeft DEF LoopInv, LoopTypeOK, Transfer
<1>4. ASSUME NEW op \in {"fail", "queue", "abort", "pause"}, NEW arg \in Reason,
             NEW then \in Immediate \cup {"done"}, Enter(c, op, arg, then)
      PROVE  LoopInv' /\ SlotInv'
  BY <1>2, <1>3, <1>4, CallEnters DEF Enter, Operation
<1>5. Return(c) => LoopInv' /\ SlotInv'
  BY <1>2, <1>3, ReturnInv, ReturnSlot
<1>6. ASSUME NEW pc \in IOPoint, Suspend(c, pc) PROVE LoopInv' /\ SlotInv'
  BY <1>2, <1>3, <1>6, SuspendInv, SuspendSlot
<1>7. CASE PeerAsks(c)
  BY <1>1, <1>4, <1>5, <1>6, <1>7 DEF PeerAsks, Reason, IOPoint
<1>8. CASE FileLookedUp(c)
  BY <1>1, <1>4, <1>5, <1>8 DEF FileLookedUp, Reason
<1>9. CASE CallStarts(c)
  BY <1>1, <1>4, <1>9 DEF CallStarts, Reason, Immediate
<1>10. CASE UploadAdded(c)
  <2>1. CASE Return(c)
    BY <1>1, <1>5, <2>1
  <2>2. CASE ~Return(c)
    <3> DEFINE r == Apply(transfer[t], "VIRGIN", "queue", None)
    <3>1. /\ listed' = Append(listed, t) /\ transfer' = [transfer EXCEPT ![t] = r]
          /\ wanted' = TRUE /\ ready' = Rest \o WakeManager
          /\ co' = [co EXCEPT ![c] = Finished(c)]
          /\ UNCHANGED <<lock, handle, rqHandle, mgmt, shares>>
      BY <1>10, <2>2 DEF UploadAdded
    <3>2. r \in Transfer /\ r.upload = transfer[t].upload /\ r.state = "QUEUED"
      BY <1>2, ApplyType DEF LoopInv, LoopTypeOK, Defines, Overrides, Target, State, Operation
    <3> HIDE DEF r
    <3>3. ready' \in Seq(Callback) /\ listed' \in Seq(Transfers)
      BY <1>2, <1>3, <3>1, ScheduledType DEF LoopInv, LoopTypeOK
    <3>4. Finished(c) \in CoroutineState /\ Finished(c).pc = "done"
      BY <1>2, FinishedType DEF LoopInv
    <3>5. co'[c].pc = "done" /\ \A x \in Coroutine : x # c => co'[x] = co[x]
      BY <1>2, <3>1, <3>4 DEF LoopInv, LoopTypeOK
    <3>6. LoopTypeOK' /\ \A x \in Coroutine : Works(x)'
      BY <1>2, <1>3, <3>1, <3>2, <3>3, <3>4, <3>5 DEF LoopInv, LoopTypeOK, Works, Alive
    <3>7. HandleOwned'
      BY <1>2, <3>1, <3>5 DEF SlotInv, HandleOwned, LoopInv, LoopTypeOK, Coroutine
    <3>8. OnlyUploads'
      BY <1>2, <3>1, <3>2 DEF SlotInv, OnlyUploads, LoopInv, LoopTypeOK
    <3>9. \A x \in Coroutine : Stopping(x)' /\ Entered(x)'
      BY <3>5 DEF SlotInv, Stopping, Entered, TakesSlot
    <3>10. SlotHasDriver'
      <4> SUFFICES ASSUME NEW u \in Transfers, IsProcessing(transfer'[u]), lock[u].holder = None
                   PROVE  \E d \in Tasks : Drives(d, u)'
        BY <3>1 DEF SlotHasDriver, IsProcessing
      <4>1. u # t /\ transfer'[u] = transfer[u]
        BY <1>2, <3>1, <3>2 DEF IsProcessing, LoopInv, LoopTypeOK
      <4>2. PICK d \in Tasks : Drives(d, u)
        BY <4>1 DEF SlotInv, SlotHasDriver
      <4>3. co'[d] = co[d]
        BY <1>2, <3>5 DEF Coroutine
      <4> QED
        BY <4>1, <4>2, <4>3 DEF Drives, AwaitsLock
    <3> QED
      BY <1>1, <3>6, <3>7, <3>8, <3>9, <3>10 DEF LoopInv, SlotInv
  <2> QED
    BY <2>1, <2>2
<1> QED
  BY <1>7, <1>8, <1>9, <1>10 DEF CallStep

(* Operations that are granted the lock or end their wait keep the         *)
(* inductive invariant.                                                    *)
LEMMA StopStepInv ==
  ASSUME UploadsInv, NEW c \in Coroutine, StopStep(c)
  PROVE  UploadsInv'
<1> USE DEF UploadsInv
<1> DEFINE t == co[c].tr
<1>1. PeerTypeOK'
  BY DEF StopStep, PeerTypeOK, peerVars
<1>2. LoopInv'
  BY StopInv DEF StopStep
<1>3. t \in Transfers /\ Bound(co[c].class, co[c].op, co[c].arg, co[c].then)
  BY DEF StopStep, LockGranted, TasksStopped, LoopInv, Works, Alive
<1>4. CASE LockGranted(c)
  <2>1. co[c].pc = "lock" /\ lock[t].holder = None
        /\ Perform(c, co[c].class, co[c].op, co[c].arg, co[c].then, Tail(lock[t].waiters))
    BY <1>4 DEF LockGranted
  <2>2. TakesSlot(c, co[c].op, co[c].then)
    BY <2>1 DEF SlotInv, Entered
  <2>3. Keeps(c, co[c].class, co[c].op)
    BY <2>1 DEF Keeps, Drives, AwaitsLock
  <2> QED
    BY <1>1, <1>2, <1>3, <2>1, <2>2, <2>3, PerformSlot
<1>5. CASE TasksStopped(c)
  <2>1. co[c].pc = "gather" /\ co[c].op \in {"abort", "pause"} /\ Defines(co[c].class, co[c].op)
    BY <1>5 DEF TasksStopped, SlotInv, Stopping
  <2>2. ~Unlinks(c, co[c].op)
    BY <1>3 DEF Unlinks, SlotInv, OnlyUploads
  <2>3. Settle(c, co[c].class, co[c].op, co[c].arg, co[c].then, lock[t].waiters)
    BY <1>5, <2>2 DEF TasksStopped
  <2>4. Keeps(c, co[c].class, co[c].op) /\ TakesSlot(c, co[c].op, co[c].then)
    BY <2>1 DEF Keeps, Drives, AwaitsLock, TakesSlot
  <2> QED
    BY <1>1, <1>2, <1>3, <2>1, <2>3, <2>4, SettleSlot
<1> QED
  BY <1>4, <1>5 DEF StopStep

(* I/O that comes back keeps the inductive invariant.                      *)
LEMMA IOWakesInv ==
  ASSUME UploadsInv, NEW c \in Coroutine, IOWakes(c)
  PROVE  UploadsInv'
<1>1. PeerTypeOK'
  BY DEF UploadsInv, IOWakes, PeerTypeOK, peerVars
<1>2. LoopInv'
  BY WakesInv DEF UploadsInv, IOWakes
<1>3. SlotInv'
  BY NoSlot DEF UploadsInv, IOWakes, Wakes
<1> QED
  BY <1>1, <1>2, <1>3 DEF UploadsInv

---------------------------------------------------------------------------
(* The management cycle.                                                   *)

(* A sequence of the members of a set is a sequence over it.               *)
LEMMA OrderType ==
  ASSUME NEW S, S \subseteq Transfers, NEW order \in [1..Cardinality(S) -> S]
  PROVE  order \in Seq(S) /\ DOMAIN order = 1..Len(order)
<1>1. Cardinality(S) \in Nat
  BY LoopAssumption, FS_Subset, FS_CardinalityType
<1> QED
  BY <1>1

(* The listed uploads are transfers.                                       *)
LEMMA ListedType ==
  ASSUME LoopInv
  PROVE  Chosen \subseteq Transfers /\ Contradicted \subseteq Transfers
BY DEF LoopInv, LoopTypeOK, Chosen, Eligible, Contradicted, Evaluated, InState, Listed, ToSet

(* Tasks are created for the chosen uploads; the states stay what they are. *)
LEMMA StartUploadsInv ==
  ASSUME UploadsInv, left' \in Nat, ready # <<>>, StartUploads,
         transfer' \in [Transfers -> Transfer],
         \A u \in Transfers : /\ transfer'[u].state = transfer[u].state
                              /\ transfer'[u].upload = transfer[u].upload,
         wanted' \in BOOLEAN, shares' \in BOOLEAN
  PROVE  UploadsInv'
<1> USE DEF UploadsInv
<1>1. PICK task \in [Chosen -> Unused(Tasks)], order \in [1..Cardinality(Chosen) -> Chosen] :
        /\ \A u, v \in Chosen : u # v => task[u] # task[v]
        /\ handle' = [u \in Transfers |-> IF u \in Chosen THEN task[u] ELSE handle[u]]
        /\ co' = [c \in Coroutine |->
                    IF \E u \in Chosen : task[u] = c
                    THEN New(CHOOSE u \in Chosen : task[u] = c, "upload") ELSE co[c]]
        /\ ready' = Rest \o [i \in DOMAIN order |-> Step(task[order[i]])]
  BY DEF StartUploads
<1>2. mgmt' = "sleep" /\ UNCHANGED <<listed, lock, rqHandle, peerVars>>
  BY DEF StartUploads
<1>3. Chosen \subseteq Transfers
  BY ListedType
<1>4. \A u \in Chosen : task[u] \in Tasks /\ task[u] \in Coroutine /\ co[task[u]].pc = "idle"
  BY <1>1 DEF Unused, Coroutine
<1>5. \A u \in Chosen : co'[task[u]] = New(u, "upload")
  <2> TAKE u \in Chosen
  <2>1. u = CHOOSE v \in Chosen : task[v] = task[u]
    BY <1>1
  <2> QED
    BY <1>1, <1>4, <2>1
<1>6. \A c \in Coroutine : co[c].pc # "idle" \/ c \notin Tasks => co'[c] = co[c]
  BY <1>1, <1>4
<1>7. \A u \in Transfers :
        /\ New(u, "upload") \in CoroutineState /\ New(u, "upload").pc = "start"
        /\ New(u, "upload").tr = u /\ New(u, "upload").job = "upload"
  BY DEF New, Idle, CoroutineState, None, State, Point, Reason, Job
<1>8. \A c \in Coroutine : co'[c] = co[c] \/ (c \in Tasks /\ \E u \in Chosen : co'[c] = New(u, "upload"))
  BY <1>1, <1>4, <1>5
<1>9. co' \in [Coroutine -> CoroutineState] /\ \A c \in Coroutine : Works(c)'
  <2>1. DOMAIN co' = Coroutine /\ co' = [c \in Coroutine |-> co'[c]]
    BY <1>1
  <2>2. ASSUME NEW c \in Coroutine PROVE co'[c] \in CoroutineState /\ Works(c)'
    BY <1>3, <1>7, <1>8, LoopAssumption DEF LoopInv, LoopTypeOK, Works, Alive
  <2> QED
    BY <2>1, <2>2
<1>10. ready' \in Seq(Callback)
  <2>1. order \in Seq(Chosen) /\ DOMAIN order = 1..Len(order)
    BY <1>3, OrderType
  <2>2. \A i \in 1..Len(order) : Step(task[order[i]]) \in Callback
    BY <1>4, <2>1 DEF Step, Callback
  <2>3. [i \in DOMAIN order |-> Step(task[order[i]])] \in Seq(Callback)
    BY <2>1, <2>2
  <2> QED
    BY <1>1, <2>3, ScheduledType DEF LoopInv
<1>11. handle' \in [Transfers -> Tasks \cup {None}]
  BY <1>1, <1>4 DEF LoopInv, LoopTypeOK
<1>12. LoopInv'
  BY <1>2, <1>9, <1>10, <1>11 DEF LoopInv, LoopTypeOK
<1>13. HandleOwned'
  <2> SUFFICES ASSUME NEW u \in Transfers
               PROVE  /\ rqHandle'[u] = None
                      /\ handle'[u] # None =>
                           /\ co'[handle'[u]].tr = u /\ co'[handle'[u]].job = "upload"
                           /\ co'[handle'[u]].pc # "idle"
    BY DEF HandleOwned
  <2>1. CASE u \in Chosen
    BY <1>1, <1>2, <1>5, <1>7, <2>1 DEF SlotInv, HandleOwned
  <2>2. CASE u \notin Chosen
    <3>1. handle'[u] = handle[u] /\ rqHandle'[u] = None
      BY <1>1, <1>2, <2>2 DEF SlotInv, HandleOwned
    <3>2. handle[u] # None => handle[u] \in Coroutine /\ co[handle[u]].pc # "idle"
      BY DEF SlotInv, HandleOwned, LoopInv, LoopTypeOK, Coroutine
    <3>3. handle[u] # None => co'[handle[u]] = co[handle[u]]
      BY <1>6, <3>2
    <3> QED
      BY <3>1, <3>3 DEF SlotInv, HandleOwned
  <2> QED
    BY <2>1, <2>2
<1>14. \A c \in Coroutine : Stopping(c)' /\ Entered(c)'
  BY <1>3, <1>7, <1>8, LoopAssumption DEF SlotInv, Stopping, Entered, TakesSlot
<1>15. SlotHasDriver'
  <2> SUFFICES ASSUME NEW u \in Transfers, IsProcessing(transfer[u]), lock[u].holder = None
               PROVE  \E d \in Tasks : Drives(d, u)'
    BY <1>2 DEF SlotHasDriver, IsProcessing
  <2>1. PICK d \in Tasks : Drives(d, u)
    BY DEF SlotInv, SlotHasDriver
  <2>2. co'[d] = co[d]
    BY <1>6, <2>1 DEF Drives, AwaitsLock, Coroutine
  <2> QED
    BY <2>1, <2>2 DEF Drives, AwaitsLock
<1> QED
  BY <1>2, <1>12, <1>13, <1>14, <1>15 DEF SlotInv, OnlyUploads, PeerTypeOK, peerVars

(* Creating the operations of a shares cycle keeps the inductive           *)
(* invariant.                                                              *)
LEMMA SharesChangedInv ==
  ASSUME UploadsInv, left' \in Nat, ready # <<>>, SharesChanged,
         transfer' \in [Transfers -> Transfer],
         \A u \in Transfers : /\ transfer'[u].state = transfer[u].state
                              /\ transfer'[u].upload = transfer[u].upload,
         wanted' \in BOOLEAN, shares' \in BOOLEAN
  PROVE  UploadsInv'
<1> USE DEF UploadsInv
<1>1. PICK order \in [1..Cardinality(Contradicted) -> Contradicted] :
        ready' = Rest \o [i \in DOMAIN order |-> Step(order[i])]
  BY DEF SharesChanged
<1>2. /\ co' = [c \in Coroutine |->
                  IF c \in Contradicted THEN SharesOperation(c) ELSE co[c]]
      /\ mgmt' = "shares" /\ UNCHANGED <<listed, lock, handle, rqHandle, peerVars>>
  BY DEF SharesChanged
<1>3. Contradicted \subseteq Transfers
  BY ListedType
<1>4. ASSUME NEW u \in Transfers
      PROVE  LET r == SharesOperation(u) IN
             /\ r \in CoroutineState /\ r.tr = u /\ r.pc = "start"
             /\ r.op \in {"queue", "abort"} /\ Bound(r.class, r.op, r.arg, "done")
  <2> DEFINE a == transfer[u].state = "ABORTED"
             n == New(u, "shares")
  <2>1. AbortCause(u) \in Reason /\ None \in Reason
    BY DEF AbortCause, Reason
  <2>2. n \in CoroutineState /\ n.tr = u /\ n.pc = "start"
    BY DEF New, Idle, CoroutineState, None, State, Point, Reason, Job
  <2>3. PICK cl \in State, op \in {"queue", "abort"}, arg \in Reason :
          SharesOperation(u) = [n EXCEPT !.class = cl, !.op = op, !.arg = arg]
    <3>1. SharesOperation(u) = [n EXCEPT !.class = transfer[u].state,
                                  !.op = IF a THEN "queue" ELSE "abort",
                                  !.arg = IF a THEN None ELSE AbortCause(u)]
      BY DEF SharesOperation
    <3>2. transfer[u].state \in State
      BY DEF LoopInv, LoopTypeOK, Transfer
    <3> HIDE DEF n, a
    <3> QED
      BY <2>1, <3>1, <3>2
  <2> HIDE DEF n
  <2>4. op \in Operation
    BY DEF Operation
  <2>5. LET r == [n EXCEPT !.class = cl, !.op = op, !.arg = arg] IN
        /\ r \in CoroutineState /\ r.tr = u /\ r.pc = "start"
        /\ r.op = op /\ r.class = cl /\ r.arg = arg
    BY <2>2, <2>4 DEF CoroutineState
  <2> QED
    BY <2>3, <2>4, <2>5 DEF Bound
<1>5. \A c \in Coroutine : c \notin Contradicted => co'[c] = co[c]
  BY <1>2
<1>6. \A u \in Contradicted : co'[u] = SharesOperation(u)
  BY <1>2, <1>3 DEF Coroutine
<1>7. co' \in [Coroutine -> CoroutineState] /\ \A c \in Coroutine : Works(c)'
  <2>1. co' = [c \in Coroutine |-> co'[c]]
    BY <1>2
  <2>2. ASSUME NEW c \in Coroutine PROVE co'[c] \in CoroutineState /\ Works(c)'
    <3>1. CASE c \in Contradicted
      BY <1>3, <1>4, <1>6, <3>1 DEF Works, Alive
    <3>2. CASE c \notin Contradicted
      BY <1>5, <3>2 DEF LoopInv, LoopTypeOK, Works, Alive
    <3> QED
      BY <3>1, <3>2
  <2> QED
    BY <2>1, <2>2
<1>8. ready' \in Seq(Callback)
  <2>1. order \in Seq(Contradicted) /\ DOMAIN order = 1..Len(order)
    BY <1>3, OrderType
  <2>2. \A i \in 1..Len(order) : Step(order[i]) \in Callback
    BY <1>3, <2>1 DEF Step, Callback, Coroutine
  <2>3. [i \in DOMAIN order |-> Step(order[i])] \in Seq(Callback)
    BY <2>1, <2>2
  <2> QED
    BY <1>1, <2>3, ScheduledType DEF LoopInv
<1>9. LoopInv'
  BY <1>2, <1>7, <1>8 DEF LoopInv, LoopTypeOK
<1>10. \A c \in Tasks : c \in Coroutine /\ co'[c] = co[c]
  BY <1>3, <1>5, LoopAssumption DEF Coroutine
<1>11. HandleOwned'
  <2> SUFFICES ASSUME NEW u \in Transfers
               PROVE  /\ rqHandle[u] = None
                      /\ handle[u] # None =>
                           /\ co'[handle[u]].tr = u /\ co'[handle[u]].job = "upload"
                           /\ co'[handle[u]].pc # "idle"
    BY <1>2 DEF HandleOwned
  <2>1. handle[u] # None => co'[handle[u]] = co[handle[u]]
    BY <1>10 DEF LoopInv, LoopTypeOK
  <2> QED
    BY <2>1 DEF SlotInv, HandleOwned
<1>12. \A c \in Coroutine : Stopping(c)' /\ Entered(c)'
  <2> TAKE c \in Coroutine
  <2>1. CASE c \in Contradicted
    BY <1>3, <1>4, <1>6, <2>1 DEF Stopping, Entered, TakesSlot
  <2>2. CASE c \notin Contradicted
    BY <1>5, <2>2 DEF SlotInv, Stopping, Entered, TakesSlot
  <2> QED
    BY <2>1, <2>2
<1>13. SlotHasDriver'
  <2> SUFFICES ASSUME NEW u \in Transfers, IsProcessing(transfer[u]), lock[u].holder = None
               PROVE  \E d \in Tasks : Drives(d, u)'
    BY <1>2 DEF SlotHasDriver, IsProcessing
  <2>1. PICK d \in Tasks : Drives(d, u)
    BY DEF SlotInv, SlotHasDriver
  <2> QED
    BY <1>10, <2>1 DEF Drives, AwaitsLock
<1> QED
  BY <1>2, <1>9, <1>11, <1>12, <1>13 DEF SlotInv, OnlyUploads, PeerTypeOK, peerVars

(* Recording a reason changes no state.                                    *)
LEMMA RecordedType ==
  ASSUME LoopInv
  PROVE  /\ RecordedReasons \in [Transfers -> Transfer]
         /\ \A u \in Transfers : /\ RecordedReasons[u].state = transfer[u].state
                                 /\ RecordedReasons[u].upload = transfer[u].upload
<1>1. \A u \in Transfers : AbortCause(u) \in Reason
  BY DEF AbortCause, Reason
<1>2. ASSUME NEW r \in Transfer, NEW a \in Reason
      PROVE  LET s == [r EXCEPT !.abort_reason = a] IN
             s \in Transfer /\ s.state = r.state /\ s.upload = r.upload
  BY DEF Transfer
<1> QED
  BY <1>1, <1>2 DEF RecordedReasons, LoopInv, LoopTypeOK

(* Every step of the management task keeps the inductive invariant.        *)
LEMMA ManagerStepInv ==
  ASSUME UploadsInv, ManagerStep \/ PauseEnds
  PROVE  UploadsInv'
<1> USE DEF UploadsInv
<1>1. CASE (ManagerWakes \/ ManagerWaits) /\ UNCHANGED peerVars
  <2>1. SlotInv'
    BY <1>1, NoSlot DEF ManagerWakes, ManagerWaits
  <2> QED
    BY <1>1, <2>1, ManagerInv DEF PeerTypeOK, peerVars
<1>2. CASE TransferCycle
  <2>1. left' \in Nat /\ ready # <<>>
    BY <1>2, RunsLeft DEF TransferCycle, CycleBegins
  <2> QED
    BY <1>2, <2>1, StartUploadsInv DEF TransferCycle, LoopInv, LoopTypeOK
<1>3. CASE SharesCycle
  <2>1. left' \in Nat /\ ready # <<>>
    BY <1>3, RunsLeft DEF SharesCycle, CycleBegins
  <2>2. /\ transfer' \in [Transfers -> Transfer] /\ wanted' \in BOOLEAN /\ shares' \in BOOLEAN
        /\ \A u \in Transfers : /\ transfer'[u].state = transfer[u].state
                                /\ transfer'[u].upload = transfer[u].upload
    BY <1>3, RecordedType DEF SharesCycle
  <2> QED
    BY <1>3, <2>1, <2>2, StartUploadsInv, SharesChangedInv DEF SharesCycle
<1>4. CASE SharesCycleEnds
  <2>1. left' \in Nat /\ ready # <<>>
    BY <1>4, RunsLeft DEF SharesCycleEnds
  <2> QED
    BY <1>4, <2>1, StartUploadsInv DEF SharesCycleEnds, LoopInv, LoopTypeOK
<1>5. ASSUME NEW u \in Transfers, SharesOperationStarts(u) PROVE UploadsInv'
  <2>1. /\ Runs(Step(u)) /\ co[u].pc = "start"
        /\ EnterAs(u, co[u].class, co[u].op, co[u].arg, "done")
    BY <1>5 DEF SharesOperationStarts
  <2>2. left' \in Nat /\ ready # <<>> /\ u \in Coroutine /\ u \notin Tasks
    BY <2>1, RunsLeft, LoopAssumption DEF Coroutine
  <2>3. Bound(co[u].class, co[u].op, co[u].arg, "done") /\ co[u].tr \in Transfers
    BY <2>1, <2>2 DEF LoopInv, Works, Alive
  <2>4. Keeps(u, co[u].class, co[u].op) /\ TakesSlot(u, co[u].op, "done")
    BY <2>1, <2>2 DEF Keeps, TakesSlot, SlotInv, Entered
  <2> QED
    BY <1>5, <2>1, <2>2, <2>3, <2>4, EnterInv, EnterSlot
       DEF SharesOperationStarts, PeerTypeOK, peerVars
<1>6. ASSUME NEW u \in Transfers, ShareGathered(u), UNCHANGED peerVars PROVE UploadsInv'
  <2>1. LoopInv' /\ u \in Coroutine /\ u \notin Tasks
    BY <1>6, ShareGatheredInv, LoopAssumption DEF Coroutine
  <2>2. /\ co' = [co EXCEPT ![u] = Idle(None)]
        /\ UNCHANGED <<transfer, lock, handle, rqHandle>>
    BY <1>6 DEF ShareGathered
  <2>3. u \notin {handle'[v] : v \in Transfers}
    BY <2>1, <2>2, LoopAssumption DEF LoopInv, LoopTypeOK, Coroutine
  <2>4. SlotInv'
    BY <2>1, <2>2, <2>3, OneSlot DEF Idle
  <2> QED
    BY <1>6, <2>1, <2>4 DEF PeerTypeOK, peerVars
<1> QED
  BY <1>1, <1>2, <1>3, <1>4, <1>5, <1>6 DEF ManagerStep, PauseEnds

---------------------------------------------------------------------------
(* The world around the manager.                                           *)

(* Requesting a management cycle touches no slot.                          *)
LEMMA RequestInv ==
  ASSUME LoopInv, SlotInv, NEW flag \in BOOLEAN, Request(flag)
  PROVE  LoopInv' /\ SlotInv'
<1>1. ready' \in Seq(Callback)
  BY ScheduledType DEF Request, LoopInv, LoopTypeOK
<1>2. LoopInv'
  BY <1>1 DEF Request, LoopInv, LoopTypeOK, Works, Alive
<1> QED
  BY <1>2, NoSlot DEF Request

(* Calls from outside and changes of status, block list and shares keep    *)
(* the inductive invariant.                                                *)
LEMMA WorldInv ==
  ASSUME UploadsInv, World \/ BlockListNoticed
  PROVE  UploadsInv'
<1> USE DEF UploadsInv
<1>6. ASSUME NEW what, Changes(what) PROVE changes' \in 0..MaxChanges
  BY <1>6, UploadsAssumption DEF Changes, PeerTypeOK
<1>7. Request(TRUE) \/ Request(FALSE) => LoopInv' /\ SlotInv'
  BY RequestInv
<1>1. CASE Call
  <2>1. PICK job \in CallJobs, u \in Transfers, c \in Unused(Calls) : Arrives(c, job, u)
    BY <1>1 DEF Call
  <2>2. job \in Job
    BY UploadsAssumption DEF Jobs, Job
  <2>3. c \in Coroutine /\ c \notin Tasks /\ c \notin Transfers
    BY LoopAssumption DEF Unused, Coroutine
  <2>4. New(u, job).pc = "start" /\ New(u, job).tr = u
    BY DEF New, Idle
  <2>5. /\ co' = [co EXCEPT ![c] = New(u, job)]
        /\ UNCHANGED <<transfer, lock, handle, rqHandle>>
    BY <2>1 DEF Arrives
  <2>6. SlotInv'
    BY <2>3, <2>4, <2>5, OneSlot
  <2> QED
    BY <1>1, <2>1, <2>2, <2>6, ArrivesInv DEF Call, PeerTypeOK, peerVars
<1>2. CASE StatusChanges
  <2>1. status' \in [Users -> {"unknown", "offline", "online"}]
    <3>1. PICK p \in Users, st \in {"offline", "online"} : status' = [status EXCEPT ![p] = st]
      BY <1>2 DEF StatusChanges
    <3> QED
      BY <3>1 DEF PeerTypeOK
  <2> QED
    BY <1>2, <1>6, <1>7, <2>1 DEF StatusChanges, PeerTypeOK
<1>3. CASE BlockListChanges
  <2>1. LoopInv' /\ SlotInv'
    BY <1>3, NoSlot DEF BlockListChanges, loopVars, LoopInv, LoopTypeOK, Works, Alive
  <2>2. blocked' \subseteq Users
    BY <1>3 DEF BlockListChanges, PeerTypeOK
  <2> QED
    BY <1>3, <1>6, <2>1, <2>2 DEF BlockListChanges, PeerTypeOK
<1>4. CASE SharesChange
  <2>1. shared' \subseteq Transfers
    BY <1>4 DEF SharesChange, PeerTypeOK
  <2> QED
    BY <1>4, <1>6, <1>7, <2>1 DEF SharesChange, PeerTypeOK
<1>5. CASE BlockListNoticed
  BY <1>5, RequestInv DEF BlockListNoticed, PeerTypeOK
<1>8. CASE ClientRestarts
  <2>1. /\ LoopInv'
        /\ \A u \in Transfers : /\ transfer'[u].upload = transfer[u].upload
                               /\ ~IsProcessing(transfer'[u])
                               /\ lock'[u].holder = None
                               /\ handle'[u] = None /\ rqHandle'[u] = None
        /\ \A c \in Coroutine : co'[c].pc \in {"idle", "done"}
    BY <1>8, RestartInv DEF ClientRestarts
  <2>2. SlotInv'
    BY <2>1 DEF SlotInv, HandleOwned, OnlyUploads, SlotHasDriver, IsProcessing, Stopping, Entered
  <2>3. PeerTypeOK'
    BY <1>6, <1>8 DEF ClientRestarts, PeerTypeOK
  <2> QED
    BY <2>1, <2>2, <2>3
<1> QED
  BY <1>1, <1>2, <1>3, <1>4, <1>5, <1>8 DEF World

---------------------------------------------------------------------------
(* The theorems.                                                           *)

(* A start from the cache satisfies the inductive invariant.               *)
LEMMA InitInv == Init => UploadsInv
<1> SUFFICES ASSUME Init PROVE UploadsInv
  OBVIOUS
<1>1. PICK known \in SUBSET Transfers :
        /\ CachedStates = {} => known = {}
        /\ listed \in [1..Cardinality(known) -> known]
        /\ \E s \in [known -> CachedStates] :
             transfer = [u \in Transfers |->
               IF u \in known THEN CachedUpload(s[u]) ELSE NewTransfer(TRUE)]
  BY DEF Init
<1>2. listed \in Seq(Transfers)
  <2>1. listed \in Seq(known)
    BY <1>1, OrderType
  <2> QED
    BY <2>1
<1>3. /\ NewTransfer(TRUE) \in Transfer /\ NewTransfer(TRUE).upload
      /\ NewTransfer(TRUE).state = "VIRGIN"
  BY DEF NewTransfer, Transfer, State, Reason, None
<1>4. ASSUME NEW s \in CachedStates
      PROVE  /\ CachedUpload(s) \in Transfer /\ CachedUpload(s).upload
             /\ CachedUpload(s).state = s
  <2>1. s \in State
    BY UploadsAssumption DEF State
  <2> QED
    BY <2>1 DEF CachedUpload, NewTransfer, Transfer, Reason, None
<1>5. /\ transfer \in [Transfers -> Transfer]
      /\ \A u \in Transfers : /\ transfer[u].upload
                              /\ transfer[u].state \notin {"DOWNLOADING", "UPLOADING", "INITIALIZING"}
  <2>1. PICK s \in [known -> CachedStates] :
          transfer = [u \in Transfers |->
            IF u \in known THEN CachedUpload(s[u]) ELSE NewTransfer(TRUE)]
    BY <1>1
  <2>2. \A u \in known :
          /\ CachedUpload(s[u]) \in Transfer /\ CachedUpload(s[u]).upload
          /\ CachedUpload(s[u]).state \notin {"DOWNLOADING", "UPLOADING", "INITIALIZING"}
    BY <1>4, UploadsAssumption
  <2> QED
    BY <1>3, <2>1, <2>2
<1>6. /\ Idle(None) \in CoroutineState /\ Idle(None).pc = "idle"
  BY IdleType DEF Idle
<1>7. LoopTypeOK
  <2>1. ready \in Seq(Callback)
    <3>1. <<Manage>> \in Seq(Callback)
      BY DEF Manage, Callback
    <3>2. ready = <<Manage>> \/ ready = <<>>
      BY DEF Init
    <3>3. <<>> \in Seq(Callback)
      OBVIOUS
    <3> QED
      BY <3>1, <3>2, <3>3
  <2>2. lock \in [Transfers -> [holder : Coroutine \cup {None}, waiters : Seq(Coroutine)]]
    BY DEF Init
  <2>3. /\ handle \in [Transfers -> Tasks \cup {None}] /\ rqHandle \in [Transfers -> Tasks \cup {None}]
        /\ left \in Nat /\ mgmt \in {"get", "sleep", "shares"}
        /\ wanted \in BOOLEAN /\ shares \in BOOLEAN
    BY DEF Init
  <2>4. co \in [Coroutine -> CoroutineState]
    BY <1>6 DEF Init
  <2> QED
    BY <1>2, <1>5, <2>1, <2>2, <2>3, <2>4 DEF LoopTypeOK
<1>8. \A c \in Coroutine : co[c].pc = "idle"
  BY <1>6 DEF Init
<1>9. LoopInv
  BY <1>7, <1>8 DEF LoopInv, Works, Alive
<1>10. PeerTypeOK
  BY UploadsAssumption DEF Init, PeerTypeOK
<1>11. SlotInv
  BY <1>5, <1>8 DEF Init, SlotInv, HandleOwned, OnlyUploads, SlotHasDriver,
     IsProcessing, Stopping, Entered
<1> QED
  BY <1>9, <1>10, <1>11 DEF UploadsInv

(* Every step keeps the inductive invariant.                               *)
LEMMA NextInv == UploadsInv /\ [Next]_vars => UploadsInv'
<1> SUFFICES ASSUME UploadsInv, [Next]_vars PROVE UploadsInv'
  OBVIOUS
<1>1. CASE Next
  BY <1>1, TaskStepInv, CallStepInv, StopStepInv, IOWakesInv, ManagerStepInv, WorldInv DEF Next, LoopStep
<1>2. CASE UNCHANGED vars
  <2>1. LoopInv'
    BY <1>2 DEF UploadsInv, vars, loopVars, LoopInv, LoopTypeOK, Works, Alive
  <2>2. SlotInv'
    BY <1>2, NoSlot DEF UploadsInv, vars, loopVars
  <2> QED
    BY <1>2, <2>1, <2>2 DEF UploadsInv, vars, PeerTypeOK
<1> QED
  BY <1>1, <1>2

(* The inductive invariant holds in every reachable state.                 *)
THEOREM Inductive == Spec => []UploadsInv
BY InitInv, NextInv, PTL DEF Spec

(* Whatever peers, application, block list and shares do, every variable of *)
(* the manager keeps its type.                                             *)
THEOREM TypeCorrect == Spec => []TypeOK
<1>1. UploadsInv => TypeOK
  BY DEF UploadsInv, LoopInv, TypeOK
<1> QED
  BY <1>1, Inductive, PTL

(* _initialize_upload and _upload_file leak no upload slot: an upload that   *)
(* is initialising or uploading always has an operation that is stopping it  *)
(* or a task at a point from which it leaves that state.                    *)
THEOREM NoSlotLeaks == Spec => []SlotHasDriver
<1>1. UploadsInv => SlotHasDriver
  BY DEF UploadsInv, SlotInv
<1> QED
  BY <1>1, Inductive, PTL

---------------------------------------------------------------------------
(* No request is lost.                                                     *)

Served(u) == lock[u].holder # None \/ \E c \in Tasks : Starts(c, u)

(* The next cycle chooses from the states, the list and the status only.   *)
LEMMA ChosenSame ==
  ASSUME LoopInv, UNCHANGED <<listed, status>>,
         \A u \in Transfers : transfer'[u].state = transfer[u].state
  PROVE  Chosen' = Chosen
<1>1. Listed' = Listed /\ Listed \subseteq Transfers
  BY DEF Listed, LoopInv, LoopTypeOK, ToSet
<1>2. Processing' = Processing
  BY <1>1 DEF Processing, IsProcessing
<1>3. InState({"QUEUED"})' = InState({"QUEUED"})
  BY <1>1 DEF InState
<1>4. FreeSlots' = FreeSlots
  BY <1>2 DEF FreeSlots
<1>5. \A u : Position(u)' = Position(u)
  BY DEF Position
<1>6. \A u : RankOf(u)' = RankOf(u)
  BY DEF RankOf
<1>7. Eligible' = Eligible
  BY <1>2, <1>3, <1>5 DEF Eligible
<1>8. \A u, v : Precedes(u, v)' <=> Precedes(u, v)
  BY <1>5, <1>6 DEF Precedes
<1>9. \A u : {v \in Eligible : Precedes(v, u)}' = {v \in Eligible : Precedes(v, u)}
  BY <1>7, <1>8
<1> QED
  BY <1>4, <1>7, <1>9 DEF Chosen

(* A chosen upload is queued.                                              *)
LEMMA ChosenQueued ==
  ASSUME LoopInv, NEW u \in Chosen
  PROVE  u \in Transfers /\ transfer[u].state = "QUEUED"
BY DEF Chosen, Eligible, InState, Listed, LoopInv, LoopTypeOK, ToSet

(* As long as no state changes and no request is made or served, whoever   *)
(* serves a chosen upload has to go on serving it.                         *)
LEMMA StillServed ==
  ASSUME LoopInv, NoLostRequest, UNCHANGED <<listed, status>>,
         ~wanted' => ~wanted, mgmt = "shares" => mgmt' = "shares",
         \A u \in Transfers : transfer'[u].state = transfer[u].state,
         \A u \in Transfers : transfer[u].state = "QUEUED" /\ Served(u) => Served(u)'
  PROVE  NoLostRequest'
<1>1. Chosen' = Chosen
  BY ChosenSame
<1> SUFFICES ASSUME ~wanted', mgmt' # "shares", NEW u \in Chosen PROVE Served(u)'
  BY <1>1 DEF NoLostRequest, Served
<1> QED
  BY ChosenQueued DEF NoLostRequest, Served

(* The task that is to start an upload calls initialize() of QUEUED.       *)
Initializes(c, class, op) ==
  c \in Tasks /\ Starts(c, co[c].tr) /\ transfer[co[c].tr].state = "QUEUED" =>
    class = "QUEUED" /\ op = "initialize"

(* An operation that goes through either moves the upload, and then asks    *)
(* for a cycle, or leaves everything to whoever was to start the upload.    *)
LEMMA SettleServed ==
  ASSUME LoopInv, NoLostRequest, status' = status, NEW c \in Coroutine, co[c].tr \in Transfers,
         NEW class, NEW op, NEW arg, NEW then,
         NEW behind, Settle(c, class, op, arg, then, behind),
         Initializes(c, class, op),
         lock[co[c].tr].holder = None \/ Defines(class, op)
  PROVE  NoLostRequest'
<1>1. CASE Defines(class, op)
  BY <1>1 DEF Settle, NoLostRequest
<1>2. CASE ~Defines(class, op)
  <2> DEFINE end == IF then = "done" THEN Finished(c)
                    ELSE [Idle(co[c].tr) EXCEPT !.job = co[c].job, !.pc = then]
             freed == [holder |-> None, waiters |-> behind]
  <2>1. /\ transfer' = [transfer EXCEPT ![co[c].tr] = transfer[co[c].tr]]
        /\ co' = [co EXCEPT ![c] = end] /\ lock' = [lock EXCEPT ![co[c].tr] = freed]
        /\ wanted' = (wanted \/ FALSE) /\ UNCHANGED <<listed, mgmt>>
    BY <1>2 DEF Settle, Apply
  <2> HIDE DEF end, freed
  <2>2. transfer' = transfer
    BY <2>1 DEF LoopInv, LoopTypeOK
  <2>3. ASSUME NEW u \in Transfers, transfer[u].state = "QUEUED", Served(u) PROVE Served(u)'
    <3>1. CASE u # co[c].tr /\ lock[u].holder # None
      BY <2>1, <3>1 DEF Served, LoopInv, LoopTypeOK
    <3>2. CASE u = co[c].tr \/ lock[u].holder = None
      <4>1. PICK d \in Tasks : Starts(d, u)
        BY <1>2, <2>3, <3>2 DEF Served
      <4>2. d # c
        BY <1>2, <2>3, <4>1 DEF Initializes, Starts, Defines, Overrides
      <4>3. co'[d] = co[d]
        BY <2>1, <4>2 DEF LoopInv, LoopTypeOK, Coroutine
      <4> QED
        BY <4>1, <4>3 DEF Served, Starts, AwaitsLock
    <3> QED
      BY <3>1, <3>2
  <2> QED
    BY <2>1, <2>2, <2>3, StillServed
<1> QED
  BY <1>1, <1>2

(* An operation that cancels the tasks holds the lock.                     *)
LEMMA HoldServed ==
  ASSUME LoopInv, SlotInv, NoLostRequest, status' = status,
         NEW c \in Coroutine, co[c].tr \in Transfers,
         NEW class, NEW op, NEW arg, NEW then, NEW behind, NEW pc,
         NEW waits, waits \subseteq Handles(co[c].tr),
         Hold(c, class, op, arg, then, behind, pc, waits),
         UNCHANGED <<transfer, listed, mgmt, wanted>>
  PROVE  NoLostRequest'
<1>1. /\ \A x \in waits : x \in Tasks /\ co[x].tr = co[c].tr
      /\ \A x \in Coroutine : x # c /\ x \notin waits => co'[x] = co[x]
  BY DEF SlotInv, HandleOwned, Handles, LoopInv, LoopTypeOK, Hold
<1>2. /\ lock'[co[c].tr].holder # None
      /\ \A u \in Transfers : u # co[c].tr => lock'[u] = lock[u]
  BY LoopAssumption DEF Hold, LoopInv, LoopTypeOK
<1>3. ASSUME NEW u \in Transfers, Served(u) PROVE Served(u)'
  BY <1>1, <1>2, <1>3 DEF Served, Starts, AwaitsLock, Coroutine
<1> QED
  BY <1>3, StillServed

(* An operation that has the lock loses no request.                        *)
LEMMA PerformServed ==
  ASSUME LoopInv, SlotInv, NoLostRequest, status' = status,
         NEW c \in Coroutine, co[c].tr \in Transfers,
         NEW class, NEW op, NEW arg, NEW then,
         NEW behind, Perform(c, class, op, arg, then, behind),
         Initializes(c, class, op), lock[co[c].tr].holder = None
  PROVE  NoLostRequest'
<1> DEFINE t == co[c].tr
           stops == Defines(class, op) /\ op \in {"abort", "pause"}
<1>1. CASE stops /\ Handles(t) # {}
  <2>1. Hold(c, class, op, arg, then, behind, "gather", Handles(t))
        /\ UNCHANGED <<transfer, listed, mgmt, wanted>>
    BY <1>1 DEF Perform
  <2> QED
    BY <2>1, HoldServed
<1>2. CASE stops /\ Handles(t) = {} /\ Unlinks(c, op)
  BY <1>2 DEF Unlinks, SlotInv, OnlyUploads
<1>3. CASE ~stops \/ (Handles(t) = {} /\ ~Unlinks(c, op))
  BY <1>3, SettleServed DEF Perform
<1> QED
  BY <1>1, <1>2, <1>3

(* Calling an operation, at a free or a taken lock, loses no request.      *)
LEMMA EnterServed ==
  ASSUME LoopInv, SlotInv, NoLostRequest, status' = status,
         NEW c \in Coroutine, co[c].tr \in Transfers,
         NEW class, NEW op, NEW arg, NEW then,
         EnterAs(c, class, op, arg, then), Initializes(c, class, op)
  PROVE  NoLostRequest'
<1> DEFINE t == co[c].tr
<1>1. CASE lock[t].holder = None /\ lock[t].waiters = <<>>
  BY <1>1, PerformServed DEF EnterAs
<1>2. CASE ~(lock[t].holder = None /\ lock[t].waiters = <<>>)
  <2> DEFINE w == [co[c] EXCEPT !.pc = "lock", !.class = class, !.op = op,
                                !.arg = arg, !.then = then]
  <2>1. /\ lock' = [lock EXCEPT ![t].waiters = Append(@, c)]
        /\ co' = [co EXCEPT ![c] = w]
        /\ UNCHANGED <<transfer, listed, wanted, mgmt>>
    BY <1>2 DEF EnterAs
  <2>2. \A u \in Transfers : lock'[u].holder = lock[u].holder
    BY <2>1 DEF LoopInv, LoopTypeOK
  <2>3. /\ w.tr = t /\ w.pc = "lock" /\ w.class = class /\ w.op = op
        /\ w.cancelled = co[c].cancelled
    BY DEF LoopInv, LoopTypeOK, CoroutineState
  <2> HIDE DEF w
  <2>4. co'[c] = w /\ \A x \in Coroutine : x # c => co'[x] = co[x]
    BY <2>1 DEF LoopInv, LoopTypeOK
  <2>5. ASSUME NEW u \in Transfers, transfer[u].state = "QUEUED", Served(u) PROVE Served(u)'
    <3>1. CASE lock[u].holder # None
      BY <2>2, <3>1 DEF Served
    <3>2. CASE lock[u].holder = None
      <4>1. PICK d \in Tasks : Starts(d, u)
        BY <2>5, <3>2 DEF Served
      <4>2. CASE d # c
        BY <2>4, <4>1, <4>2 DEF Served, Starts, AwaitsLock, Coroutine
      <4>3. CASE d = c
        <5>1. u = t /\ ~co[c].cancelled
          BY <4>1, <4>3 DEF Starts
        <5>2. class = "QUEUED" /\ op = "initialize"
          BY <2>5, <4>1, <4>3, <5>1 DEF Initializes
        <5> QED
          BY <2>3, <2>4, <4>3, <5>1, <5>2 DEF Served, Starts, AwaitsLock
      <4> QED
        BY <4>2, <4>3
    <3> QED
      BY <3>1, <3>2
  <2> QED
    BY <2>1, <2>5, StillServed
<1> QED
  BY <1>1, <1>2

(* A coroutine that was not to start an upload moves on.                   *)
LEMMA OneServed ==
  ASSUME LoopInv, NoLostRequest, UNCHANGED <<transfer, listed, status, mgmt, wanted>>,
         NEW c \in Coroutine, NEW r, co' = [co EXCEPT ![c] = r],
         ~(c \in Tasks /\ Starts(c, co[c].tr)),
         \A u \in Transfers : lock'[u].holder = lock[u].holder
  PROVE  NoLostRequest'
<1>1. \A x \in Coroutine : x # c => co'[x] = co[x]
  BY DEF LoopInv, LoopTypeOK
<1>2. ASSUME NEW u \in Transfers, Served(u) PROVE Served(u)'
  <2>1. \A d \in Tasks : Starts(d, u) => d # c
    BY DEF Starts
  <2> QED
    BY <1>1, <1>2, <2>1 DEF Served, Starts, AwaitsLock, Coroutine
<1> QED
  BY <1>2, StillServed

(* The tasks of the uploads lose no request.                               *)
LEMMA TaskStepServed ==
  ASSUME UploadsInv, NoLostRequest, NEW c \in Tasks, TaskStep(c)
  PROVE  NoLostRequest'
<1> USE DEF UploadsInv
<1> DEFINE t == co[c].tr
<1>1. status' = status
  BY DEF TaskStep, peerVars, Initialize, Requested, Replied, Connected, Sent, Closed, Reported
<1>2. c \in Coroutine /\ (Alive(c) => t \in Transfers)
  BY DEF Coroutine, LoopInv, Works
<1>3. CASE Initialize(c)
  <2>1. co[c].pc = "start" /\ Enter(c, "initialize", None, "request")
    BY <1>3 DEF Initialize, At
  <2>2. Initializes(c, transfer[t].state, "initialize")
    BY DEF Initializes
  <2> QED
    BY <1>1, <1>2, <2>1, <2>2, EnterServed DEF Alive, Enter
<1>4. ASSUME co[c].pc \in IOPoint,
             \/ \E op, arg, then : Enter(c, op, arg, then)
             \/ \E pc : Suspend(c, pc)
             \/ Return(c)
      PROVE  NoLostRequest'
  <2>1. ~Starts(c, t) /\ t \in Transfers
    BY <1>2, <1>4 DEF Starts, AwaitsLock, IOPoint, Alive
  <2>2. ASSUME NEW op, NEW arg, NEW then, Enter(c, op, arg, then) PROVE NoLostRequest'
    BY <1>1, <1>2, <2>1, <2>2, EnterServed DEF Enter, Initializes
  <2>3. ASSUME NEW pc, Suspend(c, pc) PROVE NoLostRequest'
    <3>1. PICK r : co' = [co EXCEPT ![c] = r] /\ UNCHANGED <<transfer, listed, lock, mgmt, wanted>>
      BY <2>3 DEF Suspend
    <3> QED
      BY <1>1, <1>2, <2>1, <3>1, OneServed
  <2>4. CASE Return(c)
    BY <1>1, <1>2, <2>1, <2>4, OneServed DEF Return
  <2> QED
    BY <1>4, <2>2, <2>3, <2>4
<1>5. CASE Requested(c) \/ Replied(c) \/ Connected(c) \/ Sent(c) \/ Closed(c) \/ Reported(c)
  <2>1. co[c].pc \in IOPoint
    BY <1>5 DEF Requested, Replied, Connected, Sent, Closed, Reported, At, IOPoint
  <2> QED
    BY <1>4, <1>5, <2>1 DEF Requested, Replied, Connected, Sent, Closed, Reported
<1>6. CASE Cancelled(c)
  <2>1. co' = [co EXCEPT ![c] = Finished(c)] /\ co[c].cancelled
        /\ UNCHANGED <<transfer, listed, mgmt, wanted>>
    BY <1>6 DEF Cancelled
  <2>2. PICK q : lock' = [lock EXCEPT ![t].waiters = q]
    BY <1>6 DEF Cancelled
  <2>3. \A u \in Transfers : lock'[u].holder = lock[u].holder
    BY <2>2 DEF LoopInv, LoopTypeOK
  <2> QED
    BY <1>1, <1>2, <2>1, <2>3, OneServed DEF Starts
<1>7. CASE DoneCallback(c)
  <2>1. co[c].pc = "done" /\ co' = [co EXCEPT ![c] = Idle(None)]
        /\ UNCHANGED <<transfer, listed, lock, mgmt, wanted>>
    BY <1>7 DEF DoneCallback
  <2> QED
    BY <1>1, <1>2, <2>1, OneServed DEF Starts, AwaitsLock
<1>8. CASE TaskGathered(c)
  <2>1. PICK h \in Calls \cup Transfers : \E r : co' = [co EXCEPT ![h] = r]
    BY <1>8 DEF TaskGathered
  <2>2. PICK r : co' = [co EXCEPT ![h] = r]
    BY <2>1
  <2>3. UNCHANGED <<transfer, listed, lock, mgmt, wanted>>
    BY <1>8 DEF TaskGathered
  <2>4. h \in Coroutine /\ h \notin Tasks
    BY LoopAssumption DEF Coroutine
  <2> QED
    BY <1>1, <2>2, <2>3, <2>4, OneServed
<1> QED
  BY <1>3, <1>5, <1>6, <1>7, <1>8 DEF TaskStep

(* Handlers, calls and operations that are under way lose no request.      *)
LEMMA CallStepServed ==
  ASSUME UploadsInv, NoLostRequest, NEW c \in Coroutine,
         (c \in Calls /\ CallStep(c)) \/ StopStep(c)
  PROVE  NoLostRequest'
<1> USE DEF UploadsInv
<1> DEFINE t == co[c].tr
<1>1. status' = status
  BY DEF CallStep, StopStep, peerVars, PeerAsks, FileLookedUp, UploadAdded
<1>2. c \in Calls => c \notin Tasks
  BY LoopAssumption
<1>3. Alive(c) => t \in Transfers
  BY DEF LoopInv, Works
<1>4. ASSUME c \in Calls, t \in Transfers,
             \/ \E op, arg, then : Enter(c, op, arg, then)
             \/ \E pc : Suspend(c, pc)
             \/ Return(c)
      PROVE  NoLostRequest'
  <2>1. ASSUME NEW op, NEW arg, NEW then, Enter(c, op, arg, then) PROVE NoLostRequest'
    BY <1>1, <1>2, <1>4, <2>1, EnterServed DEF Enter, Initializes
  <2>2. ASSUME NEW pc, Suspend(c, pc) PROVE NoLostRequest'
    <3>1. PICK r : co' = [co EXCEPT ![c] = r] /\ UNCHANGED <<transfer, listed, lock, mgmt, wanted>>
      BY <2>2 DEF Suspend
    <3> QED
      BY <1>1, <1>2, <1>4, <3>1, OneServed
  <2>3. CASE Return(c)
    BY <1>1, <1>2, <1>4, <2>3, OneServed DEF Return
  <2> QED
    BY <1>4, <2>1, <2>2, <2>3
<1>5. CASE c \in Calls /\ (PeerAsks(c) \/ FileLookedUp(c) \/ CallStarts(c))
  <2>1. t \in Transfers
    BY <1>3, <1>5 DEF PeerAsks, FileLookedUp, CallStarts, Handling, Alive
  <2> QED
    BY <1>4, <1>5, <2>1 DEF PeerAsks, FileLookedUp, CallStarts
<1>6. CASE c \in Calls /\ UploadAdded(c)
  <2>1. t \in Transfers
    BY <1>3, <1>6 DEF UploadAdded, Handling, Alive
  <2>2. wanted' = TRUE \/ Return(c)
    BY <1>6 DEF UploadAdded
  <2> QED
    BY <1>4, <1>6, <2>1, <2>2 DEF NoLostRequest
<1>7. CASE c \in Calls /\ Removed(c)
  <2>1. CASE t \in Range(listed)
    BY <1>7, <2>1 DEF Removed, NoLostRequest
  <2>2. CASE t \notin Range(listed)
    BY <1>1, <1>2, <1>7, <2>2, OneServed DEF Removed, Without
  <2> QED
    BY <2>1, <2>2
<1>8. CASE LockGranted(c)
  <2>1. co[c].pc = "lock" /\ lock[t].holder = None /\ t \in Transfers
        /\ Perform(c, co[c].class, co[c].op, co[c].arg, co[c].then, Tail(lock[t].waiters))
    BY <1>3, <1>8 DEF LockGranted, Alive
  <2>2. Initializes(c, co[c].class, co[c].op)
    BY <2>1 DEF Initializes, Starts, AwaitsLock
  <2> QED
    BY <1>1, <2>1, <2>2, PerformServed
<1>9. CASE TasksStopped(c)
  <2>1. co[c].pc = "gather" /\ t \in Transfers /\ Defines(co[c].class, co[c].op)
    BY <1>3, <1>9 DEF TasksStopped, SlotInv, Stopping, Alive
  <2>2. ~Unlinks(c, co[c].op)
    BY <2>1 DEF Unlinks, SlotInv, OnlyUploads
  <2>3. Settle(c, co[c].class, co[c].op, co[c].arg, co[c].then, lock[t].waiters)
    BY <1>9, <2>2 DEF TasksStopped
  <2> QED
    BY <2>1, <2>3 DEF Settle, NoLostRequest
<1> QED
  BY <1>5, <1>6, <1>7, <1>8, <1>9 DEF CallStep, StopStep

(* A cycle creates a task for every upload it chose.                       *)
LEMMA StartUploadsServed ==
  ASSUME UploadsInv, StartUploads,
         \A u \in Transfers : transfer'[u].state = transfer[u].state
  PROVE  NoLostRequest'
<1>1. PICK task \in [Chosen -> Unused(Tasks)] :
        /\ \A u, v \in Chosen : u # v => task[u] # task[v]
        /\ co' = [c \in Coroutine |->
                    IF \E u \in Chosen : task[u] = c
                    THEN New(CHOOSE u \in Chosen : task[u] = c, "upload") ELSE co[c]]
  BY DEF StartUploads
<1>2. Chosen' = Chosen
  BY ChosenSame DEF UploadsInv, StartUploads, peerVars
<1>3. ASSUME NEW u \in Chosen PROVE Served(u)'
  <2>1. task[u] \in Tasks /\ task[u] \in Coroutine
    BY <1>1 DEF Unused, Coroutine
  <2>2. u = CHOOSE v \in Chosen : task[v] = task[u]
    BY <1>1
  <2>3. co'[task[u]] = New(u, "upload")
    BY <1>1, <2>1, <2>2
  <2>4. New(u, "upload").tr = u /\ New(u, "upload").pc = "start" /\ ~New(u, "upload").cancelled
    BY DEF New, Idle
  <2> QED
    BY <2>1, <2>3, <2>4 DEF Served, Starts
<1> QED
  BY <1>2, <1>3 DEF NoLostRequest, Served

(* The management task loses no request.                                   *)
LEMMA ManagerStepServed ==
  ASSUME UploadsInv, NoLostRequest, ManagerStep \/ PauseEnds
  PROVE  NoLostRequest'
<1> USE DEF UploadsInv
<1>1. CASE (ManagerWakes \/ ManagerWaits) /\ UNCHANGED peerVars
  BY <1>1, StillServed DEF ManagerWakes, ManagerWaits, peerVars, Served, Starts, AwaitsLock
<1>2. CASE TransferCycle \/ SharesCycleEnds
  BY <1>2, StartUploadsServed DEF TransferCycle, SharesCycleEnds
<1>3. CASE SharesCycle
  <2>1. \A u \in Transfers : transfer'[u].state = transfer[u].state
    BY <1>3, RecordedType DEF SharesCycle
  <2> QED
    BY <1>3, <2>1, StartUploadsServed DEF SharesCycle, SharesChanged, NoLostRequest
<1>4. ASSUME NEW u \in Transfers, SharesOperationStarts(u) PROVE NoLostRequest'
  <2>1. /\ co[u].pc = "start" /\ EnterAs(u, co[u].class, co[u].op, co[u].arg, "done")
        /\ status' = status
    BY <1>4 DEF SharesOperationStarts, peerVars
  <2>2. u \in Coroutine /\ u \notin Tasks /\ co[u].tr \in Transfers
    BY <2>1, LoopAssumption DEF Coroutine, LoopInv, Works, Alive
  <2> QED
    BY <2>1, <2>2, EnterServed DEF Initializes
<1>5. ASSUME NEW u \in Transfers, ShareGathered(u), UNCHANGED peerVars PROVE NoLostRequest'
  <2>1. u \in Coroutine /\ u \notin Tasks
    BY LoopAssumption DEF Coroutine
  <2> QED
    BY <1>5, <2>1, OneServed DEF ShareGathered, peerVars
<1> QED
  BY <1>1, <1>2, <1>3, <1>4, <1>5 DEF ManagerStep, PauseEnds

(* Calls, I/O and changes around the manager lose no request.              *)
LEMMA WorldServed ==
  ASSUME UploadsInv, NoLostRequest,
         World \/ BlockListNoticed \/ \E c \in Coroutine : IOWakes(c)
  PROVE  NoLostRequest'
<1> USE DEF UploadsInv
<1>1. CASE Call
  <2>1. PICK job \in CallJobs, u \in Transfers, c \in Unused(Calls) : Arrives(c, job, u)
    BY <1>1 DEF Call
  <2>2. c \in Coroutine /\ c \notin Tasks
    BY LoopAssumption DEF Unused, Coroutine
  <2> QED
    BY <1>1, <2>1, <2>2, OneServed DEF Arrives, Call, peerVars
<1>2. CASE StatusChanges \/ SharesChange \/ BlockListNoticed
  BY <1>2 DEF StatusChanges, SharesChange, BlockListNoticed, Request, NoLostRequest
<1>3. CASE BlockListChanges
  BY <1>3, StillServed DEF BlockListChanges, loopVars, Served, Starts, AwaitsLock
<1>4. CASE ClientRestarts
  <2>1. CASE listed # <<>>
    BY <1>4, <2>1 DEF ClientRestarts, Restart, NoLostRequest
  <2>2. CASE listed = <<>>
    <3>1. Listed = {}
      BY <2>2 DEF Listed, ToSet
    <3>2. Listed' = {}
      BY <1>4, <2>2, <3>1 DEF ClientRestarts, Restart, Listed, ToSet
    <3>3. Chosen' = {}
      BY <3>2 DEF Chosen, Eligible, InState
    <3> QED
      BY <3>3 DEF NoLostRequest
  <2> QED
    BY <2>1, <2>2
<1>5. ASSUME NEW c \in Coroutine, IOWakes(c) PROVE NoLostRequest'
  BY <1>5, StillServed DEF IOWakes, Wakes, peerVars, Served, Starts, AwaitsLock
<1> QED
  BY <1>1, <1>2, <1>3, <1>4, <1>5 DEF World

(* Every step keeps the promise that no request is lost.                   *)
LEMMA ServedInv ==
  /\ Init => NoLostRequest
  /\ UploadsInv /\ NoLostRequest /\ [Next]_vars => NoLostRequest'
<1>1. ASSUME Init PROVE NoLostRequest
  <2>1. ~wanted => listed = <<>>
    BY <1>1 DEF Init
  <2>2. ~wanted => Listed = {}
    BY <2>1 DEF Listed, ToSet
  <2>3. ~wanted => Chosen = {}
    BY <2>2 DEF Chosen, Eligible, InState
  <2> QED
    BY <2>3 DEF NoLostRequest
<1>2. ASSUME UploadsInv, NoLostRequest, Next PROVE NoLostRequest'
  <2>1. \A c \in Calls : c \in Coroutine
    BY DEF Coroutine
  <2> QED
    BY <1>2, <2>1, TaskStepServed, CallStepServed, ManagerStepServed, WorldServed DEF Next, LoopStep
<1>3. ASSUME UploadsInv, NoLostRequest, UNCHANGED vars PROVE NoLostRequest'
  BY <1>3, StillServed DEF UploadsInv, vars, loopVars, Served, Starts, AwaitsLock
<1> QED
  BY <1>1, <1>2, <1>3

(* The management task never sleeps over an upload it could start: unless a *)
(* cycle is requested, every upload the next cycle would choose is being    *)
(* started already, or an operation that will ask for a cycle holds its     *)
(* lock.                                                                   *)
THEOREM NoRequestLost == Spec => []NoLostRequest
BY Inductive, ServedInv, PTL DEF Spec

---------------------------------------------------------------------------
(* The choice of the uploads to start.                                     *)

(* Listed uploads are ordered by rank and place in the list.               *)
LEMMA PrecedesOrders ==
  ASSUME LoopInv, NEW u \in Listed, NEW v \in Listed
  PROVE  /\ ~Precedes(u, u)
         /\ u # v => Precedes(u, v) \/ Precedes(v, u)
         /\ \A w \in Listed : Precedes(w, u) /\ Precedes(u, v) => Precedes(w, v)
         /\ Position(u) = Position(v) => u = v
<1>1. \A w \in Listed : Position(w) \in Nat /\ listed[Position(w)] = w
  <2> TAKE w \in Listed
  <2>1. \E i \in DOMAIN listed : listed[i] = w
    BY DEF Listed, ToSet
  <2>2. DOMAIN listed \subseteq Nat
    BY DEF LoopInv, LoopTypeOK
  <2> QED
    BY <2>1, <2>2 DEF Position
<1>2. \A w \in Listed : RankOf(w) \in Nat
  BY UploadsAssumption DEF RankOf, Listed, ToSet, LoopInv, LoopTypeOK
<1>3. Position(u) = Position(v) => u = v
  BY <1>1
<1> QED
  BY <1>1, <1>2, <1>3 DEF Precedes

(* What is chosen is listed, and there are finitely many uploads.          *)
LEMMA ChosenFinite ==
  ASSUME LoopInv
  PROVE  /\ Chosen \subseteq Eligible /\ Eligible \subseteq Listed
         /\ Listed \subseteq Transfers /\ Processing \subseteq Listed
         /\ \A S \in SUBSET Transfers : IsFiniteSet(S) /\ Cardinality(S) \in Nat
<1>1. \A S \in SUBSET Transfers : IsFiniteSet(S)
  BY LoopAssumption, FS_Subset
<1>2. \A S \in SUBSET Transfers : Cardinality(S) \in Nat
  BY <1>1, FS_CardinalityType
<1>3. Listed \subseteq Transfers
  BY DEF Listed, ToSet, LoopInv, LoopTypeOK
<1> QED
  BY <1>1, <1>2, <1>3 DEF Chosen, Eligible, InState, Processing

(* No more uploads are chosen than there are free slots: each one takes the *)
(* number of those that precede it.                                        *)
LEMMA ChosenFew ==
  ASSUME LoopInv
  PROVE  FreeSlots \in Nat /\ Cardinality(Chosen) <= FreeSlots
<1> DEFINE Before(u) == {v \in Eligible : Precedes(v, u)}
           place == [u \in Chosen |-> Cardinality(Before(u))]
<1>1. FreeSlots \in Nat
  <2>1. Cardinality(Processing) \in Nat
    BY ChosenFinite
  <2> QED
    BY <2>1, UploadsAssumption DEF FreeSlots
<1>2. \A u \in Chosen : Cardinality(Before(u)) < FreeSlots
  BY DEF Chosen
<1>3. \A u : Before(u) \subseteq Transfers
  BY ChosenFinite
<1>4. place \in [Chosen -> 0..(FreeSlots - 1)]
  <2>1. ASSUME NEW u \in Chosen PROVE Cardinality(Before(u)) \in 0..(FreeSlots - 1)
    <3> HIDE DEF Before
    <3>1. Cardinality(Before(u)) \in Nat
      BY <1>3, ChosenFinite
    <3> QED
      BY <1>1, <1>2, <3>1
  <2> QED
    BY <2>1
<1>5. ASSUME NEW u \in Chosen, NEW v \in Chosen, Precedes(u, v)
      PROVE  Cardinality(Before(u)) # Cardinality(Before(v))
  <2>1. u \in Eligible /\ v \in Eligible /\ u \in Listed /\ v \in Listed
    BY ChosenFinite
  <2>2. \A w \in Eligible : w \in Listed
    BY ChosenFinite
  <2>3. Before(u) \subseteq Before(v)
    BY <1>5, <2>1, <2>2, PrecedesOrders
  <2>4. u \in Before(v) /\ u \notin Before(u)
    BY <1>5, <2>1, PrecedesOrders
  <2>5. IsFiniteSet(Before(v))
    BY <1>3, ChosenFinite
  <2> HIDE DEF Before
  <2> QED
    BY <2>3, <2>4, <2>5, FS_Subset
<1>6. ASSUME NEW u \in Chosen, NEW v \in Chosen, u # v PROVE place[u] # place[v]
  <2>1. Precedes(u, v) \/ Precedes(v, u)
    BY <1>6, ChosenFinite, PrecedesOrders
  <2> HIDE DEF Before
  <2> QED
    BY <1>5, <2>1
<1> HIDE DEF place
<1>7. place \in Injection(Chosen, 0..(FreeSlots - 1))
  BY <1>4, <1>6 DEF Injection, IsInjective
<1>8. /\ IsFiniteSet(0..(FreeSlots - 1))
      /\ Cardinality(0..(FreeSlots - 1)) = FreeSlots
  <2>1. 0 \in Int /\ FreeSlots - 1 \in Int
    BY <1>1
  <2> QED
    BY <1>1, <2>1, FS_Interval
<1>9. Cardinality(Chosen) <= Cardinality(0..(FreeSlots - 1))
  BY <1>7, <1>8, FS_Injection
<1> QED
  BY <1>1, <1>8, <1>9

(* The order of priority names every chosen upload.                        *)
LEMMA OrderCovers ==
  ASSUME LoopInv, NEW order \in [1..Cardinality(Chosen) -> Chosen],
         \A i, j \in DOMAIN order : i < j => Precedes(order[i], order[j])
  PROVE  \A u \in Chosen : \E i \in DOMAIN order : order[i] = u
<1> DEFINE n == Cardinality(Chosen)
<1>1. IsFiniteSet(Chosen) /\ n \in Nat
  BY ChosenFinite
<1>2. IsFiniteSet(1..n) /\ Cardinality(1..n) = n
  <2>1. 1 \in Int /\ n \in Int
    BY <1>1
  <2> HIDE DEF n
  <2> QED
    BY <1>1, <2>1, FS_Interval
<1>3. ASSUME NEW i \in 1..n, NEW j \in 1..n, i # j PROVE order[i] # order[j]
  <2>1. i < j \/ j < i
    BY <1>1, <1>3
  <2>2. order[i] \in Listed
    BY ChosenFinite
  <2> QED
    BY <2>1, <2>2, PrecedesOrders
<1>4. order \in Injection(1..n, Chosen)
  BY <1>3 DEF Injection, IsInjective
<1>5. order \in Surjection(1..n, Chosen)
  BY <1>1, <1>2, <1>4, FS_Injection
<1> QED
  BY <1>5 DEF Surjection

(* Two chosen uploads are for two users, neither of whom is being served.  *)
LEMMA ChosenApart ==
  ASSUME LoopInv, NEW u \in Chosen
  PROVE  /\ \A v \in Chosen : UserOf[u] = UserOf[v] => u = v
         /\ \A v \in Processing : UserOf[u] # UserOf[v]
<1>1. ASSUME NEW v \in Chosen, UserOf[u] = UserOf[v] PROVE u = v
  <2>1. u \in Listed /\ v \in Listed /\ u \in Eligible /\ v \in Eligible
    BY ChosenFinite
  <2>2. Position(u) <= Position(v) /\ Position(v) <= Position(u)
    BY <1>1, <2>1 DEF Eligible
  <2>3. Position(u) \in Nat /\ Position(v) \in Nat
    <3>1. DOMAIN listed \subseteq Nat
      BY DEF LoopInv, LoopTypeOK
    <3> QED
      BY <2>1, <3>1 DEF Position, Listed, ToSet
  <2> QED
    BY <2>1, <2>2, <2>3, PrecedesOrders
<1>2. \A v \in Processing : UserOf[u] # UserOf[v]
  BY ChosenFinite DEF Eligible
<1> QED
  BY <1>1, <1>2

---------------------------------------------------------------------------
(* The limit of the slots.                                                 *)

(* Nobody aborts, pauses, removes, blocks or unshares.                     *)
Undisturbed ==
  /\ CallJobs \cap {"abort", "pause", "remove"} = {}
  /\ Changeable \cap {"blocked", "shared"} = {}

(* Then no operation ever holds a lock across a callback, no task is        *)
(* cancelled and no shares cycle runs.                                     *)
Calm ==
  /\ \A u \in Transfers : /\ lock[u].holder = None /\ lock[u].waiters = <<>>
                          /\ co[u].pc = "idle"
  /\ \A c \in Coroutine : /\ co[c].pc \notin {"lock", "gather", "unlink", "removing"}
                          /\ ~co[c].cancelled
  /\ \A c \in Calls : co[c].job \notin {"abort", "pause", "remove"}
  /\ ~shares /\ noticed /\ mgmt # "shares"

(* What the FIFO q of callbacks may hold: at most one callback of the       *)
(* management task, and none while it waits in get() with nothing to do.   *)
NoManage(q) == \A i \in DOMAIN q : q[i] # Manage
Plain(q)    == \A i \in DOMAIN q : q[i].cb \in {"step", "done"}
Orderly(q)  ==
  /\ \A i \in DOMAIN q : q[i].cb # "gathered"
  /\ \A i, j \in DOMAIN q : q[i] = Manage /\ q[j] = Manage => i = j

(* Task c runs before the management task does.                            *)
BeforeManage(c, q) ==
  \E i \in DOMAIN q : q[i] = Step(c) /\ \A j \in 1..i : q[j] # Manage

FifoInv ==
  /\ Orderly(ready)
  /\ mgmt = "get" /\ ~wanted => NoManage(ready)
  /\ \A c \in Tasks : co[c].pc = "start" => BeforeManage(c, ready)

(* The uploads that have a slot, and those that are about to take one.     *)
Claimed ==
  {u \in Transfers : \/ IsProcessing(transfer[u])
                     \/ \E c \in Tasks : co[c].tr = u /\ co[c].pc = "start"}

ClaimInv ==
  /\ Claimed \subseteq Listed
  /\ Cardinality(Claimed) <= Slots
  /\ \A u, v \in Claimed : UserOf[u] = UserOf[v] => u = v

CalmInv == Calm /\ FifoInv /\ ClaimInv

(* Callbacks that join the FIFO come last.                                 *)
LEMMA Joins ==
  ASSUME NEW q \in Seq(Callback), NEW e \in Seq(Callback)
  PROVE  /\ q \o e \in Seq(Callback)
         /\ \A c : BeforeManage(c, q) => BeforeManage(c, q \o e)
         /\ Orderly(q) /\ Plain(e) => Orderly(q \o e)
         /\ NoManage(q) /\ Plain(e) => NoManage(q \o e)
         /\ Orderly(q) /\ NoManage(q) => Orderly(q \o <<Manage>>)
<1>1. /\ q \o e \in Seq(Callback) /\ Len(q \o e) = Len(q) + Len(e)
      /\ \A i \in 1..Len(q) : (q \o e)[i] = q[i]
      /\ \A i \in 1..(Len(q) + Len(e)) :
           i > Len(q) => i - Len(q) \in 1..Len(e) /\ (q \o e)[i] = e[i - Len(q)]
  OBVIOUS
<1>2. Len(q) \in Nat /\ Len(e) \in Nat /\ DOMAIN q = 1..Len(q) /\ DOMAIN e = 1..Len(e)
      /\ DOMAIN (q \o e) = 1..(Len(q) + Len(e))
  BY <1>1
<1>3. ASSUME NEW c, BeforeManage(c, q) PROVE BeforeManage(c, q \o e)
  <2>1. PICK i \in DOMAIN q : q[i] = Step(c) /\ \A j \in 1..i : q[j] # Manage
    BY <1>3 DEF BeforeManage
  <2>2. i \in DOMAIN (q \o e) /\ \A j \in 1..i : (q \o e)[j] = q[j]
    BY <1>1, <1>2
  <2>3. i \in 1..i
    BY <1>2
  <2> QED
    BY <2>1, <2>2, <2>3 DEF BeforeManage
<1>4. ASSUME Plain(e)
      PROVE  /\ Orderly(q) => Orderly(q \o e)
             /\ NoManage(q) => NoManage(q \o e)
  <2> DEFINE s == q \o e
  <2>1. \A i \in DOMAIN s : \/ i \in DOMAIN q /\ s[i] = q[i]
                            \/ s[i] # Manage /\ s[i].cb # "gathered"
    <3> TAKE i \in DOMAIN s
    <3>1. CASE i <= Len(q)
      BY <1>1, <1>2, <3>1
    <3>2. CASE i > Len(q)
      <4>1. i - Len(q) \in DOMAIN e /\ s[i] = e[i - Len(q)]
        BY <1>1, <1>2, <3>2
      <4> QED
        BY <1>4, <4>1 DEF Plain, Manage
    <3> QED
      BY <1>2, <3>1, <3>2
  <2> HIDE DEF s
  <2>2. /\ Orderly(q) => Orderly(s)
        /\ NoManage(q) => NoManage(s)
    BY <2>1 DEF Orderly, NoManage
  <2> QED
    BY <2>2 DEF s
<1>5. ASSUME Orderly(q), NoManage(q) PROVE Orderly(q \o <<Manage>>)
  <2>1. /\ DOMAIN (q \o <<Manage>>) = 1..(Len(q) + 1)
        /\ \A i \in 1..Len(q) : (q \o <<Manage>>)[i] = q[i]
        /\ (q \o <<Manage>>)[Len(q) + 1] = Manage
    OBVIOUS
  <2>2. Manage.cb # "gathered"
    BY DEF Manage
  <2> QED
    BY <1>2, <1>5, <2>1, <2>2 DEF Orderly, NoManage
<1> QED
  BY <1>1, <1>3, <1>4, <1>5

(* The callback that runs leaves the FIFO.                                 *)
LEMMA Leaves ==
  ASSUME NEW q \in Seq(Callback), q # <<>>
  PROVE  /\ Tail(q) \in Seq(Callback)
         /\ \A c : BeforeManage(c, q) /\ Head(q) # Step(c) => BeforeManage(c, Tail(q))
         /\ \A c : BeforeManage(c, q) => Head(q) # Manage
         /\ Orderly(q) => Orderly(Tail(q))
         /\ NoManage(q) => NoManage(Tail(q))
         /\ Orderly(q) /\ Head(q) = Manage => NoManage(Tail(q))
<1>1. /\ Len(q) \in Nat /\ Len(q) > 0 /\ DOMAIN q = 1..Len(q) /\ Head(q) = q[1]
      /\ Tail(q) \in Seq(Callback) /\ DOMAIN Tail(q) = 1..(Len(q) - 1)
      /\ \A i \in 1..(Len(q) - 1) : Tail(q)[i] = q[i + 1]
  OBVIOUS
<1>2. ASSUME NEW c, BeforeManage(c, q)
      PROVE  /\ Head(q) # Manage
             /\ Head(q) # Step(c) => BeforeManage(c, Tail(q))
  <2>1. PICK i \in DOMAIN q : q[i] = Step(c) /\ \A j \in 1..i : q[j] # Manage
    BY <1>2 DEF BeforeManage
  <2>2. i \in 1..Len(q) /\ 1 \in 1..i
    BY <1>1, <2>1
  <2>3. Head(q) # Manage
    BY <1>1, <2>1, <2>2
  <2>4. ASSUME Head(q) # Step(c) PROVE BeforeManage(c, Tail(q))
    <3>1. i - 1 \in 1..(Len(q) - 1) /\ (i - 1) + 1 = i
      BY <1>1, <2>1, <2>2, <2>4
    <3>2. Tail(q)[i - 1] = Step(c)
      BY <1>1, <2>1, <3>1
    <3>3. ASSUME NEW j \in 1..(i - 1) PROVE Tail(q)[j] # Manage
      <4>1. j \in 1..(Len(q) - 1) /\ j + 1 \in 1..i
        BY <1>1, <2>2
      <4> QED
        BY <1>1, <2>1, <4>1
    <3> QED
      BY <1>1, <3>1, <3>2, <3>3 DEF BeforeManage
  <2> QED
    BY <2>3, <2>4
<1>3. \A i \in 1..(Len(q) - 1) : i + 1 \in 1..Len(q) /\ i + 1 # 1
  BY <1>1
<1>4. \A i, j \in 1..(Len(q) - 1) : i + 1 = j + 1 => i = j
  BY <1>1
<1>5. Orderly(q) => Orderly(Tail(q))
  BY <1>1, <1>3, <1>4 DEF Orderly
<1>6. NoManage(q) => NoManage(Tail(q))
  BY <1>1, <1>3 DEF NoManage
<1>7. ASSUME Orderly(q), Head(q) = Manage PROVE NoManage(Tail(q))
  <2>1. q[1] = Manage /\ 1 \in 1..Len(q)
    BY <1>1, <1>7
  <2> QED
    BY <1>1, <1>3, <1>7, <2>1 DEF Orderly, NoManage
<1> QED
  BY <1>1, <1>2, <1>5, <1>6, <1>7

(* A request for a cycle wakes the management task once.                   *)
LEMMA WakesOnce ==
  ASSUME NEW q \in Seq(Callback), Orderly(q), mgmt = "get" /\ ~wanted => NoManage(q)
  PROVE  q \o WakeManager \in Seq(Callback) /\ Orderly(q \o WakeManager)
<1>1. <<Manage>> \in Seq(Callback) /\ <<>> \in Seq(Callback)
  BY DEF Manage, Callback
<1>2. Plain(<<>>)
  BY DEF Plain
<1> QED
  BY <1>1, <1>2, Joins DEF WakeManager

(* A callback other than the management task's runs; what it schedules, and *)
(* a request for a cycle before that, joins the FIFO.                       *)
LEMMA FifoRuns ==
  ASSUME LoopInv, FifoInv, NEW cb, Runs(cb),
         NEW moved \in BOOLEAN, NEW e \in Seq(Callback), Plain(e),
         ready' = (Rest \o (IF moved THEN WakeManager ELSE <<>>)) \o e,
         wanted' = (wanted \/ moved), mgmt' = mgmt,
         \A c \in Tasks : co'[c].pc = "start" => co[c].pc = "start" /\ cb # Step(c)
  PROVE  FifoInv'
<1>1. /\ ready \in Seq(Callback) /\ ready # <<>> /\ Head(ready) = cb /\ wanted \in BOOLEAN
      /\ Rest = Tail(ready)
  BY DEF Runs, Rest, LoopInv, LoopTypeOK
<1>2. /\ Rest \in Seq(Callback) /\ Orderly(Rest)
      /\ mgmt = "get" /\ ~wanted => NoManage(Rest)
      /\ \A c \in Tasks : co'[c].pc = "start" => BeforeManage(c, Rest)
  BY <1>1, Leaves DEF FifoInv
<1> DEFINE q == Rest \o (IF moved THEN WakeManager ELSE <<>>)
<1>3. /\ q \in Seq(Callback) /\ Orderly(q)
      /\ mgmt = "get" /\ ~wanted' => NoManage(q)
      /\ \A c \in Tasks : co'[c].pc = "start" => BeforeManage(c, q)
  <2>1. CASE moved
    <3>1. WakeManager \in Seq(Callback)
      BY ScheduledType DEF LoopInv
    <3>2. q = Rest \o WakeManager
      BY <2>1
    <3> HIDE DEF q
    <3> QED
      BY <1>1, <1>2, <2>1, <3>1, <3>2, WakesOnce, Joins
  <2>2. CASE ~moved
    <3>1. q = Rest
      BY <1>2, <2>2
    <3> QED
      BY <1>1, <1>2, <2>2, <3>1
  <2> QED
    BY <2>1, <2>2
<1>4. ready' = q \o e
  OBVIOUS
<1> HIDE DEF q
<1>5. /\ Orderly(q \o e) /\ (NoManage(q) => NoManage(q \o e))
      /\ \A c \in Tasks : co'[c].pc = "start" => BeforeManage(c, q \o e)
  BY <1>3, Joins
<1> QED
  BY <1>3, <1>4, <1>5 DEF FifoInv

(* A callback from outside joins the FIFO.                                 *)
LEMMA FifoJoined ==
  ASSUME LoopInv, FifoInv, NEW cb \in Callback, cb.cb = "step", ready' = Append(ready, cb),
         UNCHANGED <<wanted, mgmt>>,
         \A c \in Tasks : co'[c].pc = "start" => co[c].pc = "start"
  PROVE  FifoInv'
<1>1. ready \in Seq(Callback) /\ ready' = ready \o <<cb>>
  BY DEF LoopInv, LoopTypeOK
<1>2. <<cb>> \in Seq(Callback) /\ Plain(<<cb>>)
  BY DEF Plain
<1>3. /\ Orderly(ready \o <<cb>>) /\ (NoManage(ready) => NoManage(ready \o <<cb>>))
      /\ \A c \in Tasks : co'[c].pc = "start" => BeforeManage(c, ready \o <<cb>>)
  BY <1>1, <1>2, Joins DEF FifoInv
<1> QED
  BY <1>1, <1>3 DEF FifoInv

(* As long as no task is created nobody claims a slot anew.                *)
LEMMA ClaimShrinks ==
  ASSUME LoopInv, ClaimInv, Claimed' \subseteq Claimed, Listed \subseteq Listed'
  PROVE  ClaimInv'
<1>1. Claimed \subseteq Transfers
  BY DEF Claimed
<1>2. /\ IsFiniteSet(Claimed) /\ Cardinality(Claimed) \in Nat
      /\ Claimed' \subseteq Transfers /\ Cardinality(Claimed') \in Nat
  BY <1>1, ChosenFinite
<1>3. Cardinality(Claimed') <= Cardinality(Claimed)
  BY <1>2, FS_Subset
<1>4. Cardinality(Claimed') <= Slots
  BY <1>2, <1>3, UploadsAssumption DEF ClaimInv
<1> QED
  BY <1>4 DEF ClaimInv

(* What ends schedules nothing but its done-callback.                      *)
LEMMA EndsPlain ==
  ASSUME LoopInv, Calm, NEW c \in Coroutine \ Transfers, co[c].tr \in Transfers
  PROVE  Ended(c) \in Seq(Callback) /\ Plain(Ended(c))
<1>1. Ended(c) = (IF c \in Tasks THEN <<Done(c)>> \o <<>> ELSE <<>>)
  BY DEF Ended, Calm
<1>2. Done(c) \in Callback /\ Done(c).cb = "done" /\ <<Done(c)>> \o <<>> = <<Done(c)>>
  BY DEF Done, Callback
<1> QED
  BY <1>1, <1>2 DEF Plain

(* A coroutine moves on to a point where it holds nothing.                 *)
LEMMA MovesCalm ==
  ASSUME LoopInv, Calm, NEW c \in Coroutine \ Transfers, NEW r,
         co' = [co EXCEPT ![c] = r],
         r.pc \notin {"lock", "gather", "unlink", "removing"}, ~r.cancelled,
         c \in Calls => r.job \notin {"abort", "pause", "remove"},
         \A u \in Transfers : lock'[u].holder = None /\ lock'[u].waiters = <<>>,
         UNCHANGED <<shares, noticed, mgmt>>
  PROVE  Calm'
<1>1. co'[c] = r /\ \A x \in Coroutine : x # c => co'[x] = co[x]
  BY DEF LoopInv, LoopTypeOK
<1>2. Calls \subseteq Coroutine /\ Transfers \subseteq Coroutine
  BY DEF Coroutine
<1> QED
  BY <1>1, <1>2 DEF Calm

(* An operation at a free lock goes through at once.                       *)
LEMMA EnterSettles ==
  ASSUME Calm, NEW c, co[c].tr \in Transfers, NEW class, NEW op, NEW arg, NEW then,
         EnterAs(c, class, op, arg, then), op \notin {"abort", "pause"}
  PROVE  Settle(c, class, op, arg, then, <<>>)
BY DEF Calm, EnterAs, Perform

(* An operation claims no slot that its task had not claimed before.       *)
LEMMA SettleCalm ==
  ASSUME LoopInv, OnlyUploads, CalmInv, NEW c \in Coroutine \ Transfers, co[c].tr \in Transfers,
         NEW class, NEW op, NEW arg, NEW then, Bound(class, op, arg, then),
         Runs(Step(c)), EnterAs(c, class, op, arg, then), op \notin {"abort", "pause"},
         then # "removing",
         Defines(class, op) /\ op \in {"initialize", "start_transferring"} => co[c].tr \in Claimed,
         UNCHANGED noticed
  PROVE  CalmInv'
<1> USE DEF CalmInv
<1> DEFINE t == co[c].tr
           moved == Defines(class, op)
           end == IF then = "done" THEN Finished(c)
                  ELSE [Idle(t) EXCEPT !.job = co[c].job, !.pc = then]
           r == Apply(transfer[t], class, op, arg)
           freed == [holder |-> None, waiters |-> <<>>]
           e == IF then = "done" THEN Ended(c) ELSE <<>>
<1>1. /\ end.pc = then /\ ~end.cancelled /\ end.job \in {co[c].job, None}
      /\ c \in Tasks => end.tr = t
  BY LoopAssumption DEF Finished, Idle
<1>2. Settle(c, class, op, arg, then, <<>>)
  BY EnterSettles
<1>3. /\ co' = [co EXCEPT ![c] = end]
      /\ transfer' = [transfer EXCEPT ![t] = r] /\ lock' = [lock EXCEPT ![t] = freed]
      /\ wanted' = (wanted \/ moved)
      /\ ready' = ((Rest \o (IF moved THEN WakeManager ELSE <<>>)) \o <<>>) \o e
      /\ UNCHANGED <<listed, mgmt, shares>>
  BY <1>2 DEF Settle
<1>4. then \notin {"idle", "start", "lock", "gather", "unlink"}
  BY DEF Bound, IOPoint, Immediate
<1>5. /\ r.upload = transfer[t].upload
      /\ r.state = IF moved THEN Target(transfer[t].upload, op) ELSE transfer[t].state
  BY ApplyType DEF Bound, LoopInv, LoopTypeOK
<1>6. e \in Seq(Callback) /\ Plain(e)
  BY EndsPlain DEF Plain
<1>7. moved \in BOOLEAN /\ None \notin {"abort", "pause", "remove"}
  BY DEF Defines, None
<1>8. (Rest \o (IF moved THEN WakeManager ELSE <<>>)) \o <<>> = Rest \o (IF moved THEN WakeManager ELSE <<>>)
  <2>1. Rest \in Seq(Callback) /\ WakeManager \in Seq(Callback)
    BY ScheduledType, RunsLeft DEF LoopInv
  <2> QED
    BY <2>1
<1> HIDE DEF end, e, moved, freed
<1>9. co'[c] = end /\ \A x \in Coroutine : x # c => co'[x] = co[x]
  BY <1>3 DEF LoopInv, LoopTypeOK
<1>10. \A x \in Tasks : co'[x].pc = "start" => co[x].pc = "start" /\ x # c /\ co'[x] = co[x]
  BY <1>1, <1>4, <1>9 DEF Coroutine
<1>11. \A x : x # c => Step(x) # Step(c)
  BY DEF Step
<1>12. FifoInv'
  BY <1>3, <1>6, <1>7, <1>8, <1>10, <1>11, FifoRuns
<1>13. \A u \in Transfers : lock'[u].holder = None /\ lock'[u].waiters = <<>>
  BY <1>3 DEF Calm, LoopInv, LoopTypeOK, freed
<1>14. c \in Calls => end.job \notin {"abort", "pause", "remove"}
  BY <1>1, <1>7 DEF Calm
<1>15. Calm'
  BY <1>1, <1>3, <1>4, <1>13, <1>14, MovesCalm
<1>16. r.state \in {"INITIALIZING", "UPLOADING", "DOWNLOADING"} => t \in Claimed
  <2>1. CASE moved
    <3>1. op \in Operation /\ transfer[t].upload
      BY DEF Bound, OnlyUploads
    <3>2. op \in {"initialize", "start_transferring"}
          \/ r.state \notin {"INITIALIZING", "UPLOADING", "DOWNLOADING"}
      BY <1>5, <2>1, <3>1 DEF Target, Operation
    <3> QED
      BY <2>1, <3>2 DEF moved
  <2>2. CASE ~moved
    BY <1>5, <2>2 DEF Claimed, IsProcessing
  <2> QED
    BY <2>1, <2>2
<1> HIDE DEF r
<1>17. transfer'[t] = r /\ \A u \in Transfers : u # t => transfer'[u] = transfer[u]
  BY <1>3 DEF LoopInv, LoopTypeOK
<1>18. Claimed' \subseteq Claimed
  <2> SUFFICES ASSUME NEW u \in Transfers,
                      IsProcessing(transfer'[u]) \/ \E x \in Tasks : co'[x].tr = u /\ co'[x].pc = "start"
               PROVE  u \in Claimed
    BY DEF Claimed, IsProcessing
  <2>1. CASE IsProcessing(transfer'[u])
    BY <1>16, <1>17, <2>1 DEF Claimed, IsProcessing
  <2>2. CASE \E x \in Tasks : co'[x].tr = u /\ co'[x].pc = "start"
    BY <1>10, <2>2 DEF Claimed
  <2> QED
    BY <2>1, <2>2
<1>19. ClaimInv'
  BY <1>3, <1>18, ClaimShrinks DEF Listed
<1> QED
  BY <1>12, <1>15, <1>19

(* A coroutine returns or suspends; no slot is claimed.                    *)
LEMMA OneCalm ==
  ASSUME LoopInv, CalmInv, NEW c \in Coroutine \ Transfers, NEW r,
         co' = [co EXCEPT ![c] = r], NEW cb \in {Step(c), Done(c)}, Runs(cb),
         r.pc \notin {"start", "lock", "gather", "unlink", "removing"}, ~r.cancelled,
         c \in Calls => r.job \notin {"abort", "pause", "remove"},
         cb = Done(c) => co[c].pc # "start",
         NEW e \in Seq(Callback), Plain(e), ready' = Rest \o e,
         UNCHANGED <<transfer, listed, lock, mgmt, wanted, shares, noticed>>
  PROVE  CalmInv'
<1> USE DEF CalmInv
<1>1. co'[c] = r /\ \A x \in Coroutine : x # c => co'[x] = co[x]
  BY DEF LoopInv, LoopTypeOK
<1>2. \A x \in Tasks : co'[x].pc = "start" => co[x].pc = "start" /\ cb # Step(x) /\ co'[x] = co[x]
  BY <1>1 DEF Coroutine, Step, Done
<1>3. Rest \in Seq(Callback) /\ wanted \in BOOLEAN
  BY RunsLeft DEF LoopInv, LoopTypeOK
<1>4. ready' = (Rest \o (IF FALSE THEN WakeManager ELSE <<>>)) \o e
  BY <1>3
<1>5. FifoInv'
  BY <1>2, <1>3, <1>4, FifoRuns
<1>6. Calm'
  BY MovesCalm DEF Calm
<1>7. Claimed' \subseteq Claimed
  BY <1>2 DEF Claimed, IsProcessing
<1> QED
  BY <1>5, <1>6, <1>7, ClaimShrinks DEF Listed

(* A task, a handler or a call runs an operation of the state it finds.    *)
LEMMA EntersCalm ==
  ASSUME UploadsInv, CalmInv, NEW c \in Coroutine \ Transfers, co[c].tr \in Transfers,
         Runs(Step(c)), NEW op \in Operation \ {"abort", "pause"}, NEW arg \in Reason,
         NEW then \in IOPoint \cup {"done"}, Enter(c, op, arg, then),
         op = "initialize" => c \in Tasks /\ co[c].pc = "start",
         UNCHANGED peerVars
  PROVE  CalmInv'
<1> DEFINE state == transfer[co[c].tr].state
<1>1. Bound(state, op, arg, then) /\ then # "removing"
  BY DEF Bound, UploadsInv, LoopInv, LoopTypeOK, Transfer, IOPoint
<1>2. EnterAs(c, state, op, arg, then) /\ UNCHANGED noticed
  BY DEF Enter, peerVars
<1>3. Defines(state, op) /\ op \in {"initialize", "start_transferring"} => co[c].tr \in Claimed
  <2>1. CASE op = "initialize"
    BY <2>1 DEF Claimed
  <2>2. CASE op = "start_transferring" /\ Defines(state, op)
    <3>1. state \in State
      BY DEF UploadsInv, LoopInv, LoopTypeOK, Transfer
    <3>2. state = "INITIALIZING"
      BY <2>2, <3>1 DEF Defines, Overrides, State
    <3> QED
      BY <3>2 DEF Claimed, IsProcessing
  <2> QED
    BY <2>1, <2>2
<1> HIDE DEF state
<1> QED
  BY <1>1, <1>2, <1>3, SettleCalm DEF UploadsInv, SlotInv

(* It suspends on I/O or returns.                                          *)
LEMMA PassesCalm ==
  ASSUME UploadsInv, CalmInv, NEW c \in Coroutine \ Transfers, co[c].tr \in Transfers,
         Runs(Step(c)), Return(c) \/ \E pc \in IOPoint : Suspend(c, pc),
         UNCHANGED peerVars
  PROVE  CalmInv'
<1>1. Rest \in Seq(Callback) /\ <<>> \in Seq(Callback) /\ Plain(<<>>)
  BY RunsLeft DEF UploadsInv, Plain
<1>2. ASSUME NEW pc \in IOPoint, Suspend(c, pc) PROVE CalmInv'
  <2> DEFINE r == [co[c] EXCEPT !.pc = pc]
  <2>1. r.pc = pc /\ r.cancelled = co[c].cancelled /\ r.job = co[c].job
    BY DEF UploadsInv, LoopInv, LoopTypeOK, CoroutineState
  <2>2. /\ co' = [co EXCEPT ![c] = r] /\ ready' = Rest \o <<>>
        /\ UNCHANGED <<transfer, listed, lock, mgmt, wanted, shares, noticed>>
    BY <1>1, <1>2 DEF Suspend, peerVars
  <2> HIDE DEF r
  <2>3. pc \notin {"start", "lock", "gather", "unlink", "removing"}
    BY DEF IOPoint
  <2>4. ~r.cancelled /\ (c \in Calls => r.job \notin {"abort", "pause", "remove"})
    BY <2>1 DEF CalmInv, Calm
  <2> QED
    BY <1>1, <2>1, <2>2, <2>3, <2>4, OneCalm DEF UploadsInv, Step, Done
<1>3. CASE Return(c)
  <2>1. /\ co' = [co EXCEPT ![c] = Finished(c)] /\ ready' = Rest \o Ended(c)
        /\ UNCHANGED <<transfer, listed, lock, mgmt, wanted, shares, noticed>>
    BY <1>3 DEF Return, peerVars
  <2>2. /\ Finished(c).pc = "done" /\ ~Finished(c).cancelled
        /\ c \in Calls => Finished(c).job = None
    BY LoopAssumption DEF Finished, Idle
  <2>3. Ended(c) \in Seq(Callback) /\ Plain(Ended(c))
    BY EndsPlain DEF UploadsInv, CalmInv
  <2> QED
    BY <2>1, <2>2, <2>3, OneCalm DEF UploadsInv, Step, Done, None
<1> QED
  BY <1>2, <1>3

(* While nobody disturbs them, the tasks stay within the slots.            *)
LEMMA TaskStepCalm ==
  ASSUME UploadsInv, CalmInv, NEW c \in Tasks, TaskStep(c)
  PROVE  CalmInv'
<1> DEFINE t == co[c].tr
<1>1. UNCHANGED peerVars
  BY DEF TaskStep, Initialize, Requested, Replied, Connected, Sent, Closed, Reported
<1>2. c \in Coroutine \ Transfers /\ (Alive(c) => t \in Transfers)
  BY LoopAssumption DEF Coroutine, UploadsInv, LoopInv, Works
<1>3. CASE Initialize(c)
  <2>1. Runs(Step(c)) /\ co[c].pc = "start" /\ Enter(c, "initialize", None, "request")
    BY <1>3 DEF Initialize, At
  <2> QED
    BY <1>1, <1>2, <2>1, EntersCalm DEF Alive, Operation, Reason, IOPoint
<1>4. ASSUME co[c].pc \in IOPoint, Runs(Step(c)),
             \/ \E op \in {"queue", "fail", "complete", "start_transferring"}, arg \in Reason,
                   then \in IOPoint \cup {"done"} : Enter(c, op, arg, then)
             \/ \E pc \in IOPoint : Suspend(c, pc)
             \/ Return(c)
      PROVE  CalmInv'
  <2>1. t \in Transfers
    BY <1>2, <1>4 DEF IOPoint, Alive
  <2>2. {"queue", "fail", "complete", "start_transferring"} \subseteq Operation \ {"abort", "pause"}
    BY DEF Operation
  <2> QED
    BY <1>1, <1>2, <1>4, <2>1, <2>2, EntersCalm, PassesCalm
<1>5. CASE Requested(c) \/ Replied(c) \/ Connected(c) \/ Sent(c) \/ Closed(c) \/ Reported(c)
  <2>1. co[c].pc \in IOPoint /\ Runs(Step(c))
    BY <1>5 DEF Requested, Replied, Connected, Sent, Closed, Reported, At, IOPoint
  <2>2. /\ {None, "Cancelled", "File read error."} \subseteq Reason
        /\ {"reply", "connect", "sending", "eof", "closing", "notify"} \subseteq IOPoint
    BY DEF Reason, IOPoint
  <2> QED
    BY <1>4, <1>5, <2>1, <2>2 DEF Requested, Replied, Connected, Sent, Closed, Reported
<1>6. CASE Cancelled(c)
  BY <1>2, <1>6 DEF Cancelled, CalmInv, Calm
<1>7. CASE DoneCallback(c)
  <2>1. /\ Runs(Done(c)) /\ co[c].pc = "done" /\ co' = [co EXCEPT ![c] = Idle(None)]
        /\ ready' = Rest
        /\ UNCHANGED <<transfer, listed, lock, mgmt, wanted, shares, noticed>>
    BY <1>1, <1>7 DEF DoneCallback, peerVars
  <2>2. /\ Rest \in Seq(Callback) /\ <<>> \in Seq(Callback) /\ Plain(<<>>)
    BY <2>1, RunsLeft DEF UploadsInv, Plain
  <2>3. ready' = Rest \o <<>>
    BY <2>1, <2>2
  <2>4. Idle(None).pc = "idle" /\ ~Idle(None).cancelled /\ c \notin Calls
    BY LoopAssumption DEF Idle
  <2> QED
    BY <1>2, <2>1, <2>2, <2>3, <2>4, OneCalm DEF UploadsInv
<1>8. CASE TaskGathered(c)
  <2>1. ready # <<>> /\ Head(ready).cb = "gathered" /\ ready \in Seq(Callback)
    BY <1>8 DEF TaskGathered, Runs, Gathered, UploadsInv, LoopInv, LoopTypeOK
  <2> QED
    BY <2>1 DEF CalmInv, FifoInv, Orderly
<1> QED
  BY <1>3, <1>5, <1>6, <1>7, <1>8 DEF TaskStep

(* And so do the handlers of the peers' requests and the calls of queue.   *)
LEMMA CallStepCalm ==
  ASSUME UploadsInv, CalmInv, NEW c \in Coroutine, (c \in Calls /\ CallStep(c)) \/ StopStep(c)
  PROVE  CalmInv'
<1> DEFINE t == co[c].tr
<1>1. UNCHANGED peerVars
  BY DEF CallStep, StopStep, PeerAsks, FileLookedUp, UploadAdded
<1>2. Alive(c) => t \in Transfers
  BY DEF UploadsInv, LoopInv, Works
<1>3. ASSUME StopStep(c) PROVE FALSE
  BY <1>3 DEF StopStep, LockGranted, TasksStopped, CalmInv, Calm
<1>4. c \in Calls /\ c \in Coroutine \ Transfers /\ c \notin Tasks
  BY <1>3, LoopAssumption
<1>5. co[c].job \notin {"abort", "pause", "remove"} /\ co[c].pc # "removing"
  BY <1>4 DEF CalmInv, Calm
<1>6. /\ Runs(Step(c)) /\ t \in Transfers
      /\ PeerAsks(c) \/ FileLookedUp(c) \/ UploadAdded(c) \/ CallStarts(c)
  BY <1>2, <1>3, <1>5 DEF CallStep, PeerAsks, FileLookedUp, UploadAdded, CallStarts, Removed,
     Handling, Alive
<1>7. ASSUME \/ \E op \in {"queue", "fail"}, arg \in Reason : Enter(c, op, arg, "done")
             \/ \E pc \in IOPoint : Suspend(c, pc)
             \/ Return(c)
      PROVE  CalmInv'
  <2>1. {"queue", "fail"} \subseteq Operation \ {"abort", "pause"}
    BY DEF Operation
  <2> QED
    BY <1>1, <1>4, <1>6, <1>7, <2>1, EntersCalm, PassesCalm
<1>8. CASE PeerAsks(c) \/ FileLookedUp(c) \/ CallStarts(c)
  <2>1. {None, "File not shared."} \subseteq Reason /\ {"lookup", "adding"} \subseteq IOPoint
    BY DEF Reason, IOPoint
  <2> QED
    BY <1>5, <1>7, <1>8, <2>1 DEF PeerAsks, FileLookedUp, CallStarts
<1>9. CASE UploadAdded(c) /\ ~Return(c)
  <2> DEFINE r == Apply(transfer[t], "VIRGIN", "queue", None)
  <2>1. /\ listed' = Append(listed, t) /\ transfer' = [transfer EXCEPT ![t] = r]
        /\ wanted' = TRUE /\ ready' = Rest \o WakeManager
        /\ co' = [co EXCEPT ![c] = Finished(c)]
        /\ UNCHANGED <<lock, mgmt, shares, noticed>>
    BY <1>1, <1>9 DEF UploadAdded, peerVars
  <2>2. r.state = "QUEUED"
    BY <1>6, ApplyType DEF UploadsInv, LoopInv, LoopTypeOK, Defines, Overrides, Target, State, Operation
  <2> HIDE DEF r
  <2>3. transfer'[t] = r /\ \A u \in Transfers : u # t => transfer'[u] = transfer[u]
    BY <1>6, <2>1 DEF UploadsInv, LoopInv, LoopTypeOK
  <2>4. \A x \in Tasks : co'[x] = co[x]
    BY <1>4, <2>1 DEF UploadsInv, LoopInv, LoopTypeOK, Coroutine
  <2>5. Claimed' \subseteq Claimed
    BY <2>2, <2>3, <2>4 DEF Claimed, IsProcessing
  <2>6. Listed \subseteq Listed'
    <3>1. listed \in Seq(Transfers)
      BY DEF UploadsInv, LoopInv, LoopTypeOK
    <3>2. \A i \in DOMAIN listed : i \in DOMAIN Append(listed, t) /\ Append(listed, t)[i] = listed[i]
      BY <1>6, <3>1
    <3> QED
      BY <2>1, <3>2 DEF Listed, ToSet
  <2>7. ClaimInv'
    BY <2>5, <2>6, ClaimShrinks DEF UploadsInv, CalmInv
  <2>8. FifoInv'
    <3>1. /\ <<>> \in Seq(Callback) /\ Plain(<<>>)
      BY DEF Plain
    <3>2. ready' = (Rest \o (IF TRUE THEN WakeManager ELSE <<>>)) \o <<>>
      <4>1. Rest \in Seq(Callback) /\ WakeManager \in Seq(Callback)
        BY <1>6, RunsLeft, ScheduledType DEF UploadsInv, LoopInv
      <4> QED
        BY <2>1, <4>1
    <3>3. \A x \in Tasks : Step(c) # Step(x)
      BY <1>4 DEF Step
    <3>4. wanted' = (wanted \/ TRUE)
      BY <2>1
    <3> QED
      BY <1>6, <2>1, <2>4, <3>1, <3>2, <3>3, <3>4, FifoRuns DEF UploadsInv, CalmInv
  <2>9. /\ Finished(c).pc = "done" /\ ~Finished(c).cancelled /\ Finished(c).job = None
    BY <1>4 DEF Finished, Idle
  <2>10. Calm'
    BY <1>4, <2>1, <2>9, MovesCalm DEF UploadsInv, CalmInv, Calm, None
  <2> QED
    BY <2>7, <2>8, <2>10 DEF CalmInv
<1> QED
  BY <1>6, <1>7, <1>8, <1>9

(* When the management task runs, every task it created before has taken    *)
(* its slot: the claims are what it counts.                                *)
LEMMA NoneStarting ==
  ASSUME UploadsInv, CalmInv, Runs(Manage)
  PROVE  /\ \A c \in Tasks : co[c].pc # "start"
         /\ Claimed = Processing
         /\ Rest \in Seq(Callback) /\ Orderly(Rest) /\ NoManage(Rest)
<1>1. ready \in Seq(Callback) /\ ready # <<>> /\ Head(ready) = Manage /\ Rest = Tail(ready)
  BY DEF Runs, Rest, UploadsInv, LoopInv, LoopTypeOK
<1>2. \A c \in Tasks : co[c].pc # "start"
  BY <1>1, Leaves DEF CalmInv, FifoInv
<1>3. Claimed = Processing
  BY <1>2, ChosenFinite DEF Claimed, Processing, CalmInv, ClaimInv, UploadsInv
<1> QED
  BY <1>1, <1>2, <1>3, Leaves DEF CalmInv, FifoInv

(* The tasks of a cycle fit the free slots.                                *)
LEMMA ChosenFit ==
  ASSUME UploadsInv, CalmInv, Claimed = Processing
  PROVE  /\ Cardinality(Processing \cup Chosen) <= Slots
         /\ \A u, v \in Processing \cup Chosen : UserOf[u] = UserOf[v] => u = v
<1>1. /\ Processing \subseteq Transfers /\ Chosen \subseteq Transfers
      /\ Processing \cap Chosen \subseteq Transfers
  BY ChosenFinite DEF UploadsInv
<1>2. /\ IsFiniteSet(Processing) /\ IsFiniteSet(Chosen)
      /\ Cardinality(Processing) \in Nat /\ Cardinality(Chosen) \in Nat
      /\ Cardinality(Processing \cap Chosen) \in Nat
  BY <1>1, ChosenFinite DEF UploadsInv
<1>3. Cardinality(Processing \cup Chosen) =
        Cardinality(Processing) + Cardinality(Chosen) - Cardinality(Processing \cap Chosen)
  BY <1>2, FS_Union
<1>4. Cardinality(Chosen) <= FreeSlots /\ Slots \in Nat
  BY ChosenFew, UploadsAssumption DEF UploadsInv
<1>5. Cardinality(Processing) <= Slots
  BY DEF CalmInv, ClaimInv
<1>6. Cardinality(Processing) + FreeSlots <= Slots
  BY <1>2, <1>4, <1>5 DEF FreeSlots
<1>7. Cardinality(Processing \cup Chosen) <= Slots
  <2>1. FreeSlots \in Nat
    BY ChosenFew DEF UploadsInv
  <2> QED
    BY <1>2, <1>3, <1>4, <1>6, <2>1
<1>8. \A u, v \in Processing \cup Chosen : UserOf[u] = UserOf[v] => u = v
  BY ChosenApart DEF UploadsInv, CalmInv, ClaimInv
<1> QED
  BY <1>7, <1>8

(* The management cycle gives out no more slots than there are.            *)
LEMMA TransferCycleCalm ==
  ASSUME UploadsInv, CalmInv, TransferCycle
  PROVE  CalmInv'
<1>1. /\ Runs(Manage) /\ StartUploads
      /\ mgmt' = "sleep" /\ UNCHANGED <<transfer, listed, lock, shares, noticed>>
  BY DEF TransferCycle, CycleBegins, StartUploads, peerVars
<1>2. PICK task \in [Chosen -> Unused(Tasks)], order \in [1..Cardinality(Chosen) -> Chosen] :
        /\ \A u, v \in Chosen : u # v => task[u] # task[v]
        /\ \A i, j \in DOMAIN order : i < j => Precedes(order[i], order[j])
        /\ co' = [c \in Coroutine |->
                    IF \E u \in Chosen : task[u] = c
                    THEN New(CHOOSE u \in Chosen : task[u] = c, "upload") ELSE co[c]]
        /\ ready' = Rest \o [i \in DOMAIN order |-> Step(task[order[i]])]
  BY <1>1 DEF StartUploads
<1>3. /\ \A c \in Tasks : co[c].pc # "start"
      /\ Claimed = Processing
      /\ Rest \in Seq(Callback) /\ Orderly(Rest) /\ NoManage(Rest)
  BY <1>1, NoneStarting
<1>4. Chosen \subseteq Listed /\ Listed \subseteq Transfers /\ Processing \subseteq Listed
  BY ChosenFinite DEF UploadsInv
<1>5. \A u \in Chosen : task[u] \in Tasks /\ task[u] \in Coroutine
  BY <1>2 DEF Unused, Coroutine
<1>6. \A u \in Chosen : co'[task[u]] = New(u, "upload")
  <2> TAKE u \in Chosen
  <2>1. u = CHOOSE v \in Chosen : task[v] = task[u]
    BY <1>2
  <2> QED
    BY <1>2, <1>5, <2>1
<1>7. \A c \in Coroutine : co'[c] = co[c] \/ \E u \in Chosen : c = task[u] /\ co'[c] = New(u, "upload")
  BY <1>2, <1>6
<1>8. \A u : New(u, "upload").tr = u /\ New(u, "upload").pc = "start" /\ ~New(u, "upload").cancelled
  BY DEF New, Idle
<1> DEFINE e == [i \in DOMAIN order |-> Step(task[order[i]])]
<1>9. /\ order \in Seq(Chosen) /\ DOMAIN order = 1..Len(order)
      /\ e \in Seq(Callback) /\ DOMAIN e = DOMAIN order /\ Len(e) = Len(order)
      /\ \A i \in DOMAIN order : e[i] = Step(task[order[i]])
      /\ Plain(e)
  <2>1. order \in Seq(Chosen) /\ DOMAIN order = 1..Len(order)
    BY <1>4, OrderType
  <2>2. \A i \in 1..Len(order) : Step(task[order[i]]) \in Callback /\ Step(task[order[i]]).cb = "step"
    BY <1>5, <2>1 DEF Step, Callback
  <2>3. e \in Seq(Callback) /\ DOMAIN e = DOMAIN order /\ Len(e) = Len(order)
    BY <2>1, <2>2
  <2> QED
    BY <2>1, <2>2, <2>3 DEF Plain
<1> HIDE DEF e
<1>10. ready' = Rest \o e
  BY <1>2 DEF e
<1>11. FifoInv'
  <2>1. Orderly(Rest \o e)
    BY <1>3, <1>9, Joins
  <2>2. ASSUME NEW c \in Tasks, co'[c].pc = "start" PROVE BeforeManage(c, Rest \o e)
    <3>1. PICK u \in Chosen : c = task[u]
      BY <1>3, <1>7, <2>2 DEF Coroutine
    <3>2. PICK k \in DOMAIN order : order[k] = u
      BY <1>2, OrderCovers DEF UploadsInv
    <3> DEFINE n == Len(Rest)
    <3>3. /\ n \in Nat /\ DOMAIN (Rest \o e) = 1..(n + Len(e)) /\ Len(e) \in Nat
          /\ \A i \in 1..(n + Len(e)) : i > n => (Rest \o e)[i] = e[i - n]
      <4>1. Rest \in Seq(Callback) /\ e \in Seq(Callback)
        BY <1>3, <1>9
      <4> QED
        BY <4>1
    <3>4. k \in 1..Len(e)
      BY <1>9
    <3>5. n + k \in 1..(n + Len(e)) /\ n + k > n /\ (n + k) - n = k
      BY <3>3, <3>4
    <3>6. (Rest \o e)[n + k] = Step(c)
      BY <1>9, <3>1, <3>2, <3>3, <3>5
    <3>7. NoManage(Rest \o e)
      BY <1>3, <1>9, Joins
    <3>8. \A j \in 1..(n + k) : j \in DOMAIN (Rest \o e)
      BY <3>3, <3>4
    <3> HIDE DEF n
    <3> QED
      BY <3>3, <3>5, <3>6, <3>7, <3>8 DEF BeforeManage, NoManage
  <2>3. mgmt' # "get"
    BY <1>1
  <2> QED
    BY <1>10, <2>1, <2>2, <2>3 DEF FifoInv
<1>12. Claimed' \subseteq Processing \cup Chosen
  <2> SUFFICES ASSUME NEW u \in Transfers,
                      IsProcessing(transfer[u]) \/ \E c \in Tasks : co'[c].tr = u /\ co'[c].pc = "start"
               PROVE  u \in Processing \cup Chosen
    BY <1>1 DEF Claimed, IsProcessing
  <2>1. CASE IsProcessing(transfer[u])
    BY <1>3, <2>1 DEF Claimed
  <2>2. CASE \E c \in Tasks : co'[c].tr = u /\ co'[c].pc = "start"
    BY <1>3, <1>7, <1>8, <2>2 DEF Coroutine
  <2> QED
    BY <2>1, <2>2
<1>13. ClaimInv'
  <2>1. /\ Cardinality(Processing \cup Chosen) <= Slots
        /\ \A u, v \in Processing \cup Chosen : UserOf[u] = UserOf[v] => u = v
    BY <1>3, ChosenFit
  <2>2. /\ Processing \cup Chosen \subseteq Transfers
        /\ IsFiniteSet(Processing \cup Chosen) /\ Cardinality(Processing \cup Chosen) \in Nat
        /\ Claimed' \subseteq Transfers /\ Cardinality(Claimed') \in Nat
    BY <1>4, <1>12, ChosenFinite DEF UploadsInv
  <2>3. Cardinality(Claimed') <= Cardinality(Processing \cup Chosen)
    BY <1>12, <2>2, FS_Subset
  <2>4. Cardinality(Claimed') <= Slots
    BY <2>1, <2>2, <2>3, UploadsAssumption
  <2>5. Claimed' \subseteq Listed'
    BY <1>1, <1>4, <1>12 DEF Listed
  <2> QED
    BY <1>12, <2>1, <2>4, <2>5 DEF ClaimInv
<1>14. Calm'
  <2>1. \A c \in Coroutine \ Tasks : co'[c] = co[c]
    BY <1>5, <1>7
  <2>2. \A c \in Coroutine : co'[c] = co[c] \/ (co'[c].pc = "start" /\ ~co'[c].cancelled)
    BY <1>7, <1>8
  <2>3. /\ \A u \in Transfers : u \in Coroutine \ Tasks
        /\ \A c \in Calls : c \in Coroutine \ Tasks
    BY LoopAssumption DEF Coroutine
  <2> QED
    BY <1>1, <2>1, <2>2, <2>3 DEF CalmInv, Calm
<1> QED
  BY <1>11, <1>13, <1>14 DEF CalmInv

(* The management task stays within the slots.                             *)
LEMMA ManagerStepCalm ==
  ASSUME UploadsInv, CalmInv, ManagerStep \/ PauseEnds
  PROVE  CalmInv'
<1>1. /\ ready \in Seq(Callback) /\ mgmt # "shares" /\ ~shares
  BY DEF UploadsInv, LoopInv, LoopTypeOK, CalmInv, Calm
<1>2. ASSUME UNCHANGED <<transfer, listed, lock, co, shares, noticed>>, mgmt' # "shares", FifoInv'
      PROVE  CalmInv'
  <2>1. Claimed' = Claimed
    BY <1>2 DEF Claimed, IsProcessing
  <2>2. ClaimInv'
    BY <1>2, <2>1, ClaimShrinks DEF UploadsInv, CalmInv, Listed
  <2> QED
    BY <1>2, <2>2 DEF CalmInv, Calm
<1>3. CASE ManagerWakes /\ UNCHANGED peerVars
  <2>1. /\ mgmt = "sleep" /\ mgmt' = "sleep" /\ Manage \notin Range(ready)
        /\ ready' = Append(ready, Manage)
        /\ UNCHANGED <<transfer, listed, lock, co, shares, noticed>>
    BY <1>3 DEF ManagerWakes, Outside, peerVars
  <2>2. NoManage(ready)
    BY <2>1 DEF NoManage, Range
  <2>3. ready' = ready \o <<Manage>> /\ <<Manage>> \in Seq(Callback)
    BY <1>1, <2>1 DEF Manage, Callback
  <2>4. /\ Orderly(ready \o <<Manage>>)
        /\ \A c \in Tasks : co[c].pc = "start" => BeforeManage(c, ready \o <<Manage>>)
    BY <1>1, <2>2, <2>3, Joins DEF CalmInv, FifoInv
  <2> QED
    BY <1>2, <2>1, <2>3, <2>4 DEF FifoInv
<1>4. CASE ManagerWaits /\ UNCHANGED peerVars
  <2>1. /\ Runs(Manage) /\ mgmt' = "get" /\ ready' = Rest
        /\ UNCHANGED <<transfer, listed, lock, co, shares, noticed>>
    BY <1>4 DEF ManagerWaits, peerVars
  <2>2. FifoInv'
    BY <2>1, NoneStarting DEF FifoInv
  <2> QED
    BY <1>2, <2>1, <2>2
<1>5. CASE TransferCycle
  BY <1>5, TransferCycleCalm
<1>6. ASSUME SharesCycle \/ SharesCycleEnds PROVE FALSE
  BY <1>1, <1>6 DEF SharesCycle, SharesCycleEnds
<1>7. ASSUME NEW u \in Transfers, SharesOperationStarts(u) PROVE FALSE
  BY <1>7 DEF SharesOperationStarts, CalmInv, Calm
<1>8. ASSUME NEW u \in Transfers, ShareGathered(u) PROVE FALSE
  <2>1. ready # <<>> /\ Head(ready).cb = "gathered"
    BY <1>8 DEF ShareGathered, Runs, Gathered
  <2> QED
    BY <1>1, <2>1 DEF CalmInv, FifoInv, Orderly
<1> QED
  BY <1>3, <1>4, <1>5, <1>6, <1>7, <1>8 DEF ManagerStep, PauseEnds

(* So does the world, as long as it does not disturb.                      *)
LEMMA WorldCalm ==
  ASSUME Undisturbed, UploadsInv, CalmInv,
         World \/ BlockListNoticed \/ \E c \in Coroutine : IOWakes(c)
  PROVE  CalmInv'
<1>1. /\ ready \in Seq(Callback) /\ wanted \in BOOLEAN /\ noticed /\ ~shares /\ mgmt # "shares"
  BY DEF UploadsInv, LoopInv, LoopTypeOK, CalmInv, Calm
<1>2. CASE \E c \in Coroutine : IOWakes(c)
  <2>1. PICK c \in Coroutine : IOWakes(c)
    BY <1>2
  <2>2. /\ ready' = Append(ready, Step(c))
        /\ UNCHANGED <<transfer, listed, lock, co, mgmt, wanted, shares, noticed>>
    BY <2>1 DEF IOWakes, Wakes, Outside, peerVars
  <2>3. Step(c) \in Callback /\ Step(c).cb = "step"
    BY DEF Step, Callback
  <2>4. FifoInv'
    BY <2>2, <2>3, FifoJoined DEF UploadsInv, CalmInv
  <2>5. Claimed' = Claimed
    BY <2>2 DEF Claimed, IsProcessing
  <2>6. ClaimInv'
    BY <2>2, <2>5, ClaimShrinks DEF UploadsInv, CalmInv, Listed
  <2> QED
    BY <2>2, <2>4, <2>6 DEF CalmInv, Calm
<1>3. CASE Call
  <2>1. PICK job \in CallJobs, u \in Transfers, c \in Unused(Calls) : Arrives(c, job, u)
    BY <1>3 DEF Call
  <2>2. c \in Calls /\ c \in Coroutine \ Transfers /\ c \notin Tasks
    BY LoopAssumption DEF Unused, Coroutine
  <2>3. /\ co' = [co EXCEPT ![c] = New(u, job)] /\ ready' = Append(ready, Step(c))
        /\ UNCHANGED <<transfer, listed, lock, mgmt, wanted, shares, noticed>>
    BY <1>3, <2>1 DEF Call, Arrives, Outside, peerVars
  <2>4. New(u, job).pc = "start" /\ New(u, job).job = job /\ ~New(u, job).cancelled
    BY DEF New, Idle
  <2>5. \A x \in Tasks : co'[x] = co[x]
    BY <2>2, <2>3 DEF UploadsInv, LoopInv, LoopTypeOK, Coroutine
  <2>6. Step(c) \in Callback /\ Step(c).cb = "step"
    BY <2>2 DEF Step, Callback
  <2>7. FifoInv'
    BY <2>3, <2>5, <2>6, FifoJoined DEF UploadsInv, CalmInv
  <2>8. Claimed' = Claimed
    BY <2>3, <2>5 DEF Claimed, IsProcessing
  <2>9. ClaimInv'
    BY <2>3, <2>8, ClaimShrinks DEF UploadsInv, CalmInv, Listed
  <2>10. Calm'
    BY <2>2, <2>3, <2>4, MovesCalm DEF Undisturbed, UploadsInv, CalmInv, Calm
  <2> QED
    BY <2>7, <2>9, <2>10 DEF CalmInv
<1>4. CASE StatusChanges
  <2>1. /\ wanted' = TRUE /\ shares' = (shares \/ FALSE) /\ ready' = ready \o WakeManager
        /\ UNCHANGED <<transfer, listed, lock, co, mgmt, noticed>>
    BY <1>4 DEF StatusChanges, Request
  <2>2. /\ Orderly(ready \o WakeManager)
        /\ \A c \in Tasks : co[c].pc = "start" => BeforeManage(c, ready \o WakeManager)
    <3>1. WakeManager \in Seq(Callback)
      BY ScheduledType DEF UploadsInv, LoopInv
    <3> QED
      BY <1>1, <3>1, WakesOnce, Joins DEF CalmInv, FifoInv
  <2>3. FifoInv'
    BY <2>1, <2>2 DEF FifoInv
  <2>4. Claimed' = Claimed
    BY <2>1 DEF Claimed, IsProcessing
  <2>5. ClaimInv'
    BY <2>1, <2>4, ClaimShrinks DEF UploadsInv, CalmInv, Listed
  <2> QED
    BY <2>1, <2>3, <2>5 DEF CalmInv, Calm
<1>5. ASSUME BlockListChanges \/ SharesChange \/ BlockListNoticed PROVE FALSE
  BY <1>1, <1>5 DEF BlockListChanges, SharesChange, BlockListNoticed, Changes, Undisturbed
<1>6. CASE ClientRestarts
  <2>1. /\ \A u \in Transfers : ~IsProcessing(transfer'[u])
        /\ \A c \in Coroutine : co'[c].pc \in {"idle", "done"}
    BY <1>6, RestartInv DEF ClientRestarts, UploadsInv
  <2>2. /\ lock' = [u \in Transfers |-> [holder |-> None, waiters |-> <<>>]]
        /\ co' = [c \in Coroutine |->
              IF c \in Calls /\ co[c].pc # "idle" THEN Finished(c) ELSE Idle(None)]
        /\ ready' = (IF listed # <<>> THEN <<Manage>> ELSE <<>>)
        /\ mgmt' = "get" /\ wanted' = (listed # <<>>) /\ shares' = FALSE /\ noticed' = TRUE
    BY <1>6 DEF ClientRestarts, Restart
  <2>3. Claimed' = {}
    BY <2>1 DEF Claimed, IsProcessing, Coroutine
  <2>4. ClaimInv'
    BY <2>3, FS_EmptySet, UploadsAssumption DEF ClaimInv
  <2>5. FifoInv'
    <3>1. Orderly(<<Manage>>) /\ Orderly(<<>>) /\ NoManage(<<>>)
      BY DEF Orderly, NoManage, Manage
    <3>2. \A c \in Tasks : co'[c].pc # "start"
      BY <2>1 DEF Coroutine
    <3> QED
      BY <2>2, <3>1, <3>2 DEF FifoInv
  <2>6. ASSUME NEW c \in Coroutine
        PROVE  /\ ~co'[c].cancelled /\ co'[c].job = None
               /\ c \in Transfers => co'[c].pc = "idle"
    BY <2>2, LoopAssumption DEF Finished, Idle
  <2>7. Calm'
    BY <2>1, <2>2, <2>6 DEF Calm, Coroutine, None
  <2> QED
    BY <2>4, <2>5, <2>7 DEF CalmInv
<1> QED
  BY <1>2, <1>3, <1>4, <1>5, <1>6 DEF World

(* A start from the cache claims no slot.                                  *)
LEMMA InitCalm ==
  ASSUME Init
  PROVE  CalmInv
<1>1. \A u \in Transfers : ~IsProcessing(transfer[u])
  <2>1. PICK known \in SUBSET Transfers :
          \E s \in [known -> CachedStates] :
            transfer = [u \in Transfers |->
              IF u \in known THEN CachedUpload(s[u]) ELSE NewTransfer(TRUE)]
    BY DEF Init
  <2>2. \A q \in CachedStates : ~IsProcessing(CachedUpload(q))
    BY UploadsAssumption DEF CachedUpload, NewTransfer, IsProcessing
  <2>3. ~IsProcessing(NewTransfer(TRUE))
    BY DEF NewTransfer, IsProcessing
  <2> QED
    BY <2>1, <2>2, <2>3
<1>2. /\ lock = [u \in Transfers |-> [holder |-> None, waiters |-> <<>>]]
      /\ co = [c \in Coroutine |-> Idle(None)]
      /\ ready = (IF wanted THEN <<Manage>> ELSE <<>>)
      /\ mgmt = "get" /\ shares = FALSE /\ noticed = TRUE
  BY DEF Init
<1>3. Idle(None).pc = "idle" /\ ~Idle(None).cancelled /\ Idle(None).job = None
  BY DEF Idle
<1>4. Claimed = {}
  BY <1>1, <1>2, <1>3 DEF Claimed, Coroutine
<1>5. ClaimInv
  BY <1>4, FS_EmptySet, UploadsAssumption DEF ClaimInv
<1>6. FifoInv
  <2>1. Orderly(<<Manage>>) /\ Orderly(<<>>) /\ NoManage(<<>>)
    BY DEF Orderly, NoManage, Manage
  <2> QED
    BY <1>2, <1>3, <2>1 DEF FifoInv, Coroutine
<1>7. Calm
  BY <1>2, <1>3 DEF Calm, Coroutine, None
<1> QED
  BY <1>5, <1>6, <1>7 DEF CalmInv

(* As long as nobody disturbs them the uploads stay within the slots.      *)
LEMMA CalmNext ==
  ASSUME Undisturbed, UploadsInv, CalmInv, [Next]_vars
  PROVE  CalmInv'
<1>1. CASE Next
  <2>1. \A c \in Calls : c \in Coroutine
    BY DEF Coroutine
  <2> QED
    BY <1>1, <2>1, TaskStepCalm, CallStepCalm, ManagerStepCalm, WorldCalm DEF Next, LoopStep
<1>2. CASE UNCHANGED vars
  <2>1. Claimed' = Claimed
    BY <1>2 DEF vars, loopVars, Claimed, IsProcessing
  <2>2. ClaimInv'
    BY <1>2, <2>1 DEF vars, loopVars, CalmInv, ClaimInv, Listed
  <2>3. FifoInv'
    BY <1>2 DEF vars, loopVars, CalmInv, FifoInv
  <2> QED
    BY <1>2, <2>2, <2>3 DEF vars, loopVars, CalmInv, Calm
<1> QED
  BY <1>1, <1>2

(* What the claims bound, the uploads under way keep to.                   *)
LEMMA ClaimsBound ==
  ASSUME UploadsInv, CalmInv
  PROVE  SlotLimit /\ OneUploadPerUser
<1>1. Processing \subseteq Claimed
  BY ChosenFinite DEF Claimed, Processing, UploadsInv
<1>2. /\ IsFiniteSet(Claimed) /\ Cardinality(Claimed) \in Nat /\ Cardinality(Processing) \in Nat
  <2>1. Claimed \subseteq Transfers /\ Processing \subseteq Transfers
    BY <1>1 DEF Claimed
  <2> QED
    BY <2>1, ChosenFinite DEF UploadsInv
<1>3. Cardinality(Processing) <= Cardinality(Claimed)
  BY <1>1, <1>2, FS_Subset
<1> QED
  BY <1>1, <1>2, <1>3, UploadsAssumption DEF CalmInv, ClaimInv, SlotLimit, OneUploadPerUser

(* As long as nobody aborts, pauses, removes, blocks or unshares, whatever  *)
(* is queued, requested, refused and lost, and across restarts, the uploads *)
(* that are initialising or uploading never exceed the upload slots.       *)
THEOREM SlotsRespected == Undisturbed => (Spec => []SlotLimit)
<1> SUFFICES ASSUME Undisturbed PROVE Spec => []SlotLimit
  OBVIOUS
<1>1. Init => CalmInv
  BY InitCalm
<1>2. UploadsInv /\ CalmInv /\ [Next]_vars => CalmInv'
  BY CalmNext
<1>3. UploadsInv /\ CalmInv => SlotLimit
  BY ClaimsBound
<1> QED
  BY <1>1, <1>2, <1>3, Inductive, PTL DEF Spec

(* Under the same condition no user is ever served twice at once.          *)
THEOREM UsersServedOnce == Undisturbed => (Spec => []OneUploadPerUser)
<1> SUFFICES ASSUME Undisturbed PROVE Spec => []OneUploadPerUser
  OBVIOUS
<1>1. Init => CalmInv
  BY InitCalm
<1>2. UploadsInv /\ CalmInv /\ [Next]_vars => CalmInv'
  BY CalmNext
<1>3. UploadsInv /\ CalmInv => OneUploadPerUser
  BY ClaimsBound
<1> QED
  BY <1>1, <1>2, <1>3, Inductive, PTL DEF Spec
=============================================================================
