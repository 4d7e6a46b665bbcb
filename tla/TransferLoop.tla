---------------------------- MODULE TransferLoop ----------------------------
(***************************************************************************)
(* The event loop as the transfer manager uses it: the FIFO of callbacks    *)
(* that are ready to run, the coroutines that wait on I/O, on a transfer's  *)
(* lock or on cancelled tasks, the two task handles of a transfer with      *)
(* their done-callbacks, and the management task.  One action runs the      *)
(* callback at the head of the FIFO up to its next suspension, which is how *)
(* asyncio runs it.                                                         *)
(*                                                                          *)
(* The loop works in turns: a turn runs the callbacks that were ready when  *)
(* it began; what these schedule, and behind it what I/O, timers and calls  *)
(* from outside bring meanwhile, is for the next turn.  `left` counts what  *)
(* is left of the turn, and at 0 the outside can join.                      *)
(*                                                                          *)
(* Uploads and Downloads extend this module with what the tasks do.         *)
(***************************************************************************)
EXTENDS TransferState, Sequences, FiniteSets, SequencesExt

CONSTANTS Transfers,  \* the transfers the manager may come to know
          Tasks,      \* identities for the tasks the manager creates
          Calls,      \* handlers and calls from outside, one identity each
          Backlog     \* bound: the outside joins only while fewer are ready

(* A transfer is also the identity of the coroutine that a shares cycle     *)
(* creates for it: there is at most one of those per transfer at a time.    *)
Coroutine == Tasks \cup Calls \cup Transfers

ASSUME LoopAssumption ==
  /\ Tasks \cap Calls = {} /\ Tasks \cap Transfers = {}
  /\ Calls \cap Transfers = {}
  /\ None \notin Coroutine
  /\ IsFiniteSet(Transfers)
  /\ Backlog \in Nat

VARIABLES
  transfer,   \* the fields of each transfer
  listed,     \* TransferManager._transfers, in the order they were added
  lock,       \* Transfer._state_lock: its holder and its FIFO of waiters
  handle,     \* Transfer._transfer_task
  rqHandle,   \* Transfer._remotely_queue_task
  co,         \* where each coroutine is
  ready,      \* the callbacks the loop will run, in order
  left,       \* how many of them belong to the turn under way
  mgmt,       \* where the management task waits
  wanted,     \* _management_queue holds its one item
  shares      \* SHARES_CHANGE is among _management_flags

loopVars == <<transfer, listed, lock, handle, rqHandle, co, ready, left,
              mgmt, wanted, shares>>

---------------------------------------------------------------------------
(* Coroutines and callbacks.                                               *)

Idle(t) == [tr |-> t, job |-> None, pc |-> "idle", class |-> "VIRGIN",
            op |-> None, arg |-> None, then |-> None, waits |-> {},
            cancelled |-> FALSE]

Job == {"upload", "shares", "peer_queue", "peer_request",
        "queue_remotely", "receive", "peer_offer", "peer_refusal",
        "download", "download_paused", "abort", "queue", "pause", "remove"}

(* Where a coroutine waits for I/O or a timer, after its first step and     *)
(* outside the operations below.                                           *)
IOPoint == {"request", "reply", "connect", "sending", "eof", "notify", "closing",
            "lookup", "adding", "queueing", "replying", "file_wait", "offset",
            "path", "receiving"}

(* Where a coroutine goes on in the same callback, once its operation is    *)
(* through.                                                                *)
Immediate == {"offered", "removing", "opening"}

Point == IOPoint \cup Immediate \cup {"idle", "start", "lock", "gather", "unlink", "done"}

CoroutineState ==
  [tr : Transfers \cup {None}, job : Job \cup {None}, pc : Point, class : State,
   op : Operation \cup {None}, arg : Reason \cup {Remotely},
   then : Point \cup {None}, waits : SUBSET Tasks, cancelled : BOOLEAN]

New(t, job) == [Idle(t) EXCEPT !.job = job, !.pc = "start"]

Step(c)     == [cb |-> "step", id |-> c]      \* resume coroutine c
Done(c)     == [cb |-> "done", id |-> c]      \* done-callback of task c
Gathered(c) == [cb |-> "gathered", id |-> c]  \* a gather sees that c is done
Manage      == [cb |-> "manage", id |-> None] \* resume the management task

Callback == [cb : {"step", "done", "gathered", "manage"},
             id : Coroutine \cup {None}]

(* No callback is in the middle of its run.                                *)
Settled == \A c \in Coroutine : co[c].pc \notin Immediate

(* The callback is run and leaves the FIFO to Rest; after the last one of a *)
(* turn the next turn begins.                                              *)
Runs(cb) ==
  /\ Settled /\ ready # <<>> /\ Head(ready) = cb
  /\ left' = (IF left = 0 THEN Len(ready) ELSE left) - 1

Rest     == Tail(ready)
Alive(c) == co[c].pc \notin {"idle", "done"}

(* A callback from outside comes last in the next turn.                    *)
Quiet       == left = 0 /\ Settled
Outside(cb) == /\ Quiet /\ Len(ready) < Backlog /\ cb \notin Range(ready)
               /\ ready' = Append(ready, cb) /\ UNCHANGED left

(* A call leaves nothing behind, a task is still known to its transfer.     *)
Finished(c) ==
  IF c \in Calls THEN [Idle(None) EXCEPT !.pc = "done"]
  ELSE [Idle(co[c].tr) EXCEPT !.job = co[c].job, !.pc = "done"]

(* Identities whose last use nothing refers to any more.                   *)
Unused(S) == {c \in S : co[c].pc = "idle" /\ \A i \in DOMAIN ready : ready[i].id # c}

Handles(t) == {handle[t], rqHandle[t]} \ {None}

(* request_management_cycle: the queue has room for one item, and only an   *)
(* item put while the management task waits in get() wakes it.              *)
WakeManager == IF mgmt = "get" /\ ~wanted THEN <<Manage>> ELSE <<>>

(* What the end of coroutine c schedules: a task's done-callbacks in the    *)
(* order they were added, a shares operation's report to its gather.        *)
Ended(c) ==
  IF c \in Tasks
  THEN LET h == lock[co[c].tr].holder IN
       <<Done(c)>> \o
       (IF h # None /\ c \in co[h].waits THEN <<Gathered(c)>> ELSE <<>>)
  ELSE IF c \in Transfers THEN <<Gathered(c)>> ELSE <<>>

---------------------------------------------------------------------------
(* One operation on a transfer's state object.                             *)

(* Transfer.transition and the release of the lock: coroutine c goes on at  *)
(* `then`, the listener asks for a management cycle, the first waiter       *)
(* behind c is woken.                                                       *)
Settle(c, class, op, arg, then, behind) ==
  LET t     == co[c].tr
      moved == Defines(class, op)
  IN /\ transfer' = [transfer EXCEPT ![t] = Apply(@, class, op, arg)]
     /\ lock' = [lock EXCEPT ![t] = [holder |-> None, waiters |-> behind]]
     /\ co' = [co EXCEPT ![c] =
                  IF then = "done" THEN Finished(c)
                  ELSE [Idle(t) EXCEPT !.job = co[c].job, !.pc = then]]
     /\ wanted' = (wanted \/ moved)
     /\ ready' = Rest \o (IF moved THEN WakeManager ELSE <<>>)
                      \o (IF behind # <<>> THEN <<Step(Head(behind))>> ELSE <<>>)
                      \o (IF then = "done" THEN Ended(c) ELSE <<>>)
     /\ UNCHANGED <<listed, handle, rqHandle, mgmt, shares>>

(* An operation that suspends keeps the lock.                              *)
Hold(c, class, op, arg, then, behind, pc, waits) ==
  /\ lock' = [lock EXCEPT ![co[c].tr] = [holder |-> c, waiters |-> behind]]
  /\ co' = [x \in Coroutine |->
              IF x = c
              THEN [co[c] EXCEPT !.pc = pc, !.class = class, !.op = op,
                                 !.arg = arg, !.then = then, !.waits = waits]
              ELSE IF x \in waits /\ Alive(x)
              THEN [co[x] EXCEPT !.cancelled = TRUE]
              ELSE co[x]]

(* Mutant: a task that is already done reports nothing to the gather.       *)
CancelWakesOnlyWaiting(x) ==
  IF x = None \/ co[x].pc # "lock" THEN <<>> ELSE <<Step(x)>>

(* Task.cancel: a task that waits for the lock is resumed at once, one that *)
(* waits for I/O when the I/O has been cancelled; a task that is done is    *)
(* reported to the gather at once.                                          *)
CancelWakes(x) ==
  IF x = None \/ co[x].pc \notin {"done", "lock"} THEN <<>>
  ELSE IF co[x].pc = "done" THEN <<Gathered(x)>> ELSE <<Step(x)>>

(* Aborting a download unlinks its local file, with the lock held.         *)
Unlinks(c, op) == op = "abort" /\ LET r == transfer[co[c].tr] IN ~r.upload /\ r.localPath

(* Coroutine c runs operation op of the state class it was bound to.  Only  *)
(* abort and pause suspend: they cancel the tasks of the transfer and await *)
(* them, and abort awaits the removal of the file.                          *)
Perform(c, class, op, arg, then, behind) ==
  LET t     == co[c].tr
      stops == Defines(class, op) /\ op \in {"abort", "pause"}
  IN IF stops /\ Handles(t) # {}
     THEN /\ Hold(c, class, op, arg, then, behind, "gather", Handles(t))
          /\ ready' = Rest \o CancelWakes(rqHandle[t]) \o CancelWakes(handle[t])
          /\ UNCHANGED <<transfer, listed, handle, rqHandle, mgmt, wanted, shares>>
     ELSE IF stops /\ Unlinks(c, op)
     THEN /\ Hold(c, class, op, arg, then, behind, "unlink", {})
          /\ ready' = Rest
          /\ UNCHANGED <<transfer, listed, handle, rqHandle, mgmt, wanted, shares>>
     ELSE Settle(c, class, op, arg, then, behind)

(* An operation of a state object, chosen before the lock is taken: class   *)
(* is the class it was looked up on.                                        *)
EnterAs(c, class, op, arg, then) ==
  LET t == co[c].tr IN
  IF lock[t].holder = None /\ lock[t].waiters = <<>>
  THEN Perform(c, class, op, arg, then, <<>>)
  ELSE /\ lock' = [lock EXCEPT ![t].waiters = Append(@, c)]
       /\ co' = [co EXCEPT ![c] = [@ EXCEPT !.pc = "lock", !.class = class,
                                    !.op = op, !.arg = arg, !.then = then]]
       /\ ready' = Rest
       /\ UNCHANGED <<transfer, listed, handle, rqHandle, mgmt, wanted, shares>>

(* `await transfer.state.op(arg)`                                          *)
Enter(c, op, arg, then) ==
  EnterAs(c, transfer[co[c].tr].state, op, arg, then)

(* The lock is free and granted to the coroutine that waited longest.      *)
LockGranted(c) ==
  /\ Runs(Step(c)) /\ co[c].pc = "lock" /\ ~co[c].cancelled
  /\ lock[co[c].tr].holder = None
  /\ lock[co[c].tr].waiters # <<>> /\ Head(lock[co[c].tr].waiters) = c
  /\ Perform(c, co[c].class, co[c].op, co[c].arg, co[c].then,
             Tail(lock[co[c].tr].waiters))

(* Every task the operation cancelled is done.                             *)
TasksStopped(c) ==
  /\ Runs(Step(c)) /\ co[c].pc = "gather"
  /\ LET t == co[c].tr IN
     IF Unlinks(c, co[c].op)
     THEN /\ co' = [co EXCEPT ![c].pc = "unlink"]
          /\ ready' = Rest
          /\ UNCHANGED <<transfer, listed, lock, handle, rqHandle, mgmt, wanted, shares>>
     ELSE Settle(c, co[c].class, co[c].op, co[c].arg, co[c].then, lock[t].waiters)

FileUnlinked(c) ==
  /\ Runs(Step(c)) /\ co[c].pc = "unlink"
  /\ Settle(c, co[c].class, co[c].op, co[c].arg, co[c].then,
            lock[co[c].tr].waiters)

---------------------------------------------------------------------------
(* Ends, I/O and done-callbacks.                                           *)

(* The coroutine returns without a state operation.                        *)
Return(c) ==
  /\ co' = [co EXCEPT ![c] = Finished(c)]
  /\ ready' = Rest \o Ended(c)
  /\ UNCHANGED <<transfer, listed, lock, handle, rqHandle, mgmt, wanted, shares>>

(* The queue of a lock without c.                                          *)
Without(queue, c) ==
  IF c \in Range(queue)
  THEN RemoveAt(queue, CHOOSE i \in DOMAIN queue : queue[i] = c) ELSE queue

(* CancelledError ends the task wherever it is; while waiting for the lock  *)
(* it also leaves the queue.                                                *)
Cancelled(c) ==
  /\ Runs(Step(c)) /\ co[c].cancelled
  /\ lock' = [lock EXCEPT ![co[c].tr].waiters =
                Without(@, c)]
  /\ co' = [co EXCEPT ![c] = Finished(c)]
  /\ ready' = Rest \o Ended(c)
  /\ UNCHANGED <<transfer, listed, handle, rqHandle, mgmt, wanted, shares>>

(* Coroutine c suspends on I/O at pc.                                      *)
Suspend(c, pc) ==
  /\ co' = [co EXCEPT ![c].pc = pc]
  /\ ready' = Rest
  /\ UNCHANGED <<transfer, listed, lock, handle, rqHandle, mgmt, wanted, shares>>

(* The I/O a coroutine waits for completes, fails, times out or has been    *)
(* cancelled.                                                               *)
Wakes(c) ==
  /\ co[c].pc \in IOPoint \cup {"unlink"}
  /\ Outside(Step(c))
  /\ UNCHANGED <<transfer, listed, lock, handle, rqHandle, co, mgmt, wanted, shares>>

(* _transfer_task_complete and _remotely_queue_task_complete: whatever the  *)
(* handle holds by now is dropped.                                          *)
DoneCallback(c) ==
  /\ Runs(Done(c)) /\ co[c].pc = "done"
  /\ IF co[c].job = "queue_remotely"
     THEN rqHandle' = [rqHandle EXCEPT ![co[c].tr] = None] /\ UNCHANGED handle
     ELSE handle' = [handle EXCEPT ![co[c].tr] = None] /\ UNCHANGED rqHandle
  /\ co' = [co EXCEPT ![c] = Idle(None)]
  /\ ready' = Rest
  /\ UNCHANGED <<transfer, listed, lock, mgmt, wanted, shares>>

(* The gather of _cancel_transfer_tasks: its caller resumes when no task is *)
(* left.                                                                    *)
TaskGathered(c) ==
  /\ Runs(Gathered(c)) /\ c \in Tasks
  /\ \E h \in Calls \cup Transfers :
       /\ c \in co[h].waits
       /\ co' = [co EXCEPT ![h].waits = @ \ {c}]
       /\ ready' = Rest \o (IF co[h].waits = {c} THEN <<Step(h)>> ELSE <<>>)
  /\ UNCHANGED <<transfer, listed, lock, handle, rqHandle, mgmt, wanted, shares>>

(* Mutant: the gather awaits the operation that has just ended as well.     *)
ShareGatheredAwaitsItself(t) ==
  /\ Runs(Gathered(t)) /\ t \in Transfers
  /\ co' = [co EXCEPT ![t] = Idle(None)]
  /\ ready' = Rest \o (IF \A u \in Transfers : co[u].pc = "idle"
                       THEN <<Manage>> ELSE <<>>)
  /\ UNCHANGED <<transfer, listed, lock, handle, rqHandle, mgmt, wanted, shares>>

(* The gather of manage_shares_changed.                                    *)
ShareGathered(t) ==
  /\ Runs(Gathered(t)) /\ t \in Transfers
  /\ co' = [co EXCEPT ![t] = Idle(None)]
  /\ ready' = Rest \o (IF \A u \in Transfers \ {t} : co[u].pc = "idle"
                       THEN <<Manage>> ELSE <<>>)
  /\ UNCHANGED <<transfer, listed, lock, handle, rqHandle, mgmt, wanted, shares>>

(* The pause between two management cycles is over.                        *)
ManagerWakes ==
  /\ mgmt = "sleep"
  /\ Outside(Manage)
  /\ UNCHANGED <<transfer, listed, lock, handle, rqHandle, co, mgmt, wanted, shares>>

(* Nothing was requested meanwhile: the task waits in get().               *)
ManagerWaits ==
  /\ Runs(Manage) /\ mgmt = "sleep" /\ ~wanted
  /\ mgmt' = "get" /\ ready' = Rest
  /\ UNCHANGED <<transfer, listed, lock, handle, rqHandle, co, wanted, shares>>

(* The management task has an item to take from its queue.                 *)
CycleBegins == Runs(Manage) /\ (mgmt = "get" \/ (mgmt = "sleep" /\ wanted))

(* An outside call or message handler for t is scheduled.                  *)
Arrives(c, job, t) ==
  /\ c \in Unused(Calls)
  /\ co' = [co EXCEPT ![c] = New(t, job)]
  /\ Outside(Step(c))
  /\ UNCHANGED <<transfer, listed, lock, handle, rqHandle, mgmt, wanted, shares>>

(* abort, queue, pause and remove of TransferManager on a transfer it knows.*)
CallStarts(c) ==
  /\ Runs(Step(c)) /\ co[c].pc = "start" /\ c \in Calls
  /\ \/ co[c].job = "abort" /\ Enter(c, "abort", "Requested", "done")
     \/ co[c].job = "queue" /\ Enter(c, "queue", None, "done")
     \/ co[c].job = "pause" /\ Enter(c, "pause", None, "done")
     \/ co[c].job = "remove" /\ Enter(c, "abort", "Requested", "removing")

(* remove, after it tried to abort: the transfer is forgotten, by whichever *)
(* of several calls comes first.                                            *)
Removed(c) ==
  /\ c \in Calls /\ co[c].pc = "removing"
  /\ listed' = Without(listed, co[c].tr)
  /\ co' = [co EXCEPT ![c] = Finished(c)]
  /\ IF co[c].tr \in Range(listed)
     THEN wanted' = TRUE /\ ready' = ready \o WakeManager
     ELSE UNCHANGED <<wanted, ready>>
  /\ UNCHANGED <<transfer, lock, handle, rqHandle, left, mgmt, shares>>

---------------------------------------------------------------------------
(* Stopping the client and starting it again.                              *)

(* read_cache: what the state and the flags of a stored transfer become.    *)
Corrected(t, whole) ==
  LET r == [t EXCEPT !.remotely_queued = FALSE] IN
  IF t.state = "INITIALIZING" THEN Apply(r, t.state, "queue", None)
  ELSE IF IsTransferring(t)
       THEN [r EXCEPT !.state = IF whole THEN "COMPLETE" ELSE "INCOMPLETE"]
       ELSE r

(* stop cancels every task and write_cache stores the listed transfers;     *)
(* after the start the management task finds the request that add left.     *)
(* `whole` says whose bytes are all there.  The store has its own order, and*)
(* a transfer that is not listed leaves no trace.                          *)
Restart ==
  /\ Quiet
  /\ \E whole \in SUBSET Transfers :
       transfer' = [t \in Transfers |->
         IF t \in Range(listed) THEN Corrected(transfer[t], t \in whole)
         ELSE NewTransfer(transfer[t].upload)]
  /\ listed' \in {q \in [DOMAIN listed -> Range(listed)] : Range(q) = Range(listed)}
  /\ lock' = [t \in Transfers |-> [holder |-> None, waiters |-> <<>>]]
  /\ handle' = [t \in Transfers |-> None]
  /\ rqHandle' = [t \in Transfers |-> None]
  /\ co' = [c \in Coroutine |->
              IF c \in Calls /\ co[c].pc # "idle" THEN Finished(c) ELSE Idle(None)]
  /\ ready' = (IF listed # <<>> THEN <<Manage>> ELSE <<>>) /\ left' = 0
  /\ mgmt' = "get" /\ wanted' = (listed # <<>>) /\ shares' = FALSE

---------------------------------------------------------------------------
LoopTypeOK ==
  /\ transfer \in [Transfers -> Transfer]
  /\ listed \in Seq(Transfers)
  /\ lock \in [Transfers -> [holder : Coroutine \cup {None}, waiters : Seq(Coroutine)]]
  /\ handle \in [Transfers -> Tasks \cup {None}]
  /\ rqHandle \in [Transfers -> Tasks \cup {None}]
  /\ co \in [Coroutine -> CoroutineState]
  /\ ready \in Seq(Callback) /\ left \in Nat
  /\ mgmt \in {"get", "sleep", "shares"}
  /\ wanted \in BOOLEAN /\ shares \in BOOLEAN
=============================================================================
