-------------------------- MODULE Downloads_proof --------------------------
(***************************************************************************)
(* Theorems about Downloads, for any number of downloads, tasks, calls and  *)
(* peers: the variables keep their types, a download is never DOWNLOADING   *)
(* with nobody receiving it, and an interrupted download is asked for       *)
(* again.                                                                   *)
(***************************************************************************)
EXTENDS Downloads, TransferLoop_proof, FiniteSetTheorems

---------------------------------------------------------------------------
(* The inductive invariant.                                                *)

(* A handle names a task of its own transfer and kind that has not been    *)
(* forgotten.                                                              *)
HandleOwned ==
  \A d \in Transfers :
    /\ handle[d] # None =>
         /\ co[handle[d]].tr = d /\ co[handle[d]].job = "receive"
         /\ co[handle[d]].pc # "idle"
    /\ rqHandle[d] # None =>
         /\ co[rqHandle[d]].tr = d /\ co[rqHandle[d]].job = "queue_remotely"
         /\ co[rqHandle[d]].pc # "idle"

OnlyDownloads ==
  \A d \in Transfers : ~transfer[d].upload /\ transfer[d].state # "UPLOADING"

(* An operation that was suspended while it stops the tasks moves on.      *)
Stopping(c) ==
  co[c].pc \in {"gather", "unlink"} =>
    co[c].op \in {"abort", "pause"} /\ Defines(co[c].class, co[c].op)

(* Only a task that receives the file makes a download DOWNLOADING, and    *)
(* opens the file next.                                                    *)
TakesOver(c, op, then) ==
  op = "start_transferring" => c \in Tasks /\ co[c].job = "receive" /\ then = "opening"

Entered(c) == co[c].pc = "lock" => TakesOver(c, co[c].op, co[c].then)

ReceiveInv ==
  /\ HandleOwned /\ OnlyDownloads /\ DownloadingHasTask /\ IncompleteRetried
  /\ \A c \in Coroutine : Stopping(c) /\ Entered(c)

DownloadsInv == LoopInv /\ PeerTypeOK /\ ReceiveInv

---------------------------------------------------------------------------
(* The interrupted downloads.                                              *)

(* What is known of a download the management cycle asks for.              *)
LEMMA EligibleIs ==
  ASSUME LoopTypeOK, NEW d \in Eligible, transfer[d].state # "QUEUED"
  PROVE  d \in Transfers /\ transfer[d].state \in {"INCOMPLETE", "FAILED"}
BY DEF Eligible, Outstanding, Listed, ToSet, LoopTypeOK

(* A download whose fields do not change is asked for as before.           *)
LEMMA SameEligible ==
  ASSUME LoopTypeOK, UNCHANGED <<listed, offline>>, NEW d \in Eligible',
         transfer'[d] = transfer[d]
  PROVE  d \in Eligible
BY DEF Eligible, Outstanding, Listed, ToSet

---------------------------------------------------------------------------
(* Operations on a state object.                                           *)

(* A task that receives or tells leaves that point with an operation that  *)
(* the state it finds defines.                                             *)
Keeps(c, class, op) ==
  c \in Tasks =>
    /\ Receives(c, co[c].tr) /\ transfer[co[c].tr].state = "DOWNLOADING" =>
         \/ op = "start_transferring"
         \/ class = "DOWNLOADING" /\ op \in {"complete", "fail", "incomplete"}
    /\ Tells(c, co[c].tr) => class = transfer[co[c].tr].state /\ op = "queue"

(* An operation that goes through makes a download DOWNLOADING only for the *)
(* task that runs it, and asks for a cycle whenever it changes a state.    *)
LEMMA SettleReceive ==
  ASSUME LoopInv, ReceiveInv, UNCHANGED peerVars, NEW c \in Coroutine, co[c].tr \in Transfers,
         NEW class, NEW op, NEW arg, NEW then, Bound(class, op, arg, then),
         NEW behind, Settle(c, class, op, arg, then, behind),
         Keeps(c, class, op), TakesOver(c, op, then),
         lock[co[c].tr].holder = None \/ Defines(class, op)
  PROVE  ReceiveInv'
<1> DEFINE t == co[c].tr
           end == IF then = "done" THEN Finished(c)
                  ELSE [Idle(t) EXCEPT !.job = co[c].job, !.pc = then]
           r == Apply(transfer[t], class, op, arg)
<1> USE DEF LoopInv, ReceiveInv
<1>1. /\ end.pc = then
      /\ c \in Tasks => end.tr = t /\ end.job = co[c].job
      /\ then # "done" => end.tr = t /\ ~end.cancelled /\ end.job = co[c].job
  BY LoopAssumption DEF Finished, Idle
<1>2. /\ co' = [co EXCEPT ![c] = end] /\ transfer' = [transfer EXCEPT ![t] = r]
      /\ UNCHANGED <<handle, rqHandle, listed, offline>>
      /\ wanted' = (wanted \/ Defines(class, op))
  BY DEF Settle, peerVars
<1>3. then \notin {"idle", "start", "lock", "gather", "unlink"}
  BY DEF Bound, IOPoint, Immediate
<1> HIDE DEF end
<1>4. co'[c] = end /\ \A x \in Coroutine : x # c => co'[x] = co[x]
  BY <1>2 DEF LoopTypeOK
<1>5. HandleOwned'
  BY <1>1, <1>2, <1>3, <1>4 DEF HandleOwned, LoopTypeOK, Coroutine
<1>6. \A x \in Coroutine : Stopping(x)' /\ Entered(x)'
  BY <1>1, <1>3, <1>4 DEF Stopping, Entered, TakesOver
<1>7. /\ r.upload = transfer[t].upload
      /\ r.state = IF Defines(class, op) THEN Target(transfer[t].upload, op)
                   ELSE transfer[t].state
      /\ ~Defines(class, op) => r = transfer[t]
  BY ApplyType DEF Bound, LoopTypeOK, Apply
<1>8. /\ transfer'[t] = r
      /\ \A u \in Transfers : u # t => lock'[u] = lock[u] /\ transfer'[u] = transfer[u]
  BY <1>2 DEF Settle, LoopTypeOK
<1> HIDE DEF r
<1>9. op \in Operation /\ ~transfer[t].upload
  BY DEF Bound, OnlyDownloads
<1>10. Defines(class, op) =>
         /\ r.state = "DOWNLOADING" => op = "start_transferring"
         /\ r.state # "UPLOADING"
  BY <1>7, <1>9 DEF Target, Operation
<1>11. OnlyDownloads'
  BY <1>7, <1>8, <1>10 DEF OnlyDownloads
<1>12. op = "start_transferring" =>
         c \in Tasks /\ \A u \in Transfers : u = t => Receives(c, u)'
  BY <1>1, <1>4 DEF TakesOver, Receives
<1>13. \A u \in Transfers, x \in Tasks :
         x # c /\ transfer'[u] = transfer[u] =>
           /\ Receives(x, u) => Receives(x, u)'
           /\ Tells(x, u) => Tells(x, u)'
  BY <1>4 DEF Receives, Tells, Coroutine
<1>14. DownloadingHasTask'
  <2> SUFFICES ASSUME NEW u \in Transfers, transfer'[u].state = "DOWNLOADING",
                      transfer'[u].localPath, lock'[u].holder = None
               PROVE  \E x \in Tasks : Receives(x, u)'
    BY DEF DownloadingHasTask
  <2>1. CASE u = t /\ Defines(class, op)
    BY <1>8, <1>10, <1>12, <2>1
  <2>2. CASE u # t \/ ~Defines(class, op)
    <3>1. transfer'[u] = transfer[u] /\ lock[u].holder = None
      BY <1>7, <1>8, <2>2
    <3>2. PICK x \in Tasks : Receives(x, u)
      BY <3>1 DEF DownloadingHasTask
    <3>3. CASE x # c
      BY <1>13, <3>1, <3>2, <3>3
    <3>4. CASE x = c
      <4>1. u = t /\ ~Defines(class, op)
        BY <2>2, <3>2, <3>4 DEF Receives
      <4>2. op = "start_transferring"
        BY <3>1, <3>2, <3>4, <4>1 DEF Keeps, Defines, Overrides
      <4> QED
        BY <1>12, <3>4, <4>1, <4>2
    <3> QED
      BY <3>3, <3>4
  <2> QED
    BY <2>1, <2>2
<1>15. IncompleteRetried'
  <2> SUFFICES ASSUME ~wanted, ~Defines(class, op), NEW u \in Eligible',
                      transfer'[u].state # "QUEUED", lock'[u].holder = None
               PROVE  \E x \in Tasks : Tells(x, u)'
    BY <1>2 DEF IncompleteRetried
  <2>1. transfer' = transfer
    BY <1>2, <1>7 DEF LoopTypeOK
  <2>2. u \in Eligible /\ u \in Transfers /\ transfer[u].state \in {"INCOMPLETE", "FAILED"}
    BY <1>2, <2>1, SameEligible, EligibleIs
  <2>3. lock[u].holder = None
    BY <1>8, <2>2
  <2>4. PICK x \in Tasks : Tells(x, u)
    BY <2>2, <2>3 DEF IncompleteRetried
  <2>5. x # c
    BY <2>2, <2>4 DEF Keeps, Tells, Defines, Overrides
  <2> QED
    BY <1>13, <2>1, <2>2, <2>4, <2>5
<1> QED
  BY <1>5, <1>6, <1>11, <1>14, <1>15

(* An operation that cancels the tasks of a download holds its lock        *)
(* meanwhile.                                                              *)
LEMMA HoldReceive ==
  ASSUME LoopInv, ReceiveInv, NEW c \in Coroutine, co[c].tr \in Transfers,
         NEW class, NEW op, NEW arg, NEW then, NEW behind, NEW pc \in {"gather", "unlink"},
         NEW waits, waits \subseteq Handles(co[c].tr),
         Hold(c, class, op, arg, then, behind, pc, waits),
         op \in {"abort", "pause"}, Defines(class, op),
         UNCHANGED <<transfer, handle, rqHandle, listed, wanted, peerVars>>
  PROVE  ReceiveInv'
<1> DEFINE t == co[c].tr
           held == [co[c] EXCEPT !.pc = pc, !.class = class, !.op = op,
                                 !.arg = arg, !.then = then, !.waits = waits]
<1> USE DEF LoopInv, ReceiveInv
<1>1. co'[c] = held
  BY DEF Hold
<1>2. /\ held.tr = t /\ held.job = co[c].job /\ held.pc = pc /\ held.class = class
      /\ held.op = op
  BY DEF LoopTypeOK, CoroutineState
<1> HIDE DEF held
<1>3. ASSUME NEW x \in Coroutine, x # c
      PROVE  /\ co'[x].tr = co[x].tr /\ co'[x].job = co[x].job /\ co'[x].pc = co[x].pc
             /\ co'[x].class = co[x].class /\ co'[x].op = co[x].op
             /\ co'[x].then = co[x].then
             /\ x \notin waits => co'[x] = co[x]
  <2> DEFINE m == [co[x] EXCEPT !.cancelled = TRUE]
  <2>1. co'[x] = IF x \in waits /\ Alive(x) THEN m ELSE co[x]
    BY <1>3 DEF Hold
  <2>2. /\ m.tr = co[x].tr /\ m.job = co[x].job /\ m.pc = co[x].pc
        /\ m.class = co[x].class /\ m.op = co[x].op /\ m.then = co[x].then
    BY DEF LoopTypeOK, CoroutineState
  <2> HIDE DEF m
  <2> QED
    BY <2>1, <2>2
<1>4. ASSUME NEW x \in waits PROVE x \in Tasks /\ co[x].tr = t
  <2>1. x # None /\ (x = handle[t] \/ x = rqHandle[t])
    BY <1>4 DEF Handles
  <2> QED
    BY <2>1 DEF HandleOwned, LoopTypeOK
<1>5. HandleOwned'
  <2>1. \A x \in Coroutine : co'[x].tr = co[x].tr /\ co'[x].job = co[x].job
                             /\ (co[x].pc # "idle" => co'[x].pc # "idle")
    BY <1>1, <1>2, <1>3
  <2>2. \A u \in Transfers : /\ handle[u] # None => handle[u] \in Coroutine
                             /\ rqHandle[u] # None => rqHandle[u] \in Coroutine
    BY DEF LoopTypeOK, Coroutine
  <2> QED
    BY <2>1, <2>2 DEF HandleOwned
<1>6. \A x \in Coroutine : Stopping(x)' /\ Entered(x)'
  BY <1>1, <1>2, <1>3 DEF Stopping, Entered, TakesOver
<1>7. \A u \in Transfers : lock'[u].holder = None => u # t /\ lock'[u] = lock[u]
  BY LoopAssumption DEF Hold, LoopTypeOK
<1>8. \A u \in Transfers, x \in Tasks :
        u # t /\ co[x].tr = u => co'[x] = co[x]
  BY <1>3, <1>4 DEF Coroutine
<1>9. DownloadingHasTask'
  BY <1>7, <1>8 DEF DownloadingHasTask, Receives
<1>10. IncompleteRetried'
  <2> SUFFICES ASSUME ~wanted, NEW u \in Eligible, transfer[u].state # "QUEUED",
                      lock'[u].holder = None
               PROVE  \E x \in Tasks : Tells(x, u)'
    BY DEF IncompleteRetried, Eligible, Listed, Outstanding, peerVars
  <2>1. u \in Transfers
    BY EligibleIs
  <2>2. PICK x \in Tasks : Tells(x, u)
    BY <1>7, <2>1 DEF IncompleteRetried
  <2> QED
    BY <1>7, <1>8, <2>1, <2>2 DEF Tells
<1> QED
  BY <1>5, <1>6, <1>9, <1>10 DEF OnlyDownloads

(* An operation that has the lock leaves every download received and told. *)
LEMMA PerformReceive ==
  ASSUME LoopInv, ReceiveInv, UNCHANGED peerVars, NEW c \in Coroutine, co[c].tr \in Transfers,
         NEW class, NEW op, NEW arg, NEW then, Bound(class, op, arg, then),
         NEW behind, Perform(c, class, op, arg, then, behind),
         Keeps(c, class, op), TakesOver(c, op, then),
         lock[co[c].tr].holder = None
  PROVE  ReceiveInv'
<1> DEFINE t == co[c].tr
           stops == Defines(class, op) /\ op \in {"abort", "pause"}
<1>1. CASE stops /\ Handles(t) # {}
  <2>1. Hold(c, class, op, arg, then, behind, "gather", Handles(t))
        /\ UNCHANGED <<transfer, handle, rqHandle, listed, wanted>>
    BY <1>1 DEF Perform
  <2> QED
    BY <1>1, <2>1, HoldReceive
<1>2. CASE stops /\ Handles(t) = {} /\ Unlinks(c, op)
  <2>1. Hold(c, class, op, arg, then, behind, "unlink", {})
        /\ UNCHANGED <<transfer, handle, rqHandle, listed, wanted>>
    BY <1>2 DEF Perform
  <2> QED
    BY <1>2, <2>1, HoldReceive
<1>3. CASE ~stops \/ (Handles(t) = {} /\ ~Unlinks(c, op))
  BY <1>3, SettleReceive DEF Perform
<1> QED
  BY <1>1, <1>2, <1>3

(* Calling an operation, at a free or a taken lock, leaves every download  *)
(* received and told.                                                      *)
LEMMA EnterReceive ==
  ASSUME LoopInv, ReceiveInv, UNCHANGED peerVars, NEW c \in Coroutine, co[c].tr \in Transfers,
         NEW class, NEW op, NEW arg, NEW then, Bound(class, op, arg, then),
         EnterAs(c, class, op, arg, then),
         Keeps(c, class, op), TakesOver(c, op, then)
  PROVE  ReceiveInv'
<1> DEFINE t == co[c].tr
<1> USE DEF LoopInv, ReceiveInv
<1>1. CASE lock[t].holder = None /\ lock[t].waiters = <<>>
  BY <1>1, PerformReceive DEF EnterAs
<1>2. CASE ~(lock[t].holder = None /\ lock[t].waiters = <<>>)
  <2> DEFINE w == [co[c] EXCEPT !.pc = "lock", !.class = class, !.op = op,
                                !.arg = arg, !.then = then]
  <2>1. /\ \A u \in Transfers : lock'[u].holder = lock[u].holder
        /\ co' = [co EXCEPT ![c] = w]
        /\ UNCHANGED <<transfer, handle, rqHandle, listed, wanted, offline>>
    <3>1. PICK q : lock' = [lock EXCEPT ![t].waiters = q]
      BY <1>2 DEF EnterAs
    <3>2. \A u \in Transfers : lock'[u].holder = lock[u].holder
      BY <3>1 DEF LoopTypeOK
    <3> QED
      BY <1>2, <3>2 DEF EnterAs, peerVars
  <2>2. /\ w.tr = t /\ w.pc = "lock" /\ w.class = class /\ w.op = op /\ w.then = then
        /\ w.job = co[c].job /\ w.cancelled = co[c].cancelled
    BY DEF LoopTypeOK, CoroutineState
  <2> HIDE DEF w
  <2>3. co'[c] = w /\ \A x \in Coroutine : x # c => co'[x] = co[x]
    BY <2>1 DEF LoopTypeOK
  <2>4. HandleOwned'
    BY <2>1, <2>2, <2>3 DEF HandleOwned, LoopTypeOK, Coroutine
  <2>5. \A x \in Coroutine : Stopping(x)' /\ Entered(x)'
    BY <2>2, <2>3 DEF Stopping, Entered, TakesOver
  <2>6. \A x \in Tasks, u \in Transfers :
          /\ Receives(x, u) /\ transfer[u].state = "DOWNLOADING" => Receives(x, u)'
          /\ Tells(x, u) => Tells(x, u)'
    <3> TAKE x \in Tasks, u \in Transfers
    <3>1. CASE x # c
      BY <2>1, <2>3, <3>1 DEF Receives, Tells, Coroutine
    <3>2. CASE x = c /\ u = t
      <4>1. Receives(c, t) /\ transfer[t].state = "DOWNLOADING" => Receives(c, u)'
        BY <2>2, <2>3, <3>2 DEF Keeps, Receives
      <4>2. Tells(c, t) => Tells(c, u)'
        BY <2>1, <2>2, <2>3, <3>2 DEF Keeps, Tells
      <4> QED
        BY <3>2, <4>1, <4>2
    <3>3. CASE x = c /\ u # t
      BY <3>3 DEF Receives, Tells
    <3> QED
      BY <3>1, <3>2, <3>3
  <2>7. DownloadingHasTask'
    BY <2>1, <2>6 DEF DownloadingHasTask
  <2>8. IncompleteRetried'
    <3> SUFFICES ASSUME ~wanted, NEW u \in Eligible, transfer[u].state # "QUEUED",
                        lock[u].holder = None
                 PROVE  \E x \in Tasks : Tells(x, u)'
      <4>1. \A u \in Eligible' : u \in Eligible
        BY <2>1, SameEligible
      <4>2. \A u \in Eligible : transfer[u].state # "QUEUED" => u \in Transfers
        BY EligibleIs
      <4> QED
        BY <2>1, <4>1, <4>2 DEF IncompleteRetried
    <3> QED
      BY <2>6, EligibleIs DEF IncompleteRetried
  <2> QED
    BY <2>1, <2>4, <2>5, <2>7, <2>8 DEF OnlyDownloads
<1> QED
  BY <1>1, <1>2

---------------------------------------------------------------------------
(* The other steps.                                                        *)

(* One coroutine moves and the states stay what they are; one that receives *)
(* goes on receiving and one that tells goes on telling.                   *)
LEMMA OneReceives ==
  ASSUME LoopInv, ReceiveInv, NEW c \in Coroutine, NEW r,
         co' = [co EXCEPT ![c] = r],
         c \in Tasks /\ r.pc # "idle" => r.tr = co[c].tr /\ r.job = co[c].job,
         r.pc = "idle" => c \notin {handle'[u] : u \in Transfers}
                                   \cup {rqHandle'[u] : u \in Transfers},
         r.pc \in {"gather", "unlink"} => r.op \in {"abort", "pause"} /\ Defines(r.class, r.op),
         r.pc # "lock",
         c \in Tasks /\ Receives(c, co[c].tr) /\ transfer[co[c].tr].state = "DOWNLOADING"
           /\ transfer[co[c].tr].localPath =>
             ~r.cancelled /\ r.pc \in {"path", "opening", "receiving"},
         c \in Tasks /\ Tells(c, co[c].tr) /\ ~wanted' =>
             ~r.cancelled /\ r.pc \in {"start", "queueing"},
         wanted' \/ (~wanted /\ \A u \in Transfers : u \in Eligible' => u \in Eligible),
         listed' \in Seq(Transfers),
         \A u \in Transfers :
           /\ lock'[u].holder = lock[u].holder
           /\ handle'[u] \in {handle[u], None}
           /\ rqHandle'[u] \in {rqHandle[u], None}
           /\ transfer'[u].upload = transfer[u].upload
           /\ transfer'[u].state = transfer[u].state
           /\ transfer'[u].localPath =>
                \/ transfer[u].localPath
                \/ /\ c \in Tasks /\ u = co[c].tr /\ co[c].job = "receive" /\ ~r.cancelled
                   /\ r.pc \in {"path", "opening", "receiving"}
  PROVE  ReceiveInv'
<1> USE DEF LoopInv, ReceiveInv
<1>1. co'[c] = r /\ \A x \in Coroutine : x # c => co'[x] = co[x]
  BY DEF LoopTypeOK
<1>2. HandleOwned'
  <2>1. \A u \in Transfers : /\ handle[u] # None => handle[u] \in Tasks \cap Coroutine
                             /\ rqHandle[u] # None => rqHandle[u] \in Tasks \cap Coroutine
    BY DEF LoopTypeOK, Coroutine
  <2> QED
    BY <1>1, <2>1 DEF HandleOwned
<1>3. \A x \in Coroutine : Stopping(x)' /\ Entered(x)'
  BY <1>1 DEF Stopping, Entered, TakesOver
<1>4. \A x \in Tasks, u \in Transfers :
        x # c => /\ Receives(x, u) => Receives(x, u)'
                 /\ Tells(x, u) => Tells(x, u)'
  BY <1>1 DEF Receives, Tells, Coroutine
<1>5. c \in Tasks /\ co[c].job = "receive" /\ ~r.cancelled
        /\ r.pc \in {"path", "opening", "receiving"} =>
          \A u \in Transfers : u = co[c].tr => Receives(c, u)'
  BY <1>1 DEF Receives
<1>6. DownloadingHasTask'
  <2> SUFFICES ASSUME NEW u \in Transfers, transfer'[u].state = "DOWNLOADING",
                      transfer'[u].localPath, lock'[u].holder = None
               PROVE  \E x \in Tasks : Receives(x, u)'
    BY DEF DownloadingHasTask
  <2>1. CASE ~transfer[u].localPath
    BY <1>5, <2>1
  <2>2. CASE transfer[u].localPath
    <3>1. PICK x \in Tasks : Receives(x, u)
      BY <2>2 DEF DownloadingHasTask
    <3>2. CASE x # c
      BY <1>4, <3>1, <3>2
    <3>3. CASE x = c
      <4>1. u = co[c].tr /\ co[c].job = "receive"
        BY <3>1, <3>3 DEF Receives
      <4> QED
        BY <1>5, <2>2, <3>1, <3>3, <4>1
    <3> QED
      BY <3>2, <3>3
  <2> QED
    BY <2>1, <2>2
<1>7. IncompleteRetried'
  <2> SUFFICES ASSUME ~wanted', NEW u \in Eligible',
                      transfer'[u].state # "QUEUED", lock'[u].holder = None
               PROVE  \E x \in Tasks : Tells(x, u)'
    BY DEF IncompleteRetried
  <2>1. u \in Transfers
    BY DEF Eligible, Listed, ToSet
  <2>2. u \in Eligible
    BY <2>1
  <2>3. PICK x \in Tasks : Tells(x, u)
    BY <2>1, <2>2 DEF IncompleteRetried
  <2>4. CASE x # c
    BY <1>4, <2>1, <2>3, <2>4
  <2>5. CASE x = c
    BY <1>1, <2>3, <2>5 DEF Tells
  <2> QED
    BY <2>4, <2>5
<1>8. OnlyDownloads'
  BY DEF OnlyDownloads
<1> QED
  BY <1>2, <1>3, <1>6, <1>7, <1>8

(* Nothing that the downloads depend on changes.                           *)
LEMMA NothingReceived ==
  ASSUME ReceiveInv,
         UNCHANGED <<transfer, listed, handle, rqHandle, lock, co, wanted, peerVars>>
  PROVE  ReceiveInv'
<1>1. Eligible' = Eligible
  BY DEF Eligible, Outstanding, Listed, peerVars
<1> QED
  BY <1>1 DEF ReceiveInv, HandleOwned, OnlyDownloads, DownloadingHasTask, Receives,
     IncompleteRetried, Tells, Stopping, Entered, TakesOver

(* A coroutine that neither receives nor tells ends.                       *)
LEMMA EndReceive ==
  ASSUME LoopInv, ReceiveInv, NEW c \in Coroutine,
         co' = [co EXCEPT ![c] = Finished(c)],
         c \in Tasks => /\ transfer[co[c].tr].localPath => ~Receives(c, co[c].tr)
                        /\ Tells(c, co[c].tr) => wanted',
         \A u \in Transfers : lock'[u].holder = lock[u].holder,
         wanted' \/ UNCHANGED <<transfer, listed, wanted, offline>>,
         \A u \in Transfers : transfer'[u] \in {transfer[u],
                                [transfer[u] EXCEPT !.remotely_queued = TRUE]},
         listed' \in Seq(Transfers),
         UNCHANGED <<handle, rqHandle>>
  PROVE  ReceiveInv'
<1>1. /\ Finished(c).pc = "done"
      /\ c \in Tasks => Finished(c).tr = co[c].tr /\ Finished(c).job = co[c].job
  BY FinishedType DEF LoopInv
<1>2. \A u \in Transfers :
        /\ transfer'[u].upload = transfer[u].upload /\ transfer'[u].state = transfer[u].state
        /\ transfer'[u].localPath = transfer[u].localPath
  <2> SUFFICES ASSUME NEW u \in Transfers
               PROVE  /\ transfer'[u].upload = transfer[u].upload
                      /\ transfer'[u].state = transfer[u].state
                      /\ transfer'[u].localPath = transfer[u].localPath
    OBVIOUS
  <2>1. transfer[u] \in Transfer
    BY DEF LoopInv, LoopTypeOK
  <2>2. transfer'[u] \in {transfer[u], [transfer[u] EXCEPT !.remotely_queued = TRUE]}
    OBVIOUS
  <2>3. CASE transfer'[u] = transfer[u]
    BY ONLY <2>3
  <2>4. CASE transfer'[u] = [transfer[u] EXCEPT !.remotely_queued = TRUE]
    BY ONLY <2>1, <2>4 DEF Transfer
  <2> QED
    BY ONLY <2>2, <2>3, <2>4
<1>3. wanted' \/ (~wanted /\ \A u \in Transfers : u \in Eligible' => u \in Eligible)
  BY SameEligible DEF LoopInv, LoopTypeOK
<1> QED
  BY <1>1, <1>2, <1>3, OneReceives

---------------------------------------------------------------------------
(* The tasks of a download.                                                *)

(* A task calls an operation of the state the download is in.              *)
LEMMA TaskEnters ==
  ASSUME LoopInv, ReceiveInv, UNCHANGED peerVars, NEW cb, Runs(cb),
         NEW c \in Tasks, co[c].tr \in Transfers, NEW op \in Operation, NEW arg \in Reason,
         NEW then \in IOPoint \cup Immediate \cup {"done"}, Enter(c, op, arg, then),
         Keeps(c, transfer[co[c].tr].state, op), TakesOver(c, op, then)
  PROVE  LoopInv' /\ ReceiveInv'
<1>1. Bound(transfer[co[c].tr].state, op, arg, then)
  BY DEF Bound, LoopInv, LoopTypeOK, Transfer
<1>2. left' \in Nat /\ ready # <<>> /\ c \in Coroutine
  BY RunsLeft DEF Coroutine
<1> QED
  BY <1>1, <1>2, EnterInv, EnterReceive DEF Enter

(* A task that does not receive yet, or goes on telling, awaits I/O.       *)
LEMMA TaskSuspends ==
  ASSUME LoopInv, ReceiveInv, UNCHANGED peerVars, NEW cb, Runs(cb),
         NEW c \in Coroutine, co[c].tr \in Transfers, NEW pc \in IOPoint, Suspend(c, pc),
         ~co[c].cancelled,
         c \in Tasks => ~Receives(c, co[c].tr) /\ (Tells(c, co[c].tr) => pc = "queueing")
  PROVE  LoopInv' /\ ReceiveInv'
<1> DEFINE r == [co[c] EXCEPT !.pc = pc]
<1>1. left' \in Nat /\ ready # <<>>
  BY RunsLeft
<1>2. r.pc = pc /\ r.tr = co[c].tr /\ r.job = co[c].job /\ ~r.cancelled
  BY DEF LoopInv, LoopTypeOK, CoroutineState
<1>3. co' = [co EXCEPT ![c] = r]
      /\ UNCHANGED <<transfer, listed, lock, handle, rqHandle, wanted, offline>>
  BY DEF Suspend, peerVars
<1>4. pc \notin {"idle", "start", "lock", "gather", "unlink"}
  BY DEF IOPoint
<1>5. wanted' \/ (~wanted /\ \A u \in Transfers : u \in Eligible' => u \in Eligible)
  BY <1>3, SameEligible DEF LoopInv, LoopTypeOK
<1>6. listed' \in Seq(Transfers)
  BY <1>3 DEF LoopInv, LoopTypeOK
<1> HIDE DEF r
<1>7. ReceiveInv'
  BY <1>2, <1>3, <1>4, <1>5, <1>6, OneReceives
<1> QED
  BY <1>1, <1>7, SuspendInv

(* A coroutine that neither receives nor tells returns.                    *)
LEMMA Returns ==
  ASSUME LoopInv, ReceiveInv, UNCHANGED peerVars, NEW cb, Runs(cb),
         NEW c \in Coroutine, Return(c),
         c \in Tasks => ~Receives(c, co[c].tr) /\ ~Tells(c, co[c].tr)
  PROVE  LoopInv' /\ ReceiveInv'
<1>1. left' \in Nat /\ ready # <<>>
  BY RunsLeft
<1>2. co' = [co EXCEPT ![c] = Finished(c)]
      /\ UNCHANGED <<transfer, listed, lock, handle, rqHandle, wanted, offline>>
  BY DEF Return, peerVars
<1>3. listed' \in Seq(Transfers)
  BY <1>2 DEF LoopInv, LoopTypeOK
<1>4. ReceiveInv'
  BY <1>2, <1>3, EndReceive
<1> QED
  BY <1>1, <1>4, ReturnInv

(* One coroutine, the fields of a transfer or the list change.             *)
LEMMA OneChanges ==
  ASSUME LoopInv, left' \in Nat, ready' \in Seq(Callback),
         NEW c \in Coroutine, NEW r \in CoroutineState,
         co' = [co EXCEPT ![c] = r],
         r.pc \notin {"idle", "done"} => r.tr \in Transfers,
         r.pc \notin {"lock", "gather", "unlink"},
         c \in Transfers => r.pc # "start",
         transfer' \in [Transfers -> Transfer], listed' \in Seq(Transfers),
         handle' \in [Transfers -> Tasks \cup {None}], wanted' \in BOOLEAN,
         UNCHANGED <<lock, rqHandle, mgmt, shares>>
  PROVE  LoopInv'
BY DEF LoopInv, LoopTypeOK, Works, Alive

(* Telling the uploader: QueuesRemotely and QueuedRemotely.                *)
LEMMA TellingInv ==
  ASSUME DownloadsInv, NEW c \in Tasks, QueuesRemotely(c) \/ QueuedRemotely(c)
  PROVE  LoopInv' /\ ReceiveInv'
<1> USE DEF DownloadsInv
<1> DEFINE t == co[c].tr
<1>1. /\ Runs(Step(c)) /\ c \in Coroutine /\ t \in Transfers /\ UNCHANGED peerVars
      /\ ~co[c].cancelled /\ co[c].job = "queue_remotely" /\ ~Receives(c, t)
  BY DEF QueuesRemotely, QueuedRemotely, At, Receives, Coroutine, LoopInv, Works, Alive
<1>2. CASE QueuesRemotely(c)
  BY <1>1, <1>2, TaskSuspends DEF QueuesRemotely, IOPoint
<1>3. CASE QueuedRemotely(c) /\ Enter(c, "queue", None, "done")
  <2>1. Keeps(c, transfer[t].state, "queue") /\ TakesOver(c, "queue", "done")
    BY <1>1 DEF Keeps, TakesOver
  <2> QED
    BY <1>1, <1>3, <2>1, TaskEnters DEF Operation, Reason
<1>4. CASE QueuedRemotely(c) /\ ~Enter(c, "queue", None, "done")
  <2> DEFINE s == [transfer[t] EXCEPT !.remotely_queued = TRUE]
  <2>1. /\ transfer' = [transfer EXCEPT ![t] = s] /\ wanted' = TRUE
        /\ co' = [co EXCEPT ![c] = Finished(c)]
        /\ ready' = Rest \o WakeManager \o Ended(c)
        /\ UNCHANGED <<listed, lock, handle, rqHandle, mgmt, shares>>
    BY <1>4 DEF QueuedRemotely
  <2>2. s \in Transfer /\ Finished(c) \in CoroutineState /\ Finished(c).pc = "done"
    BY <1>1, FinishedType DEF LoopInv, LoopTypeOK, Transfer
  <2>3. transfer' \in [Transfers -> Transfer]
        /\ \A u \in Transfers : transfer'[u] = IF u = t THEN s ELSE transfer[u]
    BY <2>1, <2>2 DEF LoopInv, LoopTypeOK
  <2>4. ready' \in Seq(Callback) /\ left' \in Nat
    BY <1>1, <2>1, RunsLeft, ScheduledType DEF LoopInv
  <2>5. LoopInv'
    BY <1>1, <2>1, <2>2, <2>3, <2>4, OneChanges DEF LoopInv, LoopTypeOK
  <2>6. ReceiveInv'
    BY <1>1, <2>1, <2>3, EndReceive DEF LoopInv, LoopTypeOK
  <2> QED
    BY <2>5, <2>6
<1> QED
  BY <1>2, <1>3, <1>4

(* Before the file is received: Initialize, Replied, FileConnected and     *)
(* OffsetSent.                                                             *)
LEMMA PreparingInv ==
  ASSUME DownloadsInv, NEW c \in Tasks,
         Initialize(c) \/ Replied(c) \/ FileConnected(c) \/ OffsetSent(c)
  PROVE  LoopInv' /\ ReceiveInv'
<1> USE DEF DownloadsInv
<1> DEFINE t == co[c].tr
<1>1. /\ Runs(Step(c)) /\ c \in Coroutine /\ t \in Transfers /\ UNCHANGED peerVars
      /\ ~co[c].cancelled /\ co[c].job = "receive"
      /\ co[c].pc \in {"start", "replying", "file_wait", "offset"}
      /\ ~Receives(c, t) /\ ~Tells(c, t)
  BY DEF Initialize, Replied, FileConnected, OffsetSent, At, Receives, Tells, Coroutine,
         LoopInv, Works, Alive
<1>2. ASSUME NEW pc \in IOPoint, Suspend(c, pc) PROVE LoopInv' /\ ReceiveInv'
  BY <1>1, <1>2, TaskSuspends
<1>3. ASSUME NEW op \in {"initialize", "queue", "incomplete"},
             NEW then \in {"replying", "done"}, Enter(c, op, None, then)
      PROVE  LoopInv' /\ ReceiveInv'
  <2>1. Keeps(c, transfer[t].state, op) /\ TakesOver(c, op, then)
    BY <1>1 DEF Keeps, TakesOver
  <2> QED
    BY <1>1, <1>3, <2>1, TaskEnters DEF Operation, Reason, IOPoint
<1>4. CASE OffsetSent(c) /\ ~Enter(c, "incomplete", None, "done")
  <2> DEFINE s == [transfer[t] EXCEPT !.localPath = TRUE]
             r == [co[c] EXCEPT !.pc = "path"]
  <2>1. /\ transfer' = [transfer EXCEPT ![t] = s] /\ co' = [co EXCEPT ![c] = r]
        /\ ready' = Rest
        /\ UNCHANGED <<listed, lock, handle, rqHandle, mgmt, wanted, shares, offline>>
    <3>1. transfer' = [transfer EXCEPT ![t].localPath = TRUE] /\ co' = [co EXCEPT ![c].pc = "path"]
      BY <1>4 DEF OffsetSent
    <3> QED
      BY <1>4, <3>1 DEF OffsetSent, peerVars
  <2>2. /\ s \in Transfer /\ s.upload = transfer[t].upload /\ s.state = transfer[t].state
        /\ s.remotely_queued = transfer[t].remotely_queued
        /\ s.fail_reason = transfer[t].fail_reason
    BY <1>1 DEF LoopInv, LoopTypeOK, Transfer
  <2>3. /\ r \in CoroutineState /\ r.pc = "path" /\ r.tr = t /\ r.job = "receive"
        /\ ~r.cancelled
    BY <1>1 DEF LoopInv, LoopTypeOK, CoroutineState, Point, IOPoint
  <2> HIDE DEF s, r
  <2>4. transfer' \in [Transfers -> Transfer]
        /\ \A u \in Transfers : transfer'[u] = IF u = t THEN s ELSE transfer[u]
    BY <2>1, <2>2 DEF LoopInv, LoopTypeOK
  <2>5. ready' \in Seq(Callback) /\ left' \in Nat
    BY <1>1, <2>1, RunsLeft
  <2>6. LoopInv'
    BY <1>1, <2>1, <2>3, <2>4, <2>5, OneChanges DEF LoopInv, LoopTypeOK
  <2>7. \A u \in Transfers : u \in Eligible' => u \in Eligible
    BY <2>1, <2>2, <2>4 DEF Eligible, Outstanding, Listed, ToSet
  <2>8. /\ wanted' \/ (~wanted /\ \A u \in Transfers : u \in Eligible' => u \in Eligible)
        /\ listed' \in Seq(Transfers)
    BY <2>1, <2>7 DEF LoopInv, LoopTypeOK
  <2>9. \A u \in Transfers :
          /\ transfer'[u].upload = transfer[u].upload
          /\ transfer'[u].state = transfer[u].state
          /\ u # t => transfer'[u].localPath = transfer[u].localPath
    BY <2>2, <2>4
  <2>10. ReceiveInv'
    BY <1>1, <2>1, <2>3, <2>8, <2>9, OneReceives
  <2> QED
    BY <2>6, <2>10
<1> QED
  BY <1>2, <1>3, <1>4 DEF Initialize, Replied, FileConnected, OffsetSent, IOPoint

(* Receiving the file: PathPrepared, Opened, Received and Closed.          *)
LEMMA ReceivingInv ==
  ASSUME DownloadsInv, NEW c \in Tasks,
         PathPrepared(c) \/ Opened(c) \/ Received(c) \/ Closed(c)
  PROVE  LoopInv' /\ ReceiveInv'
<1> USE DEF DownloadsInv
<1> DEFINE t == co[c].tr
<1>1. c \in Coroutine /\ t \in Transfers /\ UNCHANGED peerVars
  BY DEF PathPrepared, Opened, Received, Closed, At, Coroutine, LoopInv, Works, Alive
<1>2. CASE PathPrepared(c) \/ Received(c)
  <2>1. Runs(Step(c)) /\ co[c].job = "receive" /\ ~Tells(c, t)
    BY <1>2 DEF PathPrepared, Received, At, Tells
  <2>2. PICK op \in {"start_transferring", "complete", "incomplete", "fail"},
             arg \in Reason, then \in {"opening", "closing", "done"} :
          /\ Enter(c, op, arg, then)
          /\ op = "start_transferring" => then = "opening"
    BY <1>2 DEF PathPrepared, Received, Reason
  <2>3. Keeps(c, transfer[t].state, op) /\ TakesOver(c, op, then)
    BY <2>1, <2>2 DEF Keeps, TakesOver
  <2> QED
    BY <1>1, <2>1, <2>2, <2>3, TaskEnters DEF Operation, IOPoint, Immediate
<1>3. CASE Closed(c)
  <2>1. Runs(Step(c)) /\ Return(c) /\ co[c].pc = "closing"
    BY <1>3 DEF Closed, At
  <2> QED
    BY <1>1, <2>1, Returns DEF Receives, Tells
<1>4. CASE Opened(c)
  <2>1. co[c].pc = "opening" /\ ~Tells(c, t)
        /\ UNCHANGED <<transfer, listed, lock, handle, rqHandle, left, mgmt, wanted, shares, offline>>
    BY <1>4 DEF Opened, Tells, peerVars
  <2>2. listed' \in Seq(Transfers) /\ left' \in Nat /\ ready \in Seq(Callback)
    BY <2>1 DEF LoopInv, LoopTypeOK
  <2>3. CASE ~transfer[t].localPath
    <3>1. co' = [co EXCEPT ![c] = Finished(c)] /\ ready' = ready \o Ended(c)
      BY <1>4, <2>3 DEF Opened
    <3>2. Finished(c) \in CoroutineState /\ Finished(c).pc = "done"
      BY <1>1, FinishedType DEF LoopInv
    <3>3. ready' \in Seq(Callback)
      BY <1>1, <2>2, <3>1, ScheduledType DEF LoopInv
    <3>4. LoopInv'
      BY <1>1, <2>1, <2>2, <3>1, <3>2, <3>3, OneMoves DEF LoopInv, LoopTypeOK
    <3>5. ReceiveInv'
      BY <1>1, <2>1, <2>2, <2>3, <3>1, EndReceive
    <3> QED
      BY <3>4, <3>5
  <2>4. CASE transfer[t].localPath
    <3> DEFINE r == [co[c] EXCEPT !.pc = "receiving"]
    <3>1. co' = [co EXCEPT ![c] = r] /\ UNCHANGED ready
      BY <1>4, <2>4 DEF Opened
    <3>2. /\ r \in CoroutineState /\ r.pc = "receiving" /\ r.tr = t /\ r.job = co[c].job
          /\ r.cancelled = co[c].cancelled
      BY <1>1 DEF LoopInv, LoopTypeOK, CoroutineState, Point, IOPoint
    <3> HIDE DEF r
    <3>3. LoopInv'
      BY <1>1, <2>1, <2>2, <3>1, <3>2, OneMoves DEF LoopInv, LoopTypeOK
    <3>4. wanted' \/ (~wanted /\ \A u \in Transfers : u \in Eligible' => u \in Eligible)
      BY <2>1, SameEligible DEF LoopInv, LoopTypeOK
    <3>5. Receives(c, t) => ~co[c].cancelled
      BY DEF Receives
    <3>6. ReceiveInv'
      BY <1>1, <2>1, <2>2, <3>1, <3>2, <3>4, <3>5, OneReceives
    <3> QED
      BY <3>3, <3>6
  <2> QED
    BY <2>3, <2>4
<1> QED
  BY <1>2, <1>3, <1>4

(* CancelledError, the done-callbacks and the gather.                      *)
LEMMA EndsInv ==
  ASSUME DownloadsInv, NEW c \in Tasks, UNCHANGED peerVars,
         Cancelled(c) \/ DoneCallback(c) \/ TaskGathered(c)
  PROVE  LoopInv' /\ ReceiveInv'
<1> USE DEF DownloadsInv
<1> DEFINE t == co[c].tr
<1>1. c \in Coroutine /\ c # None
  BY LoopAssumption DEF Coroutine
<1>2. listed \in Seq(Transfers)
  BY DEF LoopInv, LoopTypeOK
<1>3. CASE Cancelled(c)
  <2>1. /\ co' = [co EXCEPT ![c] = Finished(c)] /\ co[c].cancelled
        /\ UNCHANGED <<transfer, listed, handle, rqHandle, wanted, offline>>
    BY <1>3 DEF Cancelled, peerVars
  <2>2. \A u \in Transfers : lock'[u].holder = lock[u].holder
    <3>1. PICK q : lock' = [lock EXCEPT ![t].waiters = q]
      BY <1>3 DEF Cancelled
    <3> QED
      BY <3>1 DEF LoopInv, LoopTypeOK
  <2>3. ~Receives(c, t) /\ ~Tells(c, t)
    BY <2>1 DEF Receives, Tells
  <2>4. ReceiveInv'
    BY <1>1, <1>2, <2>1, <2>2, <2>3, EndReceive
  <2> QED
    BY <1>1, <1>3, <2>4, CancelledInv
<1>4. CASE DoneCallback(c)
  <2>1. /\ co' = [co EXCEPT ![c] = Idle(None)] /\ co[c].pc = "done"
        /\ UNCHANGED <<transfer, listed, lock, wanted, offline>>
    BY <1>4 DEF DoneCallback, peerVars
  <2>2. \A u \in Transfers :
          /\ handle'[u] \in {handle[u], None} /\ rqHandle'[u] \in {rqHandle[u], None}
          /\ handle'[u] # c /\ rqHandle'[u] # c
    BY <1>1, <1>4 DEF DoneCallback, LoopInv, LoopTypeOK, ReceiveInv, HandleOwned
  <2>3. ~Receives(c, t) /\ ~Tells(c, t)
    BY <2>1 DEF Receives, Tells
  <2>4. wanted' \/ (~wanted /\ \A u \in Transfers : u \in Eligible' => u \in Eligible)
    BY <2>1, SameEligible DEF LoopInv, LoopTypeOK
  <2>5. Idle(None).pc = "idle"
    BY DEF Idle
  <2>6. c \notin {handle'[u] : u \in Transfers} \cup {rqHandle'[u] : u \in Transfers}
    BY <2>2
  <2>7. ReceiveInv'
    BY <1>1, <1>2, <2>1, <2>2, <2>3, <2>4, <2>5, <2>6, OneReceives
  <2> QED
    BY <1>4, <2>7, DoneCallbackInv
<1>5. CASE TaskGathered(c)
  <2>1. PICK h \in Calls \cup Transfers : co' = [co EXCEPT ![h].waits = @ \ {c}]
    BY <1>5 DEF TaskGathered
  <2>2. UNCHANGED <<transfer, listed, lock, handle, rqHandle, wanted, offline>>
    BY <1>5 DEF TaskGathered, peerVars
  <2> DEFINE w == co[h].waits \ {c}
             r == [co[h] EXCEPT !.waits = w]
  <2>3. co' = [co EXCEPT ![h] = r]
    BY <2>1
  <2>4. h \in Coroutine /\ h \notin Tasks
    BY LoopAssumption DEF Coroutine
  <2>5. co[h] \in CoroutineState
    BY <2>4 DEF LoopInv, LoopTypeOK
  <2> HIDE DEF w
  <2>6. r.pc = co[h].pc /\ r.op = co[h].op /\ r.class = co[h].class /\ r.then = co[h].then
    BY <2>5 DEF CoroutineState
  <2> HIDE DEF r
  <2>7. co'[h] = r /\ \A x \in Coroutine : x # h => co'[x] = co[x]
    BY <2>3, <2>4 DEF LoopInv, LoopTypeOK
  <2>8. \A x \in Tasks : x \in Coroutine /\ co'[x] = co[x]
    BY <2>4, <2>7 DEF Coroutine
  <2>9. HandleOwned' /\ OnlyDownloads'
    BY <2>2, <2>8 DEF ReceiveInv, HandleOwned, OnlyDownloads, LoopInv, LoopTypeOK
  <2>10. \A x \in Coroutine : Stopping(x)' /\ Entered(x)'
    BY <2>4, <2>6, <2>7 DEF ReceiveInv, Stopping, Entered, TakesOver
  <2>11. DownloadingHasTask'
    BY <2>2, <2>8 DEF ReceiveInv, DownloadingHasTask, Receives
  <2>12. IncompleteRetried'
    <3>1. Eligible' = Eligible
      BY <2>2 DEF Eligible, Outstanding, Listed
    <3> QED
      BY <2>2, <2>8, <3>1 DEF ReceiveInv, IncompleteRetried, Tells
  <2> QED
    BY <1>5, <2>9, <2>10, <2>11, <2>12, TaskGatheredInv DEF ReceiveInv
<1> QED
  BY <1>3, <1>4, <1>5

(* Every step of the tasks keeps the inductive invariant.                  *)
LEMMA TaskStepInv ==
  ASSUME DownloadsInv, NEW c \in Tasks, TaskStep(c)
  PROVE  DownloadsInv'
<1>1. UNCHANGED peerVars
  BY DEF TaskStep, QueuesRemotely, QueuedRemotely, Initialize, Replied, FileConnected,
         OffsetSent, PathPrepared, Opened, Received, Closed, peerVars
<1>2. LoopInv' /\ ReceiveInv'
  BY <1>1, TellingInv, PreparingInv, ReceivingInv, EndsInv DEF TaskStep
<1> QED
  BY <1>1, <1>2 DEF DownloadsInv, PeerTypeOK, peerVars

---------------------------------------------------------------------------
(* Peers and the application.                                              *)

(* Taking up an offer creates a task that receives nothing yet; one that   *)
(* was receiving goes on without its handle.                               *)
LEMMA AcceptsInv ==
  ASSUME DownloadsInv, NEW c \in Calls, co[c].tr \in Transfers,
         NEW before \in Seq(Callback), Accepts(c, before), left' \in Nat,
         UNCHANGED <<transfer, listed, lock, rqHandle, mgmt, wanted, shares, offline>>
  PROVE  LoopInv' /\ ReceiveInv'
<1> USE DEF DownloadsInv
<1> DEFINE d == co[c].tr
           n == New(d, "receive")
<1>1. PICK k \in Unused(Tasks) :
        /\ handle' = [handle EXCEPT ![d] = k]
        /\ co' = [co EXCEPT ![k] = n, ![c] = Finished(c)]
        /\ ready' = Append(before, Step(k))
  BY DEF Accepts
<1>2. /\ k \in Tasks /\ k \in Coroutine /\ co[k].pc = "idle"
      /\ c \in Coroutine /\ c \notin Tasks /\ c \notin Transfers /\ k \notin Transfers /\ k # None
  BY LoopAssumption DEF Unused, Coroutine
<1>3. n \in CoroutineState /\ n.pc = "start" /\ n.tr = d /\ n.job = "receive"
  BY DEF New, Idle, CoroutineState, None, State, Point, Reason, Job
<1>4. Finished(c) \in CoroutineState /\ Finished(c).pc = "done"
  BY <1>2, FinishedType DEF LoopInv
<1> HIDE DEF n
<1>5. /\ co'[k] = n /\ co'[c] = Finished(c)
      /\ \A x \in Coroutine : x # k /\ x # c => co'[x] = co[x]
      /\ co' \in [Coroutine -> CoroutineState]
  BY <1>1, <1>2, <1>3, <1>4 DEF LoopInv, LoopTypeOK
<1>6. /\ handle' \in [Transfers -> Tasks \cup {None}] /\ handle'[d] = k
      /\ \A u \in Transfers : u # d => handle'[u] = handle[u]
  BY <1>1, <1>2 DEF LoopInv, LoopTypeOK
<1>7. ready' \in Seq(Callback)
  BY <1>1, <1>2, ScheduledType DEF LoopInv, Step, Callback
<1>8. \A x \in Coroutine : Works(x)'
  BY <1>2, <1>3, <1>4, <1>5 DEF LoopInv, Works, Alive
<1>9. LoopInv'
  BY <1>5, <1>6, <1>7, <1>8 DEF LoopInv, LoopTypeOK
<1>10. \A x \in Tasks : x \in Coroutine /\ (x # k => co'[x] = co[x])
  BY <1>2, <1>5 DEF Coroutine
<1>11. HandleOwned'
  <2>1. \A u \in Transfers : /\ handle[u] # None => handle[u] \in Tasks /\ handle[u] # k
                             /\ rqHandle[u] # None => rqHandle[u] \in Tasks /\ rqHandle[u] # k
    BY <1>2 DEF ReceiveInv, HandleOwned, LoopInv, LoopTypeOK
  <2> QED
    BY <1>3, <1>5, <1>6, <1>10, <2>1 DEF ReceiveInv, HandleOwned
<1>12. \A x \in Coroutine : Stopping(x)' /\ Entered(x)'
  BY <1>3, <1>4, <1>5 DEF ReceiveInv, Stopping, Entered, TakesOver
<1>13. \A x \in Tasks, u \in Transfers :
         /\ Receives(x, u) => Receives(x, u)'
         /\ Tells(x, u) => Tells(x, u)'
  BY <1>2, <1>10 DEF Receives, Tells
<1>14. DownloadingHasTask'
  BY <1>13 DEF ReceiveInv, DownloadingHasTask
<1>15. IncompleteRetried'
  <2>1. Eligible' = Eligible /\ \A u \in Eligible : u \in Transfers
    BY DEF Eligible, Outstanding, Listed, ToSet, LoopInv, LoopTypeOK
  <2> QED
    BY <1>13, <2>1 DEF ReceiveInv, IncompleteRetried
<1> QED
  BY <1>9, <1>11, <1>12, <1>14, <1>15 DEF ReceiveInv, OnlyDownloads

(* A handler or a call from outside calls an operation.                    *)
LEMMA CallEnters ==
  ASSUME LoopInv, ReceiveInv, UNCHANGED peerVars, NEW cb, Runs(cb),
         NEW c \in Coroutine \ Tasks, co[c].tr \in Transfers,
         NEW op \in {"abort", "queue", "pause", "fail"},
         NEW arg \in Reason \cup {Remotely}, op \in {"fail", "abort"} => arg \in Reason,
         NEW then \in Immediate \cup {"done"}, Enter(c, op, arg, then)
  PROVE  LoopInv' /\ ReceiveInv'
<1>1. Bound(transfer[co[c].tr].state, op, arg, then)
  BY DEF Bound, LoopInv, LoopTypeOK, Transfer, Operation
<1>2. left' \in Nat /\ ready # <<>>
  BY RunsLeft
<1>3. Keeps(c, transfer[co[c].tr].state, op) /\ TakesOver(c, op, then)
  BY DEF Keeps, TakesOver
<1> QED
  BY <1>1, <1>2, <1>3, EnterInv, EnterReceive DEF Enter

(* download on a file the manager does not know.                           *)
LEMMA AddedInv ==
  ASSUME DownloadsInv, NEW c \in Calls, co[c].tr \in Transfers, Runs(Step(c)),
         NEW op \in {"queue", "pause"}, transfer[co[c].tr].state = "VIRGIN",
         listed' = Append(listed, co[c].tr),
         transfer' = [transfer EXCEPT ![co[c].tr] = Apply(@, "VIRGIN", op, None)],
         wanted' = TRUE, ready' = Rest \o WakeManager,
         co' = [co EXCEPT ![c] = Finished(c)],
         UNCHANGED <<lock, handle, rqHandle, mgmt, shares>>
  PROVE  LoopInv' /\ ReceiveInv'
<1> USE DEF DownloadsInv
<1> DEFINE t == co[c].tr
           r == Apply(transfer[t], "VIRGIN", op, None)
<1>1. c \in Coroutine /\ c \notin Tasks /\ c \notin Transfers
  BY LoopAssumption DEF Coroutine
<1>2. r \in Transfer /\ r.upload = transfer[t].upload /\ r.state \in {"QUEUED", "PAUSED"}
  BY ApplyType DEF LoopInv, LoopTypeOK, Defines, Overrides, Target, State, Operation
<1> HIDE DEF r
<1>3. /\ transfer' \in [Transfers -> Transfer] /\ transfer'[t] = r
      /\ \A u \in Transfers : u # t => transfer'[u] = transfer[u]
  BY <1>2 DEF r, LoopInv, LoopTypeOK
<1>4. Finished(c) \in CoroutineState /\ Finished(c).pc = "done"
  BY <1>1, FinishedType DEF LoopInv
<1>5. left' \in Nat /\ ready' \in Seq(Callback) /\ listed' \in Seq(Transfers)
  BY RunsLeft, ScheduledType DEF LoopInv, LoopTypeOK
<1>6. LoopInv'
  BY <1>1, <1>3, <1>4, <1>5, OneChanges DEF LoopInv, LoopTypeOK
<1>7. co'[c].pc = "done" /\ \A x \in Coroutine : x # c => co'[x] = co[x]
  BY <1>1, <1>4 DEF LoopInv, LoopTypeOK
<1>8. \A x \in Tasks : x \in Coroutine /\ co'[x] = co[x]
  BY <1>1, <1>7 DEF Coroutine
<1>9. HandleOwned' /\ OnlyDownloads'
  BY <1>2, <1>3, <1>8 DEF ReceiveInv, HandleOwned, OnlyDownloads, LoopInv, LoopTypeOK
<1>10. \A x \in Coroutine : Stopping(x)' /\ Entered(x)'
  BY <1>1, <1>7 DEF ReceiveInv, Stopping, Entered, TakesOver
<1>11. DownloadingHasTask'
  BY <1>2, <1>3, <1>8 DEF ReceiveInv, DownloadingHasTask, Receives
<1> QED
  BY <1>6, <1>9, <1>10, <1>11 DEF ReceiveInv, IncompleteRetried

(* Every step of the message handlers and of the application's calls       *)
(* keeps the inductive invariant.                                          *)
LEMMA CallStepInv ==
  ASSUME DownloadsInv, NEW c \in Calls, CallStep(c)
  PROVE  DownloadsInv'
<1> USE DEF DownloadsInv
<1> DEFINE t == co[c].tr
<1>1. UNCHANGED peerVars /\ PeerTypeOK'
  BY DEF CallStep, PeerTypeOK, peerVars, PeerOffers, Offered, PeerRefuses, DownloadCall
<1>2. c \in Coroutine \ Tasks /\ t \in Transfers
  BY LoopAssumption DEF Coroutine, LoopInv, Works, Alive, CallStep, PeerOffers,
     Offered, PeerRefuses, DownloadCall, CallStarts, Removed
<1>3. ASSUME Runs(Step(c)), NEW op \in {"abort", "queue", "pause", "fail"},
             NEW arg \in Reason \cup {Remotely}, op \in {"fail", "abort"} => arg \in Reason,
             NEW then \in Immediate \cup {"done"}, Enter(c, op, arg, then)
      PROVE  LoopInv' /\ ReceiveInv'
  BY <1>1, <1>2, <1>3, CallEnters
<1>4. ASSUME Runs(Step(c)), Return(c) PROVE LoopInv' /\ ReceiveInv'
  BY <1>1, <1>2, <1>4, Returns
<1>5. CASE PeerOffers(c)
  <2>1. Runs(Step(c))
    BY <1>5 DEF PeerOffers
  <2>2. left' \in Nat /\ Rest \in Seq(Callback)
    BY <2>1, RunsLeft
  <2>3. CASE Accepts(c, Rest) /\ UNCHANGED <<transfer, listed, lock, rqHandle, mgmt, wanted, shares>>
    BY <1>1, <1>2, <2>2, <2>3, AcceptsInv DEF peerVars
  <2>4. CASE Return(c)
    BY <1>1, <1>4, <2>1, <2>4
  <2>5. CASE Enter(c, "queue", Remotely, "offered")
    BY <1>1, <1>3, <2>1, <2>5 DEF Immediate
  <2> QED
    BY <1>5, <2>3, <2>4, <2>5 DEF PeerOffers
<1>6. CASE Offered(c)
  <2>1. left' \in Nat /\ ready \in Seq(Callback)
    BY <1>6 DEF Offered, LoopInv, LoopTypeOK
  <2> QED
    BY <1>1, <1>2, <1>6, <2>1, AcceptsInv DEF Offered, peerVars
<1>7. CASE PeerRefuses(c)
  <2>1. Runs(Step(c)) /\ (Enter(c, "fail", "Cancelled", "done") \/ Return(c))
    BY <1>7 DEF PeerRefuses
  <2> QED
    BY <1>1, <1>3, <1>4, <2>1 DEF Reason
<1>8. CASE DownloadCall(c)
  <2>1. PICK op \in {"queue", "pause"} :
          \/ Enter(c, op, None, "done")
          \/ Return(c)
          \/ /\ transfer[t].state = "VIRGIN"
             /\ listed' = Append(listed, t)
             /\ transfer' = [transfer EXCEPT ![t] = Apply(@, "VIRGIN", op, None)]
             /\ wanted' = TRUE /\ ready' = Rest \o WakeManager
             /\ co' = [co EXCEPT ![c] = Finished(c)]
             /\ UNCHANGED <<lock, handle, rqHandle, mgmt, shares>>
    BY <1>8 DEF DownloadCall
  <2>2. Runs(Step(c)) /\ None \in Reason
    BY <1>8 DEF DownloadCall, Reason
  <2> QED
    BY <1>1, <1>2, <1>3, <1>4, <2>1, <2>2, AddedInv
<1>9. CASE CallStarts(c)
  <2>1. Runs(Step(c)) /\ None \in Reason /\ "Requested" \in Reason
    BY <1>9 DEF CallStarts, Reason
  <2> QED
    BY <1>1, <1>3, <1>9, <2>1 DEF CallStarts, Immediate
<1>10. CASE Removed(c)
  <2>1. LoopInv' /\ listed' \in Seq(Transfers)
    BY <1>2, <1>10, RemovedInv DEF LoopInv, LoopTypeOK
  <2>2. co' = [co EXCEPT ![c] = Finished(c)] /\ UNCHANGED <<transfer, lock, handle, rqHandle, offline>>
    BY <1>1, <1>10 DEF Removed, peerVars
  <2>3. wanted' \/ UNCHANGED <<listed, wanted>>
    BY <1>10 DEF Removed, Without
  <2>4. ReceiveInv'
    BY <1>2, <2>1, <2>2, <2>3, EndReceive
  <2> QED
    BY <1>1, <2>1, <2>4
<1> QED
  BY <1>1, <1>5, <1>6, <1>7, <1>8, <1>9, <1>10 DEF CallStep

---------------------------------------------------------------------------
(* Operations that are under way, I/O and the management task.             *)

(* Operations that are granted the lock or end their wait keep the         *)
(* inductive invariant.                                                    *)
LEMMA StopStepInv ==
  ASSUME DownloadsInv, NEW c \in Coroutine, StopStep(c)
  PROVE  DownloadsInv'
<1> USE DEF DownloadsInv
<1> DEFINE t == co[c].tr
<1>1. UNCHANGED peerVars /\ PeerTypeOK'
  BY DEF StopStep, PeerTypeOK, peerVars
<1>2. LoopInv'
  BY StopInv DEF StopStep
<1>3. t \in Transfers /\ Bound(co[c].class, co[c].op, co[c].arg, co[c].then)
  BY DEF StopStep, LockGranted, TasksStopped, FileUnlinked, LoopInv, Works, Alive
<1>4. CASE LockGranted(c)
  <2>1. /\ co[c].pc = "lock" /\ lock[t].holder = None /\ ~co[c].cancelled
        /\ Perform(c, co[c].class, co[c].op, co[c].arg, co[c].then, Tail(lock[t].waiters))
    BY <1>4 DEF LockGranted
  <2>2. TakesOver(c, co[c].op, co[c].then)
    BY <2>1 DEF ReceiveInv, Entered
  <2>3. Keeps(c, co[c].class, co[c].op)
    BY <2>1 DEF Keeps, Receives, Tells
  <2> QED
    BY <1>1, <1>2, <1>3, <2>1, <2>2, <2>3, PerformReceive
<1>5. CASE (TasksStopped(c) /\ ~Unlinks(c, co[c].op)) \/ FileUnlinked(c)
  <2>1. /\ co[c].pc \in {"gather", "unlink"}
        /\ co[c].op \in {"abort", "pause"} /\ Defines(co[c].class, co[c].op)
    BY <1>5 DEF TasksStopped, FileUnlinked, ReceiveInv, Stopping
  <2>2. Settle(c, co[c].class, co[c].op, co[c].arg, co[c].then, lock[t].waiters)
    BY <1>5 DEF TasksStopped, FileUnlinked
  <2>3. Keeps(c, co[c].class, co[c].op) /\ TakesOver(c, co[c].op, co[c].then)
    BY <2>1 DEF Keeps, Receives, Tells, TakesOver
  <2> QED
    BY <1>1, <1>2, <1>3, <2>1, <2>2, <2>3, SettleReceive
<1>6. CASE TasksStopped(c) /\ Unlinks(c, co[c].op)
  <2> DEFINE r == [co[c] EXCEPT !.pc = "unlink"]
  <2>1. /\ co[c].pc = "gather" /\ co' = [co EXCEPT ![c] = r]
        /\ UNCHANGED <<transfer, listed, lock, handle, rqHandle, wanted, offline>>
    BY <1>1, <1>6 DEF TasksStopped, peerVars
  <2>2. /\ r.pc = "unlink" /\ r.tr = t /\ r.job = co[c].job /\ r.op = co[c].op
        /\ r.class = co[c].class
    BY DEF LoopInv, LoopTypeOK, CoroutineState
  <2> HIDE DEF r
  <2>3. r.op \in {"abort", "pause"} /\ Defines(r.class, r.op)
    BY <2>1, <2>2 DEF ReceiveInv, Stopping
  <2>4. ~Receives(c, t) /\ ~Tells(c, t)
    BY <2>1 DEF Receives, Tells
  <2>5. /\ wanted' \/ (~wanted /\ \A u \in Transfers : u \in Eligible' => u \in Eligible)
        /\ listed' \in Seq(Transfers)
    BY <2>1, SameEligible DEF LoopInv, LoopTypeOK
  <2>6. ReceiveInv'
    BY <2>1, <2>2, <2>3, <2>4, <2>5, OneReceives
  <2> QED
    BY <1>1, <1>2, <2>6
<1> QED
  BY <1>4, <1>5, <1>6 DEF StopStep

(* I/O that comes back and the pauses of the management task keep the      *)
(* inductive invariant.                                                    *)
LEMMA WakesStepInv ==
  ASSUME DownloadsInv, UNCHANGED peerVars,
         (\E c \in Coroutine : Wakes(c)) \/ ManagerWakes \/ ManagerWaits
  PROVE  DownloadsInv'
<1>1. LoopInv'
  BY WakesInv, ManagerInv DEF DownloadsInv
<1>2. ReceiveInv'
  BY NothingReceived DEF DownloadsInv, Wakes, ManagerWakes, ManagerWaits
<1> QED
  BY <1>1, <1>2 DEF DownloadsInv, PeerTypeOK, peerVars

(* A sequence of the members of a set is a sequence over it.               *)
LEMMA OrderType ==
  ASSUME NEW S, S \subseteq Transfers, NEW order \in [1..Cardinality(S) -> S]
  PROVE  order \in Seq(S) /\ DOMAIN order = 1..Len(order)
<1>1. Cardinality(S) \in Nat
  BY LoopAssumption, FS_Subset, FS_CardinalityType
<1> QED
  BY <1>1

(* The management cycle has a task tell the uploader of every interrupted  *)
(* download.                                                               *)
LEMMA CycleInv ==
  ASSUME DownloadsInv, TransferCycle
  PROVE  DownloadsInv'
<1> USE DEF DownloadsInv
<1> DEFINE n(d) == New(d, "queue_remotely")
<1>1. PICK task \in [Eligible -> Unused(Tasks)],
           order \in [1..Cardinality(Eligible) -> Eligible] :
        /\ \A d, e \in Eligible : d # e => task[d] # task[e]
        /\ rqHandle' = [d \in Transfers |-> IF d \in Eligible THEN task[d] ELSE rqHandle[d]]
        /\ co' = [c \in Coroutine |->
                    IF \E d \in Eligible : task[d] = c
                    THEN n(CHOOSE d \in Eligible : task[d] = c) ELSE co[c]]
        /\ ready' = Rest \o [i \in DOMAIN order |-> Step(task[order[i]])]
  BY DEF TransferCycle, QueueDownloads
<1>2. /\ wanted' = FALSE /\ mgmt' = "sleep" /\ left' \in Nat /\ ready # <<>>
      /\ UNCHANGED <<transfer, listed, lock, handle, shares, offline, changes>>
  BY RunsLeft DEF TransferCycle, CycleBegins, peerVars
<1>3. Eligible \subseteq Transfers
  BY DEF Eligible, Listed, ToSet, LoopInv, LoopTypeOK
<1>4. \A d \in Eligible : task[d] \in Tasks /\ task[d] \in Coroutine /\ co[task[d]].pc = "idle"
  BY <1>1 DEF Unused, Coroutine
<1>5. \A d \in Eligible : co'[task[d]] = n(d)
  <2> TAKE d \in Eligible
  <2>1. d = CHOOSE e \in Eligible : task[e] = task[d]
    BY <1>1
  <2> QED
    BY <1>1, <1>4, <2>1
<1>6. \A c \in Coroutine : co[c].pc # "idle" \/ c \notin Tasks => co'[c] = co[c]
  BY <1>1, <1>4
<1>7. \A d \in Transfers :
        /\ n(d) \in CoroutineState /\ n(d).pc = "start" /\ n(d).tr = d
        /\ n(d).job = "queue_remotely" /\ ~n(d).cancelled
  BY DEF New, Idle, CoroutineState, None, State, Point, Reason, Job
<1> HIDE DEF n
<1>8. \A c \in Coroutine : co'[c] = co[c] \/ (c \in Tasks /\ \E d \in Eligible : co'[c] = n(d))
  BY <1>1, <1>4, <1>5
<1>9. co' \in [Coroutine -> CoroutineState] /\ \A c \in Coroutine : Works(c)'
  <2>1. DOMAIN co' = Coroutine /\ co' = [c \in Coroutine |-> co'[c]]
    BY <1>1
  <2>2. ASSUME NEW c \in Coroutine PROVE co'[c] \in CoroutineState /\ Works(c)'
    BY <1>3, <1>7, <1>8, LoopAssumption DEF LoopInv, LoopTypeOK, Works, Alive
  <2> QED
    BY <2>1, <2>2
<1>10. ready' \in Seq(Callback)
  <2>1. order \in Seq(Eligible) /\ DOMAIN order = 1..Len(order)
    BY <1>3, OrderType
  <2>2. \A i \in 1..Len(order) : Step(task[order[i]]) \in Callback
    BY <1>4, <2>1 DEF Step, Callback
  <2>3. [i \in DOMAIN order |-> Step(task[order[i]])] \in Seq(Callback)
    BY <2>1, <2>2
  <2> QED
    BY <1>1, <1>2, <2>3, ScheduledType DEF LoopInv
<1>11. rqHandle' \in [Transfers -> Tasks \cup {None}]
  BY <1>1, <1>4 DEF LoopInv, LoopTypeOK
<1>12. LoopInv'
  BY <1>2, <1>9, <1>10, <1>11 DEF LoopInv, LoopTypeOK
<1>13. HandleOwned'
  <2> SUFFICES ASSUME NEW d \in Transfers
               PROVE  /\ handle'[d] # None =>
                           /\ co'[handle'[d]].tr = d /\ co'[handle'[d]].job = "receive"
                           /\ co'[handle'[d]].pc # "idle"
                      /\ rqHandle'[d] # None =>
                           /\ co'[rqHandle'[d]].tr = d /\ co'[rqHandle'[d]].job = "queue_remotely"
                           /\ co'[rqHandle'[d]].pc # "idle"
    BY DEF HandleOwned
  <2>1. handle'[d] = handle[d]
        /\ rqHandle'[d] = IF d \in Eligible THEN task[d] ELSE rqHandle[d]
    BY <1>1, <1>2
  <2>2. /\ handle[d] # None => handle[d] \in Coroutine /\ co[handle[d]].pc # "idle"
        /\ rqHandle[d] # None => rqHandle[d] \in Coroutine /\ co[rqHandle[d]].pc # "idle"
    BY DEF ReceiveInv, HandleOwned, LoopInv, LoopTypeOK, Coroutine
  <2>3. /\ handle[d] # None => co'[handle[d]] = co[handle[d]]
        /\ rqHandle[d] # None => co'[rqHandle[d]] = co[rqHandle[d]]
    BY <1>6, <2>2
  <2> QED
    BY <1>5, <1>7, <2>1, <2>3 DEF ReceiveInv, HandleOwned
<1>14. \A c \in Coroutine : Stopping(c)' /\ Entered(c)'
  BY <1>3, <1>7, <1>8 DEF ReceiveInv, Stopping, Entered, TakesOver
<1>15. DownloadingHasTask'
  <2>1. \A c \in Tasks, d \in Transfers : Receives(c, d) => Receives(c, d)'
    BY <1>6 DEF Receives, Coroutine
  <2> QED
    BY <1>2, <2>1 DEF ReceiveInv, DownloadingHasTask
<1>16. IncompleteRetried'
  <2>1. \A d \in Eligible' : d \in Eligible
    BY <1>2, SameEligible DEF LoopInv
  <2>2. \A d \in Eligible : Tells(task[d], d)'
    BY <1>3, <1>5, <1>7 DEF Tells
  <2>3. \A d \in Eligible : \E c \in Tasks : Tells(c, d)'
    BY <1>4, <2>2
  <2> QED
    BY <2>1, <2>3 DEF IncompleteRetried
<1> QED
  BY <1>2, <1>12, <1>13, <1>14, <1>15, <1>16 DEF ReceiveInv, OnlyDownloads, PeerTypeOK

---------------------------------------------------------------------------
(* The world around the manager.                                           *)

(* Requesting a management cycle keeps every download received.            *)
LEMMA RequestInv ==
  ASSUME LoopInv, ReceiveInv, NEW Reset, Request(Reset)
  PROVE  LoopInv' /\ ReceiveInv'
<1> DEFINE s(d) == [transfer[d] EXCEPT !.remotely_queued = FALSE]
<1>1. /\ transfer' = [d \in Transfers |-> IF d \in Reset THEN s(d) ELSE transfer[d]]
      /\ wanted' = TRUE /\ ready' = ready \o WakeManager
      /\ UNCHANGED <<listed, lock, handle, rqHandle, co, left, mgmt, shares>>
  BY DEF Request
<1>2. \A d \in Transfers :
        /\ s(d) \in Transfer /\ s(d).upload = transfer[d].upload
        /\ s(d).state = transfer[d].state /\ s(d).localPath = transfer[d].localPath
  BY DEF LoopInv, LoopTypeOK, Transfer
<1> HIDE DEF s
<1>3. /\ transfer' \in [Transfers -> Transfer]
      /\ \A d \in Transfers :
           /\ transfer'[d].upload = transfer[d].upload
           /\ transfer'[d].state = transfer[d].state
           /\ transfer'[d].localPath = transfer[d].localPath
  BY <1>1, <1>2 DEF LoopInv, LoopTypeOK
<1>4. ready' \in Seq(Callback)
  BY <1>1, ScheduledType DEF LoopInv, LoopTypeOK
<1>5. LoopInv'
  BY <1>1, <1>3, <1>4 DEF LoopInv, LoopTypeOK, Works, Alive
<1>6. \A c \in Coroutine : Stopping(c)' /\ Entered(c)'
  BY <1>1 DEF ReceiveInv, Stopping, Entered, TakesOver
<1>7. HandleOwned' /\ OnlyDownloads' /\ DownloadingHasTask'
  BY <1>1, <1>3 DEF ReceiveInv, HandleOwned, OnlyDownloads, DownloadingHasTask, Receives
<1> QED
  BY <1>1, <1>5, <1>6, <1>7 DEF ReceiveInv, IncompleteRetried

(* A restart leaves nothing DOWNLOADING, and a cycle is requested for what *)
(* is listed.                                                              *)
LEMMA RestartsInv ==
  ASSUME DownloadsInv, Restart
  PROVE  LoopInv' /\ ReceiveInv'
<1>1. /\ LoopInv'
      /\ \A d \in Transfers : /\ transfer'[d].upload = transfer[d].upload
                             /\ ~IsProcessing(transfer'[d])
                             /\ handle'[d] = None /\ rqHandle'[d] = None
      /\ \A c \in Coroutine : co'[c].pc \in {"idle", "done"}
  BY RestartInv DEF DownloadsInv
<1>2. HandleOwned' /\ OnlyDownloads' /\ DownloadingHasTask'
  BY <1>1 DEF DownloadsInv, ReceiveInv, HandleOwned, OnlyDownloads, DownloadingHasTask,
     IsProcessing
<1>3. \A c \in Coroutine : Stopping(c)' /\ Entered(c)'
  BY <1>1 DEF Stopping, Entered
<1>4. IncompleteRetried'
  <2>1. ~wanted' => listed = <<>> /\ DOMAIN listed' = DOMAIN listed
    BY DEF Restart
  <2>2. DOMAIN <<>> = {}
    OBVIOUS
  <2>3. ~wanted' => Listed' = {}
    BY <2>1, <2>2 DEF Listed, ToSet
  <2> QED
    BY <2>3 DEF IncompleteRetried, Eligible
<1> QED
  BY <1>1, <1>2, <1>3, <1>4 DEF ReceiveInv

(* Calls from outside, changes of status, PeerUploadFailed and restarts    *)
(* keep the inductive invariant.                                           *)
LEMMA WorldInv ==
  ASSUME DownloadsInv, Call \/ StatusChanges \/ PeerUploadFailed \/ ClientRestarts
  PROVE  DownloadsInv'
<1> USE DEF DownloadsInv
<1>1. ASSUME NEW what, Changes(what) PROVE changes' \in 0..MaxChanges
  BY <1>1, DownloadsAssumption DEF Changes, PeerTypeOK
<1>2. \A Reset : Request(Reset) => LoopInv' /\ ReceiveInv'
  BY RequestInv
<1>3. CASE Call
  <2>1. PICK job \in CallJobs, d \in Transfers, c \in Unused(Calls) : Arrives(c, job, d)
    BY <1>3 DEF Call
  <2>2. job \in Job
    BY DownloadsAssumption DEF Jobs, Job
  <2>3. c \in Coroutine /\ c \notin Tasks /\ c \notin Transfers
    BY LoopAssumption DEF Unused, Coroutine
  <2>4. New(d, job).pc = "start"
    BY DEF New, Idle
  <2>5. /\ co' = [co EXCEPT ![c] = New(d, job)]
        /\ UNCHANGED <<transfer, listed, lock, handle, rqHandle, wanted, offline, changes>>
    BY <1>3, <2>1 DEF Call, Arrives, peerVars
  <2>6. /\ wanted' \/ (~wanted /\ \A u \in Transfers : u \in Eligible' => u \in Eligible)
        /\ listed' \in Seq(Transfers)
    BY <2>5, SameEligible DEF LoopInv, LoopTypeOK
  <2>7. ReceiveInv'
    BY <2>3, <2>4, <2>5, <2>6, OneReceives
  <2> QED
    BY <2>1, <2>2, <2>5, <2>7, ArrivesInv DEF PeerTypeOK
<1>4. CASE StatusChanges
  BY <1>1, <1>2, <1>4 DEF StatusChanges, PeerTypeOK
<1>5. CASE PeerUploadFailed
  BY <1>1, <1>2, <1>5 DEF PeerUploadFailed, PeerTypeOK
<1>6. CASE ClientRestarts
  BY <1>1, <1>6, RestartsInv DEF ClientRestarts, PeerTypeOK
<1> QED
  BY <1>3, <1>4, <1>5, <1>6

---------------------------------------------------------------------------
(* The theorems.                                                           *)

(* A start from the cache satisfies the inductive invariant.               *)
LEMMA InitInv == Init => DownloadsInv
<1> SUFFICES ASSUME Init PROVE DownloadsInv
  OBVIOUS
<1>1. PICK known \in SUBSET Transfers :
        /\ listed \in [1..Cardinality(known) -> known]
        /\ \E s \in [known -> CachedStates] :
             transfer = [d \in Transfers |->
               IF d \in known THEN CachedDownload(s[d]) ELSE NewTransfer(FALSE)]
  BY DEF Init
<1>2. listed \in Seq(Transfers)
  <2>1. listed \in Seq(known)
    BY <1>1, OrderType
  <2> QED
    BY <2>1
<1>3. /\ NewTransfer(FALSE) \in Transfer /\ ~NewTransfer(FALSE).upload
      /\ NewTransfer(FALSE).state = "VIRGIN"
  BY DEF NewTransfer, Transfer, State, Reason, None
<1>4. ASSUME NEW s \in CachedStates
      PROVE  /\ CachedDownload(s) \in Transfer /\ ~CachedDownload(s).upload
             /\ CachedDownload(s).state = s
  <2>1. s \in State
    BY DownloadsAssumption DEF State
  <2> DEFINE a == IF s = "ABORTED" THEN "Requested" ELSE None
             b == s \in {"COMPLETE", "INCOMPLETE"}
  <2>2. a \in Reason /\ b \in BOOLEAN
    BY DEF Reason
  <2>3. CachedDownload(s) = [NewTransfer(FALSE) EXCEPT !.state = s, !.abort_reason = a,
                                                       !.localPath = b]
    BY DEF CachedDownload
  <2> HIDE DEF a, b
  <2> QED
    BY <2>1, <2>2, <2>3 DEF NewTransfer, Transfer, Reason, None
<1>5. /\ transfer \in [Transfers -> Transfer]
      /\ \A d \in Transfers : /\ ~transfer[d].upload
                              /\ transfer[d].state \notin {"DOWNLOADING", "UPLOADING"}
  <2>1. PICK s \in [known -> CachedStates] :
          transfer = [d \in Transfers |->
            IF d \in known THEN CachedDownload(s[d]) ELSE NewTransfer(FALSE)]
    BY <1>1
  <2>2. \A d \in known :
          /\ CachedDownload(s[d]) \in Transfer /\ ~CachedDownload(s[d]).upload
          /\ CachedDownload(s[d]).state \notin {"DOWNLOADING", "UPLOADING"}
    BY <1>4, DownloadsAssumption
  <2> QED
    BY <1>3, <2>1, <2>2
<1>6. Idle(None) \in CoroutineState /\ Idle(None).pc = "idle"
  BY IdleType DEF Idle
<1>7. ready \in Seq(Callback)
  <2>1. <<Manage>> \in Seq(Callback) /\ <<>> \in Seq(Callback)
    BY DEF Manage, Callback
  <2> QED
    BY <2>1 DEF Init
<1>8. lock \in [Transfers -> [holder : Coroutine \cup {None}, waiters : Seq(Coroutine)]]
  BY DEF Init
<1>9. /\ handle \in [Transfers -> Tasks \cup {None}] /\ rqHandle \in [Transfers -> Tasks \cup {None}]
      /\ left \in Nat /\ mgmt \in {"get", "sleep", "shares"}
      /\ wanted \in BOOLEAN /\ shares \in BOOLEAN
  BY DEF Init
<1>10. co \in [Coroutine -> CoroutineState] /\ \A c \in Coroutine : co[c].pc = "idle"
  BY <1>6 DEF Init
<1>11. LoopInv
  BY <1>2, <1>5, <1>7, <1>9, <1>10, <1>8 DEF LoopInv, LoopTypeOK, Works, Alive
<1>12. PeerTypeOK
  BY DownloadsAssumption DEF Init, PeerTypeOK
<1>13. IncompleteRetried
  <2>1. ~wanted => listed = <<>>
    BY DEF Init
  <2>2. ~wanted => Listed = {}
    BY <2>1 DEF Listed, ToSet
  <2> QED
    BY <2>2 DEF IncompleteRetried, Eligible
<1>14. ReceiveInv
  BY <1>5, <1>10, <1>13 DEF Init, ReceiveInv, HandleOwned, OnlyDownloads, DownloadingHasTask,
     Stopping, Entered
<1> QED
  BY <1>11, <1>12, <1>14 DEF DownloadsInv

(* Every step keeps the inductive invariant.                               *)
LEMMA NextInv == DownloadsInv /\ [Next]_vars => DownloadsInv'
<1> SUFFICES ASSUME DownloadsInv, [Next]_vars PROVE DownloadsInv'
  OBVIOUS
<1>1. CASE Next
  BY <1>1, TaskStepInv, CallStepInv, StopStepInv, CycleInv, WakesStepInv, WorldInv
     DEF Next, LoopStep, ManagerStep
<1>2. CASE UNCHANGED vars
  <2>1. LoopInv'
    BY <1>2 DEF DownloadsInv, vars, loopVars, LoopInv, LoopTypeOK, Works, Alive
  <2>2. ReceiveInv'
    BY <1>2, NothingReceived DEF DownloadsInv, vars, loopVars, peerVars
  <2> QED
    BY <1>2, <2>1, <2>2 DEF DownloadsInv, vars, PeerTypeOK
<1> QED
  BY <1>1, <1>2

(* The inductive invariant holds in every reachable state.                 *)
THEOREM Inductive == Spec => []DownloadsInv
BY InitInv, NextInv, PTL DEF Spec

(* Whatever peers and application do, every variable of the manager keeps   *)
(* its type.                                                               *)
THEOREM TypeCorrect == Spec => []TypeOK
<1>1. DownloadsInv => TypeOK
  BY DEF DownloadsInv, LoopInv, TypeOK
<1> QED
  BY <1>1, Inductive, PTL

(* _initialize_download and _download_file leave no download DOWNLOADING    *)
(* with nobody receiving it, however many tasks the uploader's offers have  *)
(* created and whatever is aborted, paused or queued meanwhile.             *)
THEOREM NeverAbandoned == Spec => []DownloadingHasTask
<1>1. DownloadsInv => DownloadingHasTask
  BY DEF DownloadsInv, ReceiveInv
<1> QED
  BY <1>1, Inductive, PTL

(* Every event that interrupts a download, and every cycle that finds one   *)
(* interrupted, leaves something behind that asks the uploader for it again.*)
THEOREM RetriesIncomplete == Spec => []IncompleteRetried
<1>1. DownloadsInv => IncompleteRetried
  BY DEF DownloadsInv, ReceiveInv
<1> QED
  BY <1>1, Inductive, PTL
=============================================================================
