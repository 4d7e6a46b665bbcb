------------------------- MODULE TransferLoop_proof -------------------------
(***************************************************************************)
(* Every step of the event loop keeps the variables of TransferLoop within  *)
(* their types.  The modules that extend TransferLoop cite these lemmas.    *)
(***************************************************************************)
EXTENDS TransferLoop, TLAPS, SequenceTheorems

---------------------------------------------------------------------------
(* The records.                                                            *)

(* A coroutine that is not running has the type of one.                    *)
LEMMA IdleType ==
  ASSUME NEW t \in Transfers \cup {None}
  PROVE  Idle(t) \in CoroutineState
BY DEF Idle, CoroutineState, None, State, Point, IOPoint, Reason

(* Changing its state keeps the type of a transfer.                        *)
LEMMA SetState ==
  ASSUME NEW t \in Transfer, NEW s \in State
  PROVE  LET r == [t EXCEPT !.state = s] IN
         r \in Transfer /\ r.upload = t.upload /\ r.state = s
BY DEF Transfer

(* What queue() resets keeps the type of a transfer.                       *)
LEMMA QueueFieldsType ==
  ASSUME NEW t \in Transfer, NEW class, NEW arg
  PROVE  LET r == QueueFields(t, class, arg) IN
         r \in Transfer /\ r.upload = t.upload /\ r.state = t.state
<1> DEFINE q == [t EXCEPT !.remotely_queued = (arg = Remotely)]
<1>1. q \in Transfer /\ q.upload = t.upload /\ q.state = t.state
  BY DEF Transfer
<1>2. ASSUME NEW r \in Transfer
      PROVE  StartOver(r) \in Transfer /\ StartOver(r).upload = r.upload /\ StartOver(r).state = r.state
  BY DEF StartOver, Transfer
<1>4. ASSUME NEW r \in Transfer
      PROVE  Forgive(r) \in Transfer /\ Forgive(r).upload = r.upload /\ Forgive(r).state = r.state
  BY DEF Forgive, Transfer, Reason, None
<1> HIDE DEF q
<1>3. QueueFields(t, class, arg) \in {q, StartOver(q), Forgive(q), Forgive(StartOver(q))}
  BY DEF QueueFields, q
<1> QED
  BY <1>1, <1>2, <1>3, <1>4

(* Every operation of a state object keeps the types of the fields.        *)
LEMMA FieldsType ==
  ASSUME NEW t \in Transfer, NEW class, NEW op, NEW arg,
         op \in {"fail", "abort"} => arg \in Reason
  PROVE  LET r == Fields(t, class, op, arg) IN
         r \in Transfer /\ r.upload = t.upload /\ r.state = t.state
<1>1. CASE op = "queue"
  BY <1>1, QueueFieldsType DEF Fields
<1>2. CASE op = "fail"
  BY <1>2 DEF Fields, Transfer
<1>3. CASE op = "abort"
  BY <1>3 DEF Fields, Transfer
<1>4. CASE op \notin {"queue", "fail", "abort"}
  BY <1>4 DEF Fields, Transfer
<1> QED
  BY <1>1, <1>2, <1>3, <1>4

(* Every operation leads to a state.                                       *)
LEMMA TargetType ==
  ASSUME NEW upload \in BOOLEAN, NEW op \in Operation
  PROVE  Target(upload, op) \in State
BY DEF Operation, Target, State

(* A completed operation keeps the type and the direction of a transfer.   *)
LEMMA ApplyType ==
  ASSUME NEW t \in Transfer, NEW class \in State, NEW op \in Operation, NEW arg,
         op \in {"fail", "abort"} => arg \in Reason
  PROVE  LET r == Apply(t, class, op, arg) IN
         /\ r \in Transfer /\ r.upload = t.upload
         /\ r.state = IF Defines(class, op) THEN Target(t.upload, op) ELSE t.state
<1>1. PICK f : f = Fields(t, class, op, arg)
  OBVIOUS
<1>2. f \in Transfer /\ f.upload = t.upload
  BY <1>1, FieldsType
<1>3. PICK s \in State : s = Target(t.upload, op)
  BY TargetType DEF Transfer
<1>4. Apply(t, class, op, arg) = IF Defines(class, op) THEN [f EXCEPT !.state = s] ELSE t
  BY <1>1, <1>3 DEF Apply
<1> QED
  BY <1>2, <1>3, <1>4, SetState

(* A coroutine that is cancelled at a lock leaves a queue of coroutines.   *)
LEMMA WithoutType ==
  ASSUME NEW S, NEW q \in Seq(S), NEW c
  PROVE  Without(q, c) \in Seq(S)
<1>1. CASE c \in Range(q)
  <2>1. PICK i \in 1..Len(q) : i = CHOOSE j \in DOMAIN q : q[j] = c
    BY <1>1 DEF Range
  <2>2. SubSeq(q, 1, i - 1) \in Seq(S) /\ SubSeq(q, i + 1, Len(q)) \in Seq(S)
    OBVIOUS
  <2> QED
    BY <1>1, <2>1, <2>2 DEF Without, RemoveAt
<1>2. CASE c \notin Range(q)
  BY <1>2 DEF Without
<1> QED
  BY <1>1, <1>2

---------------------------------------------------------------------------
(* The loop's own invariant: the types, a coroutine that is under way works *)
(* for a transfer, and one that is in the middle of an operation, or about  *)
(* to enter it, holds a real one.                                           *)

Bound(class, op, arg, then) ==
  /\ class \in State /\ op \in Operation /\ arg \in Reason \cup {Remotely}
  /\ op \in {"fail", "abort"} => arg \in Reason
  /\ then \in IOPoint \cup Immediate \cup {"done"}

Works(c) ==
  /\ Alive(c) => co[c].tr \in Transfers
  /\ co[c].pc \in {"lock", "gather", "unlink"} =>
       Bound(co[c].class, co[c].op, co[c].arg, co[c].then)
  /\ c \in Transfers /\ co[c].pc = "start" =>
       Bound(co[c].class, co[c].op, co[c].arg, "done")

LoopInv == LoopTypeOK /\ \A c \in Coroutine : Works(c)

(* What a step schedules are callbacks.                                    *)
LEMMA ScheduledType ==
  ASSUME LoopTypeOK
  PROVE  /\ WakeManager \in Seq(Callback)
         /\ \A c \in Coroutine :
              Ended(c) \in Seq(Callback) /\ <<Step(c)>> \in Seq(Callback)
         /\ \A c \in Coroutine \cup {None} : CancelWakes(c) \in Seq(Callback)
         /\ <<Manage>> \in Seq(Callback)
         /\ ready # <<>> => Rest \in Seq(Callback)
<1>1. /\ Manage \in Callback
      /\ \A c \in Coroutine : Step(c) \in Callback /\ Done(c) \in Callback /\ Gathered(c) \in Callback
  BY DEF Manage, Step, Done, Gathered, Callback
<1>2. WakeManager \in Seq(Callback) /\ <<Manage>> \in Seq(Callback)
  BY <1>1 DEF WakeManager
<1>3. ASSUME NEW c \in Coroutine
      PROVE  Ended(c) \in Seq(Callback) /\ <<Step(c)>> \in Seq(Callback)
  <2>1. <<Step(c)>> \in Seq(Callback) /\ <<Done(c)>> \in Seq(Callback) /\ <<Gathered(c)>> \in Seq(Callback)
    BY <1>1
  <2> DEFINE h == lock[co[c].tr].holder
             g == IF h # None /\ c \in co[h].waits THEN <<Gathered(c)>> ELSE <<>>
  <2>2. g \in Seq(Callback)
    BY <2>1
  <2>3. <<Done(c)>> \o g \in Seq(Callback)
    BY <2>1, <2>2
  <2> QED
    BY <2>1, <2>3 DEF Ended
<1>4. ASSUME NEW c \in Coroutine \cup {None}
      PROVE  CancelWakes(c) \in Seq(Callback)
  <2>1. c # None => <<Step(c)>> \in Seq(Callback) /\ <<Gathered(c)>> \in Seq(Callback)
    BY <1>1
  <2> QED
    BY <2>1 DEF CancelWakes
<1>5. ready # <<>> => Rest \in Seq(Callback)
  BY DEF LoopTypeOK, Rest
<1> QED
  BY <1>2, <1>3, <1>4, <1>5

(* A coroutine that has ended has the type of one and is not alive.        *)
LEMMA FinishedType ==
  ASSUME LoopTypeOK, NEW c \in Coroutine
  PROVE  /\ Finished(c) \in CoroutineState /\ Finished(c).pc = "done"
         /\ c \in Tasks => Finished(c).tr = co[c].tr /\ Finished(c).job = co[c].job
BY LoopAssumption DEF Finished, LoopTypeOK, CoroutineState, Idle, None, State, Point, Reason, Job

(* An operation that goes through (transition, release of the lock) keeps  *)
(* the invariant of the loop.                                              *)
LEMMA SettleInv ==
  ASSUME LoopInv, left' \in Nat, ready # <<>>,
         NEW c \in Coroutine, co[c].tr \in Transfers,
         NEW class, NEW op, NEW arg, NEW then, Bound(class, op, arg, then),
         NEW behind \in Seq(Coroutine),
         Settle(c, class, op, arg, then, behind)
  PROVE  LoopInv'
<1> DEFINE t == co[c].tr
           moved == Defines(class, op)
           end == IF then = "done" THEN Finished(c)
                  ELSE [Idle(t) EXCEPT !.job = co[c].job, !.pc = then]
<1> USE DEF LoopInv
<1>1. transfer' \in [Transfers -> Transfer]
  BY ApplyType DEF Settle, Bound, LoopTypeOK
<1>2. lock' \in [Transfers -> [holder : Coroutine \cup {None}, waiters : Seq(Coroutine)]]
  BY DEF Settle, LoopTypeOK
<1>3. end \in CoroutineState /\ end.pc = then /\ (then # "done" => end.tr = t)
  <2>1. CASE then = "done"
    BY <2>1, FinishedType
  <2>2. CASE then # "done"
    BY <2>2 DEF Idle, CoroutineState, LoopTypeOK, Bound, None, State, Reason, Point, Immediate
  <2> QED
    BY <2>1, <2>2
<1>4. co' = [co EXCEPT ![c] = end]
  BY DEF Settle
<1> HIDE DEF end
<1>5. co' \in [Coroutine -> CoroutineState]
  BY <1>3, <1>4 DEF LoopTypeOK
<1>6. \A x \in Coroutine : Works(x)'
  BY <1>3, <1>4 DEF Works, Alive, LoopTypeOK, Bound, IOPoint, Immediate
<1>7. ready' \in Seq(Callback)
  <2> DEFINE a == IF moved THEN WakeManager ELSE <<>>
             b == IF behind # <<>> THEN <<Step(Head(behind))>> ELSE <<>>
             d == IF then = "done" THEN Ended(c) ELSE <<>>
  <2>1. a \in Seq(Callback) /\ d \in Seq(Callback) /\ Rest \in Seq(Callback)
    BY ScheduledType
  <2>2. b \in Seq(Callback)
    <3>1. behind # <<>> => Head(behind) \in Coroutine
      OBVIOUS
    <3> QED
      BY <3>1, ScheduledType
  <2>3. ready' = ((Rest \o a) \o b) \o d
    BY DEF Settle
  <2> HIDE DEF a, b, d
  <2> QED
    BY <2>1, <2>2, <2>3
<1>8. wanted' \in BOOLEAN
  BY DEF Settle, LoopTypeOK
<1> QED
  BY <1>1, <1>2, <1>5, <1>6, <1>7, <1>8 DEF Settle, LoopTypeOK

(* An operation that suspends with the lock held keeps the invariant of    *)
(* the loop.                                                               *)
LEMMA HoldInv ==
  ASSUME LoopInv, NEW c \in Coroutine, co[c].tr \in Transfers,
         NEW class, NEW op, NEW arg, NEW then, Bound(class, op, arg, then),
         NEW behind \in Seq(Coroutine),
         NEW pc \in {"gather", "unlink"}, NEW waits \in SUBSET Tasks,
         Hold(c, class, op, arg, then, behind, pc, waits)
  PROVE  /\ lock' \in [Transfers -> [holder : Coroutine \cup {None}, waiters : Seq(Coroutine)]]
         /\ co' \in [Coroutine -> CoroutineState]
         /\ \A x \in Coroutine : Works(x)'
<1> USE DEF LoopInv
<1> DEFINE held == [co[c] EXCEPT !.pc = pc, !.class = class, !.op = op,
                                 !.arg = arg, !.then = then, !.waits = waits]
           next(x) == IF x = c THEN held
                      ELSE IF x \in waits /\ Alive(x)
                      THEN [co[x] EXCEPT !.cancelled = TRUE] ELSE co[x]
<1>1. lock' \in [Transfers -> [holder : Coroutine \cup {None}, waiters : Seq(Coroutine)]]
  BY DEF Hold, LoopTypeOK
<1>2. co' = [x \in Coroutine |-> next(x)]
  BY DEF Hold
<1>3. held \in CoroutineState /\ held.tr = co[c].tr /\ held.pc = pc
      /\ held.class = class /\ held.op = op /\ held.arg = arg /\ held.then = then
  BY DEF LoopTypeOK, CoroutineState, Bound, Point
<1>4. ASSUME NEW r \in CoroutineState
      PROVE  LET s == [r EXCEPT !.cancelled = TRUE] IN
             /\ s \in CoroutineState /\ s.tr = r.tr /\ s.pc = r.pc
             /\ s.class = r.class /\ s.op = r.op /\ s.arg = r.arg /\ s.then = r.then
  BY DEF CoroutineState
<1>5. ASSUME NEW x \in Coroutine
      PROVE  co'[x] \in CoroutineState /\ Works(x)'
  <2>1. CASE x = c
    BY <1>2, <1>3, <2>1 DEF Works, Alive
  <2>2. CASE x # c
    <3> DEFINE m == [co[x] EXCEPT !.cancelled = TRUE]
    <3>1. co'[x] = IF x \in waits /\ Alive(x) THEN m ELSE co[x]
      BY <1>2, <2>2
    <3>2. /\ m \in CoroutineState /\ m.tr = co[x].tr /\ m.pc = co[x].pc
          /\ m.class = co[x].class /\ m.op = co[x].op /\ m.arg = co[x].arg
          /\ m.then = co[x].then
      BY <1>4 DEF LoopTypeOK
    <3> HIDE DEF m
    <3> QED
      BY <3>1, <3>2 DEF Works, Alive, LoopTypeOK
  <2> QED
    BY <2>1, <2>2
<1> QED
  BY <1>1, <1>2, <1>5

(* An operation that has the lock keeps the invariant of the loop.         *)
LEMMA PerformInv ==
  ASSUME LoopInv, left' \in Nat, ready # <<>>,
         NEW c \in Coroutine, co[c].tr \in Transfers,
         NEW class, NEW op, NEW arg, NEW then, Bound(class, op, arg, then),
         NEW behind \in Seq(Coroutine),
         Perform(c, class, op, arg, then, behind)
  PROVE  LoopInv'
<1> DEFINE t == co[c].tr
           stops == Defines(class, op) /\ op \in {"abort", "pause"}
<1>1. Rest \in Seq(Callback)
  BY ScheduledType DEF LoopInv
<1>2. CASE stops /\ Handles(t) # {}
  <2>1. /\ Hold(c, class, op, arg, then, behind, "gather", Handles(t))
        /\ ready' = Rest \o CancelWakes(rqHandle[t]) \o CancelWakes(handle[t])
        /\ UNCHANGED <<transfer, listed, handle, rqHandle, mgmt, wanted, shares>>
    BY <1>2 DEF Perform
  <2>2. Handles(t) \in SUBSET Tasks
    BY DEF Handles, LoopInv, LoopTypeOK
  <2>3. CancelWakes(rqHandle[t]) \in Seq(Callback) /\ CancelWakes(handle[t]) \in Seq(Callback)
    BY ScheduledType DEF LoopInv, LoopTypeOK, Coroutine
  <2>4. ready' \in Seq(Callback)
    BY <1>1, <2>1, <2>3
  <2> QED
    BY <2>1, <2>2, <2>4, HoldInv DEF LoopInv, LoopTypeOK
<1>3. CASE stops /\ Handles(t) = {} /\ Unlinks(c, op)
  <2>1. /\ Hold(c, class, op, arg, then, behind, "unlink", {})
        /\ ready' = Rest
        /\ UNCHANGED <<transfer, listed, handle, rqHandle, mgmt, wanted, shares>>
    BY <1>3 DEF Perform
  <2> QED
    BY <1>1, <2>1, HoldInv DEF LoopInv, LoopTypeOK
<1>4. CASE ~stops \/ (Handles(t) = {} /\ ~Unlinks(c, op))
  BY <1>4, SettleInv DEF Perform
<1> QED
  BY <1>2, <1>3, <1>4

(* Calling an operation, at a free or a taken lock, keeps the invariant    *)
(* of the loop.                                                            *)
LEMMA EnterInv ==
  ASSUME LoopInv, left' \in Nat, ready # <<>>,
         NEW c \in Coroutine, co[c].tr \in Transfers,
         NEW class, NEW op, NEW arg, NEW then, Bound(class, op, arg, then),
         EnterAs(c, class, op, arg, then)
  PROVE  LoopInv'
<1> DEFINE t == co[c].tr
<1>1. CASE lock[t].holder = None /\ lock[t].waiters = <<>>
  <2>1. <<>> \in Seq(Coroutine)
    OBVIOUS
  <2>2. Perform(c, class, op, arg, then, <<>>)
    BY <1>1 DEF EnterAs
  <2> QED
    BY <2>1, <2>2, PerformInv
<1>2. CASE ~(lock[t].holder = None /\ lock[t].waiters = <<>>)
  <2>1. /\ lock' = [lock EXCEPT ![t].waiters = Append(@, c)]
        /\ co' = [co EXCEPT ![c] = [@ EXCEPT !.pc = "lock", !.class = class,
                                    !.op = op, !.arg = arg, !.then = then]]
        /\ ready' = Rest
        /\ UNCHANGED <<transfer, listed, handle, rqHandle, mgmt, wanted, shares>>
    BY <1>2 DEF EnterAs
  <2>2. lock' \in [Transfers -> [holder : Coroutine \cup {None}, waiters : Seq(Coroutine)]]
    <3>1. Append(lock[t].waiters, c) \in Seq(Coroutine)
      BY DEF LoopInv, LoopTypeOK
    <3> QED
      BY <2>1, <3>1 DEF LoopInv, LoopTypeOK
  <2>3. co' \in [Coroutine -> CoroutineState] /\ \A x \in Coroutine : Works(x)'
    <3> DEFINE w == [co[c] EXCEPT !.pc = "lock", !.class = class, !.op = op,
                                  !.arg = arg, !.then = then]
    <3>1. co' = [co EXCEPT ![c] = w]
      BY <2>1
    <3>2. /\ w \in CoroutineState /\ w.tr = co[c].tr /\ w.pc = "lock"
          /\ w.class = class /\ w.op = op /\ w.arg = arg /\ w.then = then
      BY DEF LoopInv, LoopTypeOK, CoroutineState, Bound, Point
    <3> HIDE DEF w
    <3> QED
      BY <3>1, <3>2 DEF LoopInv, LoopTypeOK, Works, Alive
  <2>4. ready' \in Seq(Callback)
    BY <2>1, ScheduledType DEF LoopInv
  <2> QED
    BY <2>1, <2>2, <2>3, <2>4 DEF LoopInv, LoopTypeOK
<1> QED
  BY <1>1, <1>2

---------------------------------------------------------------------------
(* The steps of the loop.                                                  *)

(* The shape most steps have: one coroutine and the FIFO change.           *)
LEMMA OneMoves ==
  ASSUME LoopInv, left' \in Nat, ready' \in Seq(Callback),
         NEW c \in Coroutine, NEW r \in CoroutineState,
         co' = [co EXCEPT ![c] = r],
         r.pc \notin {"idle", "done"} => r.tr \in Transfers,
         r.pc \in {"lock", "gather", "unlink"} => Bound(r.class, r.op, r.arg, r.then),
         c \in Transfers => r.pc # "start",
         lock' \in [Transfers -> [holder : Coroutine \cup {None}, waiters : Seq(Coroutine)]],
         handle' \in [Transfers -> Tasks \cup {None}],
         rqHandle' \in [Transfers -> Tasks \cup {None}],
         UNCHANGED <<transfer, listed, mgmt, wanted, shares>>
  PROVE  LoopInv'
BY DEF LoopInv, LoopTypeOK, Works, Alive

(* Running a callback leaves a turn and a FIFO.                            *)
LEMMA RunsLeft ==
  ASSUME LoopInv, NEW cb, Runs(cb)
  PROVE  left' \in Nat /\ ready # <<>> /\ Rest \in Seq(Callback)
BY ScheduledType DEF Runs, LoopInv, LoopTypeOK

(* A callback from outside leaves a turn and a FIFO.                       *)
LEMMA OutsideLeft ==
  ASSUME LoopInv, NEW cb, <<cb>> \in Seq(Callback), Outside(cb)
  PROVE  left' \in Nat /\ ready' \in Seq(Callback)
BY DEF Outside, LoopInv, LoopTypeOK

(* A coroutine that returns keeps the invariant of the loop.               *)
LEMMA ReturnInv ==
  ASSUME LoopInv, left' \in Nat, ready # <<>>, NEW c \in Coroutine, Return(c)
  PROVE  LoopInv'
<1>1. Finished(c) \in CoroutineState /\ Finished(c).pc = "done"
  BY FinishedType DEF LoopInv
<1>2. ready' \in Seq(Callback)
  BY ScheduledType DEF Return, LoopInv
<1> QED
  BY <1>1, <1>2, OneMoves DEF Return, LoopInv, LoopTypeOK

(* A task that CancelledError ends keeps the invariant of the loop.        *)
LEMMA CancelledInv ==
  ASSUME LoopInv, NEW c \in Coroutine, Cancelled(c)
  PROVE  LoopInv'
<1>1. Finished(c) \in CoroutineState /\ Finished(c).pc = "done"
  BY FinishedType DEF LoopInv
<1>2. left' \in Nat /\ ready # <<>>
  BY RunsLeft DEF Cancelled
<1>3. ready' \in Seq(Callback)
  BY <1>2, ScheduledType DEF Cancelled, LoopInv
<1>4. lock' \in [Transfers -> [holder : Coroutine \cup {None}, waiters : Seq(Coroutine)]]
  <2> DEFINE t == co[c].tr
             rest == Without(lock[t].waiters, c)
  <2>1. t \in Transfers => rest \in Seq(Coroutine)
    BY WithoutType DEF LoopInv, LoopTypeOK
  <2>2. lock' = [lock EXCEPT ![t].waiters = rest]
    BY DEF Cancelled
  <2> HIDE DEF rest
  <2> QED
    BY <2>1, <2>2 DEF LoopInv, LoopTypeOK
<1> QED
  BY <1>1, <1>2, <1>3, <1>4, OneMoves DEF Cancelled, LoopInv, LoopTypeOK

(* A coroutine that awaits I/O keeps the invariant of the loop.            *)
LEMMA SuspendInv ==
  ASSUME LoopInv, left' \in Nat, ready # <<>>, NEW c \in Coroutine,
         co[c].tr \in Transfers, NEW pc \in IOPoint, Suspend(c, pc)
  PROVE  LoopInv'
<1> DEFINE r == [co[c] EXCEPT !.pc = pc]
<1>1. r \in CoroutineState /\ r.pc = pc /\ r.tr = co[c].tr
  BY DEF LoopInv, LoopTypeOK, CoroutineState, Point
<1>2. co' = [co EXCEPT ![c] = r]
  BY DEF Suspend
<1>3. ready' \in Seq(Callback)
  BY ScheduledType DEF Suspend, LoopInv
<1>4. pc \notin {"idle", "done", "start", "lock", "gather", "unlink"}
  BY DEF IOPoint
<1> HIDE DEF r
<1> QED
  BY <1>1, <1>2, <1>3, <1>4, OneMoves DEF Suspend, LoopInv, LoopTypeOK

(* I/O that comes back keeps the invariant of the loop.                    *)
LEMMA WakesInv ==
  ASSUME LoopInv, NEW c \in Coroutine, Wakes(c)
  PROVE  LoopInv'
<1>1. left' \in Nat /\ ready' \in Seq(Callback)
  BY ScheduledType, OutsideLeft DEF Wakes, LoopInv
<1> QED
  BY <1>1 DEF Wakes, LoopInv, LoopTypeOK, Works, Alive

(* The done-callback of a task keeps the invariant of the loop.            *)
LEMMA DoneCallbackInv ==
  ASSUME LoopInv, NEW c \in Tasks, DoneCallback(c)
  PROVE  LoopInv'
<1>1. left' \in Nat /\ ready' \in Seq(Callback)
  BY RunsLeft DEF DoneCallback
<1>2. /\ handle' \in [Transfers -> Tasks \cup {None}]
      /\ rqHandle' \in [Transfers -> Tasks \cup {None}]
  BY DEF DoneCallback, LoopInv, LoopTypeOK
<1>3. Idle(None) \in CoroutineState /\ Idle(None).pc = "idle"
  BY IdleType DEF Idle
<1> QED
  BY <1>1, <1>2, <1>3, OneMoves DEF DoneCallback, LoopInv, LoopTypeOK, Coroutine

(* The gather of _cancel_transfer_tasks keeps the invariant of the loop.   *)
LEMMA TaskGatheredInv ==
  ASSUME LoopInv, NEW c \in Tasks, TaskGathered(c)
  PROVE  LoopInv'
<1>1. left' \in Nat /\ Rest \in Seq(Callback)
  BY RunsLeft DEF TaskGathered
<1>2. PICK h \in Calls \cup Transfers :
        /\ co' = [co EXCEPT ![h].waits = @ \ {c}]
        /\ ready' = Rest \o (IF co[h].waits = {c} THEN <<Step(h)>> ELSE <<>>)
  BY DEF TaskGathered
<1>3. ready' \in Seq(Callback)
  BY <1>1, <1>2, ScheduledType DEF LoopInv, Coroutine
<1> DEFINE w == co[h].waits \ {c}
           r == [co[h] EXCEPT !.waits = w]
<1>4. co' = [co EXCEPT ![h] = r]
  BY <1>2
<1>7. co[h] \in CoroutineState /\ w \in SUBSET Tasks
  BY DEF LoopInv, LoopTypeOK, CoroutineState, Coroutine
<1> HIDE DEF w
<1>5. /\ r \in CoroutineState /\ r.tr = co[h].tr /\ r.pc = co[h].pc
      /\ r.class = co[h].class /\ r.op = co[h].op /\ r.arg = co[h].arg
      /\ r.then = co[h].then
  BY <1>7 DEF CoroutineState
<1> HIDE DEF r
<1>6. co' \in [Coroutine -> CoroutineState] /\ \A x \in Coroutine : Works(x)'
  BY <1>4, <1>5 DEF LoopInv, LoopTypeOK, Works, Alive, Coroutine
<1> QED
  BY <1>1, <1>3, <1>6 DEF TaskGathered, LoopInv, LoopTypeOK

(* The gather of manage_shares_changed keeps the invariant of the loop.    *)
LEMMA ShareGatheredInv ==
  ASSUME LoopInv, NEW t \in Transfers, ShareGathered(t)
  PROVE  LoopInv'
<1>1. left' \in Nat /\ Rest \in Seq(Callback)
  BY RunsLeft DEF ShareGathered
<1>2. ready' \in Seq(Callback)
  BY <1>1, ScheduledType DEF ShareGathered, LoopInv
<1>3. Idle(None) \in CoroutineState /\ Idle(None).pc = "idle"
  BY IdleType DEF Idle
<1> QED
  BY <1>1, <1>2, <1>3, OneMoves DEF ShareGathered, LoopInv, LoopTypeOK, Coroutine

(* The pause of the management task and its end keep the invariant of the  *)
(* loop.                                                                   *)
LEMMA ManagerInv ==
  ASSUME LoopInv, ManagerWakes \/ ManagerWaits
  PROVE  LoopInv'
<1>1. ASSUME ManagerWakes PROVE LoopInv'
  <2>1. left' \in Nat /\ ready' \in Seq(Callback)
    BY <1>1, ScheduledType, OutsideLeft DEF ManagerWakes, LoopInv
  <2> QED
    BY <1>1, <2>1 DEF ManagerWakes, LoopInv, LoopTypeOK, Works, Alive
<1>2. ASSUME ManagerWaits PROVE LoopInv'
  <2>1. left' \in Nat /\ Rest \in Seq(Callback)
    BY <1>2, RunsLeft DEF ManagerWaits
  <2> QED
    BY <1>2, <2>1 DEF ManagerWaits, LoopInv, LoopTypeOK, Works, Alive
<1> QED
  BY <1>1, <1>2

(* A call or a message from outside keeps the invariant of the loop.       *)
LEMMA ArrivesInv ==
  ASSUME LoopInv, NEW c, NEW job \in Job, NEW t \in Transfers, Arrives(c, job, t)
  PROVE  LoopInv'
<1>1. c \in Calls /\ c \in Coroutine /\ c \notin Transfers
  BY LoopAssumption DEF Arrives, Unused, Coroutine
<1>2. New(t, job) \in CoroutineState /\ New(t, job).pc = "start" /\ New(t, job).tr = t
  BY DEF New, Idle, CoroutineState, None, State, Point, Reason
<1>3. left' \in Nat /\ ready' \in Seq(Callback)
  BY <1>1, ScheduledType, OutsideLeft DEF Arrives, LoopInv
<1> QED
  BY <1>1, <1>2, <1>3, OneMoves DEF Arrives, LoopInv, LoopTypeOK

(* The calls of the application keep the invariant of the loop.            *)
LEMMA CallStartsInv ==
  ASSUME LoopInv, NEW c \in Coroutine, CallStarts(c)
  PROVE  LoopInv'
<1>1. left' \in Nat /\ ready # <<>>
  BY RunsLeft DEF CallStarts
<1>2. co[c].tr \in Transfers
  BY DEF CallStarts, LoopInv, Works, Alive
<1>3. /\ Bound(transfer[co[c].tr].state, "abort", "Requested", "done")
      /\ Bound(transfer[co[c].tr].state, "queue", None, "done")
      /\ Bound(transfer[co[c].tr].state, "pause", None, "done")
      /\ Bound(transfer[co[c].tr].state, "abort", "Requested", "removing")
  BY <1>2 DEF Bound, LoopInv, LoopTypeOK, Transfer, Operation, Reason, None, Immediate
<1> QED
  BY <1>1, <1>2, <1>3, EnterInv DEF CallStarts, Enter

(* An operation that is granted the lock, or whose tasks have stopped,     *)
(* keeps the invariant of the loop.                                        *)
LEMMA StopInv ==
  ASSUME LoopInv, NEW c \in Coroutine,
         LockGranted(c) \/ TasksStopped(c) \/ FileUnlinked(c)
  PROVE  LoopInv'
<1> DEFINE t == co[c].tr
<1>1. left' \in Nat /\ ready # <<>> /\ Rest \in Seq(Callback)
  BY RunsLeft DEF LockGranted, TasksStopped, FileUnlinked
<1>2. t \in Transfers /\ Bound(co[c].class, co[c].op, co[c].arg, co[c].then)
  BY DEF LockGranted, TasksStopped, FileUnlinked, LoopInv, Works, Alive
<1>3. lock[t].waiters \in Seq(Coroutine)
  BY <1>2 DEF LoopInv, LoopTypeOK
<1>4. CASE LockGranted(c)
  <2>1. Tail(lock[t].waiters) \in Seq(Coroutine)
    BY <1>3, <1>4 DEF LockGranted
  <2> QED
    BY <1>1, <1>2, <1>4, <2>1, PerformInv DEF LockGranted
<1>5. CASE TasksStopped(c) /\ Unlinks(c, co[c].op)
  <2> DEFINE r == [co[c] EXCEPT !.pc = "unlink"]
  <2>1. co' = [co EXCEPT ![c] = r] /\ ready' = Rest
    BY <1>5 DEF TasksStopped
  <2>2. /\ r \in CoroutineState /\ r.tr = t /\ r.pc = "unlink"
        /\ r.class = co[c].class /\ r.op = co[c].op /\ r.arg = co[c].arg
        /\ r.then = co[c].then
    BY DEF LoopInv, LoopTypeOK, CoroutineState, Point
  <2> HIDE DEF r
  <2> QED
    BY <1>1, <1>2, <1>5, <2>1, <2>2, OneMoves DEF TasksStopped, LoopInv, LoopTypeOK
<1>6. CASE TasksStopped(c) /\ ~Unlinks(c, co[c].op)
  BY <1>1, <1>2, <1>3, <1>6, SettleInv DEF TasksStopped
<1>7. CASE FileUnlinked(c)
  BY <1>1, <1>2, <1>3, <1>7, SettleInv DEF FileUnlinked
<1> QED
  BY <1>4, <1>5, <1>6, <1>7
(* Forgetting a transfer keeps the invariant of the loop.                  *)
LEMMA RemovedInv ==
  ASSUME LoopInv, NEW c \in Coroutine, Removed(c)
  PROVE  LoopInv'
<1>1. Finished(c) \in CoroutineState /\ Finished(c).pc = "done"
  BY FinishedType DEF LoopInv
<1>2. listed' \in Seq(Transfers)
  BY WithoutType DEF Removed, LoopInv, LoopTypeOK
<1>3. ready' \in Seq(Callback) /\ wanted' \in BOOLEAN
  <2>1. ready \in Seq(Callback) /\ WakeManager \in Seq(Callback) /\ wanted \in BOOLEAN
    BY ScheduledType DEF LoopInv, LoopTypeOK
  <2>2. ready \o WakeManager \in Seq(Callback)
    BY <2>1
  <2>3. \/ wanted' = TRUE /\ ready' = ready \o WakeManager
        \/ UNCHANGED <<wanted, ready>>
    BY DEF Removed
  <2> QED
    BY <2>1, <2>2, <2>3
<1>4. co' = [co EXCEPT ![c] = Finished(c)]
      /\ UNCHANGED <<transfer, lock, handle, rqHandle, left, mgmt, shares>>
  BY DEF Removed
<1>5. co' \in [Coroutine -> CoroutineState] /\ \A x \in Coroutine : Works(x)'
  BY <1>1, <1>4 DEF LoopInv, LoopTypeOK, Works, Alive
<1> QED
  BY <1>2, <1>3, <1>4, <1>5 DEF LoopInv, LoopTypeOK

(* read_cache leaves a transfer in no state that is being processed.       *)
LEMMA CorrectedType ==
  ASSUME NEW t \in Transfer, NEW whole
  PROVE  LET r == Corrected(t, whole) IN
         /\ r \in Transfer /\ r.upload = t.upload /\ ~IsProcessing(r)
<1> DEFINE r == [t EXCEPT !.remotely_queued = FALSE]
<1>1. r \in Transfer /\ r.upload = t.upload /\ r.state = t.state
  BY DEF Transfer
<1> HIDE DEF r
<1>2. CASE t.state = "INITIALIZING"
  <2>1. /\ Apply(r, t.state, "queue", None) \in Transfer
        /\ Apply(r, t.state, "queue", None).upload = r.upload
        /\ Apply(r, t.state, "queue", None).state = "QUEUED"
    BY <1>1, <1>2, ApplyType DEF Operation, State, Defines, Overrides, Target
  <2> QED
    BY <1>1, <1>2, <2>1 DEF Corrected, IsProcessing, r
<1>3. CASE t.state # "INITIALIZING" /\ IsTransferring(t)
  <2>1. PICK s \in {"COMPLETE", "INCOMPLETE"} : Corrected(t, whole) = [r EXCEPT !.state = s]
    BY <1>3 DEF Corrected, r
  <2>2. s \in State /\ s \notin {"DOWNLOADING", "UPLOADING", "INITIALIZING"}
    BY DEF State
  <2> QED
    BY <1>1, <2>1, <2>2, SetState DEF IsProcessing
<1>4. CASE t.state # "INITIALIZING" /\ ~IsTransferring(t)
  BY <1>1, <1>4 DEF Corrected, IsProcessing, IsTransferring, r
<1> QED
  BY <1>2, <1>3, <1>4

(* After a restart the loop is in its initial state, but for the calls that *)
(* were made before it.                                                    *)
LEMMA RestartInv ==
  ASSUME LoopInv, Restart
  PROVE  /\ LoopInv'
         /\ \A t \in Transfers : /\ transfer'[t].upload = transfer[t].upload
                                /\ ~IsProcessing(transfer'[t])
                                /\ lock'[t].holder = None
                                /\ handle'[t] = None /\ rqHandle'[t] = None
         /\ \A c \in Coroutine : co'[c].pc \in {"idle", "done"}
<1> USE DEF LoopInv, LoopTypeOK
<1>1. PICK whole \in SUBSET Transfers :
        transfer' = [t \in Transfers |->
          IF t \in Range(listed) THEN Corrected(transfer[t], t \in whole)
          ELSE NewTransfer(transfer[t].upload)]
  BY DEF Restart
<1>2. ASSUME NEW b \in BOOLEAN
      PROVE  /\ NewTransfer(b) \in Transfer /\ NewTransfer(b).upload = b
             /\ ~IsProcessing(NewTransfer(b))
  BY DEF NewTransfer, Transfer, State, Reason, None, IsProcessing
<1>3. \A t \in Transfers : transfer[t] \in Transfer /\ transfer[t].upload \in BOOLEAN
  BY DEF Transfer
<1>4. /\ transfer' \in [Transfers -> Transfer]
      /\ \A t \in Transfers : /\ transfer'[t].upload = transfer[t].upload
                             /\ ~IsProcessing(transfer'[t])
  BY <1>1, <1>2, <1>3, CorrectedType
<1>5. listed' \in Seq(Transfers)
  <2>1. Range(listed) \subseteq Transfers
    BY DEF Range
  <2>2. listed' \in [1..Len(listed) -> Range(listed)] /\ Len(listed) \in Nat
    BY DEF Restart
  <2>3. ASSUME NEW q, NEW n \in Nat, q \in [1..n -> Range(listed)] PROVE q \in Seq(Transfers)
    BY <2>1, <2>3
  <2> QED
    BY <2>1, <2>2, <2>3
<1>6. ASSUME NEW c \in Coroutine
      PROVE  co'[c] \in CoroutineState /\ co'[c].pc \in {"idle", "done"}
  BY IdleType, FinishedType DEF Restart, Idle
<1>7. co' \in [Coroutine -> CoroutineState]
  <2>1. co' = [c \in Coroutine |-> co'[c]]
    BY DEF Restart
  <2> QED
    BY <1>6, <2>1
<1>8. ready' \in Seq(Callback)
  BY ScheduledType DEF Restart
<1>9. /\ lock' \in [Transfers -> [holder : Coroutine \cup {None}, waiters : Seq(Coroutine)]]
      /\ \A t \in Transfers : /\ lock'[t].holder = None
                             /\ handle'[t] = None /\ rqHandle'[t] = None
  BY DEF Restart
<1>10. /\ handle' \in [Transfers -> Tasks \cup {None}]
       /\ rqHandle' \in [Transfers -> Tasks \cup {None}]
       /\ left' \in Nat /\ mgmt' \in {"get", "sleep", "shares"}
       /\ wanted' \in BOOLEAN /\ shares' \in BOOLEAN
  BY DEF Restart
<1>11. \A c \in Coroutine : Works(c)'
  BY <1>6 DEF Works, Alive
<1> QED
  BY <1>4, <1>5, <1>6, <1>7, <1>8, <1>9, <1>10, <1>11
=============================================================================
