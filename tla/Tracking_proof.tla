--------------------------- MODULE Tracking_proof ---------------------------
(***************************************************************************)
(* Theorems about Tracking, for any flags and any number of requests,       *)
(* losses, timeouts and failed writes: it implements Watch, the server is    *)
(* left when nobody wants the user, and no retry is lost.                    *)
(***************************************************************************)
EXTENDS Tracking, TLAPS, SequenceTheorems

---------------------------------------------------------------------------
(* The inductive invariant.                                                *)

Asking == {"add", "failed", "added", "answer", "accepted", "refused"}

(* Where the task is tells which flags there are and what is announced.     *)
TaskInv ==
  /\ tracked <=> at # "none"
  /\ at \in {"none", "remove", "removed", "returned"} => flags = {}
  /\ at \in Asking => flags # {}
  /\ at = "cancel" => then \in {"remove", "emptied", "sleep"}
  /\ at = "announce" => then \in {"get", "emptied"}
  /\ at \in {"cancel", "announce"} => (flags = {} <=> then \in {"remove", "emptied"})
  /\ at \in {"none", "returned"} => state = "UNTRACKED"
  /\ at \in {"cancel", "announce"} /\ then = "emptied" => state = "UNTRACKED"
  /\ at = "cancel" /\ then = "sleep" => state = "RETRY_PENDING"

(* A timer belongs to a wanted user; when the task rests or announces, the   *)
(* retry is there.                                                          *)
Resting == at = "get" \/ (at = "announce" /\ then = "get")

RetryInv ==
  /\ flags = {} \/ at \in {"cancel", "cancelled"} => ~retry
  /\ at = "stuck" /\ conn # "CLOSING" => ~retry
  /\ Resting =>
       \/ flags = {} /\ state = "UNTRACKED"
       \/ flags # {} /\ state = "TRACKED"
       \/ flags # {} /\ state = "RETRY_PENDING" /\ (retry \/ Contains(queue, Retry))

(* What is under way on the connection.                                    *)
LinkInv ==
  /\ conn # "CONNECTED" \/ at = "stuck" => toServer = <<>> /\ ~watched
  /\ conn # "CONNECTED" => toClient = <<>>
  /\ at = "cancelled" => conn = "CLOSED"
  /\ at = "accepted" => conn \in {"CONNECTED", "CLOSING"}
  /\ conn = "CONNECTING" /\ at # "stuck" => state # "TRACKED"
  /\ conn = "CLOSED" /\ state = "TRACKED" =>
       at \in {"remove", "removed", "cancelled", "stuck"}
         \/ (at = "cancel" /\ then = "remove")
  /\ state = "TRACKED" \/ watched \/ at = "accepted" => exists
  /\ \A i \in DOMAIN toClient : toClient[i] => exists

(* The task was answered, or will be, for an AddUser after which nothing     *)
(* was sent.                                                               *)
AskInv ==
  at \in {"added", "answer", "accepted"} /\ conn = "CONNECTED" =>
    \/ toServer # <<>> /\ Last(toServer) = "AddUser"
    \/ toServer = <<>> /\ watched
    \/ /\ toServer = <<>> /\ at # "accepted"
       /\ \A i \in DOMAIN toClient : ~toClient[i]

(* RemoveUser is the last message only until the next AddUser.             *)
LeaveInv ==
  (flags # {} /\ at # "add") \/ RemoveDue =>
    toServer = <<>> \/ Last(toServer) = "AddUser"

TrackInv ==
  /\ TypeOK /\ TaskInv /\ RetryInv /\ LinkInv /\ AskInv /\ LeaveInv
  /\ NoGhost /\ TrackedIsWatched /\ RemoveOnce

---------------------------------------------------------------------------
(* Queues.                                                                 *)

(* What is put at the end is last.                                         *)
LEMMA AppendLast ==
  ASSUME NEW S, NEW s \in Seq(S), NEW x \in S
  PROVE  /\ Append(s, x) \in Seq(S) /\ Append(s, x) # <<>>
         /\ Len(Append(s, x)) = Len(s) + 1
         /\ Last(Append(s, x)) = x
BY AppendProperties DEF Last

(* Taking the first leaves the last, unless that was the only one.          *)
LEMMA TailLast ==
  ASSUME NEW S, NEW s \in Seq(S), s # <<>>
  PROVE  /\ Head(s) \in S /\ Tail(s) \in Seq(S)
         /\ Len(Tail(s)) = Len(s) - 1
         /\ \A i \in 1..Len(Tail(s)) : Tail(s)[i] = s[i + 1]
         /\ Tail(s) = <<>> => Last(s) = Head(s)
         /\ Tail(s) # <<>> => Last(Tail(s)) = Last(s)
<1>. DEFINE t == Tail(s)
<1>1. /\ Head(s) \in S /\ t \in Seq(S) /\ Len(t) = Len(s) - 1
      /\ \A i \in 1..Len(t) : t[i] = s[i + 1]
  BY HeadTailProperties
<1>2. Len(s) \in Nat \ {0} /\ Len(t) \in Nat /\ (t = <<>> <=> Len(t) = 0)
  BY <1>1, EmptySeq, LenProperties
<1>3. t = <<>> => Last(s) = Head(s)
  BY <1>1, <1>2 DEF Last
<1>4. t # <<>> => Last(t) = Last(s)
  BY <1>1, <1>2 DEF Last
<1>. QED
  BY <1>1, <1>3, <1>4

(* A retry stays queued until it is at the head.                           *)
LEMMA RetryQueued ==
  ASSUME NEW S, NEW s \in Seq(S), NEW x
  PROVE  /\ \A y \in S : Contains(s, x) => Contains(Append(s, y), x)
         /\ x \in S => Contains(Append(s, x), x)
         /\ s # <<>> /\ Contains(s, x) => Head(s) = x \/ Contains(Tail(s), x)
BY HeadTailProperties, AppendProperties DEF Contains

(* The answer that is handled is the first, the others move up.            *)
LEMMA AnswerTaken ==
  ASSUME TypeOK, ReceiveAnswer
  PROVE  /\ 1 \in DOMAIN toClient /\ Head(toClient) = toClient[1]
         /\ Head(toClient) \in BOOLEAN
         /\ \A i \in DOMAIN toClient' :
              i + 1 \in DOMAIN toClient /\ toClient'[i] = toClient[i + 1]
<1>1. toClient \in Seq(BOOLEAN) /\ toClient # <<>> /\ toClient' = Tail(toClient)
  BY DEF TypeOK, ReceiveAnswer
<1>2. /\ DOMAIN toClient = 1..Len(toClient) /\ Len(toClient) \in Nat \ {0}
      /\ DOMAIN toClient' = 1..Len(toClient')
      /\ Len(toClient') = Len(toClient) - 1
      /\ \A i \in 1..Len(toClient') : toClient'[i] = toClient[i + 1]
      /\ Head(toClient) \in BOOLEAN
  BY <1>1, HeadTailProperties, LenProperties, EmptySeq
<1>3. Head(toClient) = toClient[1]
  BY <1>1
<1>. QED
  BY <1>2, <1>3

---------------------------------------------------------------------------
(* Types.                                                                  *)

(* The initial values have their types.                                     *)
LEMMA TypeInit == Init => TypeOK
<1>. SUFFICES ASSUME Init PROVE TypeOK
  OBVIOUS
<1>1. <<>> \in Seq(Request) /\ <<>> \in Seq(BOOLEAN) /\ <<>> \in Seq({"AddUser",
   "RemoveUser"})
  BY EmptySeq
<1>2. spent \in [{"asks", "closes", "timeouts", "writeErrors"} -> Nat]
  BY DEF Init
<1>. QED
  BY <1>1, <1>2 DEF Init, TypeOK, At

(* A step appends to a queue, takes its head, empties it or leaves it.      *)
Grown(q, q2, S) ==
  \/ q2 = q \/ q2 = <<>>
  \/ \E x \in S : q2 = Append(q, x)
  \/ q # <<>> /\ q2 = Tail(q)

(* So it keeps the type of its elements.                                   *)
LEMMA GrownType ==
  ASSUME NEW S, NEW q \in Seq(S), NEW q2, Grown(q, q2, S)
  PROVE  q2 \in Seq(S)
<1>1. CASE q2 = q \/ q2 = <<>>
  BY <1>1, EmptySeq
<1>2. CASE \E x \in S : q2 = Append(q, x)
  BY <1>2, AppendProperties
<1>3. CASE q # <<>> /\ q2 = Tail(q)
  BY <1>3, HeadTailProperties
<1>. QED
  BY <1>1, <1>2, <1>3 DEF Grown

(* The requests of the user.                                               *)
LEMMA RequestTypes ==
  /\ Retry \in Request
  /\ \A f \in Flags : AddFlag({f}) \in Request /\ RemoveFlag({f}) \in Request
BY DEF Retry, AddFlag, RemoveFlag, Request

Sent == {"AddUser", "RemoveUser"}

(* What a step does to the three queues.                                   *)
LEMMA QueueMoves ==
  ASSUME exists \in BOOLEAN, [Next]_vars
  PROVE  /\ Grown(queue, queue', Request)
         /\ Grown(toServer, toServer', Sent)
         /\ Grown(toClient, toClient', BOOLEAN)
<1>1. CASE Ask
  BY <1>1, RequestTypes DEF Ask, TrackUser, UntrackUser, Grown, link
<1>2. CASE RetryFires \/ TakeRequest
  BY <1>2, RequestTypes DEF RetryFires, TakeRequest, Grown, link
<1>3. CASE SendRemove \/ SendAdd
  BY <1>3 DEF SendRemove, SendAdd, Send, Grown, Sent
<1>4. CASE Untracked \/ AwaitAnswer \/ Confirmed
  BY <1>4 DEF Untracked, AwaitAnswer, Confirmed, Grown, link
<1>5. CASE Failed \/ Timeout
  BY <1>5 DEF Failed, Timeout, RetryLater, Grown, link
<1>6. CASE Resume \/ Forget
  BY <1>6 DEF Resume, Forget, Grown, link
<1>7. CASE ServerHandles
  BY <1>7 DEF ServerHandles, Grown, entry
<1>8. CASE ReceiveAnswer \/ Registers
  BY <1>8 DEF ReceiveAnswer, Registers, Grown, entry, link
<1>9. CASE ConnectionLost \/ WriteError
  BY <1>9 DEF ConnectionLost, WriteError, LoseConnection, Grown, entry
<1>10. CASE ConnectionClosed \/ Connecting \/ Connected
  BY <1>10 DEF ConnectionClosed, Connecting, Connected, Grown, entry
<1>11. CASE UNCHANGED vars
  BY <1>11 DEF vars, entry, link, Grown
<1>. QED
  BY <1>1, <1>2, <1>3, <1>4, <1>5, <1>6, <1>7, <1>8, <1>9, <1>10, <1>11
     DEF Next, TaskStep

(* The types of what is not a queue, for the manager and for the world.      *)
EntryTypes ==
  /\ tracked \in BOOLEAN /\ flags \subseteq Flags
  /\ state \in {"UNTRACKED", "TRACKED", "RETRY_PENDING"}
  /\ at \in At /\ then \in {"get", "remove", "emptied", "sleep"}
  /\ retry \in BOOLEAN

WorldTypes ==
  /\ conn \in {"CONNECTED", "CLOSING", "CLOSED", "CONNECTING"}
  /\ exists \in BOOLEAN /\ watched \in BOOLEAN

SpentTypes == spent \in [{"asks", "closes", "timeouts", "writeErrors"} -> Nat]

QueueTypes ==
  queue \in Seq(Request) /\ toServer \in Seq(Sent) /\ toClient \in Seq(BOOLEAN)

(* Together they are the type invariant.                                   *)
LEMMA TypeParts == TypeOK <=> EntryTypes /\ WorldTypes /\ SpentTypes /\ QueueTypes
BY DEF TypeOK, EntryTypes, WorldTypes, SpentTypes, QueueTypes, Sent

(* A step of the task, or a call, keeps the types of the entry.              *)
LEMMA EntryTypeStep ==
  ASSUME EntryTypes, QueueTypes, [Next]_vars PROVE EntryTypes'
<1>1. CASE Ask
  BY <1>1 DEF Ask, TrackUser, UntrackUser, EntryTypes, At
<1>2. CASE RetryFires
  BY <1>2 DEF RetryFires, EntryTypes
<1>3. CASE TakeRequest
  <2>1. Head(queue) \in Request
    BY <1>3, HeadTailProperties DEF TakeRequest, QueueTypes
  <2>2. flags' \subseteq Flags
    BY <1>3, <2>1 DEF TakeRequest, Apply, Request, EntryTypes
  <2>3. /\ at' \in At /\ then' \in {"get", "remove", "emptied", "sleep"}
        /\ retry' \in BOOLEAN
    BY <1>3 DEF TakeRequest, CancelRetry, AfterLast, Emptied, EntryTypes, At
  <2>. QED
    BY <1>3, <2>2, <2>3 DEF TakeRequest, EntryTypes
<1>4. CASE SendRemove \/ SendAdd
  BY <1>4 DEF SendRemove, SendAdd, EntryTypes, At
<1>5. CASE Untracked \/ AwaitAnswer \/ Confirmed
  BY <1>5 DEF Untracked, AwaitAnswer, Confirmed, EntryTypes, At
<1>6. CASE Failed \/ Timeout
  BY <1>6 DEF Failed, Timeout, RetryLater, EntryTypes, At
<1>7. CASE Resume
  BY <1>7 DEF Resume, Emptied, EntryTypes, At
<1>8. CASE Forget
  BY <1>8 DEF Forget, EntryTypes, At
<1>9. CASE ServerHandles \/ Registers
  BY <1>9 DEF ServerHandles, Registers, entry, EntryTypes
<1>10. CASE ReceiveAnswer
  BY <1>10 DEF ReceiveAnswer, EntryTypes, At
<1>11. CASE ConnectionLost \/ WriteError
  BY <1>11 DEF ConnectionLost, WriteError, entry, EntryTypes, At
<1>12. CASE ConnectionClosed
  BY <1>12 DEF ConnectionClosed, EntryTypes, At
<1>13. CASE Connecting \/ Connected \/ UNCHANGED vars
  BY <1>13 DEF Connecting, Connected, vars, entry, EntryTypes
<1>. QED
  BY <1>1, <1>2, <1>3, <1>4, <1>5, <1>6, <1>7, <1>8, <1>9, <1>10, <1>11, <1>12,
     <1>13 DEF Next, TaskStep

(* Every step keeps the types of the connection and the world.               *)
LEMMA WorldTypeStep == ASSUME WorldTypes, [Next]_vars PROVE WorldTypes'
<1>1. CASE Ask \/ RetryFires
  BY <1>1 DEF Ask, TrackUser, UntrackUser, RetryFires, link, world, WorldTypes
<1>2. CASE TakeRequest \/ SendRemove \/ SendAdd \/ Untracked
  BY <1>2 DEF TakeRequest, SendRemove, SendAdd, Untracked, link, world, WorldTypes
<1>3. CASE AwaitAnswer \/ Confirmed \/ Resume \/ Forget
  BY <1>3 DEF AwaitAnswer, Confirmed, Resume, Forget, link, world, WorldTypes
<1>4. CASE Failed \/ Timeout
  BY <1>4 DEF Failed, Timeout, RetryLater, link, world, WorldTypes
<1>5. CASE ServerHandles \/ ReceiveAnswer \/ Registers
  BY <1>5 DEF ServerHandles, ReceiveAnswer, Registers, link, world, WorldTypes
<1>6. CASE ConnectionLost \/ WriteError
  BY <1>6 DEF ConnectionLost, WriteError, LoseConnection, WorldTypes
<1>7. CASE ConnectionClosed \/ Connecting \/ Connected
  BY <1>7 DEF ConnectionClosed, Connecting, Connected, world, WorldTypes
<1>8. CASE UNCHANGED vars
  BY <1>8 DEF vars, link, world, WorldTypes
<1>. QED
  BY <1>1, <1>2, <1>3, <1>4, <1>5, <1>6, <1>7, <1>8 DEF Next, TaskStep

(* The bounds are counted up.                                              *)
LEMMA SpentTypeStep == ASSUME SpentTypes, [Next]_vars PROVE SpentTypes'
<1>1. spent' = spent \/ \E what \in {"asks", "closes", "timeouts", "writeErrors"} :
                          Spend(what)
  <2>1. CASE Ask \/ RetryFires
    BY <2>1 DEF Ask, TrackUser, UntrackUser, RetryFires
  <2>2. CASE TakeRequest \/ SendRemove \/ SendAdd \/ Untracked
    BY <2>2 DEF TakeRequest, SendRemove, SendAdd, Untracked
  <2>3. CASE AwaitAnswer \/ Confirmed \/ Resume \/ Forget
    BY <2>3 DEF AwaitAnswer, Confirmed, Resume, Forget
  <2>4. CASE Failed \/ Timeout
    BY <2>4 DEF Failed, Timeout
  <2>5. CASE ServerHandles \/ ReceiveAnswer \/ Registers
    BY <2>5 DEF ServerHandles, ReceiveAnswer, Registers
  <2>6. CASE ConnectionLost \/ WriteError
    BY <2>6 DEF ConnectionLost, WriteError
  <2>7. CASE ConnectionClosed \/ Connecting \/ Connected \/ UNCHANGED vars
    BY <2>7 DEF ConnectionClosed, Connecting, Connected, vars
  <2>. QED
    BY <2>1, <2>2, <2>3, <2>4, <2>5, <2>6, <2>7 DEF Next, TaskStep
<1>. QED
  BY <1>1 DEF SpentTypes, Spend

(* Every step keeps the types.                                             *)
LEMMA TypeStep == ASSUME TypeOK, [Next]_vars PROVE TypeOK'
<1>1. EntryTypes /\ WorldTypes /\ SpentTypes /\ QueueTypes
  BY TypeParts
<1>2. EntryTypes' /\ WorldTypes' /\ SpentTypes'
  BY <1>1, EntryTypeStep, WorldTypeStep, SpentTypeStep
<1>3. QueueTypes'
  <2>1. exists \in BOOLEAN
    BY <1>1 DEF WorldTypes
  <2>. QED
    BY <1>1, <2>1, QueueMoves, GrownType DEF QueueTypes
<1>. QED
  BY <1>2, <1>3 DEF TypeOK, EntryTypes, WorldTypes, SpentTypes, QueueTypes, Sent
---------------------------------------------------------------------------
(* Flags and announced state follow the task.                              *)
LEMMA TaskInvStep == ASSUME TrackInv, TypeOK', [Next]_vars PROVE TaskInv'
<1> USE DEF TrackInv, TaskInv, RetryInv, Resting, Asking, entry, link, world
<1>1. CASE Ask
  BY <1>1 DEF Ask, TrackUser, UntrackUser
<1>2. CASE RetryFires
  BY <1>2 DEF RetryFires
<1>3. CASE TakeRequest
  BY <1>3 DEF TakeRequest, CancelRetry, AfterLast, AddDue, Emptied
<1>4. CASE SendRemove
  BY <1>4 DEF SendRemove, Send
<1>5. CASE Untracked
  BY <1>5 DEF Untracked
<1>6. CASE SendAdd
  BY <1>6 DEF SendAdd, Send
<1>7. CASE AwaitAnswer
  BY <1>7 DEF AwaitAnswer
<1>8. CASE Failed
  BY <1>8 DEF Failed, RetryLater
<1>9. CASE Confirmed
  BY <1>9 DEF Confirmed
<1>10. CASE Resume
  BY <1>10 DEF Resume, Emptied
<1>11. CASE Forget
  BY <1>11 DEF Forget
<1>12. CASE Timeout
  BY <1>12 DEF Timeout, RetryLater
<1>13. CASE ServerHandles
  BY <1>13 DEF ServerHandles
<1>14. CASE ReceiveAnswer
  BY <1>14 DEF ReceiveAnswer
<1>15. CASE Registers
  BY <1>15 DEF Registers
<1>16. CASE ConnectionLost
  BY <1>16 DEF ConnectionLost, LoseConnection
<1>17. CASE WriteError
  BY <1>17 DEF WriteError, LoseConnection
<1>18. CASE ConnectionClosed
  BY <1>18 DEF ConnectionClosed
<1>19. CASE Connecting
  BY <1>19 DEF Connecting, Waits
<1>20. CASE Connected
  BY <1>20 DEF Connected
<1>21. CASE UNCHANGED vars
  BY <1>21 DEF vars
<1>. QED
  BY <1>1, <1>2, <1>3, <1>4, <1>5, <1>6, <1>7, <1>8, <1>9, <1>10, <1>11, <1>12, <1>13,
     <1>14, <1>15, <1>16, <1>17, <1>18, <1>19, <1>20, <1>21 DEF Next, TaskStep

(* No step loses the retry of a user that is wanted.                       *)
LEMMA RetryInvStep == ASSUME TrackInv, TypeOK', [Next]_vars PROVE RetryInv'
<1> USE DEF TrackInv, TaskInv, RetryInv, Resting, Asking, entry, link, world
<1>1. CASE Ask
  <2>1. PICK f \in Flags : TrackUser(f) \/ UntrackUser(f)
    BY <1>1 DEF Ask
  <2>2. AddFlag({f}) \in Request /\ RemoveFlag({f}) \in Request
    BY DEF AddFlag, RemoveFlag, Request
  <2>3. Contains(queue, Retry) => Contains(queue', Retry)
    <3>1. \A r \in Request : Contains(queue, Retry) => Contains(Append(queue, r), Retry)
      BY RetryQueued DEF TypeOK
    <3>. QED
      BY <2>1, <2>2, <3>1 DEF TrackUser, UntrackUser
  <2>. QED
    BY <2>1, <2>3 DEF TrackUser, UntrackUser
<1>2. CASE RetryFires
  <2>1. Retry \in Request
    BY DEF Retry, AddFlag, Request
  <2>2. Contains(queue', Retry)
    BY <1>2, <2>1, RetryQueued DEF RetryFires, TypeOK
  <2>. QED
    BY <1>2, <2>2 DEF RetryFires
<1>3. CASE TakeRequest
  <2>1. Contains(queue, Retry) => Head(queue).change = {} \/ Contains(queue', Retry)
    <3>1. Retry.change = {}
      BY DEF Retry, AddFlag
    <3>. QED
      BY <1>3, <3>1, RetryQueued DEF TakeRequest, TypeOK
  <2>. QED
    BY <1>3, <2>1 DEF TakeRequest, CancelRetry, AfterLast, AddDue, Emptied, Apply,
       TypeOK
<1>4. CASE SendRemove
  BY <1>4 DEF SendRemove, Send
<1>5. CASE Untracked
  BY <1>5 DEF Untracked
<1>6. CASE SendAdd
  BY <1>6 DEF SendAdd, Send
<1>7. CASE AwaitAnswer
  BY <1>7 DEF AwaitAnswer
<1>8. CASE Failed
  BY <1>8 DEF Failed, RetryLater
<1>9. CASE Confirmed
  BY <1>9 DEF Confirmed
<1>10. CASE Resume
  BY <1>10 DEF Resume, Emptied
<1>11. CASE Forget
  BY <1>11 DEF Forget
<1>12. CASE Timeout
  BY <1>12 DEF Timeout, RetryLater
<1>13. CASE ServerHandles
  BY <1>13 DEF ServerHandles
<1>14. CASE ReceiveAnswer
  BY <1>14 DEF ReceiveAnswer
<1>15. CASE Registers
  BY <1>15 DEF Registers
<1>16. CASE ConnectionLost
  BY <1>16 DEF ConnectionLost, LoseConnection
<1>17. CASE WriteError
  BY <1>17 DEF WriteError, LoseConnection
<1>18. CASE ConnectionClosed
  BY <1>18 DEF ConnectionClosed
<1>19. CASE Connecting
  BY <1>19 DEF Connecting, Waits
<1>20. CASE Connected
  BY <1>20 DEF Connected
<1>21. CASE UNCHANGED vars
  BY <1>21 DEF vars
<1>. QED
  BY <1>1, <1>2, <1>3, <1>4, <1>5, <1>6, <1>7, <1>8, <1>9, <1>10, <1>11, <1>12, <1>13,
     <1>14, <1>15, <1>16, <1>17, <1>18, <1>19, <1>20, <1>21 DEF Next, TaskStep

(* What is under way ends with the connection, and so does TRACKED.         *)
LEMMA LinkInvStep == ASSUME TrackInv, TypeOK', [Next]_vars PROVE LinkInv'
<1> USE DEF TrackInv, TaskInv, RetryInv, Resting, LinkInv, Asking, entry, link, world
<1>1. CASE Ask
  BY <1>1 DEF Ask, TrackUser, UntrackUser
<1>2. CASE RetryFires
  BY <1>2 DEF RetryFires
<1>3. CASE TakeRequest
  BY <1>3 DEF TakeRequest, CancelRetry, AfterLast, AddDue, Emptied
<1>4. CASE SendRemove
  BY <1>4 DEF SendRemove, Send
<1>5. CASE Untracked
  BY <1>5 DEF Untracked
<1>6. CASE SendAdd
  BY <1>6 DEF SendAdd, Send
<1>7. CASE AwaitAnswer
  BY <1>7 DEF AwaitAnswer
<1>8. CASE Failed
  BY <1>8 DEF Failed, RetryLater
<1>9. CASE Confirmed
  BY <1>9 DEF Confirmed
<1>10. CASE Resume
  BY <1>10 DEF Resume, Emptied
<1>11. CASE Forget
  BY <1>11 DEF Forget
<1>12. CASE Timeout
  BY <1>12 DEF Timeout, RetryLater
<1>13. CASE ServerHandles
  BY <1>13, AppendLast, TailLast DEF ServerHandles
<1>14. CASE ReceiveAnswer
  <2>1. /\ Head(toClient) => exists
        /\ \A i \in DOMAIN toClient' : toClient'[i] => exists
    BY <1>14, AnswerTaken
  <2>. QED
    BY <1>14, <2>1 DEF ReceiveAnswer
<1>15. CASE Registers
  BY <1>15 DEF Registers
<1>16. CASE ConnectionLost
  BY <1>16 DEF ConnectionLost, LoseConnection
<1>17. CASE WriteError
  BY <1>17 DEF WriteError, LoseConnection
<1>18. CASE ConnectionClosed
  BY <1>18 DEF ConnectionClosed
<1>19. CASE Connecting
  BY <1>19 DEF Connecting, Waits
<1>20. CASE Connected
  BY <1>20 DEF Connected
<1>21. CASE UNCHANGED vars
  BY <1>21 DEF vars
<1>. QED
  BY <1>1, <1>2, <1>3, <1>4, <1>5, <1>6, <1>7, <1>8, <1>9, <1>10, <1>11, <1>12, <1>13,
     <1>14, <1>15, <1>16, <1>17, <1>18, <1>19, <1>20, <1>21 DEF Next, TaskStep

(* While the task waits for an answer nothing else is sent.                *)
LEMMA AskInvStep == ASSUME TrackInv, TypeOK', [Next]_vars PROVE AskInv'
<1> USE DEF TrackInv, TaskInv, LinkInv, Asking, AskInv, entry, link, world
<1>1. CASE Ask
  BY <1>1 DEF Ask, TrackUser, UntrackUser
<1>2. CASE RetryFires
  BY <1>2 DEF RetryFires
<1>3. CASE TakeRequest
  BY <1>3 DEF TakeRequest, CancelRetry, AfterLast, AddDue, Emptied
<1>4. CASE SendRemove
  <2>1. toServer' # <<>> => Last(toServer') = "RemoveUser"
    BY <1>4, AppendLast DEF SendRemove, Send, TypeOK
  <2>2. conn = "CONNECTED" => toServer' # <<>>
    BY <1>4, AppendLast DEF SendRemove, Send, TypeOK
  <2>. QED
    BY <1>4, <2>1, <2>2 DEF SendRemove, Send
<1>5. CASE Untracked
  BY <1>5 DEF Untracked
<1>6. CASE SendAdd
  <2>1. toServer' # <<>> => Last(toServer') = "AddUser"
    BY <1>6, AppendLast DEF SendAdd, Send, TypeOK
  <2>2. conn = "CONNECTED" => toServer' # <<>>
    BY <1>6, AppendLast DEF SendAdd, Send, TypeOK
  <2>. QED
    BY <1>6, <2>1, <2>2 DEF SendAdd, Send
<1>7. CASE AwaitAnswer
  BY <1>7 DEF AwaitAnswer
<1>8. CASE Failed
  BY <1>8 DEF Failed, RetryLater
<1>9. CASE Confirmed
  BY <1>9 DEF Confirmed
<1>10. CASE Resume
  BY <1>10 DEF Resume, Emptied
<1>11. CASE Forget
  BY <1>11 DEF Forget
<1>12. CASE Timeout
  BY <1>12 DEF Timeout, RetryLater
<1>13. CASE ServerHandles
  <2>1. /\ Tail(toServer) = <<>> => Last(toServer) = Head(toServer)
        /\ Tail(toServer) # <<>> => Last(Tail(toServer)) = Last(toServer)
        /\ Head(toServer) \in {"AddUser", "RemoveUser"}
    BY <1>13, TailLast DEF ServerHandles, TypeOK
  <2>. QED
    BY <1>13, <2>1 DEF ServerHandles
<1>14. CASE ReceiveAnswer
  BY <1>14, AnswerTaken DEF ReceiveAnswer
<1>15. CASE Registers
  BY <1>15 DEF Registers
<1>16. CASE ConnectionLost
  BY <1>16 DEF ConnectionLost, LoseConnection
<1>17. CASE WriteError
  BY <1>17 DEF WriteError, LoseConnection
<1>18. CASE ConnectionClosed
  BY <1>18 DEF ConnectionClosed
<1>19. CASE Connecting
  BY <1>19 DEF Connecting, Waits
<1>20. CASE Connected
  BY <1>20 DEF Connected
<1>21. CASE UNCHANGED vars
  BY <1>21 DEF vars
<1>. QED
  BY <1>1, <1>2, <1>3, <1>4, <1>5, <1>6, <1>7, <1>8, <1>9, <1>10, <1>11, <1>12, <1>13,
     <1>14, <1>15, <1>16, <1>17, <1>18, <1>19, <1>20, <1>21 DEF Next, TaskStep

(* No step leaves the server watching a user that nobody wants.            *)
LEMMA LeaveInvStep == ASSUME TrackInv, TypeOK', [Next]_vars PROVE (LeaveInv /\ NoGhost)'
<1> USE DEF TrackInv, TaskInv, LinkInv, Asking, RetryInv, Resting, LeaveInv, NoGhost,
            RemoveDue, Watching, entry, link, world
<1>1. CASE Ask
  BY <1>1 DEF Ask, TrackUser, UntrackUser
<1>2. CASE RetryFires
  BY <1>2 DEF RetryFires
<1>3. CASE TakeRequest
  BY <1>3 DEF TakeRequest, CancelRetry, AfterLast, AddDue, Emptied
<1>4. CASE SendRemove
  <2>1. toServer' # <<>> => Last(toServer') = "RemoveUser"
    BY <1>4, AppendLast DEF SendRemove, Send, TypeOK
  <2>2. conn = "CONNECTED" => toServer' # <<>>
    BY <1>4, AppendLast DEF SendRemove, Send, TypeOK
  <2>. QED
    BY <1>4, <2>1, <2>2 DEF SendRemove, Send
<1>5. CASE Untracked
  BY <1>5 DEF Untracked
<1>6. CASE SendAdd
  <2>1. toServer' # <<>> => Last(toServer') = "AddUser"
    BY <1>6, AppendLast DEF SendAdd, Send, TypeOK
  <2>2. conn = "CONNECTED" => toServer' # <<>>
    BY <1>6, AppendLast DEF SendAdd, Send, TypeOK
  <2>. QED
    BY <1>6, <2>1, <2>2 DEF SendAdd, Send
<1>7. CASE AwaitAnswer
  BY <1>7 DEF AwaitAnswer
<1>8. CASE Failed
  BY <1>8 DEF Failed, RetryLater
<1>9. CASE Confirmed
  BY <1>9 DEF Confirmed
<1>10. CASE Resume
  BY <1>10 DEF Resume, Emptied
<1>11. CASE Forget
  BY <1>11 DEF Forget
<1>12. CASE Timeout
  BY <1>12 DEF Timeout, RetryLater
<1>13. CASE ServerHandles
  <2>1. /\ Tail(toServer) = <<>> => Last(toServer) = Head(toServer)
        /\ Tail(toServer) # <<>> => Last(Tail(toServer)) = Last(toServer)
        /\ Head(toServer) \in {"AddUser", "RemoveUser"}
    BY <1>13, TailLast DEF ServerHandles, TypeOK
  <2>. QED
    BY <1>13, <2>1 DEF ServerHandles
<1>14. CASE ReceiveAnswer
  BY <1>14 DEF ReceiveAnswer
<1>15. CASE Registers
  BY <1>15 DEF Registers
<1>16. CASE ConnectionLost
  BY <1>16 DEF ConnectionLost, LoseConnection
<1>17. CASE WriteError
  BY <1>17 DEF WriteError, LoseConnection
<1>18. CASE ConnectionClosed
  BY <1>18 DEF ConnectionClosed
<1>19. CASE Connecting
  BY <1>19 DEF Connecting, Waits
<1>20. CASE Connected
  BY <1>20 DEF Connected
<1>21. CASE UNCHANGED vars
  BY <1>21 DEF vars
<1>. QED
  BY <1>1, <1>2, <1>3, <1>4, <1>5, <1>6, <1>7, <1>8, <1>9, <1>10, <1>11, <1>12, <1>13,
     <1>14, <1>15, <1>16, <1>17, <1>18, <1>19, <1>20, <1>21 DEF Next, TaskStep

(* No step leaves a user TRACKED that the server does not watch.           *)
LEMMA TrackedStep == ASSUME TrackInv, TypeOK', [Next]_vars PROVE TrackedIsWatched'
<1> USE DEF TrackInv, TaskInv, LinkInv, Asking, RetryInv, Resting, AskInv,
            TrackedIsWatched, Watching, Up, entry, link, world
<1>1. CASE Ask
  BY <1>1 DEF Ask, TrackUser, UntrackUser
<1>2. CASE RetryFires
  BY <1>2 DEF RetryFires
<1>3. CASE TakeRequest
  BY <1>3 DEF TakeRequest, CancelRetry, AfterLast, AddDue, Emptied
<1>4. CASE SendRemove
  <2>1. toServer' # <<>> => Last(toServer') = "RemoveUser"
    BY <1>4, AppendLast DEF SendRemove, Send, TypeOK
  <2>2. conn = "CONNECTED" => toServer' # <<>>
    BY <1>4, AppendLast DEF SendRemove, Send, TypeOK
  <2>. QED
    BY <1>4, <2>1, <2>2 DEF SendRemove, Send
<1>5. CASE Untracked
  BY <1>5 DEF Untracked
<1>6. CASE SendAdd
  <2>1. toServer' # <<>> => Last(toServer') = "AddUser"
    BY <1>6, AppendLast DEF SendAdd, Send, TypeOK
  <2>2. conn = "CONNECTED" => toServer' # <<>>
    BY <1>6, AppendLast DEF SendAdd, Send, TypeOK
  <2>. QED
    BY <1>6, <2>1, <2>2 DEF SendAdd, Send
<1>7. CASE AwaitAnswer
  BY <1>7 DEF AwaitAnswer
<1>8. CASE Failed
  BY <1>8 DEF Failed, RetryLater
<1>9. CASE Confirmed
  BY <1>9 DEF Confirmed
<1>10. CASE Resume
  BY <1>10 DEF Resume, Emptied
<1>11. CASE Forget
  BY <1>11 DEF Forget
<1>12. CASE Timeout
  BY <1>12 DEF Timeout, RetryLater
<1>13. CASE ServerHandles
  <2>1. /\ Tail(toServer) = <<>> => Last(toServer) = Head(toServer)
        /\ Tail(toServer) # <<>> => Last(Tail(toServer)) = Last(toServer)
        /\ Head(toServer) \in {"AddUser", "RemoveUser"}
    BY <1>13, TailLast DEF ServerHandles, TypeOK
  <2>2. SUFFICES ASSUME state = "TRACKED", flags # {}, Up PROVE Watching'
    BY <1>13 DEF ServerHandles
  <2>3. toServer # <<>> /\ Last(toServer) = "AddUser" /\ exists
    BY <1>13, <2>2 DEF ServerHandles
  <2>. QED
    BY <1>13, <2>1, <2>3 DEF ServerHandles
<1>14. CASE ReceiveAnswer
  BY <1>14 DEF ReceiveAnswer
<1>15. CASE Registers
  BY <1>15 DEF Registers
<1>16. CASE ConnectionLost
  BY <1>16 DEF ConnectionLost, LoseConnection
<1>17. CASE WriteError
  BY <1>17 DEF WriteError, LoseConnection
<1>18. CASE ConnectionClosed
  BY <1>18 DEF ConnectionClosed
<1>19. CASE Connecting
  BY <1>19 DEF Connecting, Waits
<1>20. CASE Connected
  BY <1>20 DEF Connected
<1>21. CASE UNCHANGED vars
  BY <1>21 DEF vars
<1>. QED
  BY <1>1, <1>2, <1>3, <1>4, <1>5, <1>6, <1>7, <1>8, <1>9, <1>10, <1>11, <1>12, <1>13,
     <1>14, <1>15, <1>16, <1>17, <1>18, <1>19, <1>20, <1>21 DEF Next, TaskStep

(* RemoveUser is only sent behind AddUser.                                 *)
LEMMA RemoveOnceStep == ASSUME TrackInv, TypeOK', [Next]_vars PROVE RemoveOnce'
<1> USE DEF TrackInv, RemoveOnce
<1>1. CASE UNCHANGED toServer
  BY <1>1
<1>2. CASE SendRemove \/ SendAdd
  <2>1. PICK m \in {"AddUser", "RemoveUser"} :
          /\ toServer' = toServer \/ toServer' = Append(toServer, m)
          /\ m = "RemoveUser" => toServer = <<>> \/ Last(toServer) = "AddUser"
    BY <1>2 DEF SendRemove, SendAdd, Send, LeaveInv, RemoveDue
  <2>2. CASE toServer' = Append(toServer, m)
    <3>1. toServer \in Seq({"AddUser", "RemoveUser"}) /\ Len(toServer) \in Nat
      BY LenProperties DEF TypeOK
    <3>2. /\ Len(toServer') = Len(toServer) + 1
          /\ \A i \in 1..Len(toServer) : toServer'[i] = toServer[i]
          /\ toServer'[Len(toServer) + 1] = m
      BY <2>2, <3>1, AppendProperties
    <3>3. m = "RemoveUser" => Len(toServer) = 0 \/ toServer[Len(toServer)] = "AddUser"
      BY <2>1, <3>1, EmptySeq DEF Last
    <3>. QED
      BY <3>1, <3>2, <3>3
  <2>. QED
    BY <1>1, <2>1, <2>2
<1>3. CASE ServerHandles
  <2>1. /\ Len(toServer') = Len(toServer) - 1 /\ Len(toServer) \in Nat
        /\ \A i \in 1..Len(toServer') : toServer'[i] = toServer[i + 1]
    BY <1>3, TailLast, LenProperties DEF ServerHandles, TypeOK
  <2>. QED
    BY <2>1
<1>4. CASE toServer' = <<>>
  BY <1>4, EmptySeq
<1>5. UNCHANGED toServer \/ SendRemove \/ SendAdd \/ ServerHandles \/ toServer' = <<>>
  BY DEF Next, TaskStep, vars, link, Ask, TrackUser, UntrackUser, RetryFires,
     TakeRequest,
         Untracked, AwaitAnswer, Failed, Confirmed, Timeout, RetryLater, Resume, Forget,
         ReceiveAnswer, Registers, ConnectionLost, WriteError, LoseConnection,
         ConnectionClosed, Connecting, Connected
<1>. QED
  BY <1>1, <1>2, <1>3, <1>4, <1>5

(* The invariant holds initially.                                          *)
LEMMA TrackInit == Init => TrackInv
<1>. SUFFICES ASSUME Init PROVE TrackInv
  OBVIOUS
<1>1. toServer = <<>> /\ Len(toServer) = 0 /\ DOMAIN toClient = {} /\ toClient = <<>>
  BY EmptySeq DEF Init
<1>. QED
  BY <1>1, TypeInit DEF Init, TrackInv, TaskInv, RetryInv, Resting, LinkInv, AskInv,
     LeaveInv,
     Asking, RemoveDue, NoGhost, TrackedIsWatched, RemoveOnce, Watching, Up

(* Every step keeps the invariant.                                         *)
LEMMA TrackStep == ASSUME TrackInv, [Next]_vars PROVE TrackInv'
<1>1. TypeOK'
  BY TypeStep DEF TrackInv
<1>. QED
  BY <1>1, TaskInvStep, RetryInvStep, LinkInvStep, AskInvStep, LeaveInvStep,
     TrackedStep,
     RemoveOnceStep DEF TrackInv

(* The inductive invariant of the tracking task and its connection.        *)
THEOREM TrackingInvariant == Spec => []TrackInv
BY TrackInit, TrackStep, PTL DEF Spec

---------------------------------------------------------------------------
(* The results.                                                            *)

(* Every variable keeps its type.                                          *)
THEOREM TypeCorrect == Spec => []TypeOK
<1>1. TrackInv => TypeOK
  BY DEF TrackInv
<1>. QED
  BY <1>1, TrackingInvariant, PTL

(* No ghost: a user nobody wants is not watched, whatever was answered late, *)
(* timed out or was sent again.                                             *)
THEOREM NoGhostIsTracked == Spec => []NoGhost
<1>1. TrackInv => NoGhost
  BY DEF TrackInv
<1>. QED
  BY <1>1, TrackingInvariant, PTL

(* No retry is lost: between two requests a wanted user is TRACKED or will be *)
(* asked for again.                                                         *)
THEOREM RetryIsKept == Spec => []PendingIsRetried
<1>1. TrackInv => PendingIsRetried
  BY DEF TrackInv, TaskInv, RetryInv, LinkInv, Resting, PendingIsRetried
<1>. QED
  BY <1>1, TrackingInvariant, PTL

(* RemoveUser is not sent twice in a row.                                  *)
THEOREM RemoveIsSentOnce == Spec => []RemoveOnce
<1>1. TrackInv => RemoveOnce
  BY DEF TrackInv
<1>. QED
  BY <1>1, TrackingInvariant, PTL
---------------------------------------------------------------------------
(* The refinement.                                                         *)

(* Initial states are initial states of Watch.                             *)
LEMMA PromiseInit == Init => Promise!Init
BY DEF Init, Promise!Init, Watching, Up

(* Every step is a step of Watch or changes nothing of it.                 *)
LEMMA PromiseStep == ASSUME TrackInv, [Next]_vars PROVE [Promise!Next]_(Promise!vars)
<1> USE DEF TrackInv, TypeOK, TaskInv, LinkInv, Asking, NoGhost, RemoveDue, Watching,
            Up,
        Promise!vars, entry, link, world
<1>1. CASE Ask
  BY <1>1 DEF Ask, TrackUser, UntrackUser
<1>2. CASE RetryFires
  BY <1>2 DEF RetryFires
<1>3. CASE AwaitAnswer
  BY <1>3 DEF AwaitAnswer
<1>4. CASE Resume
  BY <1>4 DEF Resume, Emptied
<1>5. CASE ReceiveAnswer
  BY <1>5 DEF ReceiveAnswer
<1>6. CASE Registers
  BY <1>6 DEF Registers
<1>7. CASE ConnectionClosed
  BY <1>7 DEF ConnectionClosed
<1>8. CASE Connecting
  BY <1>8 DEF Connecting
<1>9. CASE TakeRequest
  <2>1. Resting
    BY <1>9 DEF TakeRequest, Resting
  <2>2. UNCHANGED <<state, link, watched>> /\ at' # "stuck" /\ at # "stuck"
    BY <1>9 DEF TakeRequest, CancelRetry, AfterLast, Emptied
  <2>3. flags = {} => state = "UNTRACKED"
    BY <2>1 DEF RetryInv
  <2>. QED
    BY <2>2, <2>3 DEF Promise!Next, Promise!Want, Promise!Unwant
<1>10. CASE SendRemove
  <2>1. toServer' # <<>> => Last(toServer') = "RemoveUser"
    BY <1>10, AppendLast DEF SendRemove, Send
  <2>2. conn = "CONNECTED" => toServer' # <<>>
    BY <1>10, AppendLast DEF SendRemove, Send
  <2>. QED
    BY <1>10, <2>1, <2>2 DEF SendRemove, Send, Promise!Next, Promise!Leave
<1>11. CASE SendAdd
  <2>1. toServer' # <<>> => Last(toServer') = "AddUser"
    BY <1>11, AppendLast DEF SendAdd, Send
  <2>2. conn = "CONNECTED" => toServer' # <<>>
    BY <1>11, AppendLast DEF SendAdd, Send
  <2>. QED
    BY <1>11, <2>1, <2>2 DEF SendAdd, Send, Promise!Next, Promise!Ask
<1>12. CASE Untracked
  BY <1>12 DEF Untracked, Promise!Next, Promise!Drop
<1>13. CASE Forget
  BY <1>13 DEF Forget, Promise!Next, Promise!Drop
<1>14. CASE Failed \/ Timeout
  BY <1>14 DEF Failed, Timeout, RetryLater, Promise!Next, Promise!Postpone
<1>15. CASE Confirmed
  BY <1>15 DEF Confirmed, AskInv, Promise!Next, Promise!Confirm
<1>16. CASE ServerHandles
  <2>1. /\ Tail(toServer) = <<>> => Last(toServer) = Head(toServer)
        /\ Tail(toServer) # <<>> => Last(Tail(toServer)) = Last(toServer)
        /\ Head(toServer) \in {"AddUser", "RemoveUser"}
    BY <1>16, TailLast DEF ServerHandles
  <2>. QED
    BY <1>16, <2>1 DEF ServerHandles, Promise!Next, Promise!Refuse
<1>17. CASE ConnectionLost \/ WriteError
  BY <1>17 DEF ConnectionLost, WriteError, LoseConnection, Promise!Next, Promise!Lose
<1>18. CASE Connected
  BY <1>18 DEF Connected, Promise!Next, Promise!Recover
<1>19. CASE UNCHANGED vars
  BY <1>19 DEF vars
<1>. QED
  BY <1>1, <1>2, <1>3, <1>4, <1>5, <1>6, <1>7, <1>8, <1>9, <1>10, <1>11, <1>12, <1>13,
     <1>14, <1>15, <1>16, <1>17, <1>18, <1>19 DEF Next, TaskStep

(* Requests, messages, timeouts and retries do only what Watch allows.       *)
THEOREM TrackingImplementsWatch == Spec => Promise!Spec
BY PromiseInit, PromiseStep, TrackingInvariant, PTL DEF Spec, Promise!Spec

(* What Watch promises to listeners holds of Tracking: TRACKED is true.      *)
THEOREM KnownTracked == Spec => []TrackedIsWatched
<1>1. TrackInv => TrackedIsWatched
  BY DEF TrackInv
<1>. QED
  BY <1>1, TrackingInvariant, PTL

=============================================================================
