-------------------------------- MODULE Search --------------------------------
(***************************************************************************)
(* SearchManager on top of a Session: searches of the application, by the    *)
(* manager's methods or by commands, and those of the wishlist task, which    *)
(* Session starts and cancels.  A search takes a ticket, is sent, and is then  *)
(* entered in the table of requests under its ticket, where the replies of     *)
(* peers find it until it is removed.  Peers send queries too, which need the  *)
(* manager's session; what they find is in Shares.                           *)
(***************************************************************************)
EXTENDS Session, FiniteSets

CONSTANTS Searches,   \* calls of search, search_room and search_user
          Commands,   \* the same as commands
          Wishes,     \* enabled items of the wishlist, each sent once (bound)
          None

ASSUME SearchAssumption ==
  /\ IsFiniteSet(Searches \cup Commands \cup Wishes) /\ None \notin Searches \cup Commands \cup Wishes
  /\ Searches \cap Commands = {} /\ (Searches \cup Commands) \cap Wishes = {}

Requests == Searches \cup Commands \cup Wishes

VARIABLES
  ticket,    \* the ticket of each request, 0 before it has one
  sending,   \* requests whose message is being sent
  table,     \* SearchManager.requests
  timed,     \* requests whose Timer runs
  indefinite \* requests that were entered without a timeout

searchVars == <<ticket, sending, table, timed, indefinite>>

Tickets == 1..Cardinality(Requests)

SearchInit ==
  /\ Init
  /\ ticket = [r \in Requests |-> 0] /\ table = [t \in Tickets |-> None]
  /\ sending = {} /\ timed = {} /\ indefinite = {}

---------------------------------------------------------------------------
(* The manager and the client have a ticket generator each; only commands use  *)
(* the client's.                                                             *)
(* Mutant: the wishlist uses the client's too.                               *)
GeneratorOfSearches(r) == IF r \in Searches THEN Searches ELSE Commands \cup Wishes

Generator(r) == IF r \in Commands THEN Commands ELSE Searches \cup Wishes

NextTicket(r) == 1 + Cardinality({q \in Generator(r) : ticket[q] # 0})

(* send_message finds no writer before the first connection is open, and none     *)
(* while the next one is made: it raises, and only the ticket is used up.          *)
Unopened == conn \in {"UNINITIALIZED", "CONNECTING"}

Draw(r) ==
  /\ ticket[r] = 0
  /\ ticket' = [ticket EXCEPT ![r] = NextTicket(r)]
  /\ sending' = IF Unopened THEN sending ELSE sending \cup {r}
  /\ UNCHANGED <<vars, table, timed, indefinite>>

(* Only execute looks for a session first.                                   *)
Search(r) ==
  /\ r \in Searches \cup Commands
  /\ r \in Commands => session # 0
  /\ Draw(r)

WishlistSearch(r) ==
  r \in Wishes /\ "wishlist" \in helpers /\ sending \cap Wishes = {} /\ Draw(r)

(* Mutant: the wishlist enters its requests without starting their timers.     *)
TimedSearch(r) == r \in Searches

(* A request of a command has no timer.                                      *)
Timed(r) == r \notin Commands

(* Sent, or dropped on a closing or closed connection: the request is entered.   *)
(* Its timer starts if the timeout in the settings is positive then: by default  *)
(* request_timeout is 0, wishlist_request_timeout is the interval.               *)
Sent(r) ==
  /\ r \in sending /\ sending' = sending \ {r}
  /\ table' = [table EXCEPT ![ticket[r]] = r]
  /\ \E positive \in BOOLEAN :
       /\ r \in Commands => ~positive
       /\ timed' = IF positive /\ Timed(r) THEN timed \cup {r} ELSE timed
       /\ indefinite' = IF positive THEN indefinite ELSE indefinite \cup {r}
  /\ UNCHANGED <<vars, ticket>>

SendFails(r) ==
  /\ r \in sending \ Wishes /\ conn \in {"CLOSING", "CLOSED"}
  /\ sending' = sending \ {r}
  /\ UNCHANGED <<vars, ticket, table, timed, indefinite>>

(* When the connection closes the wishlist task is cancelled in what it sends. *)
WishlistCut ==
  /\ sending' = IF "wishlist" \in helpers' THEN sending ELSE sending \ Wishes
  /\ UNCHANGED <<ticket, table, timed, indefinite>>

---------------------------------------------------------------------------
(* remove_request leaves the timer; a timer that finds nothing raises.         *)
RemoveRequest(t) ==
  /\ table[t] # None /\ table' = [table EXCEPT ![t] = None]
  /\ UNCHANGED <<vars, ticket, sending, timed, indefinite>>

TimerFires(r) ==
  /\ r \in timed /\ timed' = timed \ {r}
  /\ table' = [table EXCEPT ![ticket[r]] = None]
  /\ UNCHANGED <<vars, ticket, sending, indefinite>>

(* _on_peer_search_reply: a reply to the search of r carries the ticket of r and *)
(* goes to the request that is in the table under it.                          *)
Replied(r) == IF ticket[r] = 0 THEN None ELSE table[ticket[r]]

---------------------------------------------------------------------------
SearchNext ==
  \/ Next /\ WishlistCut
  \/ \E r \in Requests : \/ Search(r) \/ WishlistSearch(r) \/ Sent(r) \/ SendFails(r)
                         \/ TimerFires(r)
  \/ \E t \in Tickets : RemoveRequest(t)

SearchSpec ==
  /\ SearchInit /\ [][SearchNext]_<<vars, searchVars>>
  /\ Fairness /\ \A r \in Requests : WF_searchVars(TimerFires(r))

---------------------------------------------------------------------------
SearchTypeOK ==
  /\ TypeOK
  /\ ticket \in [Requests -> {0} \cup Tickets]
  /\ table \in [Tickets -> Requests \cup {None}]
  /\ timed \subseteq Requests \ Commands
  /\ sending \subseteq Requests /\ indefinite \subseteq Requests

(* A request that was entered while its timeout was positive does not stay in the *)
(* table for ever ("when the timeout is reached the request will be removed",     *)
(* SETTINGS.rst), whatever happens to the connection it was sent on or to its      *)
(* place in the table.  With timeout 0 it is kept indefinitely, as are those of    *)
(* commands.                                                                 *)
Entered(r) == \E t \in Tickets : table[t] = r

RequestEnds ==
  \A r \in Searches \cup Wishes : Entered(r) /\ r \notin indefinite ~> ~Entered(r)

(* "The results generated by this query will stored in the returned object":     *)
(* a search of the application and one of the wishlist never get each other's.    *)
(* Commands are excepted, whose tickets come from another generator.              *)
ResultsBelong ==
  \A r \in Requests \ Commands : Replied(r) \in {None, r} \cup Commands
=============================================================================
