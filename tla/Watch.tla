-------------------------------- MODULE Watch --------------------------------
(***************************************************************************)
(* What tracking one user promises, without requests, messages or retries:  *)
(* how the wish to track the user, the state that listeners are told and     *)
(* what the server does for us may change.  Tracking implements it.         *)
(***************************************************************************)
VARIABLES
  wanted,    \* somebody wants the user tracked
  known,     \* the tracking state that listeners know
  watching,  \* the server watches the user, or was asked to
  up         \* the server can be asked

vars == <<wanted, known, watching, up>>

Init == wanted = FALSE /\ known = "UNTRACKED" /\ watching = FALSE /\ up = TRUE

(* The user is wanted anew only after listeners know it was untracked.     *)
Want ==
  /\ known = "UNTRACKED"
  /\ wanted' = TRUE
  /\ UNCHANGED <<known, watching, up>>

Unwant ==
  /\ wanted' = FALSE
  /\ UNCHANGED <<known, watching, up>>

Ask ==
  /\ wanted /\ up
  /\ watching' = TRUE
  /\ UNCHANGED <<wanted, known, up>>

(* The server does not know the user.                                      *)
Refuse ==
  /\ known # "TRACKED"
  /\ watching' = FALSE
  /\ UNCHANGED <<wanted, known, up>>

Confirm ==
  /\ wanted /\ (up => watching)
  /\ known' = "TRACKED"
  /\ UNCHANGED <<wanted, watching, up>>

Postpone ==
  /\ wanted
  /\ known' = "RETRY_PENDING"
  /\ UNCHANGED <<wanted, watching, up>>

Leave ==
  /\ ~wanted /\ watching
  /\ watching' = FALSE
  /\ UNCHANGED <<wanted, known, up>>

Drop ==
  /\ ~watching
  /\ wanted' = FALSE /\ known' = "UNTRACKED"
  /\ UNCHANGED <<watching, up>>

Lose ==
  /\ up' = FALSE /\ watching' = FALSE
  /\ UNCHANGED <<wanted, known>>

(* Nothing that was tracked before may pass for tracked on the new          *)
(* connection.                                                             *)
Recover ==
  /\ known # "TRACKED" /\ ~watching
  /\ up' = TRUE
  /\ UNCHANGED <<wanted, known, watching>>

Next ==
  \/ Want \/ Unwant \/ Ask \/ Refuse \/ Confirm \/ Postpone \/ Leave \/ Drop
  \/ Lose \/ Recover

Spec == Init /\ [][Next]_vars

(* A user nobody wants does not stay watched.                              *)
FairSpec == Spec /\ WF_vars(Leave)
=============================================================================
