----------------------------- MODULE MCUploads -----------------------------
(* Instances of Uploads for TLC.                                           *)
EXTENDS Uploads

CONSTANTS u1, u2, u3, u4, u5, alice, bob, carol, dave

Alone    == u1 :> alice
Several  == u1 :> alice @@ u2 :> alice @@ u3 :> bob @@ u4 :> carol @@ u5 :> dave
Unranked == [u \in Users |-> 0]

Symmetry == Permutations(Tasks) \cup Permutations(Calls)

(* Uploads of one user are alike, and so are users with an upload each.        *)
Swap(u, v, a, b) == u :> v @@ v :> u @@ a :> b @@ b :> a
AlikeToo == Symmetry \cup Permutations({u1, u2})
            \cup {Swap(u3, u4, bob, carol), Swap(u4, u5, carol, dave)}

(* The cache holds two uploads of one user, which the application queues again  *)
(* while they are served, or one upload of each of three users: more users than *)
(* there are slots.                                                         *)
OfAlice  == Listed \subseteq {u1, u2}
OfOthers == Listed \subseteq {u3, u4, u5}

Crowded ==
  /\ Init /\ (OfAlice \/ OfOthers)
  /\ [][Next /\ (OfAlice \/ \A c \in Calls : UNCHANGED co[c])]_vars
=============================================================================
