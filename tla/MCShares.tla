------------------------------ MODULE MCShares ------------------------------
(* Instances of Shares for TLC: an artist's directory inside that of all      *)
(* music, and a file in each.                                                *)
EXTENDS Shares, TLC

CONSTANTS music, artist, mix, song

Inside    == {<<artist, music>>}
FolderOf  == mix :> music @@ song :> artist
MusicOnly == music :> "EVERYONE"
=============================================================================
