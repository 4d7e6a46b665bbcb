CONSTANTS
  RoomNames = {lobby, den}
  Private = {den}
  Me = me
  Others = {bob}
  None = None
  Favorites = {lobby}
  AutoJoin = FALSE
  Calls = {c1}
  MaxChanges = 2
  MaxLosses = 1
SPECIFICATION FairSpec
INVARIANTS TypeOK RoomsAgree
PROPERTIES AnswerIsVisible FavoritesRejoined
CHECK_DEADLOCK FALSE
