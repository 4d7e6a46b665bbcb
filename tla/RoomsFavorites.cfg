CONSTANTS
  RoomNames = {lobby, den}
  Private = {den}
  Me = me
  Others = {bob}
  None = None
  Favorites = {lobby}
  AutoJoin = TRUE
  Calls = {c1}
  MaxChanges = 1
  MaxLosses = 1
SPECIFICATION FairSpec
PROPERTIES AutomaticallyJoined
CHECK_DEADLOCK FALSE
