CONSTANTS
  music = music artist = artist mix = mix song = song
  Dirs = {music, artist}
  Below <- Inside
  Files = {mix, song}
  Folder <- FolderOf
  Modes = {"EVERYONE", "FRIENDS"}
  LockedModes = {"FRIENDS"}
  Configured = {music}
  ConfiguredMode <- MusicOnly
  MaxChanges = 2
  MaxShares = 3
  MaxWalks = 3
SPECIFICATION SharesSpec
INVARIANTS SharesTypeOK PeersSeeAlike
CHECK_DEADLOCK FALSE
