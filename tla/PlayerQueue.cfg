SPECIFICATION Spec
CONSTANTS
  tv = tv
  film = film
  news = news
  song = song
  Outputs = {tv}
  ModesOf <- MCModesOf
  Rates <- MCRates
  Avoid = FALSE
  SetOutcomes = {"applied"}
  MaxShots = 1
  Files = {film, song}
  FrameRate <- MCFrameRate
  Music = {song}
  Calls = {"load", "queueMedia", "clearQueue", "stop", "pause", "streamSwitch", "settings"}
  MaxPlaylist = 1
INVARIANTS
  HookHasOneOwner
  StateFollowsCore
PROPERTY NoSwitchDuringPlayback
CHECK_DEADLOCK FALSE
