SPECIFICATION FairSpec
CONSTANTS
  tv = tv
  film = film
  news = news
  song = song
  Outputs = {tv}
  ModesOf <- MCModesOf
  Rates <- MCRates
  Avoid = FALSE
  SetOutcomes = {"applied"}
  MaxShots = 1
  Files = {film, news, song}
  FrameRate <- MCFrameRate
  Music = {song}
  Calls = {"load", "stop"}
  MaxPlaylist = 1
INVARIANT PlaysAsQueued
PROPERTY PlaybackGoesOn
CHECK_DEADLOCK FALSE
