SPECIFICATION OutputSpec
CONSTANTS
  tv = tv
  monitor = monitor
  Outputs = {tv, monitor}
  ModesOf <- MCModesOf
  Rates <- MCRates
  Avoid = FALSE
  SetOutcomes = {"applied", "refused", "ignored"}
  MaxShots = 2
  receiver = receiver
  speakers = speakers
  Subjects = {"display", "audio", "video", "streams"}
  Devices = {receiver, speakers}
  AudioInputs <- MCAudioInputs
  VideoInputs <- MCVideoInputs
  ClientDelays = {0, 50}
  TracksOf <- MCTracksOf
  ExternalOf <- MCExternalOf
  Streams <- MCStreams
INVARIANTS
  RecordIsHome
  ChangesAreNoticed
  OutputIsCurrent
PROPERTY StaleIsRenewed
CHECK_DEADLOCK FALSE
