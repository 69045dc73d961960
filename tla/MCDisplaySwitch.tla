--------------------------- MODULE MCDisplaySwitch ---------------------------
(***************************************************************************)
(* A television and a monitor with different lists of modes, so that an    *)
(* index that goes out of date names another mode; two audio devices; and  *)
(* a film with an external file of two subtitles.                          *)
(***************************************************************************)
EXTENDS PlayerOutput

CONSTANTS tv, monitor, receiver, speakers

Mode(rate) ==
  [width |-> 1920, height |-> 1080, bpp |-> 0, rate |-> rate, interlaced |-> FALSE]

MCModesOf ==
  [o \in {tv, monitor} |-> IF o = tv THEN <<Mode(60000), Mode(24000)>>
                           ELSE <<Mode(50000), Mode(60000)>>]

MCRates == {24000, 50000}

AudioInput(device, type, passthrough) ==
  [device |-> device, type |-> type, passthrough |-> passthrough, channels |-> "5.1"]

MCAudioInputs ==
  {AudioInput(AutoDevice, "basic", {}), AudioInput(speakers, "basic", {"ac3"}),
   AudioInput(receiver, "spdif", {"ac3", "dts-hd"}),
   AudioInput(receiver, "hdmi", {"ac3", "dts", "dts-hd"})}

Delays(normal, at24) ==
  ("normal" :> normal) @@ ("24hz" :> at24) @@ ("25hz" :> 0) @@ ("50hz" :> normal)

MCVideoInputs ==
  {[aspect |-> "force_16_9_if_4_3", delays |-> Delays(0, 100)],
   [aspect |-> "custom", delays |-> Delays(20, 100)],
   [aspect |-> "zoom", delays |-> Delays(0, 0)]}

Track(type, ff, url) == [type |-> type, ff |-> ff, url |-> url]

MCTracksOf ==
  ("film" :> <<Track("video", "0", ""), Track("audio", "1", ""), Track("audio", "2", ""),
               Track("sub", "3", "")>>) @@
  ("clip" :> <<Track("video", "0", ""), Track("audio", "2", "")>>)

MCExternalOf == "subtitles" :> <<Track("sub", "0", "subtitles"), Track("sub", "1", "subtitles")>>

MCStreams ==
  {NoStream, [id |-> "2", url |-> ""], [id |-> "3", url |-> ""],
   [id |-> "0", url |-> "subtitles"], [id |-> "1", url |-> "subtitles"]}
=============================================================================
