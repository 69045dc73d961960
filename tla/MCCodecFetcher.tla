--------------------------- MODULE MCCodecFetcher ---------------------------
(***************************************************************************)
(* A build with two codecs to download (one of which turns out not to be   *)
(* loadable), system codecs with and without a place on the white lists,   *)
(* and six files that need them in different ways.                         *)
(***************************************************************************)
EXTENDS CodecFetcher

CONSTANT Data   \* a file of the archive besides the binary

MCEaeFiles == <<Data, Binary>>

Codec(d, type, format, system, listed, external) ==
  [driver |-> d, type |-> type, format |-> format, system |-> system,
   listed |-> listed, external |-> external]

MCManifest == <<Codec("h264", "Decoder", "h264", "", "", TRUE),
                Codec("ac3e", "Encoder", "ac3", "", "", TRUE),
                Codec("aac", "Decoder", "aac", "", "", FALSE)>>

MCBuiltin == <<Codec("h264_mf", "Decoder", "h264", "mf", "", FALSE),
               Codec("h264_mmal", "Decoder", "h264", "mmal", "video", FALSE),
               Codec("vc1_mmal", "Decoder", "vc1", "mmal", "video", FALSE),
               Codec("aac_mf", "Decoder", "aac", "mf", "", FALSE),
               Codec("aac", "Decoder", "aac", "", "", FALSE),
               Codec("eac3_eae", "Decoder", "eac3", "eae", "", FALSE),
               Codec("ac3_mf", "Encoder", "ac3", "mf", "", FALSE)>>

Stream(i, kind, codec, profile, sized, channels) ==
  [index |-> i, kind |-> kind, codec |-> codec, profile |-> profile, sized |-> sized,
   channels |-> channels, rate |-> IF kind = "audio" THEN 48000 ELSE 0]

Video(codec, profile) == Stream(0, "video", codec, profile, TRUE, 0)
Sound(codec, channels) == Stream(1, "audio", codec, "", FALSE, channels)
Title == Stream(2, "sub", "srt", "", FALSE, 0)

MCFiles ==
  {[tracks |-> t, server |-> v] :
     t \in {<<>>, <<Video("h264", ""), Sound("aac", 2), Title>>},
     v \in {<<Video("h264", "high"), Sound("eac3", 6)>>, <<Video("h264", "high 10"), Sound("aac", 8)>>}}
  \cup {[tracks |-> <<Video("vc1", ""), Sound("", 2)>>, server |-> <<>>],
        [tracks |-> <<Video("h264", ""), Video("h264", ""), Sound("eac3", 2)>>, server |-> <<>>]}
==============================================================================
