----------------------------- MODULE CodecChoice -----------------------------
(***************************************************************************)
(* Which decoders and encoders a file needs: the cached list of codecs,    *)
(* the score of a decoder for a stream and determineRequiredCodecs()       *)
(* (src/player/CodecsComponent.cpp), over the streams that mpv or the      *)
(* server name (src/player/PlayerComponent.cpp).  A driver is a record     *)
(*   [driver, type, format, system, listed, external]                      *)
(* where system is its kind of system codec ("" for one of FFmpeg) and     *)
(* listed the white list it is on ("audio", "video" or "").                *)
(***************************************************************************)
EXTENDS Integers, Sequences, SequencesExt, FiniteSets

CONSTANTS
  Manifest,   \* the codecs of CodecManifest.h, in order
  Builtin,    \* what libmpv reports without any downloaded file, in order
  HaveEae     \* whether the build knows EasyAudioEncoder

Drivers == [driver : STRING, type : {"Decoder", "Encoder"}, format : STRING, system : STRING,
            listed : {"audio", "video", ""}, external : BOOLEAN]

ASSUME ChoiceAssumption ==
  /\ Manifest \in Seq(Drivers) /\ Builtin \in Seq(Drivers)
  /\ HaveEae \in BOOLEAN

(* The white lists name system decoders, and none of EasyAudioEncoder; the *)
(* one for encoders is empty.                                              *)
ASSUME WhiteListAssumption ==
  \A d \in ToSet(Manifest) \cup ToSet(Builtin) :
    d.listed # "" => d.type = "Decoder" /\ d.system \notin {"", "eae"}

SameCodec(a, b) == a.type = b.type /\ a.format = b.format /\ a.driver = b.driver

IsSystemCodec(d) == d.system # ""

(* updateCachedCodecList(): the manifest without system codecs, then what  *)
(* libmpv has besides; loaded are the drivers it loads from files.  Each   *)
(* entry is at the place its codec has in the manifest or after it.        *)
CachedCodecList(loaded) ==
  LET all    == Manifest \o Builtin
      known  == {i \in DOMAIN Manifest : ~IsSystemCodec(Manifest[i])}
      others == {i \in DOMAIN all \ DOMAIN Manifest : ~\E k \in known : SameCodec(all[k], all[i])}
      IsBuiltin(d) == \E b \in ToSet(Builtin) : SameCodec(b, d)
  IN  [i \in known \cup others |->
         [codec   |-> all[i],
          present |-> i \in others \/ all[i].driver \in loaded \/ IsBuiltin(all[i])]]

(* findCodecsByFormat(): the places of its result. *)
CodecsByFormat(list, type, format) ==
  {i \in DOMAIN list : list[i].codec.type = type /\ list[i].codec.format = format}

(* isWhitelistedSystemAudioCodec() with useSystemAudioDecoders(), which is *)
(* always true, and isWhitelistedSystemVideoCodec() with the setting.      *)
Whitelisted(d, useVideo) == d.listed = "audio" \/ (d.listed = "video" /\ useVideo)

OddProfile(s) == s.profile \notin {"", "main", "baseline", "high"}

(* The limits of the system decoder d for stream s.  The largest picture   *)
(* of h264_mf is never probed, so that every known size exceeds it.        *)
BeyondLimits(d, s) ==
  \/ d.format = "h264" /\ OddProfile(s)
  \/ d.driver = "h264_mf" /\ s.sized
  \/ d.driver = "aac_mf" /\ (s.channels > 6 \/ (s.rate > 0 /\ (s.rate < 8000 \/ s.rate > 48000)))

(* Plausible slip: a missing decoder counts as none. *)
ScorePresentOnly(e, s, useVideo) ==
  IF ~IsSystemCodec(e.codec) THEN (IF e.present THEN 15 ELSE -1)
  ELSE IF e.codec.system = "eae" THEN (IF HaveEae THEN 2 ELSE -1)
  ELSE IF BeyondLimits(e.codec, s) THEN 1
  ELSE IF Whitelisted(e.codec, useVideo) THEN 10 ELSE -1

(* The score of entry e of the cached list for stream s. *)
Score(e, s, useVideo) ==
  IF ~IsSystemCodec(e.codec) THEN (IF e.present THEN 15 ELSE 5)
  ELSE IF e.codec.system = "eae" THEN (IF HaveEae THEN 2 ELSE -1)
  ELSE IF BeyondLimits(e.codec, s) THEN 1
  ELSE IF Whitelisted(e.codec, useVideo) THEN 10 ELSE -1

(* selectBestDecoder(): the first of the highest score, if that is not     *)
(* negative; the empty or one-element sequence of it.                      *)
SelectBestDecoder(list, s, useVideo) ==
  LET Points(i) == Score(list[i], s, useVideo)
      usable == {i \in CodecsByFormat(list, "Decoder", s.codec) : Points(i) >= 0}
      best   == {i \in usable : \A j \in usable : Points(j) <= Points(i)}
  IN  IF best = {} THEN <<>> ELSE <<list[Min(best)]>>

(* The encoder for AC3: the first present one that is not an unlisted      *)
(* system encoder, else the last one that can be downloaded.               *)
Ac3Encoder(list) ==
  LET encoders == CodecsByFormat(list, "Encoder", "ac3")
      Listed(d) == ~IsSystemCodec(d) \/ d.listed = "audio"
      usable   == {i \in encoders : list[i].present /\ Listed(list[i].codec)}
      external == {i \in encoders : list[i].codec.external}
  IN  IF usable # {} THEN <<list[Min(usable)]>>
      ELSE IF external # {} THEN <<list[Max(external)]>> ELSE <<>>

(* determineRequiredCodecs(): a decoder for each audio or video stream of  *)
(* a known codec, and the AC3 encoder if there is such a stream and the    *)
(* audio output transcodes; <<>> where there is none.                      *)
DetermineRequiredCodecs(list, streams, ac3, useVideo) ==
  LET Coded(s) == s.kind \in {"video", "audio"} /\ s.codec # ""
  IN  [i \in DOMAIN streams |->
         IF Coded(streams[i]) THEN SelectBestDecoder(list, streams[i], useVideo) ELSE <<>>]
        \o (IF ac3 /\ \E s \in ToSet(streams) : Coded(s) THEN <<Ac3Encoder(list)>> ELSE <<>>)

(* getPlaybackInfo(): the tracks mpv knows, video with the profile that    *)
(* the server gives for the same index; what the server knows as long as   *)
(* mpv has no tracks.                                                      *)
FFName(codec) == IF codec = "dca" THEN "dts" ELSE codec

PlaybackStreams(tracks, server) ==
  LET Named(t) == {i \in DOMAIN server : server[i].index = t.index}
  IN  IF tracks # <<>>
      THEN [n \in DOMAIN tracks |->
              [tracks[n] EXCEPT !.profile =
                 IF tracks[n].kind = "video" /\ Named(tracks[n]) # {}
                 THEN Last(SelectSeq(server, LAMBDA s : s.index = tracks[n].index)).profile
                 ELSE ""]]
      ELSE [n \in DOMAIN server |-> [server[n] EXCEPT !.codec = FFName(@), !.rate = 0]]
==============================================================================
