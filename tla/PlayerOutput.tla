----------------------------- MODULE PlayerOutput -----------------------------
(***************************************************************************)
(* What the player sets up in mpv besides the file (the second half of     *)
(* src/player/PlayerComponent.cpp): the audio device, which may go and     *)
(* come back, passthrough and the encoder filter, the audio delay, which   *)
(* depends on the refresh rate of the display (DisplaySwitch), the aspect  *)
(* of the picture, and the streams that were asked for.  mpv announces     *)
(* changes later, from its own thread: news and params.                    *)
(***************************************************************************)
EXTENDS DisplaySwitch

CONSTANTS
  Subjects,    \* what a behaviour is about: one part moves, the others wait
  Devices,     \* audio devices that may be plugged in
  AudioInputs, \* the settings of the section audio that users choose
  VideoInputs, \* those of the section video
  ClientDelays,\* the audio delays that the client asks for, in ms
  TracksOf,    \* the tracks of each media file
  ExternalOf,  \* the tracks of each external file
  Streams      \* the streams that the client asks for

AutoDevice == "auto"

DelayKeys == {"24hz", "25hz", "50hz", "normal"}

\* mpv's tracks: ff is FFmpeg's index of the stream, and url the name of the
\* external file that it is in, if it is in one.
Tracks == [type : {"video", "audio", "sub"}, ff : STRING \ {""}, url : STRING]

ASSUME OutputAssumption ==
  /\ Subjects \subseteq {"display", "audio", "video", "streams"}
  /\ AutoDevice \notin Devices
  /\ \A a \in AudioInputs : a.type \in {"basic", "spdif", "hdmi"} /\ a.device \in Devices \cup {AutoDevice}
  /\ VideoInputs # {} /\ \A v \in VideoInputs : v.delays \in [DelayKeys -> Int]

\* No track of a media file is in an external one, and those of an external
\* file differ.
ASSUME TracksAssumption ==
  /\ \A f \in DOMAIN TracksOf :
       TracksOf[f] \in Seq(Tracks) /\ \A i \in DOMAIN TracksOf[f] : TracksOf[f][i].url = ""
  /\ \A u \in DOMAIN ExternalOf :
       /\ ExternalOf[u] \in Seq(Tracks) /\ IsInjective(ExternalOf[u])
       /\ \A i \in DOMAIN ExternalOf[u] : ExternalOf[u][i].url = u
  /\ \A s \in Streams : s.url \in DOMAIN ExternalOf \cup {""}

VARIABLES
  subject,
  \* audio
  plugged,            \* the devices that are there
  news,               \* is a change of audio-device-list on its way?
  m_audioDevices,     \* those that updateAudioDeviceList() found last
  m_reloadAudioTimer, \* is the debouncing timer running?
  choices,            \* the devices that the settings page offers
  audio,              \* the settings: device, type, passthrough, channels
  ao,                 \* mpv's properties: device, spdif, channels, whether
                      \* the filter @ac3 is there, and where the sound goes
  overruled,          \* history: devices that came back unnoticed, or that
                      \* the client overruled by setAudioDevice()
  \* video
  video,              \* the settings: aspect and the four audio delays
  decoded,            \* the aspect of the file that is decoded
  params,             \* is a change of video-dec-params on its way?
  shape,              \* mpv's properties for the aspect
  m_playbackAudioDelay,
  delay,              \* mpv's audio-delay, and the refresh rate it is for
  \* streams
  media               \* the file to load, mpv's tracks, sid and aid, and
                      \* m_currentSubtitleStream and m_currentAudioStream

audioVars  == <<plugged, news, m_audioDevices, m_reloadAudioTimer, choices, audio, ao, overruled>>
videoVars  == <<video, decoded, params, shape, m_playbackAudioDelay, delay>>
outputVars == <<vars, subject, audioVars, videoVars, media>>

-----------------------------------------------------------------------------
(* Audio.                                                                  *)

Listed == plugged \cup {AutoDevice}

\* updateAudioDevice(): mpv opens the device again even if it is the same,
\* and plays to none if it cannot.
Opened(o, device, devices) ==
  LET d == IF device \in devices THEN device ELSE AutoDevice
  IN  [o EXCEPT !.device = d, !.route = IF d \in Listed THEN d ELSE "none"]

\* setAudioConfiguration().  dts-hd includes dts.
Possible(type) ==
  CASE type = "spdif" -> {"ac3", "dts"}
    [] type = "hdmi"  -> {"ac3", "dts", "eac3", "dts-hd", "truehd"}
    [] OTHER          -> {}

AudioConfiguration(a, o) ==
  LET codecs == Possible(a.type) \cap a.passthrough
  IN  [Opened(o, a.device, m_audioDevices) EXCEPT
         !.spdif    = codecs \ IF "dts-hd" \in codecs THEN {"dts"} ELSE {},
         !.channels = IF a.type = "spdif" THEN "2.0" ELSE a.channels,
         !.ac3      = a.type = "spdif" /\ "ac3" \in a.passthrough]

\* Plausible slip: only a device that comes back is looked for.
CheckReturnedAudioDevice(old, new) ==
  m_reloadAudioTimer' = (m_reloadAudioTimer \/ audio.device \in new \ old)

\* checkCurrentAudioDevice(): the timer starts, again if it is running.
CheckCurrentAudioDevice(old, new) ==
  m_reloadAudioTimer' = (m_reloadAudioTimer \/ audio.device \in (new \ old) \cup (old \ new))

\* updateAudioDeviceList(), when audio-device-list has changed.
UpdateAudioDeviceList ==
  /\ news /\ news' = FALSE
  /\ choices' = Listed \cup {audio.device}
  /\ CheckCurrentAudioDevice(m_audioDevices, Listed)
  /\ m_audioDevices' = Listed
  /\ UNCHANGED <<plugged, audio, ao, overruled>>

ReloadAudio ==
  /\ m_reloadAudioTimer /\ m_reloadAudioTimer' = FALSE
  /\ ao' = Opened(ao, audio.device, m_audioDevices)
  /\ overruled' = {}
  /\ UNCHANGED <<plugged, news, m_audioDevices, choices, audio>>

SetAudioSettings(a) ==
  /\ a.device \in choices
  /\ audio' = a /\ ao' = AudioConfiguration(a, ao)
  /\ overruled' = {}
  /\ UNCHANGED <<plugged, news, m_audioDevices, m_reloadAudioTimer, choices>>

\* The sound goes elsewhere when its device goes, and does not come back
\* with it by itself.
Unplug(d) ==
  /\ d \in plugged /\ plugged' = plugged \ {d} /\ news' = TRUE
  /\ ao' = IF ao.route = d THEN [ao EXCEPT !.route = "elsewhere"] ELSE ao
  /\ UNCHANGED <<m_audioDevices, m_reloadAudioTimer, choices, audio, overruled>>

PlugIn(d) ==
  /\ d \in Devices \ plugged /\ plugged' = plugged \cup {d} /\ news' = TRUE
  /\ overruled' = overruled \cup ({d} \cap m_audioDevices)
  /\ UNCHANGED <<m_audioDevices, m_reloadAudioTimer, choices, audio, ao>>

\* setAudioDevice(), which the settings are not told of.
SetAudioDevice(d) ==
  /\ ao' = Opened(ao, d, {d}) /\ overruled' = overruled \cup {audio.device}
  /\ UNCHANGED <<plugged, news, m_audioDevices, m_reloadAudioTimer, choices, audio>>

AudioStep ==
  \/ UpdateAudioDeviceList \/ ReloadAudio
  \/ \E a \in AudioInputs : SetAudioSettings(a)
  \/ \E d \in Devices : Unplug(d) \/ PlugIn(d) \/ SetAudioDevice(d)

-----------------------------------------------------------------------------
(* Video.                                                                  *)

\* The key of the setting audio_delay.* for a refresh rate.
DelayKey(rate) ==
  CASE Distance(rate, 24000) < 500 -> "24hz"
    [] Distance(rate, 25000) < 500 -> "25hz"
    [] Distance(rate, 50000) < 500 -> "50hz"
    [] OTHER                       -> "normal"

\* setAudioDelay(), with the refresh rate that is current now.
SetAudioDelay(v, ms, fps) ==
  /\ m_playbackAudioDelay' = ms
  /\ delay' = [of |-> fps, ms |-> v.delays[DelayKey(fps.rate)] + ms]

\* updateVideoAspectSettings(): "custom" leaves mpv's properties alone.
Shape(forced, keep, panscan, unscaled) ==
  [aspect |-> forced, keepaspect |-> keep, panscan |-> panscan, unscaled |-> unscaled]

ShapeFor(forcing, aspect, old) ==
  CASE forcing = "custom"            -> old
    [] forcing = "zoom"              -> Shape("-1", TRUE, TRUE, FALSE)
    [] forcing = "force_4_3"         -> Shape("4:3", TRUE, FALSE, FALSE)
    [] forcing = "force_16_9"        -> Shape("16:9", TRUE, FALSE, FALSE)
    [] forcing = "force_16_9_if_4_3" ->
         Shape(IF aspect = "4:3" THEN "16:9" ELSE "-1", TRUE, FALSE, FALSE)
    [] forcing = "stretch"           -> Shape("-1", FALSE, FALSE, FALSE)
    [] forcing = "noscaling"         -> Shape("-1", TRUE, FALSE, TRUE)
    [] OTHER                         -> Shape("-1", TRUE, FALSE, FALSE)

UpdateVideoAspectSettings(v) == shape' = ShapeFor(v.aspect, decoded, shape)

\* updateVideoSettings(): display-fps is the variable displayFps.
UpdateVideoSettings(v, fps) ==
  /\ SetAudioDelay(v, m_playbackAudioDelay, fps)
  /\ UpdateVideoAspectSettings(v)

\* The settings change, or queueMedia() has the same ones set again.
SetVideoSettings(v) ==
  /\ video' = v
  /\ displayFps' = Fps(m_displays, osMode)
  /\ UpdateVideoSettings(v, displayFps')
  /\ UNCHANGED <<desktop, osMode, timer, m_displays, saved, m_initTimer, home, disturbed,
                 decoded, params>>

ClientSetsDelay(ms) ==
  /\ SetAudioDelay(video, ms, Fps(m_displays, osMode))
  /\ UNCHANGED <<vars, video, decoded, params, shape>>

\* Another file is decoded, or the aspect changes within it.
Decode(aspect) ==
  /\ decoded' = aspect /\ aspect # decoded /\ params' = TRUE
  /\ UNCHANGED <<vars, video, shape, m_playbackAudioDelay, delay>>

ParamsChanged ==
  /\ params /\ params' = FALSE
  /\ UpdateVideoAspectSettings(video)
  /\ UNCHANGED <<vars, video, decoded, m_playbackAudioDelay, delay>>

\* Whatever enumerates the displays has the rate set again.
DisplayReports ==
  /\ Reporting
  /\ UpdateVideoSettings(video, displayFps')
  /\ UNCHANGED <<video, decoded, params>>

\* A signal or a step outside the player; a change of the set of screens is
\* left to the behaviours about the display.
DisplayMoves ==
  /\ MonitorChange \/ Environment
  /\ subject = "display" \/ UNCHANGED desktop
  /\ UNCHANGED videoVars

VideoStep ==
  \/ \E v \in VideoInputs : SetVideoSettings(v)
  \/ \E ms \in ClientDelays : ClientSetsDelay(ms)
  \/ \E aspect \in {"none", "4:3", "16:9"} : Decode(aspect)
  \/ ParamsChanged

-----------------------------------------------------------------------------
(* Streams.  A stream is asked for by the index that FFmpeg gives it (id)  *)
(* and the external file it is in (url); either may be empty.              *)

NoStream == [id |-> "", url |-> ""]

FindStreamsForURL(tracks, url) == {i \in DOMAIN tracks : tracks[i].url = url}

\* mpv numbers the tracks of each type.
TrackId(tracks, i) == Cardinality({j \in 1 .. i : tracks[j].type = tracks[i].type})

\* reselectStream(): an external file is added unless it is there, which
\* mpv may refuse, and does when no file is loaded.
Added(tracks, stream, accepted) ==
  IF stream.url # "" /\ FindStreamsForURL(tracks, stream.url) = {} /\ accepted
  THEN tracks \o ExternalOf[stream.url] ELSE tracks

Selection(tracks, stream, type) ==
  LET found == {i \in FindStreamsForURL(tracks, stream.url) :
                  tracks[i].type = type /\ tracks[i].ff = stream.id}
  IN  IF stream.id # "" /\ found # {} THEN TrackId(tracks, Min(found))
      ELSE IF type = "audio" \/ stream.id # "" THEN 1 ELSE 0

ReselectSubtitle(m, accepted) ==
  LET tracks == Added(m.tracks, m.subtitle, accepted /\ m.tracks # <<>>)
  IN  [m EXCEPT !.tracks = tracks, !.sid = Selection(tracks, m.subtitle, "sub")]

ReselectAudio(m) == [m EXCEPT !.aid = Selection(m.tracks, m.audio, "audio")]

\* load(): stop() and queueMedia(), which has mpv select no stream yet.
LoadMedia(f, subtitle, track) ==
  media' = [file |-> f, tracks |-> <<>>, sid |-> 0, aid |-> 0,
            subtitle |-> subtitle, audio |-> track]

\* The hook on_preloaded: the tracks are known.
SelectStreams(accepted) ==
  /\ media.file \in DOMAIN TracksOf /\ media.tracks = <<>>
  /\ media' = ReselectAudio(ReselectSubtitle([media EXCEPT !.tracks = TracksOf[media.file]],
                                             accepted))

SetSubtitleStream(s, accepted) ==
  media' = ReselectSubtitle([media EXCEPT !.subtitle = s], accepted)

SetAudioStream(s) == media' = ReselectAudio([media EXCEPT !.audio = s])

\* "audio stream selections never start with '#'": the client never asks for
\* audio of an external file.
AudioStreams == {s \in Streams : s.url = ""}

StreamStep ==
  \/ \E f \in DOMAIN TracksOf, s \in Streams, a \in AudioStreams : LoadMedia(f, s, a)
  \/ \E accepted \in BOOLEAN :
       SelectStreams(accepted) \/ \E s \in Streams : SetSubtitleStream(s, accepted)
  \/ \E s \in AudioStreams : SetAudioStream(s)

-----------------------------------------------------------------------------
\* componentInitialize(): mpv announces each property it is told to observe.
OutputInit ==
  /\ Init /\ subject \in Subjects
  /\ subject = "display" \/ (Len(outputs) = 1 /\ window = CHOOSE o \in Outputs : TRUE)
  /\ subject \in {"display", "video"} \/ \A o \in Outputs : osMode[o] = 1
  /\ IF subject = "audio" THEN audio \in AudioInputs /\ plugged \in SUBSET Devices
     ELSE audio = (CHOOSE a \in AudioInputs : TRUE) /\ plugged = {}
  /\ IF subject = "video" THEN video \in VideoInputs
     ELSE video = CHOOSE v \in VideoInputs : TRUE
  /\ m_audioDevices = Listed /\ news = TRUE
  /\ choices = Listed \cup {audio.device}
  /\ m_reloadAudioTimer = (audio.device \in Listed)
  /\ ao = AudioConfiguration(audio, [device |-> AutoDevice, route |-> AutoDevice, spdif |-> {},
                                     channels |-> "", ac3 |-> FALSE])
  /\ overruled = {}
  /\ decoded = "none" /\ params = TRUE
  /\ shape = ShapeFor(video.aspect, decoded, Shape("-1", TRUE, FALSE, FALSE))
  /\ m_playbackAudioDelay = 0
  /\ delay = [of |-> displayFps, ms |-> video.delays[DelayKey(displayFps.rate)]]
  /\ media = [file |-> "none", tracks |-> <<>>, sid |-> 0, aid |-> 0,
              subtitle |-> NoStream, audio |-> NoStream]

OtherThanDisplay == <<subject, audioVars, media>>

OutputNext ==
  \/ subject \in {"display", "video"} /\ (DisplayReports \/ DisplayMoves)
       /\ UNCHANGED OtherThanDisplay
  \/ subject = "video" /\ VideoStep /\ UNCHANGED OtherThanDisplay
  \/ subject = "audio" /\ AudioStep /\ UNCHANGED <<vars, subject, videoVars, media>>
  \/ subject = "streams" /\ StreamStep /\ UNCHANGED <<vars, subject, audioVars, videoVars>>

\* The event loop delivers the signals of the screens and the timer that
\* they start; nobody has to touch anything else.
OutputSpec ==
  /\ OutputInit /\ [][OutputNext]_outputVars
  /\ WF_outputVars(MonitorChange /\ UNCHANGED <<OtherThanDisplay, videoVars>>)
  /\ WF_outputVars(InitTimerFires /\ UpdateVideoSettings(video, displayFps')
                     /\ UNCHANGED <<OtherThanDisplay, video, decoded, params>>)

-----------------------------------------------------------------------------
(* Properties.                                                             *)

\* Once mpv's news are handled and the timer has fired, the sound goes to
\* the device that the user chose if it is there, and else to the default
\* one, in whatever order devices go, come and are chosen; the settings
\* page offers what is there and what is chosen.  A device that comes back
\* before mpv's news of its going are handled is not noticed, and the client
\* may overrule the setting: overruled.
DeviceFollows ==
  /\ ~news /\ ~m_reloadAudioTimer /\ audio.device \notin overruled =>
       ao.route = IF audio.device \in Listed THEN audio.device ELSE AutoDevice
  /\ audio.device \in choices /\ (~news => Listed \subseteq choices)

\* mpv shows the picture as the settings want it for the aspect of what it
\* decodes, unless the news of that aspect are on their way.
AspectFits ==
  ~params /\ video.aspect # "custom" => shape = ShapeFor(video.aspect, decoded, shape)

\* The sound is delayed by what the user set for the refresh rate of the
\* display, plus what the client asked for; while the display has another
\* rate, the signal or the timer that corrects the delay is under way.
DelayFits ==
  /\ delay.ms = video.delays[DelayKey(delay.of.rate)] + m_playbackAudioDelay
  /\ LET o == delay.of.output
     IN  o \in listening /\ DelayKey(delay.of.rate) # DelayKey(ModesOf[o][osMode[o]].rate)
           => notice \/ shots > 0

\* Is the track with the number n among those of a type the stream s?
IsTrack(n, type, s) ==
  \E i \in DOMAIN media.tracks :
    /\ media.tracks[i].type = type /\ TrackId(media.tracks, i) = n
    /\ media.tracks[i].url = s.url /\ media.tracks[i].ff = s.id

\* However often streams are chosen, external files are added and refused,
\* and files replaced: mpv plays the streams that were asked for last,
\* where the loaded file or an external file has them, no subtitles if none
\* were asked for, and holds an external file once.
StreamsAreChosen ==
  media.tracks # <<>> =>
    /\ \A type \in {"sub", "audio"} :
         LET s == IF type = "sub" THEN media.subtitle ELSE media.audio
             n == IF type = "sub" THEN media.sid ELSE media.aid
         IN  (\E i \in DOMAIN media.tracks : IsTrack(TrackId(media.tracks, i), type, s))
               => IsTrack(n, type, s)
    /\ media.subtitle.id = "" => media.sid = 0
    /\ \A i, j \in DOMAIN media.tracks :
         media.tracks[i] = media.tracks[j] /\ media.tracks[i].url # "" => i = j

\* mpv has what was asked for last of its sound, its picture and its
\* streams, as far as the devices and files that are there allow it.
OutputIsCurrent == DeviceFollows /\ AspectFits /\ DelayFits /\ StreamsAreChosen
=============================================================================
