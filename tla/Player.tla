-------------------------------- MODULE Player --------------------------------
(***************************************************************************)
(* PlayerComponent driving libmpv, together with the display it switches.  *)
(*                                                                         *)
(* The web client calls load(), queueMedia(), stop() ... on the main       *)
(* thread.  The core of mpv runs on a thread of its own, plays one file of *)
(* its playlist after the other, queues events and wakes the main thread   *)
(* up.  handleMpvEvents then takes the events one at a time (the core may  *)
(* queue more meanwhile) and finally computes the new state of the player. *)
(* Before a file is opened (on_load) and before its streams are chosen     *)
(* (on_preloaded) the core waits in a hook until the main thread lets it   *)
(* go on: the display is switched to the file's frame rate, the codecs are *)
(* downloaded and the streams are selected in the meantime.                *)
(*                                                                         *)
(* mpv is modelled from how the code uses it.  The metadata that a call of *)
(* queueMedia leaves behind (frame rate, streams, server information) is   *)
(* one variable, m_media: the file that was queued last.                   *)
(***************************************************************************)
EXTENDS Integers, Sequences, FiniteSets

CONSTANTS
  Outputs, ModesOf, Rates, Avoid, SetOutcomes, MaxShots,   \* see DisplaySwitch
  Files,           \* what the web client plays
  FrameRate,       \* frame rate of each file in millihertz, 0 if unknown
  Music,           \* the files without video
  Calls,           \* the calls that the web client makes
  MaxPlaylist      \* bound: files waiting in the playlist

NoFile == "no file"

ASSUME PlayerAssumption ==
  /\ NoFile \notin Files
  /\ Music \subseteq Files
  /\ FrameRate \in [Files -> Nat]
  /\ MaxPlaylist \in Nat \ {0}

EndReasons == {"eof", "stop", "error"}

VARIABLES
  \* the display: see DisplaySwitch
  outputs, osMode, window, listening, notice, m_displays, m_lastVideoMode,
  m_lastDisplay, m_initTimer, shots, displayFps, home, disturbed,
  \* mpv
  core,            \* phase, file, and whether a hook blocks it or stop ends it
  playlist,        \* the files after the current one
  selected,        \* the file whose streams were selected, for the current one
  paused,          \* the property "pause"
  buffering,       \* has the current file run out of data?
  events,          \* events that mpv_wait_event will return
  \* PlayerComponent
  wakeup,          \* has wakeup_cb queued a call of handleMpvEvents?
  busy,            \* is handleMpvEvents running?
  resumes,         \* continuations of hooks: waiting for the delay, or for codecs
  m_state, m_inPlayback, m_playbackError, m_playbackCanceled,
  m_paused, m_playbackActive, m_windowVisible, m_videoPlaybackActive,
  m_media, m_restoreDisplayTimer, m_streamSwitchImminent,
  autoSwitch,      \* settings: refreshrate.auto_switch, and fullscreen
  \* history
  lastEnd          \* how the last file ended

Display == INSTANCE DisplaySwitch

displayVars == <<outputs, osMode, window, listening, notice, m_displays, m_lastVideoMode,
                 m_lastDisplay, m_initTimer, shots, displayFps, home, disturbed>>
coreVars == <<core, playlist, selected, paused, buffering, lastEnd>>
fileVars == <<m_inPlayback, m_playbackError, m_playbackCanceled>>
propVars == <<m_paused, m_playbackActive, m_windowVisible>>
stateVars == <<m_state, m_videoPlaybackActive>>
mediaVars == <<m_media, autoSwitch>>
restoreVars == <<m_restoreDisplayTimer, m_streamSwitchImminent>>
vars == <<displayVars, coreVars, events, wakeup, busy, resumes, fileVars,
          propVars, stateVars, mediaVars, restoreVars>>

Idle == [phase |-> "idle", file |-> NoFile, blocked |-> FALSE, stopping |-> FALSE]

Init ==
  /\ Display!Init
  /\ core = Idle
  /\ playlist = <<>>
  /\ selected = NoFile
  /\ paused = FALSE
  /\ buffering = FALSE
  /\ events = <<>>
  /\ wakeup = TRUE
  /\ busy = FALSE
  /\ resumes = {}
  /\ m_state = "finished"
  /\ m_inPlayback = FALSE /\ m_playbackError = FALSE /\ m_playbackCanceled = FALSE
  /\ m_paused = FALSE /\ m_playbackActive = FALSE /\ m_windowVisible = FALSE
  /\ m_videoPlaybackActive = FALSE
  /\ m_media = NoFile
  /\ m_restoreDisplayTimer = FALSE /\ m_streamSwitchImminent = FALSE
  /\ autoSwitch = TRUE
  /\ lastEnd = "eof"

-----------------------------------------------------------------------------
(* The properties of mpv that the player observes.                         *)

\* "idle-active": no file is loaded and none will be started.
IdleActive == core.phase = "idle"
\* "core-idle", negated: is playback progressing?
Progressing == core.phase = "playing" /\ ~paused /\ ~buffering
\* "vo-configured": is there a picture?
VoConfigured == core.phase = "playing" /\ core.file \notin Music

-----------------------------------------------------------------------------
(* The core of mpv, on its own thread.                                     *)

Event(type, arg) == [type |-> type, arg |-> arg]

CoreKeepsPlayer ==
  UNCHANGED <<displayVars, busy, resumes, fileVars, propVars, stateVars, mediaVars, restoreVars>>

Wake == wakeup' = TRUE

\* The core goes on with the files in list, if any: it starts the first one
\* at once (its pause option was given by queueMedia), or it is idle.
CoreGoesOn(list, reported) ==
  /\ IF list = <<>>
     THEN /\ core' = Idle
          /\ playlist' = <<>>
          /\ events' = reported
          /\ UNCHANGED paused
     ELSE /\ core' = [phase |-> "on_load", file |-> Head(list), blocked |-> TRUE, stopping |-> FALSE]
          /\ playlist' = Tail(list)
          /\ events' = reported \o <<Event("START_FILE", ""), Event("HOOK", "on_load")>>
          /\ paused' \in BOOLEAN
  /\ selected' = NoFile
  /\ buffering' = FALSE
  /\ Wake

\* A hook was continued: on to the next one, or to playback.
CoreProceed ==
  /\ core.phase \in {"on_load", "on_preloaded"} /\ ~core.blocked /\ ~core.stopping
  /\ IF core.phase = "on_load"
     THEN /\ core' = [core EXCEPT !.phase = "on_preloaded", !.blocked = TRUE]
          /\ events' = Append(events, Event("HOOK", "on_preloaded"))
     ELSE /\ core' = [core EXCEPT !.phase = "playing"]
          /\ UNCHANGED events
  /\ Wake
  /\ UNCHANGED <<playlist, selected, paused, buffering, lastEnd>>
  /\ CoreKeepsPlayer

\* The file ends: it was stopped, it cannot be opened or decoded, or it is over.
CoreEnd(reason) ==
  /\ core.phase # "idle" /\ ~core.blocked
  /\ CASE reason = "stop"  -> core.stopping
       [] reason = "error" -> ~core.stopping /\ core.phase # "on_preloaded"
       [] reason = "eof"   -> ~core.stopping /\ core.phase = "playing"
  /\ lastEnd' = reason
  /\ CoreGoesOn(playlist, Append(events, Event("END_FILE", reason)))
  /\ CoreKeepsPlayer

\* The cache runs empty or fills up again.
CoreBuffers ==
  /\ core.phase = "playing"
  /\ buffering' = ~buffering
  /\ Wake
  /\ UNCHANGED <<core, playlist, selected, paused, events, lastEnd>>
  /\ CoreKeepsPlayer

-----------------------------------------------------------------------------
(* handleMpvEvents, on the main thread.                                    *)

\* The queued call of handleMpvEvents starts.
StartEvents ==
  /\ wakeup /\ ~busy
  /\ wakeup' = FALSE
  /\ busy' = TRUE
  /\ UNCHANGED <<displayVars, coreVars, events, resumes, fileVars, propVars,
                 stateVars, mediaVars, restoreVars>>

OnStartFile ==
  /\ m_inPlayback' = TRUE
  /\ UNCHANGED <<displayVars, core, selected, resumes, m_playbackError, m_playbackCanceled, restoreVars>>

\* Plausible slip: an error is not forgotten when the next file ends well.
OnEndFileKeepsError(reason) ==
  /\ m_inPlayback' = FALSE
  /\ m_playbackError' = (m_playbackError \/ reason = "error")
  /\ m_playbackCanceled' = (reason = "stop")
  /\ m_restoreDisplayTimer' = (m_restoreDisplayTimer \/ ~m_streamSwitchImminent)
  /\ m_streamSwitchImminent' = FALSE
  /\ UNCHANGED <<displayVars, core, selected, resumes>>

\* Plausible slip: the display is restored only after a file that was played.
OnEndFileNoRestore(reason) ==
  /\ m_inPlayback' = FALSE
  /\ m_playbackError' = (reason = "error")
  /\ m_playbackCanceled' = (reason = "stop")
  /\ m_restoreDisplayTimer' = (m_restoreDisplayTimer \/ (~m_streamSwitchImminent /\ reason # "error"))
  /\ m_streamSwitchImminent' = FALSE
  /\ UNCHANGED <<displayVars, core, selected, resumes>>

OnEndFile(reason) ==
  /\ m_inPlayback' = FALSE
  /\ m_playbackError' = (reason = "error")
  /\ m_playbackCanceled' = (reason = "stop")
  /\ m_restoreDisplayTimer' = (m_restoreDisplayTimer \/ ~m_streamSwitchImminent)
  /\ m_streamSwitchImminent' = FALSE
  /\ UNCHANGED <<displayVars, core, selected, resumes>>

MediaFrameRate == IF m_media = NoFile THEN 0 ELSE FrameRate[m_media]

\* startCodecsLoading() for a hook, while the continuations in others wait:
\* codecs must be downloaded first, or all are there and mpv may continue
\* the hook at once.
StartCodecsLoading(hook, others) ==
  \/ /\ resumes' = others \cup {[hook |-> hook, after |-> "codecs"]}
     /\ UNCHANGED core
  \/ /\ resumes' = others
     /\ core' = [core EXCEPT !.blocked = FALSE]

AfterDelay == [hook |-> "on_load", after |-> "delay"]

\* Plausible slip: loading also goes on while the display still switches.
ResumeTwice(switched) ==
  StartCodecsLoading("on_load", resumes \cup IF switched THEN {AfterDelay} ELSE {})

\* After a switch, wait for the display before looking for the codecs.
ResumeOnLoad(switched) ==
  IF switched THEN resumes' = resumes \cup {AfterDelay} /\ UNCHANGED core
              ELSE StartCodecsLoading("on_load", resumes)

\* Plausible slip: a display that was switched already is left alone.
OnLoadHookOnce ==
  /\ \E switched \in BOOLEAN :
       /\ IF ~autoSwitch \/ MediaFrameRate < 1000 \/ Display!Recorded
          THEN ~switched /\ UNCHANGED <<displayVars, m_restoreDisplayTimer>>
          ELSE /\ m_restoreDisplayTimer' = FALSE
               /\ Display!SwitchToBestVideoMode(MediaFrameRate, switched)
       /\ ResumeOnLoad(switched)
  /\ UNCHANGED <<fileVars, selected, m_streamSwitchImminent>>

\* switchDisplayFrameRate and the continuation of the hook.  An unknown rate
\* changes nothing, and leaves the timer alone.
OnLoadHook ==
  /\ \E switched \in BOOLEAN :
       /\ IF ~autoSwitch \/ MediaFrameRate < 1000
          THEN ~switched /\ UNCHANGED <<displayVars, m_restoreDisplayTimer>>
          ELSE /\ m_restoreDisplayTimer' = FALSE
               /\ Display!SwitchToBestVideoMode(MediaFrameRate, switched)
       /\ ResumeOnLoad(switched)
  /\ UNCHANGED <<fileVars, selected, m_streamSwitchImminent>>

\* reselectStream for the streams that queueMedia was told to play.
OnPreloadedHook ==
  /\ selected' = m_media
  /\ StartCodecsLoading("on_preloaded", resumes)
  /\ UNCHANGED <<displayVars, fileVars, restoreVars>>

\* mpv_wait_event returns the next event.
TakeEvent == busy /\ events # <<>> /\ events' = Tail(events)

\* handleMpvEvent for the next event.
HandleEvent ==
  /\ TakeEvent
  /\ LET e == Head(events)
     IN  \/ e.type = "START_FILE" /\ OnStartFile
         \/ e.type = "END_FILE" /\ OnEndFile(e.arg)
         \/ e.type = "HOOK" /\ e.arg = "on_load" /\ OnLoadHook
         \/ e.type = "HOOK" /\ e.arg = "on_preloaded" /\ OnPreloadedHook
  /\ UNCHANGED <<playlist, paused, buffering, lastEnd, wakeup, busy, propVars,
                 stateVars, mediaVars>>

\* Properties that changed are reported after the events, with their value
\* at that time.
HandleProperties ==
  /\ busy /\ events = <<>>
  /\ <<m_paused, m_playbackActive, m_windowVisible>> # <<paused, Progressing, VoConfigured>>
  /\ m_paused' = paused
  /\ m_playbackActive' = Progressing
  /\ m_windowVisible' = VoConfigured
  /\ UNCHANGED <<displayVars, coreVars, events, wakeup, busy, resumes, fileVars,
                 stateVars, mediaVars, restoreVars>>

\* The state that updatePlaybackState computes.
NewState ==
  IF m_inPlayback
  THEN CASE m_paused                       -> "paused"
         [] ~m_paused /\ m_playbackActive  -> "playing"
         [] ~m_paused /\ ~m_playbackActive -> "buffering"
  ELSE CASE m_playbackError                          -> "error"
         [] ~m_playbackError /\ m_playbackCanceled   -> "canceled"
         [] ~m_playbackError /\ ~m_playbackCanceled  -> "finished"

\* No event is left: updatePlaybackState, and back to the event loop.
FinishEvents ==
  /\ busy /\ events = <<>>
  /\ <<m_paused, m_playbackActive, m_windowVisible>> = <<paused, Progressing, VoConfigured>>
  /\ busy' = FALSE
  /\ m_state' = NewState
  /\ m_videoPlaybackActive' = (NewState = "playing" /\ m_windowVisible)
  /\ UNCHANGED <<displayVars, coreVars, events, wakeup, resumes, fileVars, propVars,
                 mediaVars, restoreVars>>

-----------------------------------------------------------------------------
(* Timers and callbacks on the main thread.                                *)

\* Plausible slip: the timer does not look whether mpv plays again.
OnRestoreDisplayAlways ==
  /\ ~busy /\ m_restoreDisplayTimer
  /\ m_restoreDisplayTimer' = FALSE
  /\ Display!RestorePreviousVideoMode
  /\ UNCHANGED <<coreVars, events, wakeup, busy, resumes, fileVars, propVars,
                 stateVars, mediaVars, m_streamSwitchImminent>>

\* onRestoreDisplay(), from m_restoreDisplayTimer.
OnRestoreDisplay ==
  /\ ~busy /\ m_restoreDisplayTimer
  /\ m_restoreDisplayTimer' = FALSE
  /\ IF IdleActive THEN Display!RestorePreviousVideoMode ELSE UNCHANGED displayVars
  /\ UNCHANGED <<coreVars, events, wakeup, busy, resumes, fileVars, propVars,
                 stateVars, mediaVars, m_streamSwitchImminent>>

\* The delay after a mode switch is over: startCodecsLoading.
DelayOver ==
  /\ ~busy
  /\ AfterDelay \in resumes
  /\ StartCodecsLoading("on_load", resumes \ {AfterDelay})
  /\ UNCHANGED <<displayVars, playlist, selected, paused, buffering, lastEnd, events, wakeup,
                 busy, fileVars, propVars, stateVars, mediaVars, restoreVars>>

\* onCodecsLoadingDone: the continuation tells mpv to continue the hook.
CodecsDone ==
  /\ ~busy
  /\ \E r \in resumes :
       /\ r.after = "codecs"
       /\ resumes' = resumes \ {r}
  /\ core' = [core EXCEPT !.blocked = FALSE]
  /\ UNCHANGED <<displayVars, playlist, selected, paused, buffering, lastEnd, events, wakeup,
                 busy, fileVars, propVars, stateVars, mediaVars, restoreVars>>

\* DisplayComponent's own signal and timer.
DisplayEvent ==
  /\ ~busy
  /\ Display!MonitorChange \/ Display!InitTimerFires
  /\ UNCHANGED <<coreVars, events, wakeup, busy, resumes, fileVars, propVars,
                 stateVars, mediaVars, restoreVars>>

-----------------------------------------------------------------------------
(* Calls of the web client, on the main thread.                            *)

CallKeepsPlayer ==
  UNCHANGED <<lastEnd, busy, resumes, fileVars, propVars, stateVars, m_restoreDisplayTimer>>

Called(name) == ~busy /\ name \in Calls

\* stop(): the command "stop" ends the current file, if there is one.
Stopped == [core EXCEPT !.stopping = core.phase # "idle"]

\* queueMedia() with its command "loadfile append-play"; stopped is what
\* load() made of the core, and waiting of its playlist.
Queue(f, stopped, waiting) ==
  /\ m_media' = f
  /\ displayFps' = Display!Fps(m_displays, osMode)   \* updateVideoSettings
  /\ IF core.phase = "idle"
     THEN CoreGoesOn(<<f>>, events)
     ELSE /\ Len(waiting) < MaxPlaylist
          /\ core' = stopped
          /\ playlist' = Append(waiting, f)
          /\ UNCHANGED <<selected, paused, buffering, events, wakeup>>
  /\ UNCHANGED <<outputs, osMode, window, listening, notice, m_displays, m_lastVideoMode,
                 m_lastDisplay, m_initTimer, shots, home, disturbed,
                 m_streamSwitchImminent, autoSwitch>>
  /\ CallKeepsPlayer

QueueMedia(f) == Called("queueMedia") /\ Queue(f, core, playlist)

\* load(): stop() and queueMedia().
Load(f) == Called("load") /\ Queue(f, Stopped, <<>>)

Stop ==
  /\ Called("stop")
  /\ core' = Stopped
  /\ playlist' = <<>>
  /\ UNCHANGED <<displayVars, paused, wakeup, mediaVars, m_streamSwitchImminent>>
  /\ UNCHANGED <<selected, buffering, events>>
  /\ CallKeepsPlayer

ClearQueue ==
  /\ Called("clearQueue")
  /\ playlist' = <<>>
  /\ UNCHANGED <<displayVars, core, paused, wakeup, mediaVars, m_streamSwitchImminent>>
  /\ UNCHANGED <<selected, buffering, events>>
  /\ CallKeepsPlayer

\* play() and pause().
SetPause(pause) ==
  /\ Called("pause")
  /\ paused' = pause
  /\ Wake
  /\ UNCHANGED <<displayVars, core, playlist, mediaVars, m_streamSwitchImminent>>
  /\ UNCHANGED <<selected, buffering, events>>
  /\ CallKeepsPlayer

StreamSwitch ==
  /\ Called("streamSwitch")
  /\ m_streamSwitchImminent' = TRUE
  /\ UNCHANGED <<displayVars, core, playlist, paused, wakeup, mediaVars>>
  /\ UNCHANGED <<selected, buffering, events>>
  /\ CallKeepsPlayer

\* The user changes the settings that switchDisplayFrameRate looks at.
ChangeSettings ==
  /\ Called("settings")
  /\ autoSwitch' = ~autoSwitch
  /\ UNCHANGED <<displayVars, core, playlist, paused, wakeup, m_media, m_streamSwitchImminent>>
  /\ UNCHANGED <<selected, buffering, events>>
  /\ CallKeepsPlayer

-----------------------------------------------------------------------------

MpvCore == CoreProceed \/ (\E reason \in EndReasons : CoreEnd(reason)) \/ CoreBuffers

MainThread ==
  \/ StartEvents
  \/ HandleEvent
  \/ HandleProperties
  \/ FinishEvents
  \/ OnRestoreDisplay
  \/ DelayOver
  \/ CodecsDone
  \/ DisplayEvent

WebClient ==
  \/ \E f \in Files : QueueMedia(f) \/ Load(f)
  \/ Stop \/ ClearQueue \/ StreamSwitch \/ ChangeSettings
  \/ \E pause \in BOOLEAN : SetPause(pause)

Next == MpvCore \/ MainThread \/ WebClient

Spec == Init /\ [][Next]_vars

(***************************************************************************)
(* The core works on whatever it is not blocked in, but need not end a     *)
(* file by itself.  The event loop serves its queued calls, timers and     *)
(* network replies in turn, however often handleMpvEvents runs in between. *)
(* (An event that is taken is handled: only HandleEvent takes one.)        *)
(***************************************************************************)
Fairness ==
  /\ WF_vars(CoreProceed \/ CoreEnd("stop"))
  /\ WF_events(TakeEvent)
  /\ WF_vars(StartEvents \/ HandleProperties \/ FinishEvents)
  /\ SF_vars(OnRestoreDisplay)
  /\ SF_vars(DelayOver \/ CodecsDone)

FairSpec == Spec /\ Fairness

-----------------------------------------------------------------------------
(* Properties.                                                             *)

\* The shape of the state of the player and of mpv.
TypeOK ==
  /\ core \in [phase : {"idle", "on_load", "on_preloaded", "playing"},
               file : Files \cup {NoFile}, blocked : BOOLEAN, stopping : BOOLEAN]
  /\ core.file = NoFile <=> core.phase = "idle"
  /\ core.blocked => core.phase \in {"on_load", "on_preloaded"}
  /\ core.stopping => core.phase # "idle"
  /\ playlist \in Seq(Files) /\ Len(playlist) <= MaxPlaylist
  /\ {selected, m_media} \subseteq Files \cup {NoFile}
  /\ {paused, buffering, wakeup, busy, autoSwitch} \subseteq BOOLEAN
  /\ events \in Seq({Event("START_FILE", ""), Event("HOOK", "on_load"),
                    Event("HOOK", "on_preloaded")}
                     \cup {Event("END_FILE", reason) : reason \in EndReasons})
  /\ resumes \subseteq [hook : {"on_load", "on_preloaded"}, after : {"delay", "codecs"}]
  /\ m_state \in {"finished", "canceled", "error", "paused", "playing", "buffering"}
  /\ {m_inPlayback, m_playbackError, m_playbackCanceled, m_paused, m_playbackActive,
      m_windowVisible, m_videoPlaybackActive, m_restoreDisplayTimer,
      m_streamSwitchImminent} \subseteq BOOLEAN
  /\ lastEnd \in EndReasons

\* A hook that blocks mpv is in exactly one pair of hands: its event waits
\* to be handled or one continuation waits for its turn.  None is lost, and
\* none is continued twice (the lambdas in handleMpvEvent).
HookHasOneOwner ==
  LET unhandled == {i \in DOMAIN events : events[i].type = "HOOK"}
  IN  /\ Cardinality(unhandled) + Cardinality(resumes) = IF core.blocked THEN 1 ELSE 0
      /\ \A i \in unhandled : events[i].arg = core.phase
      /\ \A r \in resumes : r.hook = core.phase

\* Whenever the main thread has nothing left to do, the state that the web
\* client was told is that of mpv, however events, property changes and
\* calls interleaved; after playback it is the way the last file ended.
StateFollowsCore ==
  ~wakeup /\ ~busy =>
    /\ events = <<>>
    /\ m_state = CASE core.phase = "idle" ->
                        [eof |-> "finished", stop |-> "canceled", error |-> "error"][lastEnd]
                   [] core.phase # "idle" /\ paused -> "paused"
                   [] core.phase # "idle" /\ ~paused ->
                        IF Progressing THEN "playing" ELSE "buffering"

\* The display never changes its mode under a file that is being decoded:
\* it is switched in the on_load hook and restored when mpv is idle.
NoSwitchDuringPlayback ==
  [][osMode' # osMode => core.phase \in {"idle", "on_load"}]_vars

\* A file that plays on is shown at the refresh rate that suits it best,
\* whatever restore timers earlier files left behind (for a client that
\* replaces files with load()).
PlaysAtItsRate ==
  core.phase = "playing" /\ ~core.stopping /\ FrameRate[core.file] >= 1000 =>
    Display!FindBestMatch(ModesOf[window], osMode[window], FrameRate[core.file], Avoid)
      \in {Display!NoMode, osMode[window]}

\* PlayerComponent.cpp:333 says of the streams given to queueMedia: "we're
\* going to select these streams later, in the preloaded hook".  So the
\* streams of a file that plays are those it was queued with.
StreamsAreItsOwn ==
  core.phase = "playing" /\ ~core.stopping => selected = core.file

\* Every hook is continued in the end.
HooksContinue == core.blocked ~> ~core.blocked

\* When no file is played any more, the user's display mode comes back.
EventuallyRestored == <>[]IdleActive => <>[](osMode = home)

\* A file plays the way it was queued: with the streams that the client gave
\* it, at the rate that suits it, and with the player's fields in step with
\* the phases of mpv, for a client that replaces files with load().
PlaysAsQueued == TypeOK /\ PlaysAtItsRate /\ StreamsAreItsOwn

\* Nothing is held up: mpv goes on after every hook, and the desktop of the
\* user comes back after the last file.
PlaybackGoesOn == HooksContinue /\ EventuallyRestored
=============================================================================
