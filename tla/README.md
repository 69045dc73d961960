# A verification project for Plex Media Player

Plex Media Player is a Qt application around two foreign programs: a web client,
which is the user interface, and mpv, which plays.  The C++ code in `src/src` lies
between them.  Its main thread is an event loop: each slot, request handler, timer
and lambda runs to its end before the next one, so that a handler is one atomic
action here.  What makes the code hard is what happens between the handlers: mpv's
own thread and those of joysticks and televisions, timers, connections that end,
downloads that fail, a web client that answers late or not at all, screens and
devices that come and go, and processes that may die.

The modules are TLA+; TLC checks them on small instances and the TLA+ proof system
proves theorems about eight of the components for every instance.  `PROJECT.json` lists the
runs, what each definition translates, the hazards and the theorems.

    tlc -config Remote.cfg RemoteControl     # a run, see "Runs" below
    tlapm RemoteControlProofs.tla            # the proofs about a component

## Inventory

| Component | Source | State | Modules |
|---|---|---|---|
| Remote control | `remote/Remote*` | subscribers, open polls, commands waiting for an answer | `RemoteControl`, `WebFeed`, proofs |
| Mode selection | `display/DisplayManager.cpp` | none (functions) | `ModeMatch`, `ModeSearch` |
| Display switching | `display/DisplayComponent.cpp`, `x11/` | recorded mode, debounce flag, refresh rate | `DisplaySwitch`, proofs |
| Player | `player/PlayerComponent.cpp` | state, flags and values of the next file, timers, hooks; audio devices, delay, streams | `Player`, `PlayerOutput` (partly), proofs |
| Codec downloads | `player/CodecsComponent.cpp` | list of codecs, fetchers with queues and requests, files, the encoder process | `CodecWait`, `CodecChoice`, `CodecFetcher`, proofs |
| Settings | `settings/` | sections and values, two files, listeners | `Settings`, proofs |
| Window | `ui/KonvergoWindow.cpp` | visibility, geometry, screens, timers | `Window`, `Input` (partly), proofs |
| Input | `input/Input{Component,Mapping}.cpp`, `ui/EventFilter.cpp` | mappings and their cache, repeat timer, pending long press, web mode | `InputMap`, `Input`, proofs |
| Input sources | the other files of `input/` | joystick axes, the adapter of the television, held keys | `InputSources`, `Input` (partly) |
| Updater | `system/Updat*` | downloads in memory, directories on disk | `Updater` (partly), proofs |
| Single instance and helper | `main.cpp`, `shared/UniqueApplication.h`, `utils/HelperLauncher.cpp`, `tools/helper/` | servers, connections, timers of launch and quit | `Instances`, `Processes`, proofs |
| Crash uploads | `tools/helper/CrashUploader.cpp` | directories of dumps, the watcher, the queue | `CrashUploader`, `Processes`, proofs |
| Local sockets | `shared/LocalJson*` | a socket file, connections | `Instances` (partly) |
| Power | `power/` | the cookie of the inhibition | `Power`, `Processes` (partly), proofs |
| GDM, HTTP server, system, core, rendering, other display back ends, utilities | | none to speak of | see "Not modelled" |

What each component does, and what makes it correct:

**Remote control.**  Controllers (telephones) subscribe, poll, send commands and
vanish.  `handleCommand` passes a command to the web client with a number and keeps
the response in `m_responseMap`; the web client answers with `commandResponse` and
reports with `timelineUpdate`.  A poll's response is kept by its subscriber until the
next update.  A timer removes silent subscribers.  *Interactions:* the HTTP server
calls it and emits `done` of responses; the web client is told of the first and the
last subscriber.  *Hard:* responses are pointers that outlive their connections;
two maps of command numbers must agree; subscriptions, time-outs and updates
interleave.  *Correct if* the web client is subscribed exactly while somebody
listens, every command can be answered and is answered at most once, no answered
response is used again, and a silent subscriber is removed.

**Mode selection.**  `findBestMatch` weighs the modes of the current display against
the frame rate of a file, `findBestMode` finds the best mode for the start, the host
command `switch` looks for a mode by name.  *Hard:* floating rates that are rounded and
divided, and weights that only work together.  *Correct if* the choice agrees with a
plain definition of what is preferred, and is never of another resolution.

**Display switching.**  `switchToBestVideoMode` records the mode in use and sets the
best one, `restorePreviousVideoMode` brings it back; `monitorChange` renews the list of
displays after a delay.  *Interactions:* called by the player and by host commands;
`refreshRateChanged` goes to the player.  *Hard:* displays and modes are indices of a
list that is replaced; mode changes may fail, or be done without effect; the window
moves.  *Correct if* the recorded mode is the user's one, whatever calls came in
between, and a change of the system is noticed in the end.

**Player.**  `load`, `queueMedia` and `stop` send commands to mpv; mpv calls back with
events and with the hooks `on_load` and `on_preloaded`, in which it waits until it is
told to go on.  In `on_load` the display is switched, and the continuation may wait for
a delay and for codecs to be downloaded.  Besides, mpv is told which audio device,
codecs, delay, aspect and streams to use.  *Interactions:* mpv's thread, the display,
codec downloads, the settings, the restore timer.  *Hard:* mpv loads a file while the
client already replaces it; the values of the next file are kept in plain variables;
events and changes of properties come late and in batches.  *Correct if* each hook is
continued exactly once, the published state is that of mpv, a file plays at its
refresh rate and with its streams, the user's mode comes back, and the sound goes to
the device that was chosen, if it is there.

**Codec downloads.**  Some codecs may not be shipped and are fetched when a file needs
them, or at the start when an older version had them.  Each fetcher works through a
queue with one request at a time; an encoder is a program of its own.
*Interactions:* the player's hook waits for a fetcher; all share one list and one
directory.  *Hard:* every step may fail; several fetchers run at once; the program is
upgraded or crashes in between.  *Correct if* every fetcher reports once and after
its work and asks for nothing twice, and the list agrees with the disk.

**Settings.**  Sections of values, described by a resource or made by the web client,
in two files with versions of their own; a file that cannot be used is moved aside, an
old one is migrated.  *Interactions:* all components listen; the web client has a
copy of the descriptions.  *Hard:* crashes, refused writes and older or newer programs;
values that depend on each other.  *Correct if* nothing that was set is lost or
overwritten, unless the disk refuses, and whoever has a copy has the current one.

**Window.**  Full screen, forced screen and place are changed by settings, timers,
screens, the window manager and the user, each of which signals the others.
*Correct if* window and settings agree once all is served, and the window comes
back to its place after the full screen and after a restart.

**Input and its sources.**  Keys of keyboards, joysticks, televisions and network
remotes are mapped to actions by files, repeated by a timer, held for a second
meaning, offered to the web client or run here.  *Hard:* one timer and one pending
press for all keys; joysticks and television have threads; mapping files change.
*Correct if* nothing goes on by itself, a long press is answered once and
rightly, the mappings are those of the files, and an adapter is opened again.

**Updater.**  Checks, two parallel downloads and a marker; at the next start the newest
marked directory is applied by another program.  A check follows a login or a call of
the web client; the timer of `updateTimer` repeats it, if the setting is on, as long as
the time of day of the last one lies before 21:00.  *Hard:* the process may die at
any point and the disk remembers.  *Correct if* what is marked is complete, no update
is tried for ever, and the latest version arrives while the program goes on to check.

**Processes.**  One instance should run, with one helper of its own version that it
launches and talks to, and that outlives it shortly to upload crash dumps.  *Hard:* a
file names a server that may be dead; two may start at once; timers of one party act
after the other has left; dumps are moved between directories that nobody watches
at that moment, or that two helpers look through.  *Correct if* there is one of each, an
instance has a helper in the end and launches none after `stop()`, and no dump that was
answered for is uploaded again, or under another version.

**Power.**  *Correct if* the screen saver is inhibited as asked, although the
service may fail or restart.

## Plan

In this order, the most important behaviour first; all of it is written.

1. `WebFeed`, `RemoteControl`: abstract feed, and the server that implements it.
2. `RemoteControlProofs`: see "Proofs".
3. `ModeMatch` and `ModeSearch`, then `DisplaySwitch` which uses the result.
4. `Player`, which composes `DisplaySwitch` with a model of mpv, and `PlayerOutput`, which
   composes it with the settings, devices and streams.
5. `Updater`, for releases with a manifest.
6. `CodecWait`, what the player's hook waits for, `CodecChoice` and `CodecFetcher`, which
   implements `CodecWait`.
7. `Settings`; `Window`; `InputSources` and `InputMap`, composed by `Input`; `Instances`,
   `CrashUploader` and `Power`, composed by `Processes`.

8. `UpdaterProofs`, `DisplayProofs`, `PlayerProofs`, `WindowProofs`, `ProcessesProofs`,
   `CodecProofs`, `InputProofs` (of `Input` and of `Settings`): see "Proofs".

What is left:

* models: `Player` with `CodecFetcher` in place of the download that just ends; the other
  back ends of display, power and updates; the web client's overlay.

Every module keeps its parameters as constants, with named assumptions where the
values matter, and has one action per handler; none declares a RECURSIVE operator.

## Modules

### RemoteControl and WebFeed

A request is a number, given in the order of arrival; controllers are constants.
`m_subscriberMap` is the set of controllers that are registered and `subscriber` gives each
its object: `poll` (is it a `RemotePollSubscriber`), `response` (the poll it holds), `ids` and
`queue` (`m_commandIdMap`, `m_commandIdQueue`), `age` and `timeline`.  `m_responseMap` maps the number
of a command to its request, 0 being no entry; `http` says what became of each request.  `toWeb`
is the web channel, which delivers in order; `WebReceives` is the web client.
`Subscribe`, `Unsubscribe`, `Poll`, `Command` and `BadRequest` are the branches of
`handleCommand` with everything they call; `ResponseDone` is the slot on the end of a
response and is part of each action that ends one.  `Disconnect` is a lost
connection: the response object is deleted, and no `done` is emitted.
`CheckSubscribers` is the timer.  The time since the last request of a subscriber is
counted in timer ticks, `SubscriberTimeout` being the limit.

`WebFeed` is the promise to the web client in two variables: the set of controllers, and
whether the web client has been told that there is one; both change in the same step.
`RemoteControl` implements it with `told <- Told`, which is the web client's subscription once
all messages on their way have arrived.

### ModeMatch

Modes are records, rates integers in thousandths of a hertz; rounding is done as the
code does it.  Identifiers are positions in the list, from 1; 0 is the code's -1.
`ModeSearch` asks the three searches one question each about any list of modes, and says
in one sentence each what they should prefer; `MCModeMatch` has the modes and rates for
the run: any list of up to three modes out of ten, and five frame rates.  What
`findBestMatch` should prefer is not a sum: its four questions about a rate are asked in
order, and the first on which two modes differ decides (`Virtues`, `SuitsBetter`).  One class
per mode would not do: of two modes within half a hertz of the video, the one that rounds to the
same number of hertz counts as a multiple too and wins, although it may be interlaced.

### DisplaySwitch

The outputs and modes of the system are variables apart from what the component
believes.  The back end is the one for X11.  `disturbed` is a history variable: it is
true once the system interfered (a screen came or went, the user chose a mode or
moved the window) while a mode was recorded; `RecordIsHome` speaks of runs without such
interference, because the record is an index that then has no meaning.

### Player

Instantiates `DisplaySwitch` as `Display`.  mpv is external and modelled as the code uses
it: a core that takes the next file of its playlist, calls hooks, plays, buffers and ends
files, at any time with respect to the main thread; its events go to a queue, and
`wakeup_cb` posts a call of `handleMpvEvents`.  The handling of a batch of events is split
into `StartEvents`, `TakeEvent` and `FinishEvents`, since mpv goes on meanwhile.  The
continuation of a hook is a record that names what it waits for: the delay after a mode
switch, then the codecs.  `m_media` stands for the streams, frame rate and other metadata
that `queueMedia` stores.  `Calls` selects the calls that the client makes in a run.

### PlayerOutput

Extends `DisplaySwitch` by what the player sets up in mpv besides the file.  Audio:
`plugged` is what is there, `news` an `audio-device-list` on its way, `m_audioDevices` what
`updateAudioDeviceList` found last; mpv's sound goes to `ao.route`.  Video: every handler
that enumerates displays runs `updateVideoSettings`, and so `SetAudioDelay` with the rate of
that moment (`DisplayReports`); `params` is an aspect on its way.  Streams: `reselectStream`
over mpv's list of tracks, in which external files are appended, unless mpv refuses.
These three parts share no state but the display, so that each behaviour moves one
of them (`subject`) and their interleavings are not multiplied; the video part moves
together with the display.  `overruled` is a history variable for a device that left
and came back before the news of it were handled, which the code cannot see, or
that the client replaced with `setAudioDevice`.

### CodecWait, CodecChoice, CodecFetcher

`CodecWait` is the promise of `CodecsFetcher`: each item of a fetcher is answered once, in
any order and whatever fails, and with the last answer the fetcher reports.
`CodecChoice` translates the functions: the cached list (a codec at the place where the
manifest, followed by what libmpv reports, names it), the score of a decoder for a
stream, and `determineRequiredCodecs`, whose result has a decoder or nothing for each stream
and the encoder; drivers and streams are records whose fields the assumptions
`ChoiceAssumption` and `CodecsAssumption` name.  `CodecFetcher` has the disk (files of this version, of the
old one, the id of the device, the archive of the encoder with its parts), the memory
(list, fetchers) and one action per answer of the server, `InfoDone` and `DataDone`, with
each of the outcomes that the code tells apart.  A fetcher at the start (`UpdateFetcher`)
and the `Loaders` of files run at the same time; `Stop` (an end or a crash) may
happen at any point, and `Upgrade` before any start.  Codec files are stored atomically (`QSaveFile`), the archive is not.

### Settings

`mem` is the memory, `disk` the two files, `oldest` the key of `QSettings` and
`broken` and `saved` what was moved away; `Left` in `MCSettings` are four former installations.
An action is a call of users, the command line or the web client, with `ok` for
what the disk does to all that this handler writes.  At a start `moves` says for each file
what the remove of the former backup and the rename do to it (`Moves`), of which the code ignores
the results; `unmoved` is history for the files that stayed.  `seen` is what the listeners in
the program read last, `view` what the web client copied.  The description has
the shapes of `settings_description.json`: platform-dependent defaults, hidden values,
choices and both kinds of files.  What an installation may hold, `IsFile` and `HoldsOwn`, is what
earlier runs write; `MCInstalls` and `OldInstall` are instances.

### Window

`w` is the window: visibility, geometry, the posted call, the number of timers under way,
and the settings for full screen and geometry.  A rectangle is its screen and its kind.
The slots of the settings, of the screens and of the timers are actions; the changes of
visibility and settings that they signal to each other happen within.  The window
manager and the user act at any time in between.  `FirstOf` says which of the screens that are
there Qt lists first.

### InputMap, InputSources, Input

`InputMap` has the mapping files, `m_inputMap` and the cache, and how a list of patterns is
matched.  A pattern is the set of what it matches.  `InputSources` has the joysticks (with
the shared axis of the worker) and the state machine of the adapter: attached, opening,
open, alert.  Their events go through `posted`, the queue of the main thread.  `Input`
adds keyboard, network and the handlers of `InputComponent`; `press` is history: whether
one key was held alone, and what it has to mean.  `setup` says which inputs and files a behaviour
moves.

### Instances, CrashUploader, Power, Processes

`Instances` has the instances and helpers as processes: a socket file names who bound it
last, a connection is made or refused at once, and whoever crashed leaves its file.
`raced` is history: two processes looked for each other before either listened, a gap
that the code does not close.  `by` of a helper is the instance that launched it, until
it has looked for another one.
`CrashUploader` has each dump's place and what the helper is about to do: a scan lists one directory
after the other (`ListDumps`), moves a dump (`MoveDump`) and opens it (`OpenDump`), and these are steps, in
between which another helper or a crash may act; the name in the list or in the other directory
may stand for no file by then, and the result of the rename is ignored as in the code.  The watcher is taken off
until the handler is at its end (`WatchAgain`); what was noticed before and is still to be
handled is lost with what is written meanwhile, for which `missed` is history.  A request without a reply
takes its dump back, whether or not the server has it.  `Power` has the service with its cookies; `lostTrack` is history
for calls without an answer.  `Processes` composes them, with a limited number of
crashes, failures and upgrades in each setup (`faults`).

### Updater

`disk` and `later` survive the process, all else is reset by `Down`.  A directory has two
files, each missing, partial or good, the subdirectory and the marker; `later` has the
pairs of directories of which the first was modified later, which is the order that
`QDir::Time` gives: `HaveUpdate` returns the marked directory that is later than all others with a
marker (`FirstReady`), and empties those that are later still on its way.  A faulty disk refuses
to create what is asked for.  The separate updater installs complete packages only, or fails.
The size of a partial file and redirects of downloads, which go on in the same way, are not
distinguished.  `m_lastUpdateCheck` is a time of day, of which the timer asks whether three hours have
gone: it is "never" before the first check, "early" if a tick of that day will find so, and "late"
after 21:00, as `QTime::secsTo` does not go beyond midnight (`TimerCheck`).  That a marker cannot be
removed is not in the model.

## Runs

| Run | Shows | Bounds |
|---|---|---|
| `remote` | types, web client, subscribers and their command numbers, responses; the refinement of `WebFeed`; commands are answered | 2 controllers, 4 requests, 3 updates, removal after more than 1 silent tick, 2 command numbers kept |
| `mode_match` | the three searches agree with their references | every list of up to 3 of 10 modes |
| `display` | record, debounce and refresh rate; sound, picture and streams | 2 outputs with different modes, 2 outstanding single shots, 2 audio devices, 4 audio and 3 video settings, a film, a clip and an external file |
| `player_load` | state, streams, rate; hooks continue, the mode returns | calls `load` and `stop`, 3 files (two films of different rates, a song), 1 output, 1 file waiting in the playlist |
| `player_queue` | hooks, state and no switch under a playing file | every call, 2 files, the same output and playlist |
| `updater` | completeness, no second try, arrival | 4 releases |
| `codecs` | list and disk, choice of decoders, order, the refinement of `CodecWait`, files go on | 2 loaders and the fetcher of the start, 2 codecs of which one cannot be loaded, the encoder's archive of 2 files, 6 files to play |
| `settings` | files, copies, moved configurations, whatever the disk refuses | 4 former installations, 3 sections, 2 user inputs, 3 cycled values, 1 new section and key |
| `settings_migration` | *violated:* a migration does not flip the interface | one former installation of version 3 |
| `desktop` | full screen, screens, place | 2 screens, 3 kinds of places, 2 timers under way |
| `input` | no ghost, long presses, mode, mappings, adapter | 6 setups; 2 joysticks, 2 keys of the television, 2 of the network, 2 of the keyboard, 1 posted event, 1 action offered |
| `processes` | one of each, helper, dumps, screen saver | 7 setups; 2 instances of two versions, 2 helpers, 2 dumps, at most 1 crash or failed upload per setup, 2 failures of the service |

The exact values are in the `.cfg` files and `MC` modules.  Why they are enough: two
controllers are the fewest between which first, last and other differ; a limit of two
numbers makes eviction happen with the third command of a client; three modes give a
current one, a better one and one in between; two files are the fewest that replace
each other in every phase of loading, and each phase is a state of its own; two
audio devices let the chosen one and another come and go; three releases are needed
for a version that is overtaken, four let that happen after one was installed; two
loaders meet in every phase of a download, and one codec that cannot be loaded makes
all answers differ; the former installations are the cases that `loadConf` tells apart; two timers
are one that is late and one that is new; one posted event is enough to be overtaken
by a key of the main thread; two processes of each kind are the fewest that take each
other's socket file.  Setups keep parts apart that share no state.  Deadlock is not
checked in the bounded systems that may use up their bound and stop.

**Findings.**  The violated run is a comment that the code does not keep:

* the migration of a storage file of version 3 changes the interface to the one for televisions
  (`SettingsComponent.cpp:229`) and is repeated at each start until a change of a storage section, such as the
  geometry of the window, writes that file with version 4.  What the user has chosen and saved in between, in the other
  file, is overridden by the next start.

Other places where the models do what the code does, and not what a comment or a reader would
expect; the properties say so where they make an exception:

* a poll by a client that subscribed before is never answered, and a second poll
  replaces the response of the first (`RemoteComponent.cpp:281`); the entry of a command
  with a lost connection stays (`RemoteComponent.cpp:312`);
* an interlaced mode can be kept against a progressive one (`DisplayManager.cpp:219`);
* a queued file overwrites the stream choice of the one being loaded
  (`PlayerComponent.cpp:337`), and the flag of `streamSwitch` also spares the restore after
  a file that ended by itself (`PlayerComponent.cpp:536`);
* an audio device that comes back before the news of its going were handled is not
  opened again (`PlayerComponent.cpp:981`);
* after a newer version was applied, an older one that still has its marker is applied
  over it (`UpdateManager.cpp:53`);
* a configuration file of another version that cannot be renamed is overwritten with the defaults all the same,
  and the former backup may be gone as well (`SettingsComponent.cpp:233`);
* the result of `rename` in `uploadCrashDump` is ignored, so that of two helpers that scan at once both open and upload
  the dump that one of them has moved (`CrashUploader.cpp:67`); TLC finds it when `NeverSentTwice` is checked without its
  exception, in the setup with races and a dump;
* the timer that looks for updates asks for three hours since the time of day of the last check, which are
  never over after 21:00, nor before a first check (`UpdaterComponent.cpp:51`);
* the helper's quit timer starts when one of two clients leaves (`HelperSocket.cpp:42`).

**Fairness.**  Only what the code's scheduling gives.  `RemoteControl`: the web channel
delivers, and the web client answers each command it read (the code relies on it).
`DisplaySwitch` and `PlayerOutput`: the screen signal and the single-shot timer come.
`Player`: mpv goes on, the event loop takes what is posted to it, started timers fire and
a codec download ends; strong fairness for the timers, which are stopped and started
again by other handlers.  `CodecFetcher`: every request is answered or fails, as
`QNetworkReply::finished` is always emitted.  `Input`: the adapter's timer, the call that opens it
and libCEC's alert come.  `Processes`: the event loops of instances and helpers take
what waits for them and timers fire; crashes are limited by `faults`, as a helper that
always crashes serves nobody.  `Updater`: every reply comes, the timer ticks, and neither
the network nor the disk fails every time.  Nothing says that checks go on: `UpdatesArrive` is for a program that always
has one under way again, or a timer that will find that it is time, which is the case until a check is made after 21:00.  Nothing is assumed of users, controllers
or the client's calls.

## Proofs

A theorem speaks of every value of the constants that the named assumptions allow: any
number of controllers, files, screens, processes, releases, and any value of the bounds.
The assumptions say no more than what the constants are (bounds are natural numbers,
functions have their domains, the values that stand for "none" are none of the others);
six of them say something about the world or the code's tables.  `TracksAssumption`: the streams inside a
file have no address of their own, and those of an external file have that of the file
and are told apart.  `SearchAssumption`: no display has a mode at the rate of a video together
with one that is fifty times as fast.  `WhiteListAssumption`: the white lists of
`CodecsComponent.cpp:65-79` name decoders of the system, none of EasyAudioEncoder, and the one
for encoders is empty.  `DescriptionAssumption`: as in `settings_description.json`, `main` is not in the storage
file, the values that the audio page goes by are described, and no value has the same choice twice on one
platform.  `InstallAssumption`: a file that this version reads has only sections of that file, with the
values and keys there are, as it wrote it.  `ChangesAssumption`: users, the web client and the command line set values
of described sections or of those that the web client makes.  TLC evaluates all of them on every run.

Each proof has the same course.  The invariant that the run checks is not inductive;
the one that is has been checked by TLC first, and then each action has a lemma that it
keeps it.  What had to be added, and why, is what the proofs say about the code:

**Remote control** (`RemoteControlProofs`).

* `TypeCorrect`: `TypeInv` adds `m_commandId <= requests`, because a command is stored under
  `m_commandId`, which must be the number of a request.
* `WebFollows` and `FeedImplemented`: the web client's subscription, corrected by the
  messages on their way to it, equals "somebody is registered"; each handler changes
  both sides together or neither.  The refinement maps initial states to initial states
  and each step to a step or a stutter of `WebFeed`.
* `SubscribersSound`: the two records of command numbers agree (`Remembers`) only since
  both ascend: the oldest number is the head of the queue, and the one that a command
  repeats can only be its last.
* `CommandsCanBeAnswered`, `AnsweredOnce`, `HeldPollsAreOpen` need `ReqInv` together: every
  waiting command has its entry and its message or its debt (`Deliverable`); nothing that
  has not arrived yet is mentioned anywhere (`Fresh`); the keys of `m_responseMap` are request
  numbers (`MapNumbered`) and two keys never share a response (`MapDistinct`), so that the end of
  one response removes exactly one entry.

**Display and output** (`DisplayProofs`).  `DisplayInv` is about `DisplaySwitch` alone
(`DisplaySound`), and is kept by `PlayerOutput` too.

* `DesktopComesBack`: that the record is the user's mode needs that the recorded display is the
  one the window is on (`RecordInWindow`), and that nothing else is out of its mode.
* `ChangesNoticed`: while the debouncing flag `m_initTimer` is set, a single shot is still under
  way (`TypeInv`); without that a change could be swallowed by a flag that nobody resets.
* `OutputCorrect` joins three invariants, of which no two share state: the delay in mpv belongs to a rate
  that was right or whose correction is under way (`DelayInv`); the sound goes to the chosen
  device if it was there when mpv opened it, which `AudioInv` relates to the list that
  `updateAudioDeviceList` saw; and the tracks of a file are its own followed by external
  ones, each of them added once (`StreamInv`).

* `SearchesAreRight`: the weights of `findBestMatch` are added up, and what has to be shown is that no
  sum of lesser weights outvotes a greater one.  `PointsDecide` is the reason: two rates that differ on a
  question differ by 25 points or more in the right direction, while interlacing and the current
  mode have 15 together.  It holds because the questions are not independent: an exact multiple within half a
  hertz is the rate itself (`CloseMultipleIsExact`), and an exact multiple is an approximate one
  (`ExactMultipleIsApproximate`) only up to a factor of a hundred, as the tolerance of the former grows with
  the factor.  This is what `SearchAssumption` is for: without it a multiple by more than a hundred has 75
  points, as many as a close rate.  That `findBestMode`, one pass over the list, ends with
  a mode that none surpasses is an induction over the list, kept by the transitivity of
  `Improves`.

`FindBestMatch` is a choice among the best: that its answer is one of the modes of the
current display rests on the lemma that a set of numbers has a smallest element
(`SmallestExists`), obtained from the well-foundedness of finite sets.

**Player** (`PlayerProofs`).  `PlayerInv` is one invariant for the first four theorems.

* `HookOwned`: `HookIsHeld` says without counting that the hook is in one event or one
  continuation, and of which phase.
* `StateFollowed`: events are handled late, so the fields of the player are those of mpv only once
  they are.  `FileIsKnown` speaks of the last event about a file, in whatever place of the
  queue it is: it tells what mpv does now.  `NothingIsLeft` says what a call of `handleMpvEvents`
  leaves behind.
* `SteadyPicture`: a continuation can switch the mode only in `on_load`, because of `HookIsHeld`; and
  `onRestoreDisplay` acts only while mpv is idle.
* `QueuedPlays`: the answer to `PlaysAsQueued` needs two things on top of `PlayerInv`.  `FindBestMatch`, asked again
  for the rate it has chosen a mode for, keeps that mode (`ChosenModeStays`): the modes are weighed
  relative to the current one, and `WeightParts` shows which parts of a weight that changes.  And
  what the player knows of the rate, the settings of the streams in mpv and the mode of the display
  belong to the same file from the moment its `on_load` was taken (`PlaysInv`: `LoadedInv`, `RateInv`,
  `StreamsInv`, `ScreenInv`).  It is stated for what the property is about (`Replacing`, which is also what
  its run allows): the client replaces files and does not queue one behind another, and the
  windowing system applies the modes it is given.

**Updater** (`UpdaterProofs`).

* `SoundDisk`: a running download writes into a file of `m_version` that is not complete
  (`WritesAreOpen`), so that no directory with a marker is written.
* `TriedOnce`: a marker is found only in a directory that was downloaded since it was tried
  (`MarkersAreFresh`), also between the removal of the marker and the start of the updater.

**Codec downloads** (`CodecProofs`).  `CodecInv` is one invariant for the four theorems.

* `FetchersStaySound`: the queue of `installCodecs` is a recursion over the list of drivers; that it
  has no repetitions and no codec that is present is shown by induction, for which the library
  theorems cannot be used: `InductionOverSet` gets it from the least element of a set, and
  that from the well-foundedness of finite sets.  Because no present codec is queued, the files that
  `installCodecs` removes are none that libmpv can load, and the list of codecs stays true.
* `OrderIsKept`: what an older version had is in the list for `updateCodecs`, so that it is in the
  queue or on the disk afterwards; a fetcher with nothing left has passed the start of
  the encoder.
* `FetchersImplementWait`: what is left of a fetcher is its queue, its item and the archive that
  it still has to ask for (`LeftOf`); an answer takes exactly its item away.  A start maps to a step
  of `CodecWait` only because a program that does not run has idle fetchers (`OffIsIdle`).
  It is the safety part of `CodecWait`; its fairness is model-checked.
* `ChoicesAreSound`: of `CodecInv` it needs only that the files are those of codecs; the rest is
  about the functions.  Nothing in the list but a codec that is no system codec can be missing
  (`ListFacts`), a present one of these has the highest score, a listed decoder within its
  limits the next, and a missing one less than both (`ScoreFacts`), so that a missing one is chosen only
  if no present one suits (`DecoderIsNeeded`); for the encoder it is the loop that looks for a present one
  first (`EncoderIsNeeded`), and it is only because no system encoder is listed that what suits a
  decoder need not be asked of an encoder.

**Window** (`WindowProofs`).  `SettingsFollowed` and `PlaceIsKnown` follow from `WindowInv`: a
window that must be full is so (`AlwaysIsFull`), the forced screen is filled also by a window that
is minimized and comes back (`ForcedIsFilled`), the setting for the geometry has the place as long
as a setting keeps the window full (`PlaceIsKept`), and a window that was closed has been saved
(`ClosedIsSaved`).

**Processes** (`ProcessesProofs`).

* `OneOfEachRuns`: unless two have raced, the file leads to the one that runs, and whoever is about to
  listen although one runs is known to be behind (`AppOwner`, `HelperOwner`).
* `StoppedForGood`: the signals that `stop()` disconnects are not delivered later (`DeafIsNotTold`), and of all steps only
  `ConnectToHelper` makes a helper start, for the instance that takes the step; the timer of a stopped one
  connects to a helper that is there, and that is all it does (`NoneLaunched`).  It may connect, then, and the theorem does not deny it.
* `DumpsSound`: unless helpers have raced, at most one of them works on dumps, for one that does not run has
  nothing in hand (`IdleIsNew`, with `HelperOwner`).  What it has listed, moved or sends is then not touched by another:
  what can be found by a scan has not been answered (`Fresh`), and what is being sent is neither in the list nor
  moved again (`SendsSoundly`).  The version of an upload needs none of that: a dump leaves the directory of its
  version only when it is moved back (`VersionIsKept`, `SentAs`), and so it holds of helpers that have raced, too.
  That a dump reaches the server once is not said: when a reply is lost it is uploaded again.
* `ScreensaverFollows`: `ScreensaverAsAsked` is inductive with the types of the cookies.

**Input** (`InputProofs`).  `InputInv` is one invariant for the three theorems.

* `NothingPressedLeft`: `RepeatEnds` says who will end an auto-repeat that goes on: a joystick or
  a television that holds a key and will tell its release (`SourceOwes`), a key of the keyboard or
  of a remote control that is held and was told (`HolderOwes`), or a release that is posted
  already.  Events are queued, so that it must also be said of each `KeyDown` in the queue: what
  releases it comes after it.  Any release ends any repeat (`cancelAutoRepeat` is for all keys),
  which is why a repeat of one key may be ended by another; and `lost` is the exception of a
  release that nobody will tell.
* `HoldsAreAnswered`: while one key is held alone, the pending long press is the one it is mapped to,
  and it is as old as the press (`HeldAlone`).  What a key is mapped to comes from the cache, so that
  the theorem needs that the cache is true (`CacheStaysTrue`); an earlier press that is still
  pending would not be overwritten, so the promise begins with a press when nothing is pending.
* `FilesAndSettingsFollowed`: at most one switch is posted, and to the mode that is set, unless
  the setting was changed again before (`Follows`, `ModeInv`): that is why `toggleWebMode`, which
  goes by the mode of the window, sets nothing while a switch is under way.  That the user's
  files overload the program's is shown by induction over the files in the order they are read
  (`LoadedOverloads`): after each of them, what goes by a user's pattern has the name of one of his.

**Settings** (in `InputProofs`, with whose module it shares the lemmas about recursion).  The theorems follow
from `SettingsInv`.

* `StoredStaysRight`: `Agrees` says of one file and one section what a start would read of it, so that it is
  kept file by file: a successful write makes its file agree, and a refused one is noted in `faulty`.
  That the files together then reload the whole is `ReloadsTheSame`: each section lives in one file
  (`FileOf`), and what `loadConf` makes of one file does not reach the sections of the other.  Files
  of a former program agree too once they are read or replaced.  It needs that no
  storage file is migrated (`NoOldStorage`, which is in the property): the migration does not
  write such a file, which stays as it is until the next change of a storage section, and the run
  `settings_migration` shows what a start in between does.  That `QSettings` tell how the
  first start found the files rests on the order in `componentInitialize`: `setupVersion` looks before `load` writes.
* `ShownStaysCurrent`: listeners and copies are changed with what they show (`TellShows`); what is hidden
  depends on the type alone because `valuesUpdated` clears what any type has set, except for a type it
  does not know, of which nothing is claimed.  `AllAreVisited`: from choice `a`, or from no
  choice (`a = 0`), the key leads after `i` presses to choice `a + i`, around the end, hence to all of them; it needs
  that they are distinct (`Distinct`), which is assumed of the description and shown of the update channels.
* `OldConfigStays`: once the program runs, each file is one that it reads, or gone, or one that this start
  could not move (`FilesInv`).  So a file that cannot be read is overwritten by `loadConf` after it was moved, or by the fatal
  message, which moves `plexmediaplayer.conf` aside; or it is a file whose own move was refused, which the theorem
  excepts: the code overwrites such a file with the defaults.

**Induction.**  `InputProofs`, and `DisplayProofs` for its list of modes, prove about recursive functions what the library cannot give:
`RecursionExists` (a recursion over `0..n` has a solution, by `InductionOverSet`) and `AllTheWay`
(what holds at 0 and is kept by each step holds to the end).  They are about any set of values, so
that `FlattenSeq` of the community modules, `Loaded` and `ExecuteActions` have their types by them.

**Only model-checked.**  Every liveness property, which is out of the prover's reach:
`CommandsComplete`, `StaleIsRenewed`, `PlaybackGoesOn`, `UpdatesArrive`, `KeepsItsPromise`,
`AdapterComesBack`, `HelperServes`, `DumpsGo`.  Every safety and action property
that a passing run checks is a theorem; `InterfaceIsKept` is refuted.

**Not claimed.**  Some of what the models have is there to be faithful to a handler, and no property depends on it: what
`setAudioConfiguration` makes of passthrough, channels and the filter for `ac3` besides the device, the dialog that offers
an update, and the faster rate of an auto-repeat that goes on.  Releases of keys that Qt flags as repeated are
not in `Input`.  `streamSwitch` is in `player_queue` and not in `player_load`; `ScreensaverAsAsked` says nothing once an
answer was lost or the service was restarted.

## Not modelled

* GDM discovery is a stateless answer to a datagram; the HTTP server dispatches
  requests, which are the actions of `RemoteControl`.
* The system component queries and calls the operating system; the visibility of
  the cursor and the connection of the web client are in `Input`.  Core starts the
  components in one fixed order.
* Rendering (OpenGL, the JPEG decoder of the Raspberry Pi) and the display back ends
  for macOS, Windows and the Raspberry Pi are calls of system libraries.
* Parts of modelled components: what the player passes through to mpv (seeking, volume,
  subtitle style) and the text of its information; the scaling of the web page, the
  debug overlay and the layers of the window; connecting to the LIRC daemon, the Apple
  remote, standby and menu commands of televisions; launching through launchd; the
  update back ends for Windows and OpenELEC; the line codec of local sockets; the power
  back ends other than D-Bus.
* Logging and paths.  Vendored code (`src/external`) and build files are left aside.
