---------------------------- MODULE DisplaySwitch ----------------------------
(***************************************************************************)
(* DisplayComponent on top of DisplayManagerX11: the list of displays it   *)
(* enumerated, the mode it will restore after playback, the debounced      *)
(* re-enumeration after monitor changes, and the refresh rate that         *)
(* PlayerComponent::updateVideoSettings last gave to mpv.                  *)
(*                                                                         *)
(* The code knows displays and modes by their index in m_displays and      *)
(* m_videoModes.  Here as well: display and mode ids are positions, from 1 *)
(* on, in m_displays and ModesOf[output], and 0 stands for the code's -1.  *)
(* The windowing system knows outputs by name.  Its signals (screenAdded,  *)
(* screenRemoved, refreshRateChanged, geometryChanged) arrive later, from  *)
(* the event loop: notice.  Signals that arrive together count as one.     *)
(***************************************************************************)
EXTENDS ModeMatch

CONSTANTS
  Outputs,       \* the connectors of the machine
  ModesOf,       \* the modes that each output offers
  Rates,         \* frame rates of the videos
  Avoid,         \* the setting refreshrate.avoid_25hz_30hz
  SetOutcomes,   \* how the windowing system reacts to a mode change
  MaxShots       \* bound: outstanding one-second timers

NoOutput == "no output"
NoDisplay == 0

Modes == [width : Nat, height : Nat, bpp : Nat, rate : Nat, interlaced : BOOLEAN]

ASSUME DisplayAssumption ==
  /\ IsFiniteSet(Outputs) /\ NoOutput \notin Outputs
  /\ ModesOf \in [Outputs -> Seq(Modes)]
  /\ SetOutcomes \subseteq {"applied", "refused", "ignored"}
  /\ MaxShots \in Nat \ {0}

VARIABLES
  \* the windowing system
  outputs,           \* the active outputs, in the order they are enumerated
  osMode,            \* the mode of each output
  window,            \* the output that shows the center of the window
  listening,         \* outputs whose QScreen is connected to monitorChange
  notice,            \* is a screen signal on its way?
  \* DisplayComponent
  m_displays,        \* the outputs that initialize() found last
  m_lastVideoMode, m_lastDisplay,   \* what restorePreviousVideoMode restores
  m_initTimer,       \* the single-shot flag of the timer: is one outstanding?
  shots,             \* timers started with QTimer::singleShot
  displayFps,        \* the rate mpv was given, and the output it is of
  \* history
  home,              \* the mode the user chose for each output
  disturbed          \* did the system interfere while a mode was recorded?

saved   == <<m_lastVideoMode, m_lastDisplay>>
desktop == <<outputs, window, listening>>
timer   == <<notice, shots>>
vars == <<desktop, osMode, timer, m_displays, saved, m_initTimer,
          displayFps, home, disturbed>>

Recorded == m_lastVideoMode # NoMode

\* getApplicationDisplay, when displays have just been enumerated.
DisplayOf(output, displays) ==
  IF \E d \in DOMAIN displays : displays[d] = output
  THEN CHOOSE d \in DOMAIN displays : displays[d] = output ELSE NoDisplay

\* currentRefreshRate, while the outputs have the modes in mode.
Fps(displays, mode) ==
  IF DisplayOf(window, displays) = NoDisplay
  THEN [output |-> NoOutput, rate |-> 0]
  ELSE [output |-> window, rate |-> ModesOf[window][mode[window]].rate]

IsValidDisplayMode(displays, display, mode) ==
  display \in DOMAIN displays /\ mode \in Ids(ModesOf[displays[display]])

Init ==
  /\ outputs \in {s \in UNION {[1 .. n -> Outputs] : n \in 1 .. Cardinality(Outputs)} :
                    IsInjective(s)}
  /\ osMode \in [Outputs -> UNION {Ids(ModesOf[o]) : o \in Outputs}]
  /\ \A o \in Outputs : osMode[o] \in Ids(ModesOf[o])
  /\ window \in Range(outputs)
  /\ listening = Range(outputs)
  /\ notice = FALSE
  /\ m_displays = outputs
  /\ m_lastVideoMode = NoMode /\ m_lastDisplay = NoDisplay
  /\ m_initTimer = FALSE
  /\ shots = 0
  /\ displayFps = Fps(outputs, osMode)
  /\ home = osMode
  /\ disturbed = FALSE

-----------------------------------------------------------------------------
(* Steps shared by the handlers.                                           *)

\* Plausible slip: the flag of the timer is not taken back.
InitializeKeepsFlag == m_displays' = outputs /\ UNCHANGED m_initTimer

\* initializeDisplayManager, but for the signal refreshRateChanged, which
\* runs updateVideoSettings: see the handlers for the rate it reports.
Initialize == m_displays' = outputs /\ m_initTimer' = FALSE

\* Plausible slip: nobody listens to the refresh rate of the screens.
SilentlySetMode(output, mode, outcome) ==
  /\ osMode' = IF outcome = "applied" THEN [osMode EXCEPT ![output] = mode] ELSE osMode
  /\ UNCHANGED notice

\* setDisplayMode, which returns outcome # "refused": the X server may also
\* ignore a request that the code then reports as successful.
SetDisplayMode(output, mode, outcome) ==
  /\ osMode' = IF outcome = "applied" THEN [osMode EXCEPT ![output] = mode] ELSE osMode
  /\ notice' = (notice \/ (output \in listening /\ osMode' # osMode))

NoSwitch == UNCHANGED <<osMode, notice>>

\* Record the mode to restore, unless one is recorded already.
Record(display, mode) ==
  IF Recorded THEN UNCHANGED saved
  ELSE m_lastVideoMode' = mode /\ m_lastDisplay' = display

Forget == m_lastVideoMode' = NoMode /\ m_lastDisplay' = NoDisplay

-----------------------------------------------------------------------------
(* Operations of DisplayComponent.                                         *)

\* switchToBestVideoMode(), with its result.  The rate is reported while
\* the displays are enumerated, and again by the player after a switch.
SwitchToBestVideoMode(rate, switched) ==
  LET display == DisplayOf(window, outputs)
      current == osMode[window]
      best    == FindBestMatch(ModesOf[window], current, rate, Avoid)
  IN  /\ Initialize
      /\ IF display = NoDisplay
         THEN ~switched /\ NoSwitch /\ UNCHANGED saved
         ELSE /\ Record(display, current)
              /\ IF best \in {NoMode, current}
                 THEN ~switched /\ NoSwitch
                 ELSE \E outcome \in SetOutcomes :
                        /\ SetDisplayMode(window, best, outcome)
                        /\ switched = (outcome # "refused")
      /\ displayFps' = Fps(outputs, osMode')
      /\ UNCHANGED <<desktop, shots, home, disturbed>>

\* restorePreviousVideoMode(): the record is dropped whether or not the
\* mode could be set, and kept when it names no display of today.
RestorePreviousVideoMode ==
  /\ Initialize
  /\ IF ~IsValidDisplayMode(outputs, m_lastDisplay, m_lastVideoMode)
     THEN NoSwitch /\ UNCHANGED <<saved, disturbed>>
     ELSE /\ Forget
          /\ LET output == outputs[m_lastDisplay]
             IN  IF osMode[output] = m_lastVideoMode
                 THEN NoSwitch /\ UNCHANGED disturbed
                 ELSE \E outcome \in SetOutcomes :
                        /\ SetDisplayMode(output, m_lastVideoMode, outcome)
                        /\ disturbed' = (disturbed \/ outcome # "applied")
  /\ displayFps' = Fps(outputs, osMode)
  /\ UNCHANGED <<desktop, shots, home>>

\* Plausible slip: the record survives the user's own choice of a mode.
SwitchCommandKeepsRecord(mode) ==
  /\ Initialize
  /\ IF DisplayOf(window, outputs) = NoDisplay \/ mode \notin Ids(ModesOf[window])
     THEN NoSwitch /\ UNCHANGED <<saved, home, disturbed>>
     ELSE \E outcome \in SetOutcomes :
            /\ SetDisplayMode(window, mode, outcome)
            /\ UNCHANGED saved
            /\ home' = IF outcome = "applied" THEN [home EXCEPT ![window] = mode] ELSE home
            /\ disturbed' = (disturbed \/ (outcome = "ignored" /\ Recorded))
  /\ displayFps' = Fps(outputs, osMode)
  /\ UNCHANGED <<desktop, shots>>

\* switchCommand(): the "switch" host command with the mode that it found
\* (findRequestedMode, or any valid "mode=" argument), or none.
SwitchCommand(mode) ==
  /\ Initialize
  /\ IF DisplayOf(window, outputs) = NoDisplay \/ mode \notin Ids(ModesOf[window])
     THEN NoSwitch /\ UNCHANGED <<saved, home, disturbed>>
     ELSE \E outcome \in SetOutcomes :
            /\ SetDisplayMode(window, mode, outcome)
            /\ IF outcome = "refused" THEN UNCHANGED saved ELSE Forget
            /\ home' = IF outcome = "applied" THEN [home EXCEPT ![window] = mode] ELSE home
            /\ disturbed' = (disturbed \/ (outcome = "ignored" /\ Recorded))
  /\ displayFps' = Fps(outputs, osMode)
  /\ UNCHANGED <<desktop, shots>>

\* monitorChange(): start the timer, unless its flag says one is running.
MonitorChange ==
  /\ notice
  /\ notice' = FALSE
  /\ m_initTimer' = TRUE
  /\ IF m_initTimer THEN UNCHANGED shots
     ELSE shots < MaxShots /\ shots' = shots + 1
  /\ UNCHANGED <<desktop, osMode, m_displays, saved, displayFps, home, disturbed>>

\* A timer that monitorChange started calls initializeDisplayManager.
InitTimerFires ==
  /\ shots > 0
  /\ shots' = shots - 1
  /\ Initialize
  /\ displayFps' = Fps(outputs, osMode)
  /\ UNCHANGED <<desktop, osMode, notice, saved, home, disturbed>>

-----------------------------------------------------------------------------
(* The windowing system and the user.                                      *)

\* A screen appears in some place of the enumeration.  Its QScreen is new,
\* so only the signal screenAdded is connected for it.
Connect(o) ==
  /\ o \notin Range(outputs)
  /\ \E i \in 1 .. Len(outputs) + 1 : outputs' = InsertAt(outputs, i, o)
  /\ \E m \in Ids(ModesOf[o]) :
       /\ osMode' = [osMode EXCEPT ![o] = m]
       /\ home' = [home EXCEPT ![o] = m]
  /\ window' = IF outputs = <<>> THEN o ELSE window
  /\ notice' = TRUE
  /\ disturbed' = (disturbed \/ Recorded)
  /\ UNCHANGED <<listening, shots, m_displays, saved, m_initTimer, displayFps>>

\* A screen goes away, and the window with it moves to another one.
Disconnect(o) ==
  /\ \E i \in DOMAIN outputs : outputs[i] = o /\ outputs' = RemoveAt(outputs, i)
  /\ window' \in IF window # o THEN {window}
                 ELSE IF outputs' = <<>> THEN {NoOutput} ELSE Range(outputs')
  /\ listening' = listening \ {o}
  /\ notice' = TRUE
  /\ disturbed' = (disturbed \/ Recorded)
  /\ UNCHANGED <<osMode, shots, m_displays, saved, m_initTimer, displayFps, home>>

\* The user drags the window to another screen; nothing is told of it.
MoveWindow(o) ==
  /\ o \in Range(outputs) \ {window}
  /\ window' = o
  /\ disturbed' = (disturbed \/ Recorded)
  /\ UNCHANGED <<outputs, listening, osMode, timer, m_displays, saved,
                 m_initTimer, displayFps, home>>

\* The user chooses another mode in the settings of the desktop.
ChooseMode(o, m) ==
  /\ o \in Range(outputs)
  /\ m \in Ids(ModesOf[o]) \ {osMode[o]}
  /\ SetDisplayMode(o, m, "applied")
  /\ home' = [home EXCEPT ![o] = m]
  /\ disturbed' = (disturbed \/ Recorded)
  /\ UNCHANGED <<desktop, shots, m_displays, saved, m_initTimer, displayFps>>

-----------------------------------------------------------------------------

\* The operations that enumerate the displays, and so report the rate.
Reporting ==
  \/ \E rate \in Rates, switched \in BOOLEAN : SwitchToBestVideoMode(rate, switched)
  \/ RestorePreviousVideoMode
  \/ \E mode \in {NoMode} \cup UNION {Ids(ModesOf[o]) : o \in Outputs} : SwitchCommand(mode)
  \/ InitTimerFires

Component == Reporting \/ MonitorChange

Environment ==
  \/ \E o \in Outputs : Connect(o) \/ Disconnect(o) \/ MoveWindow(o)
  \/ \E o \in Outputs : \E m \in Ids(ModesOf[o]) : ChooseMode(o, m)

Next == Component \/ Environment

Spec == Init /\ [][Next]_vars

\* The event loop delivers signals and timers; playing a video, the host
\* command and the user's hands are under no obligation.
FairSpec == Spec /\ WF_vars(MonitorChange) /\ WF_vars(InitTimerFires)

-----------------------------------------------------------------------------
(* Properties.                                                             *)

\* The shape of the state; displays and modes are named by valid indices.
TypeOK ==
  /\ outputs \in Seq(Outputs) /\ IsInjective(outputs)
  /\ m_displays \in Seq(Outputs) /\ IsInjective(m_displays)
  /\ \A o \in Outputs : osMode[o] \in Ids(ModesOf[o]) /\ home[o] \in Ids(ModesOf[o])
  /\ window \in Range(outputs) \/ (outputs = <<>> /\ window = NoOutput)
  /\ listening \subseteq Range(outputs)
  /\ notice \in BOOLEAN /\ m_initTimer \in BOOLEAN /\ disturbed \in BOOLEAN
  /\ m_lastVideoMode \in Nat /\ m_lastDisplay \in Nat
  /\ shots \in 0 .. MaxShots
  /\ displayFps \in [output : Outputs \cup {NoOutput}, rate : Nat]

\* Unless the system interfered, the only output that is not in the mode
\* its user chose is the recorded one, and its record is the user's mode:
\* restorePreviousVideoMode always brings the user's desktop back, however
\* many videos were played and modes switched in between.
RecordIsHome ==
  ~disturbed =>
    /\ \A o \in Range(outputs) : osMode[o] # home[o] =>
         Recorded /\ outputs[m_lastDisplay] = o
    /\ Recorded => m_lastVideoMode = home[outputs[m_lastDisplay]]

\* While the list of displays is out of date, its renewal is under way: no
\* change of monitors is lost to the debouncing flag m_initTimer.
StaleIsNoticed == m_displays # outputs => notice \/ shots > 0

\* While mpv paces the video for a refresh rate that is not the display's,
\* the report of the new rate is under way.
FpsIsNoticed ==
  displayFps.output \in listening
    /\ displayFps.rate # ModesOf[displayFps.output][osMode[displayFps.output]].rate
    => notice \/ shots > 0

\* What the component remembers of the displays - their list, and the rate
\* that it reported - is of the right kind, and wherever it is out of date
\* the timer or the signal that renews it is under way.
ChangesAreNoticed == TypeOK /\ StaleIsNoticed /\ FpsIsNoticed

\* Every change of monitors is enumerated in the end.
StaleIsRenewed == m_displays # outputs ~> m_displays = outputs
=============================================================================
