------------------------------- MODULE Input --------------------------------
(***************************************************************************)
(* From keys to actions (src/input/InputComponent.cpp): the events of all  *)
(* inputs, the keyboard's filter (src/ui/EventFilter.cpp) and the inputs   *)
(* of the network in the main thread, joysticks and television queued      *)
(* (InputSources), the mapping files (InputMap), auto-repeat, long         *)
(* presses, the actions offered to the web client or run here, and the     *)
(* switch between the tv and the desktop mode (src/ui/KonvergoWindow.cpp), *)
(* which changes what the filter lets through.                             *)
(***************************************************************************)
EXTENDS InputSources, InputMap

CONSTANTS
  Setups,       \* what the computer is like: records of its inputs, the keys
                \* in use on the keyboard (kb) and on remote controls of the
                \* network (net), whether the files of mappings change (edits)
                \* and webMode is offered (modes), its layout, and the settings
                \* usekeyupdown (upDown) and webMode (setting)
  KbKeys,       \* keys of the keyboard
  TextKeys,     \* those that make a text
  WhiteListed,  \* desktopWhiteListedKeys
  NetKeys,      \* keys of remote controls by LIRC, Roku and the socket
  MaxOffers     \* bound: commands that the web client still has to run

ASSUME InputAssumption ==
  /\ TextKeys \subseteq KbKeys /\ WhiteListed \subseteq KbKeys
  /\ MaxOffers \in Nat
  /\ \A s \in Setups : /\ s.inputs \subseteq {"net", "sdl", "cec"}
                       /\ s.layout \in {"auto", "tv"} /\ s.setting \in {"tv", "desktop"}
                       /\ s.edits \in BOOLEAN /\ s.modes \in BOOLEAN
                       /\ s.upDown \in BOOLEAN /\ s.web \in BOOLEAN
                       /\ s.has \in [Pads -> SUBSET {"stick", "hat", "button"}]
                       /\ s.kb \subseteq KbKeys /\ s.net \subseteq NetKeys

VARIABLES
  setup,    \* what the computer is like, one of Setups
  repeat,   \* m_autoRepeatTimer (on, fast: 60 ms) and m_autoRepeatActions
  hold,     \* m_currentLongPressAction and whether m_longHoldTimer exceeds 500 ms
  keyDown,  \* EventFilter's m_currentKeyDown
  held,     \* the keys held on the keyboard (kb) and the remote controls (net)
  client,   \* isWebClientConnected()
  offers,   \* switchMode commands offered to the web client and not yet run
  mode,     \* the setting webMode, m_webDesktopMode (desktop), the posted
            \* switches, the layout, and m_cursorVisible
  sent,     \* what this step emitted by hostInput()
  down,     \* history: the keys whose KeyDown was seen and whose KeyUp was not
  press,    \* history: the last key that went down: whether it was alone
            \* (tidy), its long action (asked), whether 500 ms passed (long)
  missed,   \* history: the filter did not see the release of a text key
  overtaken \* history: webMode was set again before it had an effect

inputVars == <<setup, repeat, hold, keyDown, held, client, offers, mode, sent,
               down, press, missed, overtaken>>
vars == <<mapVars, sourceVars, inputVars>>

Silent   == [by |-> "none", actions |-> <<>>]
NoLong   == [short |-> "", long |-> ""]
NoHold   == [map |-> NoLong, long |-> FALSE]
Switch   == "host:switchMode"
Switches(actions) == Cardinality({i \in DOMAIN actions : actions[i] = Switch})

Init ==
  /\ InitMap
  /\ \E s \in Setups :
       /\ InitSources(s.inputs, s.has, s.upDown)
       /\ setup = s
       /\ mode = [setting |-> s.setting, desktop |-> s.setting = "desktop",
                  switching |-> <<>>, layout |-> s.layout, cursor |-> TRUE]
  /\ repeat = [on |-> FALSE, fast |-> FALSE, actions |-> <<>>]
  /\ hold = NoHold
  /\ keyDown = FALSE
  /\ held = [kb |-> {}, net |-> {}]
  /\ client = FALSE
  /\ offers = 0
  /\ sent = Silent
  /\ down = {}
  /\ press = [tidy |-> FALSE, asked |-> NoLong, long |-> FALSE]
  /\ missed = FALSE
  /\ overtaken = FALSE

-----------------------------------------------------------------------------
(* setCursorVisibility(): always visible by the desktop setting.           *)
SetCursor(m, visible) == [m EXCEPT !.cursor = visible \/ m.setting = "desktop"]

(* setValue() of webMode and updateMainSectionSettings(): with the layout  *)
(* auto the switch is posted, with the mode of now.                        *)
SetWebMode(m, value) ==
  LET new == value = "desktop"
      n   == [m EXCEPT !.setting = value]
  IN  IF value = m.setting THEN m
      ELSE IF new = m.desktop THEN n
      ELSE IF m.layout # "auto" THEN [n EXCEPT !.desktop = new]
      ELSE [n EXCEPT !.switching = Append(@, new)]

(* toggleWebMode(): by the mode of the window, not by the setting.         *)
ToggleWebMode(m) == SetWebMode(m, IF m.desktop THEN "tv" ELSE "desktop")

(* executeActions(): of the commands of the host, switchMode matters here. *)
ExecuteActions(m, actions) ==
  LET HandleAction(n, action) == IF action = Switch THEN ToggleWebMode(n) ELSE n
      run[i \in 0 .. Len(actions)] == IF i = 0 THEN m ELSE HandleAction(run[i - 1], actions[i])
  IN  run[Len(actions)]

(* cancelAutoRepeat().                                                     *)
CancelAutoRepeat(r) == [r EXCEPT !.on = FALSE, !.actions = <<>>]

(* A mode that was set: updateMainSectionSettings() cancels the repeat.    *)
ModeSet(r, m) ==
  /\ mode' = m
  /\ repeat' = IF m.setting # mode.setting THEN CancelAutoRepeat(r) ELSE r
  /\ LET fired == Len(m.switching) < Len(mode.switching)
         kept  == m.switching = <<>> /\ m.desktop = (m.setting = "desktop")
     IN  overtaken' = (\/ m.setting # mode.setting /\ mode.switching # <<>>
                       \/ overtaken /\ ~(fired /\ kept))

NoDownPosted == \A i \in DOMAIN posted' : posted'[i].state # "KeyDown"

(* A release that came to nothing is made good by whatever ends a repeat.  *)
StillLost(l) == l /\ (repeat'.on \/ ~NoDownPosted)

(* hostInput(): the web client, if there is one, will run the commands.    *)
Emit(by, actions) ==
  /\ sent' = [by |-> by, actions |-> actions]
  /\ offers' = offers + (IF client THEN Switches(actions) ELSE 0)
  /\ offers' <= MaxOffers

-----------------------------------------------------------------------------
(* The parts of what a key is mapped to: what is queued at once, what is   *)
(* repeated, and the first long press.                                     *)
Joined(entries, types) ==
  FlattenSeq([i \in DOMAIN entries |->
                IF entries[i].type \in types THEN entries[i].actions ELSE <<>>])

Queued(entries)   == Joined(entries, {"string", "short", "list"})
Repeated(entries) == Joined(entries, {"string"})
LongOf(entries)   ==
  LET Wanted(e) == e.type = "long"
      found == SelectSeq(entries, Wanted)
  IN  IF found = <<>> THEN NoLong ELSE found[1].actions

(* remapInput() of a KeyUp.                                                *)
KeyUp(e) ==
  /\ repeat' = CancelAutoRepeat(repeat)
  /\ IF hold.map # NoLong
       THEN Emit("hold", <<IF hold.long THEN hold.map.long ELSE hold.map.short>>)
       ELSE sent' = Silent /\ UNCHANGED offers
  /\ hold' = NoHold
  /\ mode' = SetCursor(mode, FALSE)
  /\ down' = down \ {<<e.source, e.key>>}
  /\ press' = [press EXCEPT !.tidy = @ /\ <<e.source, e.key>> \in down]
  /\ UNCHANGED <<mapVars, overtaken>>

(* What the histories keep of a KeyDown or a KeyPressed.                   *)
Noted(e, long) ==
  LET k == <<e.source, e.key>>
  IN  /\ down' = IF e.state = "KeyDown" THEN down \cup {k} ELSE down
      /\ press' = IF e.state = "KeyPressed" THEN [press EXCEPT !.tidy = FALSE]
                  ELSE IF k \in down THEN press
                  ELSE [tidy |-> down = {} /\ hold.map = NoLong, asked |-> long, long |-> FALSE]

(* Plausible slip: a long press that is pending starts again.              *)
KeyDownOverwrites(e) ==
  LET entries == MapToAction(e.source, e.key)
      long    == LongOf(entries)
      plain   == Repeated(entries)
      starts  == plain # <<>> /\ e.state # "KeyPressed"
      started == [on |-> repeat.on \/ starts, fast |-> repeat.fast /\ ~starts, actions |-> plain]
      seen    == SetCursor(mode, FALSE)
  IN  /\ CacheMatch(e.source)
      /\ hold' = IF long # NoLong THEN [map |-> long, long |-> FALSE] ELSE hold
      /\ IF Queued(entries) = <<>> \/ client
           THEN /\ IF Queued(entries) = <<>> THEN sent' = Silent /\ UNCHANGED offers
                                             ELSE Emit("press", Queued(entries))
                /\ ModeSet(started, seen)
           ELSE /\ sent' = Silent /\ UNCHANGED offers
                /\ ModeSet(started, ExecuteActions(seen, Queued(entries)))
      /\ Noted(e, long)
      /\ UNCHANGED <<files, maps, noticed, unseen>>

(* remapInput() of a KeyDown or a KeyPressed.                              *)
KeyDown(e) ==
  LET entries == MapToAction(e.source, e.key)
      long    == LongOf(entries)
      plain   == Repeated(entries)
      starts  == plain # <<>> /\ e.state # "KeyPressed"
      started == [on |-> repeat.on \/ starts, fast |-> repeat.fast /\ ~starts, actions |-> plain]
      seen    == SetCursor(mode, FALSE)
  IN  /\ CacheMatch(e.source)
      /\ hold' = IF hold.map = NoLong /\ long # NoLong THEN [map |-> long, long |-> FALSE] ELSE hold
      /\ IF Queued(entries) = <<>> \/ client
           THEN /\ IF Queued(entries) = <<>> THEN sent' = Silent /\ UNCHANGED offers
                                             ELSE Emit("press", Queued(entries))
                /\ ModeSet(started, seen)
           ELSE /\ sent' = Silent /\ UNCHANGED offers
                /\ ModeSet(started, ExecuteActions(seen, Queued(entries)))
      /\ Noted(e, long)
      /\ UNCHANGED <<files, maps, noticed, unseen>>

RemapInput(e) == IF e.state = "KeyUp" THEN KeyUp(e) ELSE KeyDown(e)

(* What the workers' inputs queued arrives.                                *)
Deliver ==
  /\ posted # <<>>
  /\ posted' = Tail(posted)
  /\ RemapInput(Head(posted))
  /\ lost' = StillLost(lost)
  /\ UNCHANGED <<inputs, padVars, cecVars, setup, keyDown, held, client, missed>>

-----------------------------------------------------------------------------
Quietly == UNCHANGED <<inputs, padVars, cecVars, posted, setup, client>>
Nothing ==
  /\ sent' = Silent
  /\ UNCHANGED <<mapVars, repeat, hold, offers, mode, down, press, overtaken>>

(* EventFilter::eventFilter() of a KeyPress, flagged as a repeat of Qt or  *)
(* not.  The desktop mode lets a few keys through and remembers none.      *)
FilterPress(k, flagged) ==
  IF mode.desktop
    THEN /\ IF k \in WhiteListed THEN RemapInput(Event("Keyboard", k, "KeyDown")) ELSE Nothing
         /\ UNCHANGED keyDown
    ELSE /\ IF k \in TextKeys /\ keyDown THEN Nothing
            ELSE IF flagged
              THEN /\ mode' = SetCursor(mode, FALSE) /\ sent' = Silent
                   /\ UNCHANGED <<mapVars, repeat, hold, offers, down, press, overtaken>>
              ELSE RemapInput(Event("Keyboard", k, "KeyDown"))
         /\ keyDown' = (keyDown \/ k \in TextKeys)

KbPress(k) ==
  /\ Quietly
  /\ k \in setup.kb \ held.kb
  /\ held' = [held EXCEPT !.kb = @ \cup {k}]
  /\ FilterPress(k, FALSE)
  /\ lost' = StillLost(lost)
  /\ UNCHANGED missed

(* Qt repeats a key; it does not always say so (EventFilter.cpp:134).      *)
KbRepeat(k, flagged) ==
  /\ Quietly
  /\ k \in held.kb
  /\ FilterPress(k, flagged)
  /\ lost' = StillLost(lost)
  /\ UNCHANGED <<held, missed>>

(* eventFilter() of a KeyRelease, unless another window got the release.   *)
KbRelease(k, seen) ==
  /\ Quietly
  /\ k \in held.kb
  /\ held' = [held EXCEPT !.kb = @ \ {k}]
  /\ IF seen /\ (mode.desktop => k \in WhiteListed)
       THEN RemapInput(Event("Keyboard", k, "KeyUp")) /\ lost' = StillLost(lost)
       ELSE Nothing /\ lost' = (lost \/ <<"Keyboard", k>> \in down)
  /\ IF seen /\ ~mode.desktop
       THEN keyDown' = FALSE /\ missed' = FALSE
       ELSE missed' = (missed \/ (keyDown /\ k \in TextKeys)) /\ UNCHANGED keyDown

(* A ShortcutOverride precedes a KeyPress; the desktop mode takes it for a *)
(* KeyUp (EventFilter.cpp:67-84).                                          *)
KbShortcutOverride(k) ==
  /\ Quietly
  /\ mode.desktop /\ k \in (WhiteListed \cap setup.kb) \ held.kb
  /\ RemapInput(Event("Keyboard", k, "KeyUp"))
  /\ lost' = StillLost(lost)
  /\ UNCHANGED <<keyDown, held, missed>>

(* InputLIRC::read(), InputRoku::handleKeyPress(): a key goes down, or it  *)
(* is repeated, as every third burst of infrared is.                       *)
NetDown(k) ==
  /\ Quietly
  /\ "net" \in inputs /\ k \in setup.net
  /\ held' = [held EXCEPT !.net = @ \cup {k}]
  /\ RemapInput(Event("net", k, "KeyDown"))
  /\ lost' = StillLost(lost)
  /\ UNCHANGED <<keyDown, missed>>

(* The same of a key that goes up.                                         *)
NetUp(k) ==
  /\ Quietly
  /\ k \in held.net
  /\ held' = [held EXCEPT !.net = @ \ {k}]
  /\ RemapInput(Event("net", k, "KeyUp"))
  /\ lost' = StillLost(lost)
  /\ UNCHANGED <<keyDown, missed>>

(* handleKeyPress(), InputSocket::messageReceived(): pressed and let go.   *)
NetPressed(k) ==
  /\ Quietly
  /\ "net" \in inputs /\ k \in setup.net
  /\ RemapInput(Event("net", k, "KeyPressed"))
  /\ lost' = StillLost(lost)
  /\ UNCHANGED <<keyDown, held, missed>>

(* A remote control on the network goes away without a KeyUp.              *)
NetGone ==
  /\ held.net # {}
  /\ held' = [held EXCEPT !.net = {}]
  /\ lost' = (lost \/ \E k \in held.net : <<"net", k>> \in down)
  /\ Nothing /\ Quietly /\ UNCHANGED <<keyDown, missed>>

-----------------------------------------------------------------------------
OnlyMode == UNCHANGED <<mapVars, sourceVars, setup, hold, keyDown, held, client, down, press, missed>>

(* The timer of the auto-repeat.                                           *)
AutoRepeat ==
  /\ repeat.on
  /\ repeat' = [repeat EXCEPT !.fast = TRUE]
  /\ IF repeat.actions # <<>> THEN Emit("repeat", repeat.actions)
                              ELSE sent' = Silent /\ UNCHANGED offers
  /\ OnlyMode /\ UNCHANGED <<mode, overtaken>>

(* cancelAutoRepeat() by the window or by the player that begins.          *)
CancelFromOutside ==
  /\ repeat.on
  /\ UNCHANGED <<mapVars, inputs, padVars, cecVars, posted, setup, hold, keyDown, held, client,
                 offers, mode, down, press, missed, overtaken>>
  /\ repeat' = CancelAutoRepeat(repeat)
  /\ lost' = StillLost(lost)
  /\ sent' = Silent

(* 500 ms pass since m_longHoldTimer was started.                          *)
TimePasses ==
  /\ hold.map # NoLong /\ ~hold.long
  /\ hold' = [hold EXCEPT !.long = TRUE]
  /\ press' = [press EXCEPT !.long = TRUE]
  /\ sent' = Silent
  /\ UNCHANGED <<mapVars, sourceVars, setup, repeat, keyDown, held, client, offers, mode,
                 down, missed, overtaken>>

(* The settings' page sets webMode.                                        *)
UserSetsMode(value) ==
  /\ setup.modes /\ value # mode.setting /\ Len(mode.switching) < 2
  /\ ModeSet(repeat, SetWebMode(mode, value))
  /\ sent' = Silent
  /\ OnlyMode /\ UNCHANGED offers

(* The web client runs a command it was offered.                           *)
ClientRuns ==
  /\ offers > 0 /\ Len(mode.switching) < 2
  /\ offers' = offers - 1
  /\ ModeSet(repeat, ToggleWebMode(mode))
  /\ sent' = Silent
  /\ OnlyMode

(* The singleShot(0) of updateMainSectionSettings(): the mode of then.     *)
FireSwitch ==
  /\ mode.switching # <<>>
  /\ LET n == [mode EXCEPT !.desktop = Head(mode.switching), !.switching = Tail(@)]
     IN  ModeSet(repeat, IF n.desktop THEN SetCursor(n, TRUE) ELSE n)
  /\ sent' = Silent
  /\ OnlyMode /\ UNCHANGED offers

(* hello() of the web client; its version is never forgotten.              *)
Hello ==
  /\ setup.web /\ ~client
  /\ client' = TRUE
  /\ Nothing
  /\ UNCHANGED <<sourceVars, setup, keyDown, held, missed>>

(* eventFilter() of a MouseMove, and the timer that hides the cursor.      *)
Mouse ==
  /\ setup.modes
  /\ \/ ~mode.desktop /\ mode' = SetCursor(mode, TRUE)
     \/ mode.cursor /\ mode' = SetCursor(mode, FALSE)
  /\ sent' = Silent
  /\ OnlyMode /\ UNCHANGED <<repeat, offers, overtaken>>

FilesStep ==
  /\ setup.edits
  /\ ChangeFiles \/ EditFile \/ LoadMappings
  /\ sent' = Silent
  /\ press' = [press EXCEPT !.tidy = @ /\ maps' = maps]
  /\ UNCHANGED <<sourceVars, setup, repeat, hold, keyDown, held, client, offers, mode,
                 down, missed, overtaken>>

Apart == /\ sent' = Silent
         /\ UNCHANGED <<mapVars, setup, repeat, hold, keyDown, held, client, offers, mode,
                        down, press, missed, overtaken>>

Next ==
  \/ SourceStep /\ Apart
  \/ Deliver
  \/ \E k \in KbKeys : \/ KbPress(k)
                       \/ \E b \in BOOLEAN : KbRepeat(k, b) \/ KbRelease(k, b)
                       \/ KbShortcutOverride(k)
  \/ \E k \in NetKeys : NetDown(k) \/ NetUp(k) \/ NetPressed(k)
  \/ NetGone
  \/ AutoRepeat
  \/ CancelFromOutside
  \/ TimePasses
  \/ \E value \in {"tv", "desktop"} : UserSetsMode(value)
  \/ ClientRuns
  \/ FireSwitch
  \/ Hello
  \/ Mouse
  \/ FilesStep

(* The timer of the adapter is served, a call of Open() returns, and       *)
(* libCEC tells of a lost connection.                                      *)
Fairness == /\ WF_vars(CheckAdapter /\ Apart)
            /\ WF_vars(OpenAdapter /\ Apart)
            /\ WF_vars(cec.alert /\ CecAlert /\ Apart)

Spec == Init /\ [][Next]_vars /\ Fairness

-----------------------------------------------------------------------------
TypeOK ==
  /\ inputs \subseteq {"net", "sdl", "cec"} /\ setup \in Setups /\ upDown \in BOOLEAN
  /\ axis \in {"", "UP", "DOWN"} /\ lost \in BOOLEAN
  /\ pads.opened \subseteq Pads /\ pads.plugged \subseteq Pads
  /\ pads.stick \in [Pads -> Sticks] /\ pads.hat \in [Pads -> Hats]
  /\ cec.held \in CecKeys \cup {NoCode} /\ (cec.opening => cec.attached \/ ~cec.open)
  /\ Len(posted) <= MaxQueue
  /\ held.kb \subseteq KbKeys /\ held.net \subseteq NetKeys
  /\ repeat.on \in BOOLEAN /\ repeat.fast \in BOOLEAN
  /\ hold.long \in BOOLEAN /\ (hold.long => hold.map # NoLong)
  /\ offers \in 0..MaxOffers
  /\ mode.setting \in {"tv", "desktop"} /\ mode.desktop \in BOOLEAN /\ mode.cursor \in BOOLEAN
  /\ mode.switching \in Seq(BOOLEAN)
  /\ files \subseteq UserFiles /\ noticed \in BOOLEAN /\ unseen \in BOOLEAN
  /\ DOMAIN cache \subseteq Sources
  /\ keyDown \in BOOLEAN /\ client \in BOOLEAN /\ missed \in BOOLEAN /\ overtaken \in BOOLEAN

(* Nothing repeats by itself: once no key is held anywhere and all events  *)
(* have arrived, no actions wait for the auto-repeat's timer, unless the   *)
(* release of a key was never told (InputComponent.cpp:65-74, 166, 222).   *)
NoGhostRepeat ==
  ~SourceHeld /\ held.kb = {} /\ held.net = {} /\ posted = <<>> /\ ~lost
    => ~(repeat.on /\ repeat.actions # <<>>)

(* A key held alone and let go is answered once: by its long action if it  *)
(* was held for more than 500 ms, by its short action if not, and by none  *)
(* if it has no long action, also when it is repeated meanwhile and unless *)
(* the mappings change meanwhile (InputComponent.cpp:168-182, 203-209).    *)
HoldAnswered ==
  press.tidy /\ press'.tidy /\ down # {} /\ down' = {} =>
    IF press.asked = NoLong THEN sent'.by # "hold"
    ELSE sent' = [by |-> "hold",
                  actions |-> <<IF press.long THEN press.asked.long ELSE press.asked.short>>]

HoldIsAnswered == [][HoldAnswered]_vars

(* No press of a key is swallowed while no other is held: when the filter  *)
(* remembers a key, a key with a text is held, unless its release went to  *)
(* another window or came in the desktop mode (EventFilter.cpp:132-145).   *)
SwallowsRepeatsOnly == keyDown /\ ~missed => held.kb \cap TextKeys # {}

(* The mode follows the setting: when no switch is posted the window is in *)
(* the mode of webMode and its cursor is visible in the desktop mode of    *)
(* the layout auto, unless webMode was set back before the switch          *)
(* (KonvergoWindow.cpp:393-425).                                           *)
ModeFollowsSetting ==
  mode.switching = <<>> /\ ~overtaken =>
    /\ mode.desktop = (mode.setting = "desktop")
    /\ mode.desktop /\ mode.layout = "auto" => mode.cursor

(* Keys leave nothing behind: neither an auto-repeat that nobody holds nor *)
(* a key that the filter takes to be held still.                           *)
NothingStaysPressed == TypeOK /\ NoGhostRepeat /\ SwallowsRepeatsOnly

(* The mode of the window follows its setting, and the mappings follow the *)
(* files of the program and of the user, in whatever order they change.    *)
FollowsFilesAndSettings == ModeFollowsSetting /\ MapsFollowFiles /\ UserOverloads
=============================================================================
