---------------------------- MODULE InputSources ----------------------------
(***************************************************************************)
(* The inputs that work in threads of their own: joysticks (InputSDL.cpp)  *)
(* and the remote control of the television (InputCEC.cpp).  Their events  *)
(* are queued for the main thread.  All joysticks share one axis (0) in    *)
(* the worker, as m_axisState is indexed by axes only.  An event of SDL is *)
(* handled at once: the worker reads nothing else that could have changed, *)
(* but for the list of joysticks, which is read at refreshJoystickList().  *)
(***************************************************************************)
EXTENDS Naturals, Sequences, SequencesExt, FiniteSets

CONSTANTS
  Pads,     \* joysticks
  CecKeys,  \* codes of keys of the television's remote control
  CecMap,   \* g_cecKeyMap: a function from some of CecKeys to keys
  DeckKeys, \* bound: those of the four keys of play and the deck control
  HatKeys,  \* bound: directions of a hat that have a name of their own
  MaxQueue  \* bound: events in the queue of the main thread

NoCode == "none"
Return == "samsung return"   \* CEC_USER_CONTROL_CODE_AN_RETURN
Select == "select"           \* code 0, the first of an empty parameter list

ASSUME SourcesAssumption ==
  /\ IsFiniteSet(Pads)
  /\ DOMAIN CecMap \subseteq CecKeys /\ Select \in DOMAIN CecMap
  /\ Return \in CecKeys \ DOMAIN CecMap /\ NoCode \notin CecKeys
  /\ DeckKeys \subseteq {"KEY_PLAY", "KEY_SEEKFWD", "KEY_SEEKBCK", "KEY_STOP"}
  /\ HatKeys \subseteq {"UP", "DOWN", "RIGHT", "LEFT"}
  /\ MaxQueue \in Nat \ {0}

Sticks == {"CENTER", "MID", "UP", "DOWN"}
Hats   == {"CENTERED", "other"} \cup HatKeys

VARIABLES
  inputs,   \* the inputs that addInput() accepted
  pads,     \* the joysticks: plugged, opened, and for each of them its
            \* controls (has), the position of its stick and of its hat, and
            \* whether its button is down
  axis,     \* m_axisState: "" or the direction for which a KeyDown was sent
  lastHat,  \* m_lastHat
  cec,      \* the adapter: attached, open, m_adapterPort (port), what the
            \* worker does (opening), the alert that libCEC has to send, the
            \* code of the key held, and a failed Open() (failed)
  upDown,   \* the setting usekeyupdown
  posted,   \* events for the main thread
  lost      \* history: a release that no event will tell

sourceVars == <<inputs, pads, axis, lastHat, cec, upDown, posted, lost>>
padVars == <<pads, axis, lastHat>>
cecVars == <<cec, upDown>>

Event(source, key, state) == [source |-> source, key |-> key, state |-> state]
Post(source, key, state) == posted' = Append(posted, Event(source, key, state))

Room == Len(posted) < MaxQueue

PadHeld(p) == pads.stick[p] # "CENTER" \/ pads.hat[p] # "CENTERED" \/ pads.button[p]
SourceHeld == (\E p \in pads.plugged : PadHeld(p)) \/ cec.held # NoCode

InitSources(init, has, updown) ==
  /\ inputs = init
  /\ pads = [has |-> has, plugged |-> Pads, opened |-> Pads, stick |-> [p \in Pads |-> "CENTER"],
             hat |-> [p \in Pads |-> "CENTERED"], button |-> [p \in Pads |-> FALSE]]
  /\ axis = ""
  /\ lastHat = ""
  /\ cec = [attached |-> TRUE, open |-> FALSE, port |-> FALSE, opening |-> FALSE,
            alert |-> FALSE, held |-> NoCode, failed |-> FALSE]
  /\ upDown = updown
  /\ posted = <<>>
  /\ lost = FALSE

AxisKey(direction) == "KEY_AXIS_0_" \o direction

(* Plausible slip: on the other side the old direction is just forgotten.  *)
SdlAxisForgets(p, v) ==
  /\ Room /\ "stick" \in pads.has[p] /\ p \in pads.opened \cap pads.plugged
  /\ pads' = [pads EXCEPT !.stick[p] = v]
  /\ CASE v \in {"UP", "DOWN"} /\ axis = "" ->
            Post(p, AxisKey(v), "KeyDown") /\ axis' = v
       [] v = "CENTER" /\ axis # "" ->
            Post(p, AxisKey(axis), "KeyUp") /\ axis' = ""
       [] v \in {"UP", "DOWN"} /\ axis \notin {"", v} -> axis' = "" /\ UNCHANGED posted
       [] OTHER -> UNCHANGED <<posted, axis>>
  /\ UNCHANGED <<inputs, lastHat, cecVars, lost>>

(* SDL_JOYAXISMOTION: the stick moves, within the same range too.  On the  *)
(* other side the old direction is released and the new one not pressed.   *)
SdlAxis(p, v) ==
  /\ Room /\ "stick" \in pads.has[p] /\ p \in pads.opened \cap pads.plugged
  /\ pads' = [pads EXCEPT !.stick[p] = v]
  /\ CASE v \in {"UP", "DOWN"} /\ axis = "" ->
            Post(p, AxisKey(v), "KeyDown") /\ axis' = v
       [] (v \in {"UP", "DOWN"} /\ axis \notin {"", v}) \/ (v = "CENTER" /\ axis # "") ->
            Post(p, AxisKey(axis), "KeyUp") /\ axis' = ""
       [] OTHER -> UNCHANGED <<posted, axis>>
  /\ UNCHANGED <<inputs, lastHat, cecVars, lost>>

(* SDL_JOYHATMOTION: what lets go is the last direction, of any joystick.  *)
SdlHat(p, v) ==
  /\ Room /\ "hat" \in pads.has[p] /\ p \in pads.opened \cap pads.plugged /\ pads.hat[p] # v
  /\ LET name == CASE v = "CENTERED" -> IF lastHat # "" THEN lastHat ELSE "KEY_HAT_CENTERED"
                   [] v = "other"    -> "KEY_HAT_"
                   [] OTHER          -> "KEY_HAT_" \o v
     IN  /\ lastHat' = name
         /\ Post(p, name, IF v = "CENTERED" THEN "KeyUp" ELSE "KeyDown")
  /\ pads' = [pads EXCEPT !.hat[p] = v]
  /\ UNCHANGED <<inputs, axis, cecVars, lost>>

(* SDL_JOYBUTTONDOWN and SDL_JOYBUTTONUP.                                  *)
SdlButton(p) ==
  /\ Room /\ "button" \in pads.has[p] /\ p \in pads.opened \cap pads.plugged
  /\ Post(p, "KEY_BUTTON_0", IF pads.button[p] THEN "KeyUp" ELSE "KeyDown")
  /\ pads' = [pads EXCEPT !.button[p] = ~@]
  /\ UNCHANGED <<inputs, axis, lastHat, cecVars, lost>>

(* SDL_JOYDEVICEADDED and SDL_JOYDEVICEREMOVED: refreshJoystickList() opens *)
(* what is there; to open one forgets the axis, also one that is held.     *)
SdlDevice(p) ==
  LET there   == IF p \in pads.plugged THEN pads.plugged \ {p} ELSE pads.plugged \cup {p}
      centred == [pads EXCEPT !.plugged = there, !.opened = there, !.stick[p] = "CENTER",
                              !.hat[p] = "CENTERED", !.button[p] = FALSE]
  IN  /\ pads' = centred
      /\ axis' = IF there = {} THEN axis ELSE ""
      /\ lost' = (lost \/ axis # "" \/ (p \in pads.plugged /\ PadHeld(p)))
      /\ UNCHANGED <<inputs, lastHat, cecVars, posted>>

-----------------------------------------------------------------------------
(* checkAdapter(), by the timer of 10 s, and the first half of             *)
(* openAdapter(), up to the assignment of m_adapterPort.                   *)
CheckAdapter ==
  /\ "cec" \in inputs /\ ~cec.opening
  /\ ~cec.port
  /\ cec' = [cec EXCEPT !.open = FALSE, !.port = cec.attached, !.opening = cec.attached,
                        !.held = NoCode]
  /\ lost' = (lost \/ (cec.held # NoCode /\ upDown))
  /\ UNCHANGED <<inputs, padVars, upDown, posted>>

(* The second half: Open() may fail, and the port stays set.               *)
OpenAdapter ==
  /\ cec.opening
  /\ \/ cec' = [cec EXCEPT !.opening = FALSE, !.open = cec.attached, !.failed = ~cec.attached]
     \/ cec' = [cec EXCEPT !.opening = FALSE, !.failed = TRUE]
  /\ UNCHANGED <<inputs, padVars, upDown, posted, lost>>

(* The adapter is taken away or put back; libCEC will tell the former.     *)
AttachAdapter ==
  /\ "cec" \in inputs
  /\ cec' = IF cec.attached
              THEN [cec EXCEPT !.attached = FALSE, !.open = FALSE, !.held = NoCode,
                               !.alert = @ \/ cec.open]
              ELSE [cec EXCEPT !.attached = TRUE]
  /\ lost' = (lost \/ (cec.held # NoCode /\ upDown))
  /\ UNCHANGED <<inputs, padVars, upDown, posted>>

(* Plausible slip: the port is cleared by the next check only, never here. *)
CecAlertIgnored ==
  /\ cec.alert \/ cec.open
  /\ cec' = [cec EXCEPT !.alert = FALSE, !.failed = FALSE]
  /\ UNCHANGED <<inputs, padVars, upDown, posted, lost>>

(* CecAlert(), in libCEC's thread at any time: a lost connection, missing  *)
(* permissions or a busy port; closeAdapter() clears the port.             *)
CecAlert ==
  /\ cec.alert \/ cec.open
  /\ cec' = [cec EXCEPT !.alert = FALSE, !.port = FALSE, !.failed = FALSE]
  /\ UNCHANGED <<inputs, padVars, upDown, posted, lost>>

(* CecCommand() of a key that goes down: getCommandString() of its code.   *)
CecPressed(code) ==
  /\ Room /\ cec.open /\ cec.held = NoCode
  /\ cec' = [cec EXCEPT !.held = code]
  /\ LET key == IF code = Return THEN "KEY_BACK" ELSE CecMap[code]
     IN  IF code = Return \/ code \in DOMAIN CecMap
           THEN Post("CEC", key, IF upDown THEN "KeyDown" ELSE "KeyPressed")
           ELSE UNCHANGED posted
  /\ UNCHANGED <<inputs, padVars, upDown, lost>>

(* CecCommand() of a key that goes up: with its code, or with none, which  *)
(* reads as that of select.  The return key of Samsung is not in the map,  *)
(* so that with its own code nothing tells its release.                    *)
CecReleased(code) ==
  /\ Room /\ cec.held # NoCode /\ code \in {cec.held, Select}
  /\ cec' = [cec EXCEPT !.held = NoCode]
  /\ IF upDown /\ code \in DOMAIN CecMap
       THEN Post("CEC", CecMap[code], "KeyUp") ELSE UNCHANGED posted
  /\ lost' = (lost \/ (upDown /\ code \notin DOMAIN CecMap))
  /\ UNCHANGED <<inputs, padVars, upDown>>

(* CecCommand() of play and of the deck control.                           *)
CecDeck ==
  /\ Room /\ cec.open
  /\ \E key \in DeckKeys : Post("CEC", key, "KeyPressed")
  /\ UNCHANGED <<inputs, padVars, cecVars, lost>>

SourceStep ==
  \/ /\ "sdl" \in inputs
     /\ \E p \in Pads : \/ \E v \in Sticks : SdlAxis(p, v)
                        \/ \E v \in Hats : SdlHat(p, v)
                        \/ SdlButton(p)
                        \/ SdlDevice(p)
  \/ CheckAdapter
  \/ OpenAdapter
  \/ AttachAdapter
  \/ CecAlert
  \/ \E code \in CecKeys : CecPressed(code) \/ CecReleased(code)
  \/ CecDeck

-----------------------------------------------------------------------------
(* An adapter that is there is opened in the end, whatever was taken away, *)
(* put back or complained about before, unless an Open() failed of which   *)
(* no alert tells (InputCEC.cpp:148-193).                                  *)
AdapterComesBack ==
  (cec.attached /\ "cec" \in inputs) ~> (cec.open \/ ~cec.attached \/ cec.failed)
=============================================================================
