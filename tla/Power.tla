-------------------------------- MODULE Power --------------------------------
(***************************************************************************)
(* The screen saver (power/PowerComponent.cpp, PowerComponentDBus.cpp).    *)
(* The service of the desktop hands out a cookie for each inhibition and   *)
(* forgets them when it is restarted; a call of it may fail before or      *)
(* after it has taken effect.  PowerOff() and Reboot() are of Processes.   *)
(***************************************************************************)
EXTENDS Naturals

CONSTANTS
  Cookies,     \* what the service may hand out
  MaxTroubles  \* bound: failed calls and restarts of the service

ASSUME PowerAssumption == Cookies \subseteq Nat \ {0} /\ MaxTroubles \in Nat

VARIABLES
  cookie,    \* screensaver_inhibit_cookie
  held,      \* the inhibitions that the service has for the program
  asked,     \* what the last setScreensaverEnabled() asked for: whether to inhibit
  replied,  \* history: whether that call ended with an answer of the service,
             \* or without asking it
  lostTrack, \* history: the service was restarted, or an answer of it was lost,
             \* and the program has held or dropped the cookie ever since
  troubles

powerVars == <<cookie, held, asked, replied, lostTrack, troubles>>

Inhibit ==   \* doDisableScreensaver()
  \/ cookie # 0 /\ replied' = TRUE /\ UNCHANGED <<cookie, held, lostTrack, troubles>>
  \/ /\ cookie = 0
     /\ \E c \in Cookies \ held : cookie' = c /\ held' = held \cup {c}
     /\ replied' = TRUE
     /\ UNCHANGED <<lostTrack, troubles>>
  \/ /\ cookie = 0 /\ troubles < MaxTroubles
     /\ \/ held' = held /\ lostTrack' = lostTrack
        \/ \E c \in Cookies \ held : held' = held \cup {c} /\ lostTrack' = TRUE
     /\ replied' = FALSE
     /\ troubles' = troubles + 1
     /\ UNCHANGED cookie

(* Plausible slip: the cookie is kept when the inhibition is given back.     *)
UnInhibitKeepsCookie ==
  \/ cookie = 0 /\ replied' = TRUE /\ UNCHANGED <<cookie, held, lostTrack, troubles>>
  \/ /\ cookie # 0
     /\ held' = held \ {cookie} /\ replied' = TRUE
     /\ UNCHANGED <<cookie, lostTrack, troubles>>

UnInhibit ==   \* doEnableScreensaver()
  \/ cookie = 0 /\ replied' = TRUE /\ UNCHANGED <<cookie, held, lostTrack, troubles>>
  \/ /\ cookie \in held
     /\ cookie' = 0 /\ held' = held \ {cookie} /\ replied' = TRUE
     /\ UNCHANGED <<lostTrack, troubles>>
  \/ /\ cookie # 0 /\ \/ troubles < MaxTroubles /\ troubles' = troubles + 1
                      \/ cookie \notin held /\ troubles' = troubles  \* it does not know it
     /\ held' \in {held, held \ {cookie}}
     /\ lostTrack' = (lostTrack \/ cookie \notin held')
     /\ replied' = FALSE
     /\ UNCHANGED cookie

SetScreensaverEnabled(enabled) ==
  /\ asked' = ~enabled
  /\ IF enabled THEN UnInhibit ELSE Inhibit

ServiceRestarts ==
  /\ troubles < MaxTroubles /\ held # {}
  /\ held' = {} /\ troubles' = troubles + 1
  /\ lostTrack' = TRUE
  /\ UNCHANGED <<cookie, asked, replied>>

InitPower ==
  /\ cookie = 0 /\ held = {} /\ asked = FALSE /\ replied = TRUE
  /\ lostTrack = FALSE /\ troubles = 0
=============================================================================
