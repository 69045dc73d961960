------------------------------- MODULE Window -------------------------------
(***************************************************************************)
(* The main window (src/ui/KonvergoWindow.cpp) on a desktop: its place and *)
(* visibility, the settings it follows and changes, the screens that come  *)
(* and go, what a window manager does on its own, and any number of closes *)
(* and starts.  A rectangle is a record of the screen it lies on and of    *)
(* its kind: "full" is the screen, "default" the one of the first start,   *)
(* "small" below the least size, any other kind a place the user chose.    *)
(* Qt changes the visibility, and signals it, within setVisibility().      *)
(***************************************************************************)
EXTENDS Naturals

CONSTANTS
  Screens,   \* the screens that may be there
  FirstOf,   \* the one that QGuiApplication::screens() has first, of those there
  Places,    \* the kinds of rectangles that the user makes
  MaxTimers  \* bound: timers that wait at the same time

ASSUME WindowAssumption ==
  /\ "" \notin Screens /\ Places \cap {"full", "default"} = {} /\ MaxTimers \in Nat \ {0}

ASSUME FirstAssumption ==
  /\ FirstOf \in [(SUBSET Screens) \ {{}} -> Screens]
  /\ \A S \in (SUBSET Screens) \ {{}} : FirstOf[S] \in S

None == [screen |-> "", kind |-> "none"]
Rects == [screen : Screens, kind : Places \cup {"full", "default"}]

VARIABLES
  screens,  \* the screens that are there
  open,     \* whether there is a window
  w,        \* the window: vis, geo, the flag queued (an updateCurrentScreen()
            \* is posted) and the number of timers for updateForcedScreen();
            \* and the settings fullscreen and geometry
  forced,   \* the setting forceFSScreen
  always,   \* the setting forceAlwaysFS
  current,  \* m_currentScreenName
  choices,  \* the possible values of forceFSScreen
  place,    \* history: where the window was when a setting made it full
  own       \* history: the program, not the window manager, made it full

vars == <<screens, open, w, forced, always, current, choices, place, own>>

There(s) == s \in screens
First    == FirstOf[screens]

(* fitsInScreens(): within the virtual desktop.                            *)
FitsInScreens(r) == r.screen \in screens

(* findCurrentScreen(): a rectangle of this model lies on one screen.      *)
FindCurrentScreen(r) == IF r.screen \in screens THEN r.screen ELSE First

Full(s) == [screen |-> s, kind |-> "full"]

(* saveGeometry().                                                         *)
SaveGeometry(v) ==
  IF v.geo.kind = "small" \/ ~FitsInScreens(v.geo) THEN v ELSE [v EXCEPT !.geometry = v.geo]

(* loadGeometryRect(): the default does not depend on the position of the  *)
(* screen, so it lies on the first one.                                    *)
LoadGeometryRect(v) ==
  IF v.geometry = None \/ ~FitsInScreens(v.geometry)
    THEN [screen |-> First, kind |-> "default"]
    ELSE v.geometry

(* Moves the window; the changes of x and y post an updateCurrentScreen(). *)
Moved(v, r) == [v EXCEPT !.geo = r, !.queued = @ \/ r.screen # v.geo.screen]

(* loadGeometry() of a window that is not to be full.                      *)
LoadGeometry(v) == SaveGeometry(Moved(v, LoadGeometryRect(v)))

ForcedRect(r) == IF There(forced) THEN Full(forced) ELSE r

(* Plausible slip: the setting follows only a change to the full screen.   *)
OnVisibilityChangedFullOnly(v) ==
  IF v.vis = "FullScreen" THEN [v EXCEPT !.fullscreen = TRUE] ELSE v

(* onVisibilityChanged(): a window that must always be full becomes full   *)
(* again, and otherwise the setting follows; the flag                      *)
(* m_ignoreFullscreenSettingsChange keeps that change from coming back.    *)
OnVisibilityChanged(v) ==
  CASE v.vis = "Windowed" /\ always ->
         [Moved(v, Full(FindCurrentScreen(ForcedRect(v.geo)))) EXCEPT
            !.vis = "FullScreen", !.fullscreen = TRUE]
    [] v.vis = "Windowed" /\ ~always -> [v EXCEPT !.fullscreen = FALSE]
    [] v.vis = "FullScreen"          -> [v EXCEPT !.fullscreen = TRUE]
    [] OTHER                         -> v

(* setVisibility() and the signal; a full window fills its screen.         *)
SetVisibility(v, x) ==
  IF v.vis = x THEN v
  ELSE OnVisibilityChanged([v EXCEPT !.vis = x, !.queued = TRUE,
         !.geo = IF x = "FullScreen" THEN Full(FindCurrentScreen(@)) ELSE @])

(* updateForcedScreen().                                                   *)
UpdateForcedScreen(v) ==
  IF There(forced) THEN SetVisibility(Moved(v, Full(forced)), "FullScreen") ELSE v

(* Plausible slip: the place is saved when the window is full already.     *)
UpdateWindowStateLate(v) ==
  IF v.fullscreen \/ always
    THEN LET f == SetVisibility(v, "FullScreen")
         IN  [SaveGeometry(f) EXCEPT !.timers = @ + 1]
    ELSE LoadGeometry(SetVisibility(v, "Windowed"))

(* updateWindowState(): on the way to the full screen the place is saved   *)
(* and a timer of 200 ms will move the window to the forced screen.        *)
UpdateWindowState(v) ==
  IF v.fullscreen \/ always
    THEN [SetVisibility(IF v.vis # "FullScreen" THEN SaveGeometry(v) ELSE v, "FullScreen")
            EXCEPT !.timers = @ + 1]
    ELSE LoadGeometry(SetVisibility(v, "Windowed"))

(* updateScreens() for a window at r, with the setting f.                  *)
UpdateScreens(r, here, f) ==
  /\ choices' = {"", f} \cup here
  /\ current' = IF r.screen \in here THEN r.screen ELSE FirstOf[here]

-----------------------------------------------------------------------------
Init ==
  /\ screens \in {S \in SUBSET Screens : S # {}}
  /\ open = FALSE
  /\ \E full \in BOOLEAN :
       w = [vis |-> "Hidden", geo |-> None, queued |-> FALSE, timers |-> 0,
            fullscreen |-> full, geometry |-> None]
  /\ forced \in Screens \cup {""} /\ always \in BOOLEAN
  /\ current = "" /\ choices = {} /\ place = None /\ own = FALSE

(* KonvergoWindow(): loadGeometry() puts a window that is to be full on    *)
(* the whole of some screen, updateWindowState(false) saves nothing.       *)
Start ==
  /\ ~open /\ open' = TRUE
  /\ \E s \in screens :
       LET v == IF w.fullscreen THEN [w EXCEPT !.geo = Full(s), !.queued = TRUE]
                                ELSE LoadGeometry([w EXCEPT !.queued = TRUE])
           x == IF v.fullscreen \/ always
                  THEN [SetVisibility(v, "FullScreen") EXCEPT !.timers = 1]
                  ELSE LoadGeometry(SetVisibility(v, "Windowed"))
       IN  w' = x /\ UpdateScreens(x.geo, screens, forced)
  /\ place' = None /\ own' = TRUE
  /\ UNCHANGED <<screens, forced, always>>

(* closingWindow(), and the destructor.                                    *)
Close ==
  /\ open /\ open' = FALSE
  /\ w' = [(IF w.fullscreen THEN w ELSE SaveGeometry(w)) EXCEPT
             !.vis = "Hidden", !.queued = FALSE, !.timers = 0]
  /\ place' = None /\ own' = FALSE /\ UNCHANGED <<screens, forced, always, current, choices>>

(* A new state v of the window that a setting has caused.                  *)
BySetting(v) ==
  /\ v.timers <= MaxTimers
  /\ w' = v
  /\ place' = CASE v.vis = "Windowed"                           -> None
                [] w.vis = "Windowed" /\ v.vis = "FullScreen"   -> w.geo
                [] OTHER                                        -> place
  /\ own' = (v.vis = "FullScreen" /\ (own \/ v.timers > 0))

(* The setting fullscreen is changed to b, by toggleFullscreen() or else.  *)
SetFullScreen(b) ==
  /\ open /\ w.fullscreen # b
  /\ BySetting(UpdateWindowState([w EXCEPT !.fullscreen = b]))
  /\ UNCHANGED <<screens, open, forced, always, current, choices>>

(* The setting alwaysOnTop is changed.                                     *)
SetAlwaysOnTop ==
  /\ open /\ BySetting(UpdateWindowState(w))
  /\ UNCHANGED <<screens, open, forced, always, current, choices>>

(* The setting forceFSScreen is changed, to one of its possible values.    *)
SetForcedScreen(f) ==
  /\ open /\ f \in choices /\ f # forced /\ forced' = f
  /\ w' = IF There(f) THEN SetVisibility(Moved(w, Full(f)), "FullScreen") ELSE w
  /\ place' = IF There(f) THEN None ELSE place
  /\ own' = (own \/ There(f))
  /\ UNCHANGED <<screens, open, always, current, choices>>

(* A timer of updateWindowState() or onScreenAdded() expires.              *)
Timer ==
  /\ open /\ w.timers > 0
  /\ w' = [UpdateForcedScreen(w) EXCEPT !.timers = @ - 1]
  /\ place' = IF There(forced) /\ w.vis # "FullScreen" THEN None ELSE place
  /\ own' = (own \/ There(forced))
  /\ UNCHANGED <<screens, open, forced, always, current, choices>>

(* The posted updateCurrentScreen().                                       *)
UpdateCurrentScreen ==
  /\ open /\ w.queued /\ w' = [w EXCEPT !.queued = FALSE]
  /\ IF FindCurrentScreen(w.geo) # current
       THEN UpdateScreens(w.geo, screens, forced)
       ELSE UNCHANGED <<choices, current>>
  /\ UNCHANGED <<screens, open, forced, always, place, own>>

(* onScreenAdded().                                                        *)
OnScreenAdded(s) ==
  /\ s \notin screens /\ screens' = screens \cup {s}
  /\ IF open
       THEN /\ w.timers < MaxTimers /\ w' = [w EXCEPT !.timers = @ + 1]
            /\ UpdateScreens(w.geo, screens', forced)
       ELSE UNCHANGED <<w, choices, current>>
  /\ UNCHANGED <<open, forced, always, place, own>>

(* onScreenRemoved(): Qt has moved the window to another screen.           *)
OnScreenRemoved(s) ==
  /\ s \in screens /\ screens # {s} /\ screens' = screens \ {s}
  /\ IF open
       THEN /\ IF w.geo.screen = s
                 THEN \E t \in screens' : w' = Moved(w, [w.geo EXCEPT !.screen = t])
                 ELSE w' = w
            /\ UpdateScreens(w'.geo, screens', forced)
       ELSE UNCHANGED <<w, choices, current>>
  /\ UNCHANGED <<open, forced, always, place, own>>

(* minimizeWindow().                                                       *)
MinimizeWindow ==
  /\ open /\ w.vis # "FullScreen" /\ w' = SetVisibility(w, "Minimized")
  /\ UNCHANGED <<screens, open, forced, always, current, choices, place, own>>

(* otherAppFocus(): the window is shown again as it was.                   *)
OtherAppFocus ==
  /\ open /\ w.vis = "Minimized"
  /\ w' = SetVisibility(w, IF w.fullscreen THEN "FullScreen" ELSE "Windowed")
  /\ UNCHANGED <<screens, open, forced, always, current, choices, place, own>>

-----------------------------------------------------------------------------
(* The window manager, for the user.                                       *)

UserMoves(r) ==
  /\ open /\ w.vis = "Windowed" /\ r.screen \in screens /\ w' = Moved(w, r)
  /\ UNCHANGED <<screens, open, forced, always, current, choices, place, own>>

UserFills ==
  /\ open /\ w.vis = "Windowed" /\ w' = SetVisibility(w, "FullScreen")
  /\ place' = None /\ own' = FALSE
  /\ UNCHANGED <<screens, open, forced, always, current, choices>>

UserUnfills(r) ==
  /\ open /\ w.vis = "FullScreen" /\ r.screen \in screens
  /\ w' = SetVisibility(Moved(w, r), "Windowed")
  /\ place' = None /\ own' = FALSE
  /\ UNCHANGED <<screens, open, forced, always, current, choices>>

UserMinimizes ==
  /\ open /\ w.vis = "FullScreen" /\ w' = SetVisibility(w, "Minimized")
  /\ place' = None
  /\ UNCHANGED <<screens, open, forced, always, current, choices, own>>

Chosen == [screen : screens, kind : Places]

Next ==
  \/ Start \/ Close \/ SetAlwaysOnTop \/ Timer \/ UpdateCurrentScreen
  \/ MinimizeWindow \/ OtherAppFocus \/ UserFills \/ UserMinimizes
  \/ \E b \in BOOLEAN : SetFullScreen(b)
  \/ \E f \in Screens \cup {""} : SetForcedScreen(f)
  \/ \E s \in Screens : OnScreenAdded(s) \/ OnScreenRemoved(s)
  \/ \E r \in Chosen : UserMoves(r) \/ UserUnfills(r)

Spec == Init /\ [][Next]_vars

-----------------------------------------------------------------------------
(* Properties.                                                             *)

(* An open window lies on a screen that is there.                          *)
TypeOK ==
  /\ screens \subseteq Screens /\ screens # {} /\ open \in BOOLEAN
  /\ w.vis \in {"Hidden", "Windowed", "FullScreen", "Minimized"} /\ (open <=> w.vis # "Hidden")
  /\ w.geo \in Rects \cup {None} /\ (open => w.geo.screen \in screens)
  /\ w.queued \in BOOLEAN /\ w.timers \in 0..MaxTimers /\ w.fullscreen \in BOOLEAN
  /\ w.geometry \in Rects \cup {None} /\ w.geometry.kind # "small"
  /\ forced \in Screens \cup {""} /\ always \in BOOLEAN

(* The setting and the window agree about the full screen, whoever changed *)
(* which of them first and through however many nested signals, so that    *)
(* the next start and closingWindow() take the right one.                  *)
FullscreenIsSaved ==
  open /\ ~always => /\ w.vis = "FullScreen" => w.fullscreen
                     /\ w.vis = "Windowed" => ~w.fullscreen

(* A window that a setting made full comes back, when the setting is       *)
(* changed back, to where it was - unless that was too small to be saved   *)
(* or its screen has gone - whatever happened in between.  A full window   *)
(* that is minimized is not counted: updateWindowState() takes it for one  *)
(* that is not full, and would save the whole screen as its place.         *)
ReturnsToItsPlace ==
  [][SetFullScreen(FALSE) /\ w'.vis = "Windowed"
       /\ place.kind \notin {"none", "small"} /\ place.screen \in screens
     => w'.geo = place]_vars

(* A window that was closed opens again where it was, if that fits.        *)
ReopensInPlace ==
  [][~open /\ open' /\ ~w.fullscreen /\ ~always
       /\ w.geo.kind \in Places \ {"small"} /\ w.geo.screen \in screens
     => w'.geo = w.geo]_vars

(* Once the timers have expired, a window that the program has made full   *)
(* fills the screen that the user forced, if it is there, also when that   *)
(* screen came back later.                                                 *)
ForcedScreenIsUsed ==
  open /\ w.vis = "FullScreen" /\ own /\ w.timers = 0 /\ There(forced) => w.geo = Full(forced)

(* The list that the settings page shows for forceFSScreen has every       *)
(* screen there is, and the value that is set.                             *)
ScreensAreOffered == open => screens \cup {"", forced} \subseteq choices

(* When no posted call waits, the screen marked as the active one is the   *)
(* screen of the window.                                                   *)
CurrentScreenKnown == open /\ ~w.queued => current = FindCurrentScreen(w.geo)

(* Five parties change the window: settings, timers, screens, the window   *)
(* manager and the user.  Once their calls are served, the settings and    *)
(* the window say the same of the full screen, the screens and the place.  *)
FollowsSettings ==
  /\ TypeOK
  /\ FullscreenIsSaved
  /\ ForcedScreenIsUsed
  /\ ScreensAreOffered
  /\ CurrentScreenKnown

(* The place of the window outlives the full screen and the program.       *)
KeepsItsPlace == ReturnsToItsPlace /\ ReopensInPlace
=============================================================================
