----------------------------- MODULE WindowProofs -----------------------------
(***************************************************************************)
(* Proofs about Window, for any screens, any kinds of places and any       *)
(* bound on the timers.                                                    *)
(***************************************************************************)
EXTENDS Window, TLAPS

-----------------------------------------------------------------------------
(* The inductive invariant.                                                *)

WindowStates ==
  [vis : {"Hidden", "Windowed", "FullScreen", "Minimized"}, geo : Rects \cup {None},
   queued : BOOLEAN, timers : Nat, fullscreen : BOOLEAN,
   geometry : {r \in Rects \cup {None} : r.kind # "small"}]

TypeInv == w \in WindowStates /\ TypeOK

\* A window that must always be full is never shown otherwise.
AlwaysIsFull == open /\ always => w.vis # "Windowed"

\* ForcedScreenIsUsed, also of a full window while it is minimized.
ForcedIsFilled ==
  open /\ (w.vis = "FullScreen" \/ (w.vis = "Minimized" /\ w.fullscreen))
    /\ own /\ w.timers = 0 /\ There(forced) => w.geo = Full(forced)

\* As long as a setting keeps the window full, the setting geometry has the
\* place where it was.
PlaceIsKept ==
  place # None =>
    open /\ w.vis = "FullScreen" /\ (place.kind # "small" => w.geometry = place)

\* A window that was closed where it can be saved has been saved.
ClosedIsSaved ==
  ~open /\ ~w.fullscreen /\ w.geo # None /\ w.geo.kind # "small" => w.geometry = w.geo

WindowInv ==
  /\ TypeInv /\ FullscreenIsSaved /\ AlwaysIsFull
  /\ ForcedIsFilled /\ PlaceIsKept /\ ClosedIsSaved
  /\ ScreensAreOffered /\ CurrentScreenKnown

-----------------------------------------------------------------------------
(* What the operators of Window do to a state v of the window.             *)

\* The states u and v agree about timers, setting and visibility.
SameState(u, v) == u.timers = v.timers /\ u.fullscreen = v.fullscreen /\ u.vis = v.vis

LEMMA Between ==
  ASSUME NEW n \in Nat, NEW m \in Nat
  PROVE  n \in 0 .. m <=> n <= m
OBVIOUS

LEMMA TimersFact == MaxTimers \in Nat /\ MaxTimers > 0 /\ 0 \in 0 .. MaxTimers
<1>1. MaxTimers \in Nat \ {0}
  BY WindowAssumption
<1> QED BY <1>1

LEMMA ScreenFacts ==
  ASSUME TypeOK
  PROVE  /\ screens \subseteq Screens /\ First \in screens
         /\ \A r : FindCurrentScreen(r) \in screens
         /\ \A s \in Screens : Full(s) \in Rects
         /\ \A s : Full(s).screen = s /\ Full(s).kind = "full"
         /\ \A r \in Rects : r.screen \in Screens
         /\ None \notin Rects /\ ~FitsInScreens(None) /\ None.kind # "small"
<1>1. First \in screens
  <2>1. screens \subseteq Screens /\ screens # {}
    BY DEF TypeOK
  <2> QED BY <2>1, FirstAssumption DEF First
<1>2. \A r : FindCurrentScreen(r) \in screens
  BY <1>1 DEF FindCurrentScreen
<1>3. \A s \in Screens : Full(s) \in Rects
  BY DEF Full, Rects
<1>4. None \notin Rects /\ ~FitsInScreens(None) /\ None.kind # "small"
  BY WindowAssumption DEF None, Rects, FitsInScreens, TypeOK
<1> QED BY <1>1, <1>2, <1>3, <1>4 DEF TypeOK, Full, Rects

LEMMA MovedFacts ==
  ASSUME NEW v \in WindowStates, NEW r \in Rects
  PROVE  LET u == Moved(v, r)
         IN  /\ u \in WindowStates /\ SameState(u, v)
             /\ u.geo = r /\ u.geometry = v.geometry
             /\ u.queued = (v.queued \/ r.screen # v.geo.screen)
BY DEF Moved, WindowStates, SameState

LEMMA SaveGeometryFacts ==
  ASSUME NEW v \in WindowStates
  PROVE  LET u == SaveGeometry(v)
         IN  /\ u \in WindowStates /\ SameState(u, v) /\ u.geo = v.geo /\ u.queued = v.queued
             /\ u.geometry = IF v.geo.kind = "small" \/ ~FitsInScreens(v.geo)
                             THEN v.geometry ELSE v.geo
<1>1. CASE v.geo.kind = "small" \/ ~FitsInScreens(v.geo)
  BY <1>1 DEF SaveGeometry, SameState
<1>2. CASE ~(v.geo.kind = "small" \/ ~FitsInScreens(v.geo))
  <2>1. SaveGeometry(v) = [v EXCEPT !.geometry = v.geo]
    BY <1>2 DEF SaveGeometry
  <2> QED BY <1>2, <2>1 DEF WindowStates, SameState
<1> QED BY <1>1, <1>2

LEMMA LoadGeometryFacts ==
  ASSUME TypeOK, NEW v \in WindowStates
  PROVE  LET u == LoadGeometry(v)
         IN  /\ u \in WindowStates /\ SameState(u, v)
             /\ u.geo \in Rects /\ u.geo.screen \in screens
             /\ u.queued = (v.queued \/ u.geo.screen # v.geo.screen)
             /\ v.geometry # None /\ FitsInScreens(v.geometry)
                  => u.geo = v.geometry /\ u.geometry = v.geometry
<1> DEFINE r == LoadGeometryRect(v)
           m == Moved(v, r)
           u == SaveGeometry(m)
<1>1. r \in Rects /\ r.screen \in screens
  BY ScreenFacts DEF LoadGeometryRect, Rects, FitsInScreens, WindowStates
<1>2. v.geometry # None /\ FitsInScreens(v.geometry) => r = v.geometry
  BY DEF LoadGeometryRect
<1>3. u = LoadGeometry(v)
  BY DEF LoadGeometry
<1> HIDE DEF r
<1>4. /\ m \in WindowStates /\ SameState(m, v) /\ m.geo = r /\ m.geometry = v.geometry
      /\ m.queued = (v.queued \/ r.screen # v.geo.screen)
  BY <1>1, MovedFacts
<1> HIDE DEF m
<1>5. /\ u \in WindowStates /\ SameState(u, m) /\ u.geo = m.geo /\ u.queued = m.queued
      /\ u.geometry = IF m.geo.kind = "small" \/ ~FitsInScreens(m.geo) THEN m.geometry ELSE m.geo
  BY <1>4, SaveGeometryFacts
<1> HIDE DEF u
<1>6. u.geo = r /\ u.queued = (v.queued \/ r.screen # v.geo.screen) /\ SameState(u, v)
  BY <1>4, <1>5 DEF SameState
<1>7. v.geometry # None /\ FitsInScreens(v.geometry) => u.geometry = v.geometry
  BY <1>2, <1>4, <1>5
<1> QED BY <1>1, <1>2, <1>3, <1>5, <1>6, <1>7

\* Where a window that must always be full goes, when it is shown otherwise.
Refilled(v) == Full(IF There(forced) THEN forced ELSE v.geo.screen)

LEMMA OnVisibilityChangedFacts ==
  ASSUME TypeOK, NEW v \in WindowStates, v.geo \in Rects, v.geo.screen \in screens,
         v.queued = TRUE, v.vis # "Hidden"
  PROVE  LET u == OnVisibilityChanged(v)
         IN  /\ u \in WindowStates /\ u.timers = v.timers /\ u.geometry = v.geometry /\ u.queued = TRUE
             /\ u.geo \in Rects /\ u.geo.screen \in screens /\ u.vis # "Hidden"
             /\ v.vis = "FullScreen" => u.vis = "FullScreen" /\ u.fullscreen = TRUE /\ u.geo = v.geo
             /\ v.vis = "Minimized" => u = v
             /\ v.vis = "Windowed" /\ always =>
                  u.vis = "FullScreen" /\ u.fullscreen = TRUE /\ u.geo = Refilled(v)
             /\ v.vis = "Windowed" /\ ~always =>
                  u.vis = "Windowed" /\ u.fullscreen = FALSE /\ u.geo = v.geo
<1>1. CASE v.vis = "Windowed" /\ always
  <2> DEFINE r == Full(FindCurrentScreen(ForcedRect(v.geo)))
             m == Moved(v, r)
  <2>1. OnVisibilityChanged(v) = [m EXCEPT !.vis = "FullScreen", !.fullscreen = TRUE]
    BY <1>1 DEF OnVisibilityChanged
  <2>2. r = Refilled(v)
    BY ScreenFacts DEF ForcedRect, FindCurrentScreen, Refilled, There
  <2>3. r \in Rects /\ r.screen \in screens
    BY ScreenFacts
  <2> HIDE DEF r
  <2>4. /\ m \in WindowStates /\ SameState(m, v) /\ m.geo = r /\ m.geometry = v.geometry
        /\ m.queued = TRUE
    BY <2>3, MovedFacts
  <2> HIDE DEF m
  <2> QED BY <1>1, <2>1, <2>2, <2>3, <2>4 DEF WindowStates, SameState
<1>2. CASE v.vis = "Windowed" /\ ~always
  <2>1. OnVisibilityChanged(v) = [v EXCEPT !.fullscreen = FALSE]
    BY <1>2 DEF OnVisibilityChanged
  <2> QED BY <1>2, <2>1 DEF WindowStates
<1>3. CASE v.vis = "FullScreen"
  <2>1. OnVisibilityChanged(v) = [v EXCEPT !.fullscreen = TRUE]
    BY <1>3 DEF OnVisibilityChanged
  <2> QED BY <1>3, <2>1 DEF WindowStates
<1>4. CASE v.vis = "Minimized"
  <2>1. OnVisibilityChanged(v) = v
    BY <1>4 DEF OnVisibilityChanged
  <2> QED BY <1>4, <2>1 DEF WindowStates
<1> QED BY <1>1, <1>2, <1>3, <1>4 DEF WindowStates

LEMMA SetVisibilityFacts ==
  ASSUME TypeOK, NEW v \in WindowStates, v.geo \in Rects, v.geo.screen \in screens,
         NEW x \in {"Windowed", "FullScreen", "Minimized"}
  PROVE  LET u == SetVisibility(v, x)
         IN  /\ u \in WindowStates /\ u.timers = v.timers /\ u.geometry = v.geometry
             /\ u.geo \in Rects /\ u.geo.screen \in screens /\ u.vis # "Hidden"
             /\ x = v.vis => u = v
             /\ x # v.vis => u.queued = TRUE
             /\ x = "FullScreen" => u.vis = "FullScreen"
             /\ x = "FullScreen" /\ x # v.vis => u.fullscreen = TRUE /\ u.geo = Full(v.geo.screen)
             /\ x = "Minimized" => u.vis = "Minimized" /\ u.fullscreen = v.fullscreen /\ u.geo = v.geo
             /\ x = "Windowed" /\ x # v.vis /\ always =>
                  u.vis = "FullScreen" /\ u.fullscreen = TRUE /\ u.geo = Refilled(v)
             /\ x = "Windowed" /\ ~always => u.vis = "Windowed" /\ u.geo = v.geo
             /\ x = "Windowed" /\ x # v.vis /\ ~always => u.fullscreen = FALSE
<1>1. CASE v.vis = x
  BY <1>1 DEF SetVisibility
<1>2. CASE v.vis # x
  <2> DEFINE g == IF x = "FullScreen" THEN Full(FindCurrentScreen(v.geo)) ELSE v.geo
             m == [v EXCEPT !.vis = x, !.queued = TRUE, !.geo = g]
  <2>1. SetVisibility(v, x) = OnVisibilityChanged(m)
    BY <1>2 DEF SetVisibility
  <2>2. /\ g = IF x = "FullScreen" THEN Full(v.geo.screen) ELSE v.geo
        /\ g \in Rects /\ g.screen \in screens
    BY ScreenFacts DEF FindCurrentScreen
  <2> HIDE DEF g
  <2>3. /\ m \in WindowStates /\ m.vis = x /\ m.queued = TRUE /\ m.geo = g
        /\ m.timers = v.timers /\ m.fullscreen = v.fullscreen /\ m.geometry = v.geometry
    BY <2>2 DEF WindowStates
  <2>4. x # "FullScreen" => Refilled(m) = Refilled(v)
    BY <2>2, <2>3 DEF Refilled
  <2> HIDE DEF m
  <2> QED BY <1>2, <2>1, <2>2, <2>3, <2>4, OnVisibilityChangedFacts
<1> QED BY <1>1, <1>2

LEMMA UpdateWindowStateFacts ==
  ASSUME TypeOK, NEW v \in WindowStates, v.geo \in Rects, v.geo.screen \in screens,
         v.vis # "Hidden"
  PROVE  LET u == UpdateWindowState(v)
         IN  /\ u \in WindowStates /\ u.geo \in Rects /\ u.geo.screen \in screens
             /\ u.vis # "Hidden" /\ (v.queued => u.queued)
             /\ ~u.queued => u.geo.screen = v.geo.screen
             /\ v.fullscreen \/ always =>
                  /\ u.vis = "FullScreen" /\ u.timers = v.timers + 1
                  /\ v.fullscreen => u.fullscreen
                  /\ v.vis = "FullScreen" => u.geometry = v.geometry
                  /\ v.vis # "FullScreen" /\ v.geo.kind # "small" => u.geometry = v.geo
             /\ ~v.fullscreen /\ ~always =>
                  /\ u.vis = "Windowed" /\ u.timers = v.timers /\ ~u.fullscreen
                  /\ v.geometry # None /\ FitsInScreens(v.geometry) => u.geo = v.geometry
<1>1. CASE v.fullscreen \/ always
  <2> DEFINE m == IF v.vis # "FullScreen" THEN SaveGeometry(v) ELSE v
             f == SetVisibility(m, "FullScreen")
             u == UpdateWindowState(v)
  <2>1. u = [f EXCEPT !.timers = @ + 1]
    BY <1>1 DEF UpdateWindowState
  <2>2. /\ m \in WindowStates /\ SameState(m, v) /\ m.geo = v.geo /\ m.queued = v.queued
        /\ v.vis = "FullScreen" => m.geometry = v.geometry
        /\ v.vis # "FullScreen" /\ v.geo.kind # "small" => m.geometry = v.geo
    BY SaveGeometryFacts DEF SameState, FitsInScreens
  <2> HIDE DEF m
  <2>3. /\ f \in WindowStates /\ f.timers = m.timers /\ f.geometry = m.geometry
        /\ f.geo \in Rects /\ f.geo.screen \in screens /\ f.vis = "FullScreen"
        /\ m.vis = "FullScreen" => f = m
        /\ m.vis # "FullScreen" => f.queued = TRUE /\ f.fullscreen = TRUE
    BY <2>2, SetVisibilityFacts
  <2> HIDE DEF f
  <2>4. /\ u \in WindowStates /\ u.vis = f.vis /\ u.geo = f.geo /\ u.queued = f.queued
        /\ u.fullscreen = f.fullscreen /\ u.geometry = f.geometry /\ u.timers = f.timers + 1
    BY <2>1, <2>3 DEF WindowStates
  <2> HIDE DEF u
  <2>5. /\ v.queued => u.queued
        /\ ~u.queued => u.geo.screen = v.geo.screen
        /\ v.fullscreen => u.fullscreen
    BY <2>2, <2>3, <2>4 DEF SameState
  <2>6. u.timers = v.timers + 1 /\ u.vis = "FullScreen"
    BY <2>2, <2>3, <2>4 DEF SameState
  <2> QED BY <1>1, <2>2, <2>3, <2>4, <2>5, <2>6 DEF u
<1>2. CASE ~(v.fullscreen \/ always)
  <2> DEFINE m == SetVisibility(v, "Windowed")
             u == LoadGeometry(m)
  <2>1. UpdateWindowState(v) = u
    BY <1>2 DEF UpdateWindowState
  <2>2. /\ m \in WindowStates /\ m.timers = v.timers /\ m.geometry = v.geometry
        /\ m.geo = v.geo /\ m.vis = "Windowed" /\ ~m.fullscreen /\ (v.queued => m.queued)
    BY <1>2, SetVisibilityFacts
  <2> HIDE DEF m
  <2>3. /\ u \in WindowStates /\ SameState(u, m)
        /\ u.geo \in Rects /\ u.geo.screen \in screens
        /\ u.queued = (m.queued \/ u.geo.screen # m.geo.screen)
        /\ m.geometry # None /\ FitsInScreens(m.geometry) => u.geo = m.geometry
    BY <2>2, LoadGeometryFacts
  <2> HIDE DEF u
  <2> QED BY <1>2, <2>1, <2>2, <2>3 DEF SameState
<1> QED BY <1>1, <1>2

-----------------------------------------------------------------------------
(* The steps of the window.                                                *)

\* What the invariant says of an open window, one conjunct after the other;
\* everything that can happen to an open window is shown to bring it about.
LEMMA OpenInv ==
  ASSUME open, WindowInv
  PROVE  /\ w \in WindowStates /\ TypeOK /\ w.geo \in Rects /\ w.geo.screen \in screens
         /\ w.vis # "Hidden" /\ w.timers \in Nat /\ w.timers <= MaxTimers
         /\ ~always => (w.vis = "FullScreen" => w.fullscreen) /\ (w.vis = "Windowed" => ~w.fullscreen)
         /\ always => w.vis # "Windowed"
         /\ (w.vis = "FullScreen" \/ (w.vis = "Minimized" /\ w.fullscreen))
              /\ own /\ w.timers = 0 /\ There(forced) => w.geo = Full(forced)
         /\ place # None =>
              w.vis = "FullScreen" /\ (place.kind # "small" => w.geometry = place)
         /\ screens \cup {"", forced} \subseteq choices
         /\ ~w.queued => current = w.geo.screen
<1>0. TypeOK
  BY DEF WindowInv, TypeInv
<1>1. w.geo \in Rects
  <2>1. w.geo \in Rects \cup {None} /\ w.geo.screen \in screens
    BY <1>0 DEF TypeOK
  <2>2. None.screen \notin screens
    BY <1>0, ScreenFacts DEF FitsInScreens
  <2> QED BY <2>1, <2>2
<1>2. w.timers \in Nat /\ w.timers <= MaxTimers
  <2>1. w.timers \in 0 .. MaxTimers
    BY <1>0 DEF TypeOK
  <2> QED BY <2>1, TimersFact
<1> QED BY <1>1, <1>2 DEF WindowInv, TypeInv, TypeOK, FullscreenIsSaved, AlwaysIsFull,
           ForcedIsFilled, PlaceIsKept, ScreensAreOffered, CurrentScreenKnown, FindCurrentScreen

\* The converse, for the next state.
LEMMA OpenInvNext ==
  ASSUME TypeOK, open', w' \in WindowStates, screens' \subseteq Screens, screens' # {},
         forced' \in Screens \cup {""}, always' \in BOOLEAN, open' \in BOOLEAN,
         w'.geo \in Rects, w'.geo.screen \in screens',
         w'.vis # "Hidden", w'.timers <= MaxTimers,
         ~always' => (w'.vis = "FullScreen" => w'.fullscreen) /\ (w'.vis = "Windowed" => ~w'.fullscreen),
         always' => w'.vis # "Windowed",
         (w'.vis = "FullScreen" \/ (w'.vis = "Minimized" /\ w'.fullscreen))
              /\ own' /\ w'.timers = 0 /\ forced' \in screens' => w'.geo = Full(forced'),
         place' # None =>
              w'.vis = "FullScreen" /\ (place'.kind # "small" => w'.geometry = place'),
         screens' \cup {"", forced'} \subseteq choices',
         ~w'.queued => current' = w'.geo.screen
  PROVE  WindowInv'
<1>1. w'.timers \in 0 .. MaxTimers
  <2>1. w'.timers \in Nat
    BY DEF WindowStates
  <2>2. MaxTimers \in Nat
    BY TimersFact
  <2> QED BY <2>1, <2>2, Between
<1>2. TypeOK'
  BY <1>1 DEF TypeOK, WindowStates
<1>3. TypeInv'
  BY <1>2 DEF TypeInv, WindowStates, Rects, None
<1>4. FullscreenIsSaved' /\ AlwaysIsFull'
  BY DEF FullscreenIsSaved, AlwaysIsFull
<1>5. ForcedIsFilled'
  BY DEF ForcedIsFilled, There, Full
<1>6. PlaceIsKept' /\ ClosedIsSaved'
  BY DEF PlaceIsKept, ClosedIsSaved, None
<1>7. ScreensAreOffered' /\ CurrentScreenKnown'
  BY DEF ScreensAreOffered, CurrentScreenKnown, FindCurrentScreen, First
<1> QED BY <1>3, <1>4, <1>5, <1>6, <1>7 DEF WindowInv

LEMMA StartKeeps == WindowInv /\ Start => WindowInv'
<1> SUFFICES ASSUME WindowInv, Start
             PROVE  WindowInv'
  OBVIOUS
<1>1. TypeOK /\ w \in WindowStates /\ ~open /\ w.vis = "Hidden"
  BY DEF WindowInv, TypeInv, TypeOK, Start
<1>2. PICK s \in screens :
        LET v == IF w.fullscreen THEN [w EXCEPT !.geo = Full(s), !.queued = TRUE]
                                 ELSE LoadGeometry([w EXCEPT !.queued = TRUE])
            x == IF v.fullscreen \/ always
                   THEN [SetVisibility(v, "FullScreen") EXCEPT !.timers = 1]
                   ELSE LoadGeometry(SetVisibility(v, "Windowed"))
        IN  w' = x /\ UpdateScreens(x.geo, screens, forced)
  BY DEF Start
<1> DEFINE q == [w EXCEPT !.queued = TRUE]
           v == IF w.fullscreen THEN [w EXCEPT !.geo = Full(s), !.queued = TRUE]
                ELSE LoadGeometry(q)
           f == SetVisibility(v, "FullScreen")
           h == SetVisibility(v, "Windowed")
<1>3. /\ w' = IF v.fullscreen \/ always THEN [f EXCEPT !.timers = 1] ELSE LoadGeometry(h)
      /\ UpdateScreens(w'.geo, screens, forced)
  BY <1>2
<1>4. q \in WindowStates /\ q.queued = TRUE /\ SameState(q, w) /\ q.geo = w.geo /\ q.geometry = w.geometry
  BY <1>1 DEF WindowStates, SameState
<1> HIDE DEF q
<1>5. /\ v \in WindowStates /\ v.queued = TRUE /\ SameState(v, w)
      /\ v.geo \in Rects /\ v.geo.screen \in screens
  <2>1. CASE w.fullscreen
    <3>1. Full(s) \in Rects /\ Full(s).screen \in screens
      BY <1>1, ScreenFacts
    <3>2. v = [w EXCEPT !.geo = Full(s), !.queued = TRUE]
      BY <2>1
    <3> HIDE DEF v
    <3> QED BY <1>1, <3>1, <3>2 DEF WindowStates, SameState
  <2>2. CASE ~w.fullscreen
    <3>1. v = LoadGeometry(q)
      BY <2>2
    <3> HIDE DEF v
    <3>2. v \in WindowStates /\ SameState(v, q) /\ v.geo \in Rects /\ v.geo.screen \in screens
      BY <1>1, <1>4, <3>1, LoadGeometryFacts
    <3>3. v.queued = TRUE
      BY <1>1, <1>4, <3>1, LoadGeometryFacts
    <3> QED BY <1>4, <3>2, <3>3 DEF SameState
  <2> QED BY <2>1, <2>2
<1> HIDE DEF v
<1>6. /\ w' \in WindowStates /\ w'.geo \in Rects /\ w'.geo.screen \in screens
      /\ v.fullscreen \/ always => w'.vis = "FullScreen" /\ w'.fullscreen /\ w'.timers = 1
      /\ ~(v.fullscreen \/ always) => w'.vis = "Windowed" /\ ~w'.fullscreen /\ w'.timers = w.timers
  <2>1. CASE v.fullscreen \/ always
    <3>1. /\ f \in WindowStates /\ f.geo \in Rects /\ f.geo.screen \in screens
          /\ f.vis = "FullScreen" /\ f.fullscreen
      BY <1>1, <1>5, SetVisibilityFacts DEF SameState
    <3> HIDE DEF f
    <3> QED BY <1>3, <2>1, <3>1 DEF WindowStates
  <2>2. CASE ~(v.fullscreen \/ always)
    <3>1. /\ h \in WindowStates /\ h.vis = "Windowed" /\ h.timers = w.timers /\ ~h.fullscreen
      BY <1>1, <1>5, <2>2, SetVisibilityFacts DEF SameState
    <3> HIDE DEF h
    <3> QED BY <1>1, <1>3, <2>2, <3>1, LoadGeometryFacts DEF SameState
  <2> QED BY <2>1, <2>2
<1>7. /\ choices' = {"", forced} \cup screens /\ current' = w'.geo.screen
      /\ open' = TRUE /\ place' = None /\ UNCHANGED <<screens, forced, always>>
  BY <1>3, <1>6 DEF UpdateScreens, Start
<1>8. w'.timers <= MaxTimers /\ w'.vis # "Hidden"
  <2>1. MaxTimers \in Nat \ {0}
    BY TimersFact
  <2>2. w.timers \in 0 .. MaxTimers
    BY <1>1 DEF TypeOK
  <2>3. w.timers <= MaxTimers
    BY <2>1, <2>2
  <2> QED BY <1>6, <2>1, <2>3
<1>9. /\ screens \subseteq Screens /\ screens # {}
      /\ forced \in Screens \cup {""} /\ always \in BOOLEAN
  BY <1>1 DEF TypeOK
<1>10. /\ ~always => (w'.vis = "FullScreen" => w'.fullscreen) /\ (w'.vis = "Windowed" => ~w'.fullscreen)
       /\ always => w'.vis # "Windowed"
       /\ (w'.vis = "FullScreen" \/ (w'.vis = "Minimized" /\ w'.fullscreen)) => w'.timers # 0
  BY <1>6
<1> QED BY <1>1, <1>6, <1>7, <1>8, <1>9, <1>10, OpenInvNext

LEMMA CloseKeeps == WindowInv /\ Close => WindowInv'
<1> SUFFICES ASSUME WindowInv, Close
             PROVE  WindowInv'
  OBVIOUS
<1>1. /\ w \in WindowStates /\ TypeOK /\ w.geo \in Rects /\ w.geo.screen \in screens
  BY OpenInv DEF Close
<1> DEFINE v == IF w.fullscreen THEN w ELSE SaveGeometry(w)
<1>2. /\ v \in WindowStates /\ v.fullscreen = w.fullscreen /\ v.geo = w.geo
      /\ ~w.fullscreen /\ w.geo.kind # "small" => v.geometry = w.geo
  BY <1>1, SaveGeometryFacts DEF SameState, FitsInScreens
<1>3. /\ open' = FALSE /\ w' = [v EXCEPT !.vis = "Hidden", !.queued = FALSE, !.timers = 0]
      /\ place' = None /\ UNCHANGED <<screens, forced, always>>
  BY DEF Close
<1> HIDE DEF v
<1>4. /\ w' \in WindowStates /\ w'.vis = "Hidden" /\ w'.timers = 0
      /\ w'.fullscreen = w.fullscreen /\ w'.geo = w.geo
      /\ ~w.fullscreen /\ w.geo.kind # "small" => w'.geometry = w.geo
  BY <1>2, <1>3 DEF WindowStates
<1>5. TypeInv'
  <2>1. 0 \in 0 .. MaxTimers
    BY TimersFact
  <2> QED BY <1>1, <1>3, <1>4, <2>1 DEF TypeInv, TypeOK, WindowStates, Rects, None
<1>6. PlaceIsKept' /\ ClosedIsSaved'
  BY <1>3, <1>4 DEF PlaceIsKept, ClosedIsSaved, None
<1> QED BY <1>3, <1>5, <1>6 DEF WindowInv, FullscreenIsSaved, AlwaysIsFull, ForcedIsFilled,
                               ScreensAreOffered, CurrentScreenKnown

\* A setting is changed: the window takes the state that updateWindowState()
\* gives it.
LEMMA BySettingKeeps ==
  ASSUME WindowInv, open, NEW v \in WindowStates, SameState([v EXCEPT !.fullscreen = w.fullscreen], w),
         v.geo = w.geo, v.queued = w.queued, v.geometry = w.geometry,
         BySetting(UpdateWindowState(v)),
         UNCHANGED <<screens, open, forced, always, current, choices>>
  PROVE  WindowInv'
<1> DEFINE u == UpdateWindowState(v)
<1>1. /\ w \in WindowStates /\ TypeOK /\ w.geo \in Rects /\ w.geo.screen \in screens
      /\ w.vis # "Hidden" /\ w.timers \in Nat /\ v.vis = w.vis /\ v.timers = w.timers
  BY OpenInv DEF WindowStates, SameState
<1>2. /\ w' = u /\ u.timers <= MaxTimers
      /\ place' = CASE u.vis = "Windowed"                           -> None
                    [] w.vis = "Windowed" /\ u.vis = "FullScreen"   -> w.geo
                    [] OTHER                                        -> place
      /\ own' = (u.vis = "FullScreen" /\ (own \/ u.timers > 0))
  BY DEF BySetting
<1>3. /\ u \in WindowStates /\ u.geo \in Rects /\ u.geo.screen \in screens
      /\ u.vis # "Hidden" /\ (v.queued => u.queued)
      /\ ~u.queued => u.geo.screen = v.geo.screen
      /\ v.fullscreen \/ always =>
           /\ u.vis = "FullScreen" /\ u.timers = v.timers + 1
           /\ v.fullscreen => u.fullscreen
           /\ v.vis = "FullScreen" => u.geometry = v.geometry
           /\ v.vis # "FullScreen" /\ v.geo.kind # "small" => u.geometry = v.geo
      /\ ~v.fullscreen /\ ~always => u.vis = "Windowed" /\ u.timers = v.timers /\ ~u.fullscreen
  BY <1>1, UpdateWindowStateFacts
<1> HIDE DEF u
<1>4. place' # None => u.vis = "FullScreen" /\ (place'.kind # "small" => u.geometry = place')
  <2>1. CASE v.fullscreen \/ always
    <3>1. CASE w.vis = "Windowed"
      BY <1>1, <1>2, <1>3, <2>1, <3>1
    <3>2. CASE w.vis # "Windowed"
      <4>1. place' = place
        BY <1>2, <1>3, <2>1, <3>2
      <4> QED BY <1>1, <1>3, <2>1, <4>1, OpenInv
    <3> QED BY <3>1, <3>2
  <2>2. CASE ~v.fullscreen /\ ~always
    BY <1>2, <1>3, <2>2
  <2> QED BY <2>1, <2>2
<1>5. ~u.queued => current = u.geo.screen
  BY <1>1, <1>3, OpenInv
<1>6. (u.vis = "FullScreen" \/ (u.vis = "Minimized" /\ u.fullscreen)) => u.timers # 0
  BY <1>1, <1>3
<1>7. /\ ~always => (u.vis = "FullScreen" => u.fullscreen) /\ (u.vis = "Windowed" => ~u.fullscreen)
      /\ always => u.vis # "Windowed"
  BY <1>3
<1>8. screens \cup {"", forced} \subseteq choices
  BY OpenInv
<1> QED BY <1>1, <1>2, <1>3, <1>4, <1>5, <1>6, <1>7, <1>8, OpenInvNext DEF TypeOK

LEMMA SetFullScreenKeeps ==
  ASSUME WindowInv, NEW b \in BOOLEAN, SetFullScreen(b)
  PROVE  WindowInv'
<1> DEFINE v == [w EXCEPT !.fullscreen = b]
<1>1. /\ open /\ BySetting(UpdateWindowState(v))
      /\ UNCHANGED <<screens, open, forced, always, current, choices>>
  BY DEF SetFullScreen
<1>2. w \in WindowStates
  BY DEF WindowInv, TypeInv
<1>3. /\ v \in WindowStates /\ SameState([v EXCEPT !.fullscreen = w.fullscreen], w)
      /\ v.geo = w.geo /\ v.queued = w.queued /\ v.geometry = w.geometry
  BY <1>2 DEF WindowStates, SameState
<1> HIDE DEF v
<1> QED BY <1>1, <1>3, BySettingKeeps

LEMMA SetAlwaysOnTopKeeps == WindowInv /\ SetAlwaysOnTop => WindowInv'
<1> SUFFICES ASSUME WindowInv, SetAlwaysOnTop
             PROVE  WindowInv'
  OBVIOUS
<1>1. /\ open /\ BySetting(UpdateWindowState(w))
      /\ UNCHANGED <<screens, open, forced, always, current, choices>>
  BY DEF SetAlwaysOnTop
<1>2. PICK v : v = w
  OBVIOUS
<1>3. v \in WindowStates
  BY <1>2 DEF WindowInv, TypeInv
<1>4. SameState([v EXCEPT !.fullscreen = w.fullscreen], w)
  BY <1>2, <1>3 DEF WindowStates, SameState
<1>5. BySetting(UpdateWindowState(v))
  BY <1>1, <1>2
<1> QED BY <1>1, <1>2, <1>3, <1>4, <1>5, BySettingKeeps

\* The window is moved to the screen s that is forced, and made full there.
LEMMA FillsForced ==
  ASSUME open, WindowInv, NEW s \in screens
  PROVE  LET u == SetVisibility(Moved(w, Full(s)), "FullScreen")
         IN  /\ u \in WindowStates /\ u.vis = "FullScreen" /\ u.timers = w.timers
             /\ u.geo = Full(s) /\ u.geo \in Rects
             /\ ~always => u.fullscreen
             /\ w.vis = "FullScreen" => u.geometry = w.geometry
             /\ ~u.queued => ~w.queued /\ s = w.geo.screen
<1> DEFINE m == Moved(w, Full(s))
           u == SetVisibility(m, "FullScreen")
<1>1. /\ w \in WindowStates /\ TypeOK /\ w.vis # "Hidden"
      /\ ~always => (w.vis = "FullScreen" => w.fullscreen)
  BY OpenInv
<1>2. Full(s) \in Rects /\ Full(s).screen = s
  BY <1>1, ScreenFacts
<1>3. /\ m \in WindowStates /\ SameState(m, w) /\ m.geo = Full(s) /\ m.geometry = w.geometry
      /\ m.queued = (w.queued \/ s # w.geo.screen)
  BY <1>1, <1>2, MovedFacts
<1> HIDE DEF m
<1>3a. m.geo \in Rects /\ m.geo.screen \in screens
  BY <1>2, <1>3
<1>4. /\ u \in WindowStates /\ u.timers = m.timers /\ u.geometry = m.geometry
      /\ u.vis = "FullScreen"
      /\ m.vis = "FullScreen" => u = m
      /\ m.vis # "FullScreen" => u.queued = TRUE /\ u.fullscreen = TRUE /\ u.geo = Full(m.geo.screen)
  BY <1>1, <1>3, <1>3a, SetVisibilityFacts
<1> HIDE DEF u
<1>5. u.geo = Full(s) /\ u.timers = w.timers /\ u.geometry = w.geometry
  BY <1>2, <1>3, <1>4 DEF SameState
<1>6. ~always => u.fullscreen
  BY <1>1, <1>3, <1>4 DEF SameState
<1>7. ~u.queued => ~w.queued /\ s = w.geo.screen
  BY <1>3, <1>4
<1> QED BY <1>2, <1>4, <1>5, <1>6, <1>7 DEF u, m

LEMMA SetForcedScreenKeeps ==
  ASSUME WindowInv, NEW f \in Screens \cup {""}, SetForcedScreen(f)
  PROVE  WindowInv'
<1>1. /\ open /\ open' /\ f \in choices /\ forced' = f
      /\ UNCHANGED <<screens, open, always, current, choices>>
      /\ w' = IF There(f) THEN SetVisibility(Moved(w, Full(f)), "FullScreen") ELSE w
      /\ place' = IF There(f) THEN None ELSE place
      /\ own' = (own \/ There(f))
  BY DEF SetForcedScreen
<1>2. /\ TypeOK /\ screens \subseteq Screens /\ screens # {} /\ always \in BOOLEAN /\ open \in BOOLEAN
  BY OpenInv, <1>1 DEF TypeOK
<1>3. screens \cup {"", f} \subseteq choices
  BY <1>1, OpenInv
<1>4. CASE There(f)
  <2>1. f \in screens /\ Full(f).screen = f
    BY <1>4 DEF There, Full
  <2>2. /\ w' \in WindowStates /\ w'.vis = "FullScreen" /\ w'.timers = w.timers
        /\ w'.geo = Full(f) /\ w'.geo \in Rects
        /\ ~always => w'.fullscreen
        /\ ~w'.queued => ~w.queued /\ f = w.geo.screen
    BY <1>1, <1>4, <2>1, FillsForced
  <2>3. w'.timers <= MaxTimers /\ (~w'.queued => current = w'.geo.screen)
    BY <1>1, <2>1, <2>2, OpenInv
  <2> QED BY <1>1, <1>2, <1>3, <1>4, <2>1, <2>2, <2>3, OpenInvNext
<1>5. CASE ~There(f)
  <2>1. w' = w /\ place' = place /\ (own' => own) /\ f \notin screens
    BY <1>1, <1>5 DEF There
  <2> QED BY <1>1, <1>2, <1>3, <2>1, OpenInv, OpenInvNext
<1> QED BY <1>4, <1>5

LEMMA TimerKeeps == WindowInv /\ Timer => WindowInv'
<1> SUFFICES ASSUME WindowInv, Timer
             PROVE  WindowInv'
  OBVIOUS
<1> DEFINE u == UpdateForcedScreen(w)
<1>1. /\ open /\ open' /\ w.timers > 0 /\ w' = [u EXCEPT !.timers = u.timers - 1]
      /\ place' = IF There(forced) /\ w.vis # "FullScreen" THEN None ELSE place
      /\ own' = (own \/ There(forced))
      /\ UNCHANGED <<screens, open, forced, always, current, choices>>
  BY DEF Timer
<1>2. /\ TypeOK /\ screens \subseteq Screens /\ screens # {} /\ always \in BOOLEAN /\ open \in BOOLEAN
      /\ forced \in Screens \cup {""} /\ w \in WindowStates
  BY OpenInv, <1>1 DEF TypeOK
<1>3. /\ u \in WindowStates /\ u.timers = w.timers /\ u.geo \in Rects /\ u.geo.screen \in screens
      /\ u.vis # "Hidden"
      /\ There(forced) => u.vis = "FullScreen" /\ u.geo = Full(forced) /\ (~always => u.fullscreen)
      /\ There(forced) /\ w.vis = "FullScreen" => u.geometry = w.geometry
      /\ ~There(forced) => u = w
      /\ ~u.queued => current = u.geo.screen
  <2>1. CASE There(forced)
    <3>1. forced \in screens /\ Full(forced).screen = forced
      BY <2>1 DEF There, Full
    <3>2. u = SetVisibility(Moved(w, Full(forced)), "FullScreen")
      BY <2>1 DEF UpdateForcedScreen
    <3> HIDE DEF u
    <3>3. /\ u \in WindowStates /\ u.vis = "FullScreen" /\ u.timers = w.timers
          /\ u.geo = Full(forced) /\ u.geo \in Rects
          /\ ~always => u.fullscreen
          /\ w.vis = "FullScreen" => u.geometry = w.geometry
          /\ ~u.queued => ~w.queued /\ forced = w.geo.screen
      BY <1>1, <3>1, <3>2, FillsForced
    <3> QED BY <1>1, <2>1, <3>1, <3>3, OpenInv
  <2>2. CASE ~There(forced)
    <3>1. u = w
      BY <2>2 DEF UpdateForcedScreen
    <3> HIDE DEF u
    <3> QED BY <1>1, <2>2, <3>1, OpenInv
  <2> QED BY <2>1, <2>2
<1> HIDE DEF u
<1>4. w.timers \in Nat /\ w.timers <= MaxTimers /\ MaxTimers \in Nat
  BY <1>1, OpenInv, TimersFact
<1>5. /\ w' \in WindowStates /\ w'.geo = u.geo /\ w'.vis = u.vis /\ w'.fullscreen = u.fullscreen
      /\ w'.queued = u.queued /\ w'.geometry = u.geometry /\ w'.timers <= MaxTimers
  <2>1. u.timers - 1 \in Nat /\ u.timers - 1 <= MaxTimers
    BY <1>1, <1>3, <1>4
  <2>2. PICK n : n = u.timers - 1
    OBVIOUS
  <2>3. w' = [u EXCEPT !.timers = n] /\ n \in Nat /\ n <= MaxTimers
    BY <1>1, <2>1, <2>2
  <2> QED BY <1>3, <2>3 DEF WindowStates
<1>6. /\ ~always => (w'.vis = "FullScreen" => w'.fullscreen) /\ (w'.vis = "Windowed" => ~w'.fullscreen)
      /\ always => w'.vis # "Windowed"
  BY <1>1, <1>3, <1>5, OpenInv
<1>7. There(forced) <=> forced \in screens
  BY DEF There
<1>8. place' # None => w'.vis = "FullScreen" /\ (place'.kind # "small" => w'.geometry = place')
  BY <1>1, <1>3, <1>5, OpenInv
<1>9. screens \cup {"", forced} \subseteq choices /\ (~w'.queued => current = w'.geo.screen)
  BY <1>1, <1>3, <1>5, OpenInv
<1>10. forced \in screens => w'.geo = Full(forced)
  BY <1>3, <1>5, <1>7
<1>11. w'.geo \in Rects /\ w'.geo.screen \in screens /\ w'.vis # "Hidden"
  BY <1>3, <1>5
<1> QED BY <1>1, <1>2, <1>5, <1>6, <1>8, <1>9, <1>10, <1>11, OpenInvNext

LEMMA UpdateCurrentScreenKeeps == WindowInv /\ UpdateCurrentScreen => WindowInv'
<1> SUFFICES ASSUME WindowInv, UpdateCurrentScreen
             PROVE  WindowInv'
  OBVIOUS
<1>1. /\ open /\ open' /\ w' = [w EXCEPT !.queued = FALSE]
      /\ UNCHANGED <<screens, open, forced, always, place, own>>
      /\ \/ UpdateScreens(w.geo, screens, forced)
         \/ FindCurrentScreen(w.geo) = current /\ UNCHANGED <<choices, current>>
  BY DEF UpdateCurrentScreen
<1>2. /\ TypeOK /\ screens \subseteq Screens /\ screens # {} /\ always \in BOOLEAN /\ open \in BOOLEAN
      /\ forced \in Screens \cup {""} /\ w \in WindowStates /\ w.geo.screen \in screens
  BY OpenInv, <1>1 DEF TypeOK
<1>3. /\ w' \in WindowStates /\ w'.geo = w.geo /\ w'.vis = w.vis /\ w'.fullscreen = w.fullscreen
      /\ w'.geometry = w.geometry /\ w'.timers = w.timers
  BY <1>1, <1>2 DEF WindowStates
<1>4. current' = w.geo.screen /\ screens \cup {"", forced} \subseteq choices'
  BY <1>1, <1>2, OpenInv DEF UpdateScreens, FindCurrentScreen
<1>5. /\ (w'.vis = "FullScreen" \/ (w'.vis = "Minimized" /\ w'.fullscreen))
           /\ own /\ w'.timers = 0 /\ forced \in screens => w'.geo = Full(forced)
      /\ ~always => (w'.vis = "FullScreen" => w'.fullscreen) /\ (w'.vis = "Windowed" => ~w'.fullscreen)
      /\ always => w'.vis # "Windowed"
      /\ place # None => w'.vis = "FullScreen" /\ (place.kind # "small" => w'.geometry = place)
  BY <1>1, <1>3, OpenInv DEF There
<1>6. /\ w'.geo \in Rects /\ w'.geo.screen \in screens /\ w'.vis # "Hidden"
      /\ w'.timers <= MaxTimers
  BY <1>1, <1>3, OpenInv
<1> QED BY <1>1, <1>2, <1>3, <1>4, <1>5, <1>6, OpenInvNext

-----------------------------------------------------------------------------
(* Screens come and go.                                                    *)

\* While there is no window, only the screens change.
LEMMA ScreensChangeClosed ==
  ASSUME WindowInv, ~open, screens' \subseteq Screens, screens' # {},
         UNCHANGED <<w, open, forced, always, place, own>>
  PROVE  WindowInv'
<1>1. TypeInv'
  BY DEF WindowInv, TypeInv, TypeOK, WindowStates, Rects, None
<1>2. PlaceIsKept' /\ ClosedIsSaved'
  BY DEF WindowInv, PlaceIsKept, ClosedIsSaved, None
<1> QED BY <1>1, <1>2 DEF WindowInv, FullscreenIsSaved, AlwaysIsFull, ForcedIsFilled,
                          ScreensAreOffered, CurrentScreenKnown

LEMMA OnScreenAddedKeeps ==
  ASSUME WindowInv, NEW s \in Screens, OnScreenAdded(s)
  PROVE  WindowInv'
<1>1. /\ screens' = screens \cup {s} /\ UNCHANGED <<open, forced, always, place, own>>
  BY DEF OnScreenAdded
<1>2. /\ TypeOK /\ screens' \subseteq Screens /\ screens' # {} /\ always \in BOOLEAN
      /\ open \in BOOLEAN /\ forced \in Screens \cup {""}
  BY <1>1 DEF TypeOK, WindowInv, TypeInv
<1>3. CASE ~open
  BY <1>1, <1>2, <1>3, ScreensChangeClosed DEF OnScreenAdded
<1>4. CASE open
  <2>1. /\ w.timers < MaxTimers /\ w' = [w EXCEPT !.timers = w.timers + 1]
        /\ UpdateScreens(w.geo, screens', forced)
    BY <1>4 DEF OnScreenAdded
  <2>2. w \in WindowStates /\ w.timers \in Nat /\ MaxTimers \in Nat /\ w.geo.screen \in screens'
    BY <1>1, <1>4, OpenInv, TimersFact
  <2>3. PICK n \in Nat : n = w.timers + 1 /\ n > 0 /\ n <= MaxTimers
    BY <2>1, <2>2
  <2>4. w' = [w EXCEPT !.timers = n]
    BY <2>1, <2>3
  <2>5. /\ w' \in WindowStates /\ w'.geo = w.geo /\ w'.vis = w.vis /\ w'.fullscreen = w.fullscreen
        /\ w'.geometry = w.geometry /\ w'.timers = n
    BY <2>2, <2>4 DEF WindowStates
  <2>6. w'.timers # 0 /\ w'.timers <= MaxTimers
    BY <2>3, <2>5
  <2>7. current' = w'.geo.screen /\ screens' \cup {"", forced} \subseteq choices'
    BY <2>1, <2>2, <2>5 DEF UpdateScreens
  <2> QED BY <1>1, <1>2, <1>4, <2>2, <2>5, <2>6, <2>7, OpenInv, OpenInvNext
<1> QED BY <1>3, <1>4

LEMMA OnScreenRemovedKeeps ==
  ASSUME WindowInv, NEW s \in Screens, OnScreenRemoved(s)
  PROVE  WindowInv'
<1>1. /\ screens' = screens \ {s} /\ s \in screens /\ screens # {s}
      /\ UNCHANGED <<open, forced, always, place, own>>
  BY DEF OnScreenRemoved
<1>2. /\ TypeOK /\ screens' \subseteq Screens /\ screens' # {} /\ always \in BOOLEAN
      /\ open \in BOOLEAN /\ forced \in Screens \cup {""}
  BY <1>1 DEF TypeOK, WindowInv, TypeInv
<1>3. CASE ~open
  BY <1>1, <1>2, <1>3, ScreensChangeClosed DEF OnScreenRemoved
<1>4. CASE open
  <2>1. /\ \/ w.geo.screen = s /\ \E t \in screens' : w' = Moved(w, [w.geo EXCEPT !.screen = t])
           \/ w.geo.screen # s /\ w' = w
        /\ UpdateScreens(w'.geo, screens', forced)
    BY <1>4 DEF OnScreenRemoved
  <2>2. w \in WindowStates /\ w.geo \in Rects /\ w.geo.screen \in screens
    BY <1>4, OpenInv
  <2>3. /\ w' \in WindowStates /\ SameState(w', w) /\ w'.geometry = w.geometry
        /\ w'.geo \in Rects /\ w'.geo.screen \in screens'
        /\ w.geo.screen # s => w' = w
    <3>1. ASSUME NEW t \in screens'
          PROVE  [w.geo EXCEPT !.screen = t] \in Rects /\ [w.geo EXCEPT !.screen = t].screen = t
      BY <1>2, <2>2 DEF Rects
    <3>2. ASSUME NEW t \in screens', w' = Moved(w, [w.geo EXCEPT !.screen = t])
          PROVE  /\ w' \in WindowStates /\ SameState(w', w) /\ w'.geometry = w.geometry
                 /\ w'.geo \in Rects /\ w'.geo.screen = t
      <4>1. PICK r : r = [w.geo EXCEPT !.screen = t]
        OBVIOUS
      <4>2. r \in Rects /\ r.screen = t /\ w' = Moved(w, r)
        BY <3>1, <3>2, <4>1
      <4> QED BY <2>2, <4>2, MovedFacts
    <3> QED BY <1>1, <2>1, <2>2, <3>2 DEF SameState
  <2>4. current' = w'.geo.screen /\ screens' \cup {"", forced} \subseteq choices'
    BY <2>1, <2>3 DEF UpdateScreens
  <2>5. (w'.vis = "FullScreen" \/ (w'.vis = "Minimized" /\ w'.fullscreen))
          /\ own /\ w'.timers = 0 /\ forced \in screens' => w'.geo = Full(forced)
    <3>1. ASSUME w'.vis = "FullScreen" \/ (w'.vis = "Minimized" /\ w'.fullscreen),
                 own, w'.timers = 0, forced \in screens'
          PROVE  w.geo = Full(forced) /\ w.geo.screen # s
      <4>1. There(forced) /\ forced # s /\ Full(forced).screen = forced
        BY <1>1, <3>1 DEF There, Full
      <4> QED BY <1>4, <2>3, <3>1, <4>1, OpenInv DEF SameState
    <3> QED BY <2>3, <3>1
  <2>6. /\ w'.timers <= MaxTimers /\ w'.vis # "Hidden"
        /\ ~always => (w'.vis = "FullScreen" => w'.fullscreen) /\ (w'.vis = "Windowed" => ~w'.fullscreen)
        /\ always => w'.vis # "Windowed"
        /\ place # None => w'.vis = "FullScreen" /\ (place.kind # "small" => w'.geometry = place)
    BY <1>4, <2>3, OpenInv DEF SameState
  <2> QED BY <1>1, <1>2, <1>4, <2>3, <2>4, <2>5, <2>6, OpenInvNext
<1> QED BY <1>3, <1>4

-----------------------------------------------------------------------------
(* The window manager, the user, and the program on their behalf.          *)

\* SetVisibilityFacts for the window itself.
LEMMA Shown ==
  ASSUME open, WindowInv, NEW x \in {"Windowed", "FullScreen", "Minimized"}
  PROVE  LET u == SetVisibility(w, x)
         IN  /\ u \in WindowStates /\ u.timers = w.timers /\ u.geometry = w.geometry
             /\ u.geo \in Rects /\ u.geo.screen \in screens /\ u.vis # "Hidden"
             /\ x = w.vis => u = w
             /\ x # w.vis => u.queued = TRUE
             /\ x = "FullScreen" => u.vis = "FullScreen"
             /\ x = "FullScreen" /\ x # w.vis => u.fullscreen = TRUE /\ u.geo = Full(w.geo.screen)
             /\ x = "Minimized" => u.vis = "Minimized" /\ u.fullscreen = w.fullscreen /\ u.geo = w.geo
             /\ x = "Windowed" /\ x # w.vis /\ always =>
                  u.vis = "FullScreen" /\ u.fullscreen = TRUE /\ u.geo = Refilled(w)
             /\ x = "Windowed" /\ ~always => u.vis = "Windowed" /\ u.geo = w.geo
             /\ x = "Windowed" /\ x # w.vis /\ ~always => u.fullscreen = FALSE
<1>1. w \in WindowStates /\ TypeOK /\ w.geo \in Rects /\ w.geo.screen \in screens
  BY OpenInv
<1> QED BY <1>1, SetVisibilityFacts

\* What a step that leaves the screens and their settings alone owes.
LEMMA VisibleNext ==
  ASSUME open, WindowInv, UNCHANGED <<screens, open, forced, always, current, choices>>,
         w' \in WindowStates, w'.geo \in Rects, w'.geo.screen \in screens,
         w'.vis # "Hidden", w'.timers = w.timers,
         ~always => (w'.vis = "FullScreen" => w'.fullscreen) /\ (w'.vis = "Windowed" => ~w'.fullscreen),
         always => w'.vis # "Windowed",
         (w'.vis = "FullScreen" \/ (w'.vis = "Minimized" /\ w'.fullscreen))
              /\ own' /\ w.timers = 0 /\ There(forced) => w'.geo = Full(forced),
         place' = None,
         ~w'.queued => ~w.queued /\ w'.geo.screen = w.geo.screen
  PROVE  WindowInv'
<1>1. /\ TypeOK /\ screens \subseteq Screens /\ screens # {} /\ always \in BOOLEAN
      /\ open \in BOOLEAN /\ forced \in Screens \cup {""} /\ w'.timers <= MaxTimers
      /\ screens \cup {"", forced} \subseteq choices
      /\ ~w'.queued => current = w'.geo.screen
  BY OpenInv DEF TypeOK
<1>2. There(forced) <=> forced \in screens
  BY DEF There
<1> QED BY <1>1, <1>2, OpenInvNext

LEMMA MinimizeWindowKeeps == WindowInv /\ MinimizeWindow => WindowInv'
<1> SUFFICES ASSUME WindowInv, MinimizeWindow
             PROVE  WindowInv'
  OBVIOUS
<1>1. /\ open /\ w.vis # "FullScreen" /\ w' = SetVisibility(w, "Minimized")
      /\ UNCHANGED <<screens, open, forced, always, current, choices, place, own>>
  BY DEF MinimizeWindow
<1>2. place = None
  BY <1>1, OpenInv
<1>3. /\ w' \in WindowStates /\ w'.timers = w.timers /\ w'.geo = w.geo
      /\ w'.vis = "Minimized" /\ w'.fullscreen = w.fullscreen
      /\ w.vis = "Minimized" => w' = w
      /\ w.vis # "Minimized" => w'.queued = TRUE
  BY <1>1, Shown
<1>4. w.geo \in Rects /\ w.geo.screen \in screens /\ w.vis \in {"Windowed", "Minimized"}
  BY <1>1, OpenInv DEF WindowStates
<1>5. w.fullscreen /\ own /\ w.timers = 0 /\ There(forced) => w.geo = Full(forced)
  BY <1>1, <1>4, OpenInv
<1> QED BY <1>1, <1>2, <1>3, <1>4, <1>5, VisibleNext

LEMMA OtherAppFocusKeeps == WindowInv /\ OtherAppFocus => WindowInv'
<1> SUFFICES ASSUME WindowInv, OtherAppFocus
             PROVE  WindowInv'
  OBVIOUS
<1>1. /\ open /\ w.vis = "Minimized"
      /\ UNCHANGED <<screens, open, forced, always, current, choices, place, own>>
  BY DEF OtherAppFocus
<1>2. place = None
  BY <1>1, OpenInv
<1>3. CASE w.fullscreen
  <2>1. w' = SetVisibility(w, "FullScreen")
    BY <1>3 DEF OtherAppFocus
  <2>2. /\ w' \in WindowStates /\ w'.timers = w.timers /\ w'.geo \in Rects
        /\ w'.geo.screen \in screens /\ w'.vis = "FullScreen" /\ w'.queued = TRUE
        /\ w'.fullscreen = TRUE /\ w'.geo = Full(w.geo.screen)
    BY <1>1, <2>1, Shown
  <2>3. own /\ w.timers = 0 /\ There(forced) => w'.geo = Full(forced)
    <3>1. Full(forced).screen = forced
      BY DEF Full
    <3> QED BY <1>1, <1>3, <2>2, <3>1, OpenInv
  <2> QED BY <1>1, <1>2, <2>2, <2>3, VisibleNext
<1>4. CASE ~w.fullscreen
  <2>1. w' = SetVisibility(w, "Windowed")
    BY <1>4 DEF OtherAppFocus
  <2>2. /\ w' \in WindowStates /\ w'.timers = w.timers /\ w'.geo \in Rects
        /\ w'.geo.screen \in screens /\ w'.vis # "Hidden" /\ w'.queued = TRUE
        /\ always => w'.vis = "FullScreen" /\ w'.fullscreen = TRUE /\ w'.geo = Refilled(w)
        /\ ~always => w'.vis = "Windowed" /\ w'.fullscreen = FALSE
    BY <1>1, <2>1, Shown
  <2>3. always /\ There(forced) => w'.geo = Full(forced)
    BY <2>2 DEF Refilled
  <2> QED BY <1>1, <1>2, <2>2, <2>3, VisibleNext
<1> QED BY <1>3, <1>4

\* The user puts the window somewhere.
LEMMA ChosenMoves ==
  ASSUME open, WindowInv, NEW r \in Chosen
  PROVE  LET m == Moved(w, r)
         IN  /\ r \in Rects /\ r.screen \in screens
             /\ m \in WindowStates /\ SameState(m, w) /\ m.geo = r
             /\ ~m.queued => ~w.queued /\ r.screen = w.geo.screen
<1>1. r \in Rects /\ r.screen \in screens /\ w \in WindowStates
  BY OpenInv, ScreenFacts DEF Chosen, Rects
<1> QED BY <1>1, MovedFacts

LEMMA UserKeeps ==
  ASSUME WindowInv,
         UserFills \/ UserMinimizes \/ \E r \in Chosen : UserMoves(r) \/ UserUnfills(r)
  PROVE  WindowInv'
<1>1. CASE UserFills
  <2>1. /\ open /\ w.vis = "Windowed" /\ w' = SetVisibility(w, "FullScreen")
        /\ place' = None /\ own' = FALSE
        /\ UNCHANGED <<screens, open, forced, always, current, choices>>
    BY <1>1 DEF UserFills
  <2>2. /\ w' \in WindowStates /\ w'.timers = w.timers /\ w'.geo \in Rects
        /\ w'.geo.screen \in screens /\ w'.vis = "FullScreen" /\ w'.queued = TRUE
        /\ w'.fullscreen = TRUE
    BY <2>1, Shown
  <2> QED BY <2>1, <2>2, VisibleNext
<1>2. CASE UserMinimizes
  <2>1. /\ open /\ w.vis = "FullScreen" /\ w' = SetVisibility(w, "Minimized")
        /\ place' = None
        /\ UNCHANGED <<screens, open, forced, always, current, choices, own>>
    BY <1>2 DEF UserMinimizes
  <2>2. /\ w' \in WindowStates /\ w'.timers = w.timers /\ w'.geo \in Rects
        /\ w'.geo.screen \in screens /\ w'.vis = "Minimized" /\ w'.queued = TRUE
        /\ w'.geo = w.geo
    BY <2>1, Shown
  <2>3. own /\ w.timers = 0 /\ There(forced) => w'.geo = Full(forced)
    BY <2>1, <2>2, OpenInv
  <2> QED BY <2>1, <2>2, <2>3, VisibleNext
<1>3. ASSUME NEW r \in Chosen, UserMoves(r)
      PROVE  WindowInv'
  <2>1. /\ open /\ w.vis = "Windowed" /\ w' = Moved(w, r)
        /\ UNCHANGED <<screens, open, forced, always, current, choices, place, own>>
    BY <1>3 DEF UserMoves
  <2>2. /\ w' \in WindowStates /\ SameState(w', w) /\ w'.geo \in Rects /\ w'.geo.screen \in screens
        /\ ~w'.queued => ~w.queued /\ w'.geo.screen = w.geo.screen
    BY <2>1, ChosenMoves
  <2>3. /\ place = None /\ w'.vis = "Windowed" /\ w'.timers = w.timers
        /\ ~always /\ ~w'.fullscreen
    BY <2>1, <2>2, OpenInv DEF SameState
  <2> QED BY <2>1, <2>2, <2>3, VisibleNext
<1>4. ASSUME NEW r \in Chosen, UserUnfills(r)
      PROVE  WindowInv'
  <2> DEFINE m == Moved(w, r)
  <2>1. /\ open /\ w.vis = "FullScreen" /\ w' = SetVisibility(m, "Windowed")
        /\ place' = None /\ own' = FALSE
        /\ UNCHANGED <<screens, open, forced, always, current, choices>>
    BY <1>4 DEF UserUnfills
  <2>2. TypeOK /\ m \in WindowStates /\ SameState(m, w) /\ m.geo \in Rects /\ m.geo.screen \in screens
    BY <2>1, ChosenMoves, OpenInv
  <2>3. m.vis = "FullScreen" /\ m.timers = w.timers
    BY <2>1, <2>2 DEF SameState
  <2> HIDE DEF m
  <2>4. /\ w' \in WindowStates /\ w'.timers = m.timers /\ w'.geo \in Rects
        /\ w'.geo.screen \in screens /\ w'.vis # "Hidden" /\ w'.queued = TRUE
        /\ always => w'.vis = "FullScreen" /\ w'.fullscreen = TRUE
        /\ ~always => w'.vis = "Windowed" /\ w'.fullscreen = FALSE
    BY <2>1, <2>2, <2>3, SetVisibilityFacts
  <2> QED BY <2>1, <2>3, <2>4, VisibleNext
<1> QED BY <1>1, <1>2, <1>3, <1>4

-----------------------------------------------------------------------------
(* The invariant.                                                          *)

LEMMA WindowInit == Init => WindowInv
<1> SUFFICES ASSUME Init
             PROVE  WindowInv
  OBVIOUS
<1>1. PICK full \in BOOLEAN :
        w = [vis |-> "Hidden", geo |-> None, queued |-> FALSE, timers |-> 0,
             fullscreen |-> full, geometry |-> None]
  BY DEF Init
<1>2. /\ screens \subseteq Screens /\ screens # {} /\ open = FALSE /\ place = None
      /\ forced \in Screens \cup {""} /\ always \in BOOLEAN
  BY DEF Init
<1>3. w \in WindowStates /\ None.kind # "small"
  BY <1>1 DEF WindowStates, None
<1>4. TypeOK
  BY <1>1, <1>2, <1>3, TimersFact DEF TypeOK
<1> QED BY <1>1, <1>2, <1>3, <1>4
        DEF WindowInv, TypeInv, FullscreenIsSaved, AlwaysIsFull, ForcedIsFilled, PlaceIsKept,
            ClosedIsSaved, ScreensAreOffered, CurrentScreenKnown

LEMMA WindowStep == WindowInv /\ [Next]_vars => WindowInv'
<1> SUFFICES ASSUME WindowInv, [Next]_vars
             PROVE  WindowInv'
  OBVIOUS
<1>1. CASE UNCHANGED vars
  BY <1>1 DEF vars, WindowInv, TypeInv, TypeOK, WindowStates, Rects, None, FullscreenIsSaved,
     AlwaysIsFull, ForcedIsFilled, PlaceIsKept, ClosedIsSaved, ScreensAreOffered,
     CurrentScreenKnown, FindCurrentScreen, First, There, Full
<1>2. CASE Next
  BY <1>2, StartKeeps, CloseKeeps, SetAlwaysOnTopKeeps, TimerKeeps, UpdateCurrentScreenKeeps,
     MinimizeWindowKeeps, OtherAppFocusKeeps, UserKeeps, SetFullScreenKeeps,
     SetForcedScreenKeeps, OnScreenAddedKeeps, OnScreenRemovedKeeps DEF Next
<1> QED BY <1>1, <1>2

LEMMA WindowCorrect == Spec => []WindowInv
BY WindowInit, WindowStep, PTL DEF Spec

\* Settings, screens and the window agree, whichever of the five parties
\* (settings, timers, screens, window manager, user) moved last.
THEOREM SettingsFollowed == Spec => []FollowsSettings
<1>1. WindowInv => FollowsSettings
  BY DEF WindowInv, TypeInv, FollowsSettings, ForcedIsFilled, ForcedScreenIsUsed
<1> QED BY <1>1, WindowCorrect, PTL

\* updateWindowState() takes the window back to where saveGeometry() found
\* it, and the next program opens it where closingWindow() left it.
THEOREM PlaceIsKnown == Spec => KeepsItsPlace
<1> DEFINE Returns ==
             SetFullScreen(FALSE) /\ w'.vis = "Windowed"
               /\ place.kind \notin {"none", "small"} /\ place.screen \in screens
             => w'.geo = place
           Reopens ==
             ~open /\ open' /\ ~w.fullscreen /\ ~always
               /\ w.geo.kind \in Places \ {"small"} /\ w.geo.screen \in screens
             => w'.geo = w.geo
<1>1. ASSUME WindowInv, SetFullScreen(FALSE), w'.vis = "Windowed",
             place.kind \notin {"none", "small"}, place.screen \in screens
      PROVE  w'.geo = place
  <2> DEFINE v == [w EXCEPT !.fullscreen = FALSE]
  <2>1. open /\ w' = UpdateWindowState(v)
    BY <1>1 DEF SetFullScreen, BySetting
  <2>2. /\ w \in WindowStates /\ TypeOK /\ w.geo \in Rects /\ w.geo.screen \in screens
        /\ w.vis # "Hidden" /\ w.vis = "FullScreen" /\ w.geometry = place /\ place # None
    <3>1. place # None
      <4>1. None.kind = "none"
        BY DEF None
      <4> QED BY <1>1, <4>1
    <3> QED BY <1>1, <2>1, <3>1, OpenInv
  <2>3. /\ v \in WindowStates /\ ~v.fullscreen /\ v.geometry = place /\ v.geo = w.geo /\ v.vis = w.vis
    BY <2>2 DEF WindowStates
  <2> HIDE DEF v
  <2>4. FitsInScreens(place)
    BY <1>1 DEF FitsInScreens
  <2>5. ~always
    BY <1>1, <2>1, <2>2, <2>3, UpdateWindowStateFacts
  <2> QED BY <2>1, <2>2, <2>3, <2>4, <2>5, UpdateWindowStateFacts
<1>2. ASSUME WindowInv, Start, ~w.fullscreen, ~always,
             w.geo.kind \in Places \ {"small"}, w.geo.screen \in screens
      PROVE  w'.geo = w.geo
  <2> DEFINE q == [w EXCEPT !.queued = TRUE]
             v == LoadGeometry(q)
             h == SetVisibility(v, "Windowed")
  <2>1. /\ TypeOK /\ w \in WindowStates /\ ~open /\ w.vis = "Hidden"
        /\ w.geo # None /\ w.geometry = w.geo /\ FitsInScreens(w.geo)
    <3>1. TypeOK /\ w \in WindowStates /\ ~open
      BY <1>2 DEF WindowInv, TypeInv, Start
    <3>2. w.vis = "Hidden" /\ w.geo # None
      BY <1>2, <3>1, ScreenFacts DEF TypeOK, FitsInScreens
    <3>3. w.geometry = w.geo
      BY <1>2, <3>1, <3>2 DEF WindowInv, ClosedIsSaved
    <3> QED BY <1>2, <3>1, <3>2, <3>3 DEF FitsInScreens
  <2>2. /\ q \in WindowStates /\ q.fullscreen = FALSE /\ q.vis = "Hidden" /\ q.geometry = w.geo
    BY <1>2, <2>1 DEF WindowStates
  <2> HIDE DEF q
  <2>3. /\ v \in WindowStates /\ SameState(v, q) /\ v.geo \in Rects /\ v.geo.screen \in screens
        /\ v.geo = w.geo /\ v.geometry = w.geo
    BY <2>1, <2>2, LoadGeometryFacts
  <2>4. ~v.fullscreen
    BY <2>2, <2>3 DEF SameState
  <2>5. w' = LoadGeometry(h)
    BY <1>2, <2>4 DEF Start, q
  <2> HIDE DEF v
  <2>6. h \in WindowStates /\ h.geometry = w.geo
    BY <2>1, <2>3, SetVisibilityFacts
  <2> HIDE DEF h
  <2> QED BY <2>1, <2>5, <2>6, LoadGeometryFacts
<1>3. WindowInv /\ [Next]_vars => [Returns]_vars
  BY <1>1
<1>4. WindowInv /\ [Next]_vars => [Reopens]_vars
  <2> SUFFICES ASSUME WindowInv, Next, ~open, open', ~w.fullscreen, ~always,
                      w.geo.kind \in Places \ {"small"}, w.geo.screen \in screens
               PROVE  w'.geo = w.geo
    BY DEF vars
  <2>1. Start
    BY DEF Next, Close, SetAlwaysOnTop, Timer, UpdateCurrentScreen, MinimizeWindow,
       OtherAppFocus, UserFills, UserMinimizes, SetFullScreen, SetForcedScreen, OnScreenAdded,
       OnScreenRemoved, UserMoves, UserUnfills
  <2> QED BY <1>2, <2>1
<1>5. Spec => [][Returns]_vars
  BY <1>3, WindowCorrect, PTL DEF Spec
<1>6. Spec => [][Reopens]_vars
  BY <1>4, WindowCorrect, PTL DEF Spec
<1> QED BY <1>5, <1>6 DEF KeepsItsPlace, ReturnsToItsPlace, ReopensInPlace
=============================================================================
