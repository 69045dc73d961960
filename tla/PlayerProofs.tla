----------------------------- MODULE PlayerProofs -----------------------------
(***************************************************************************)
(* Proofs about Player, for any files, any calls of the web client, any    *)
(* bound on the playlist, and any display that DisplaySwitch allows.       *)
(***************************************************************************)
EXTENDS Player, FiniteSetTheorems, TLAPS

-----------------------------------------------------------------------------
(* The inductive invariant.                                                *)

CoreStates ==
  [phase : {"idle", "on_load", "on_preloaded", "playing"},
   file : Files \cup {NoFile}, blocked : BOOLEAN, stopping : BOOLEAN]
CoreTypes ==
  /\ core \in CoreStates
  /\ core.file = NoFile <=> core.phase = "idle"
  /\ core.blocked => core.phase \in {"on_load", "on_preloaded"}
  /\ core.stopping => core.phase # "idle"

PlaylistTypes == playlist \in Seq(Files) /\ Len(playlist) <= MaxPlaylist

Events ==
  {Event("START_FILE", ""), Event("HOOK", "on_load"), Event("HOOK", "on_preloaded")}
    \cup {Event("END_FILE", reason) : reason \in EndReasons}
EventTypes == events \in Seq(Events)

Resumes == [hook : {"on_load", "on_preloaded"}, after : {"delay", "codecs"}]
ResumeTypes == resumes \subseteq Resumes

States == {"finished", "canceled", "error", "paused", "playing", "buffering"}
FlagTypes ==
  /\ {selected, m_media} \subseteq Files \cup {NoFile}
  /\ {paused, buffering, wakeup, busy, autoSwitch} \subseteq BOOLEAN
  /\ m_state \in States
  /\ {m_inPlayback, m_playbackError, m_playbackCanceled, m_paused, m_playbackActive,
      m_windowVisible, m_videoPlaybackActive, m_restoreDisplayTimer,
      m_streamSwitchImminent} \subseteq BOOLEAN
  /\ lastEnd \in EndReasons

\* The events of hooks in the queue.
Hooks(queue) == {i \in 1 .. Len(queue) : queue[i].type = "HOOK"}

\* What HookHasOneOwner counts, without counting.
HookIsHeld ==
  /\ \A i, j \in Hooks(events) : i = j
  /\ \A r, s \in resumes : r = s
  /\ Hooks(events) = {} \/ resumes = {}
  /\ core.blocked <=> Hooks(events) # {} \/ resumes # {}
  /\ \A i \in Hooks(events) : events[i].arg = core.phase
  /\ \A r \in resumes : r.hook = core.phase

\* Only hooks come in the queue after the event at i.
LastFile(queue, i) == \A j \in 1 .. Len(queue) : j > i => queue[j].type = "HOOK"

\* The last event of a file that is not handled yet tells what mpv does,
\* and when all are handled then the player knows.
FileIsKnown ==
  /\ \A i \in 1 .. Len(events) : LastFile(events, i) =>
       /\ events[i].type = "START_FILE" => core.phase # "idle"
       /\ events[i].type = "END_FILE" => core.phase = "idle" /\ lastEnd = events[i].arg
  /\ LastFile(events, 0) =>
       /\ m_inPlayback <=> core.phase # "idle"
       /\ core.phase = "idle" =>
            /\ m_playbackError <=> lastEnd = "error"
            /\ m_playbackCanceled <=> lastEnd = "stop"

\* When handleMpvEvents neither runs nor is going to, it has left nothing.
NothingIsLeft ==
  ~wakeup /\ ~busy =>
    /\ events = <<>>
    /\ m_paused = paused /\ m_playbackActive = Progressing
    /\ m_state = NewState

PlayerInv ==
  /\ CoreTypes /\ PlaylistTypes /\ EventTypes /\ ResumeTypes /\ FlagTypes
  /\ HookIsHeld /\ FileIsKnown /\ NothingIsLeft

-----------------------------------------------------------------------------
(* The queue of events, after each operation on it.                        *)

LEMMA TypesOfEvents ==
  /\ \A e \in Events : e.type \in {"START_FILE", "END_FILE", "HOOK"}
  /\ \A e \in Events : e.type = "HOOK" => e.arg \in {"on_load", "on_preloaded"}
  /\ \A e \in Events : e.type = "END_FILE" => e.arg \in EndReasons
  /\ Event("START_FILE", "") \in Events /\ Event("START_FILE", "").type = "START_FILE"
  /\ \A hook \in {"on_load", "on_preloaded"} :
       /\ Event("HOOK", hook) \in Events
       /\ Event("HOOK", hook).type = "HOOK" /\ Event("HOOK", hook).arg = hook
  /\ \A reason \in EndReasons :
       /\ Event("END_FILE", reason) \in Events
       /\ Event("END_FILE", reason).type = "END_FILE"
       /\ Event("END_FILE", reason).arg = reason
<1>1. \A e \in Events :
        \/ e.type = "START_FILE"
        \/ e.type = "HOOK" /\ e.arg \in {"on_load", "on_preloaded"}
        \/ e.type = "END_FILE" /\ e.arg \in EndReasons
  <2> SUFFICES ASSUME NEW e \in Events
               PROVE  \/ e.type = "START_FILE"
                      \/ e.type = "HOOK" /\ e.arg \in {"on_load", "on_preloaded"}
                      \/ e.type = "END_FILE" /\ e.arg \in EndReasons
    OBVIOUS
  <2>1. CASE e = Event("START_FILE", "")
    BY <2>1 DEF Event
  <2>2. CASE e = Event("HOOK", "on_load") \/ e = Event("HOOK", "on_preloaded")
    BY <2>2 DEF Event
  <2>3. ASSUME NEW reason \in EndReasons, e = Event("END_FILE", reason)
        PROVE  e.type = "END_FILE" /\ e.arg \in EndReasons
    BY <2>3 DEF Event
  <2> QED BY <2>1, <2>2, <2>3 DEF Events
<1>2. Event("START_FILE", "") \in Events /\ Event("START_FILE", "").type = "START_FILE"
  BY DEF Events, Event
<1>3. \A hook \in {"on_load", "on_preloaded"} :
        /\ Event("HOOK", hook) \in Events
        /\ Event("HOOK", hook).type = "HOOK" /\ Event("HOOK", hook).arg = hook
  BY DEF Events, Event
<1>4. \A reason \in EndReasons :
        /\ Event("END_FILE", reason) \in Events
        /\ Event("END_FILE", reason).type = "END_FILE"
        /\ Event("END_FILE", reason).arg = reason
  BY DEF Events, Event
<1>5. \A e \in Events : e.type \in {"START_FILE", "END_FILE", "HOOK"}
  BY <1>1
<1>6. \A e \in Events : e.type = "HOOK" => e.arg \in {"on_load", "on_preloaded"}
  BY <1>1
<1>7. \A e \in Events : e.type = "END_FILE" => e.arg \in EndReasons
  BY <1>1
<1> QED BY <1>2, <1>3, <1>4, <1>5, <1>6, <1>7

LEMMA TwoAdded ==
  ASSUME NEW queue \in Seq(Events), NEW a \in Events, NEW b \in Events
  PROVE  queue \o <<a, b>> = Append(Append(queue, a), b)
OBVIOUS

LEMMA EventAdded ==
  ASSUME NEW queue \in Seq(Events), NEW e \in Events
  PROVE  /\ Append(queue, e) \in Seq(Events)
         /\ Len(Append(queue, e)) = Len(queue) + 1
         /\ \A i \in 1 .. Len(queue) : Append(queue, e)[i] = queue[i]
         /\ Append(queue, e)[Len(queue) + 1] = e
OBVIOUS

LEMMA EventTaken ==
  ASSUME NEW queue \in Seq(Events), queue # <<>>
  PROVE  /\ Tail(queue) \in Seq(Events) /\ Len(queue) \in Nat \ {0}
         /\ Len(Tail(queue)) = Len(queue) - 1
         /\ \A i \in 1 .. Len(queue) - 1 : Tail(queue)[i] = queue[i + 1]
         /\ Head(queue) = queue[1] /\ Head(queue) \in Events
OBVIOUS

LEMMA HooksAdded ==
  ASSUME NEW queue \in Seq(Events), NEW e \in Events
  PROVE  /\ e.type # "HOOK" => Hooks(Append(queue, e)) = Hooks(queue)
         /\ e.type = "HOOK" => Hooks(Append(queue, e)) = Hooks(queue) \cup {Len(queue) + 1}
<1> PICK q : q = Append(queue, e)
  OBVIOUS
<1>1. /\ Len(queue) \in Nat /\ Len(q) = Len(queue) + 1
      /\ \A i \in 1 .. Len(queue) : q[i] = queue[i]
      /\ q[Len(queue) + 1] = e
  BY EventAdded
<1>2. 1 .. Len(q) = (1 .. Len(queue)) \cup {Len(queue) + 1}
  BY <1>1
<1>3. e.type # "HOOK" => Hooks(q) = Hooks(queue)
  BY <1>1, <1>2 DEF Hooks
<1>4. e.type = "HOOK" => Hooks(q) = Hooks(queue) \cup {Len(queue) + 1}
  BY <1>1, <1>2 DEF Hooks
<1> QED BY <1>3, <1>4

\* The rest of the queue has its hooks one place earlier.
LEMMA HooksTaken ==
  ASSUME NEW queue \in Seq(Events), queue # <<>>
  PROVE  /\ \A i \in Hooks(Tail(queue)) :
              i + 1 \in Hooks(queue) /\ i + 1 # 1 /\ Tail(queue)[i] = queue[i + 1]
         /\ Head(queue).type = "HOOK" => 1 \in Hooks(queue)
         /\ \A i \in Hooks(queue) : i # 1 => i - 1 \in Hooks(Tail(queue))
         /\ Head(queue).type # "HOOK" => 1 \notin Hooks(queue)
<1> PICK q : q = Tail(queue)
  OBVIOUS
<1>1. /\ Len(queue) \in Nat \ {0} /\ Len(q) = Len(queue) - 1
      /\ \A i \in 1 .. Len(queue) - 1 : q[i] = queue[i + 1]
      /\ Head(queue) = queue[1]
  BY EventTaken
<1>2. \A i \in Hooks(q) : i + 1 \in Hooks(queue) /\ i + 1 # 1 /\ q[i] = queue[i + 1]
  BY <1>1 DEF Hooks
<1>3. \A i \in Hooks(queue) : i # 1 => i - 1 \in Hooks(q)
  BY <1>1 DEF Hooks
<1>4. 1 \in Hooks(queue) <=> Head(queue).type = "HOOK"
  BY <1>1 DEF Hooks
<1> QED BY <1>2, <1>3, <1>4

LEMMA LastAdded ==
  ASSUME NEW queue \in Seq(Events), NEW e \in Events, NEW i \in 0 .. Len(queue)
  PROVE  LastFile(Append(queue, e), i) <=> LastFile(queue, i) /\ e.type = "HOOK"
<1> PICK q : q = Append(queue, e)
  OBVIOUS
<1>1. /\ Len(queue) \in Nat /\ Len(q) = Len(queue) + 1
      /\ \A j \in 1 .. Len(queue) : q[j] = queue[j]
      /\ q[Len(queue) + 1] = e
  BY EventAdded
<1>2. \A j \in 1 .. Len(q) : j \in 1 .. Len(queue) \/ j = Len(queue) + 1
  BY <1>1
<1>3. Len(queue) + 1 > i /\ Len(queue) + 1 \in 1 .. Len(q)
  BY <1>1
<1>4. \A j \in 1 .. Len(queue) : j \in 1 .. Len(q)
  BY <1>1
<1> QED BY <1>1, <1>2, <1>3, <1>4 DEF LastFile

LEMMA LastTaken ==
  ASSUME NEW queue \in Seq(Events), queue # <<>>, NEW i \in 0 .. Len(queue) - 1
  PROVE  LastFile(Tail(queue), i) <=> LastFile(queue, i + 1)
<1> PICK q : q = Tail(queue)
  OBVIOUS
<1>1. /\ Len(queue) \in Nat \ {0} /\ Len(q) = Len(queue) - 1
      /\ \A j \in 1 .. Len(queue) - 1 : q[j] = queue[j + 1]
  BY EventTaken
<1>2. ASSUME LastFile(q, i), NEW j \in 1 .. Len(queue), j > i + 1
      PROVE  queue[j].type = "HOOK"
  <2>1. j - 1 \in 1 .. Len(q) /\ j - 1 > i /\ q[j - 1] = queue[(j - 1) + 1]
    BY <1>1, <1>2
  <2>2. queue[(j - 1) + 1] = queue[j]
    OBVIOUS
  <2> QED BY <1>2, <2>1, <2>2 DEF LastFile
<1>3. ASSUME LastFile(queue, i + 1), NEW j \in 1 .. Len(q), j > i
      PROVE  q[j].type = "HOOK"
  BY <1>1, <1>3 DEF LastFile
<1> QED BY <1>2, <1>3 DEF LastFile

-----------------------------------------------------------------------------
(* What the steps of mpv do to the invariant.                              *)

LEMMA CoreFields ==
  ASSUME NEW c \in CoreStates
  PROVE  /\ c.phase \in {"idle", "on_load", "on_preloaded", "playing"}
         /\ c.file \in Files \cup {NoFile} /\ c.blocked \in BOOLEAN /\ c.stopping \in BOOLEAN
         /\ c = [phase |-> c.phase, file |-> c.file, blocked |-> c.blocked,
                 stopping |-> c.stopping]
BY DEF CoreStates

LEMMA PlaylistFacts == MaxPlaylist \in Nat /\ MaxPlaylist >= 1 /\ NoFile \notin Files
<1>1. MaxPlaylist \in Nat \ {0}
  BY PlayerAssumption
<1> QED BY <1>1, PlayerAssumption

\* Nothing is in hand while no hook blocks mpv.
LEMMA FreeCore ==
  ASSUME HookIsHeld, ~core.blocked
  PROVE  Hooks(events) = {} /\ resumes = {}
BY DEF HookIsHeld

\* mpv starts the next file, or has none.
LEMMA GoesOn ==
  ASSUME NEW list \in Seq(Files), NEW reported \in Seq(Events),
         CoreGoesOn(list, reported), Len(list) <= MaxPlaylist,
         Hooks(reported) = {}, resumes = {}, resumes' = resumes,
         list = <<>> =>
           /\ \A i \in 1 .. Len(reported) : LastFile(reported, i) =>
                reported[i].type = "END_FILE" /\ reported[i].arg = lastEnd'
           /\ ~LastFile(reported, 0)
  PROVE  /\ CoreTypes' /\ PlaylistTypes' /\ EventTypes' /\ ResumeTypes'
         /\ HookIsHeld' /\ FileIsKnown' /\ NothingIsLeft'
         /\ selected' \in Files \cup {NoFile} /\ wakeup' \in BOOLEAN /\ buffering' \in BOOLEAN
         /\ paused' \in BOOLEAN \/ paused' = paused
<1>1. /\ wakeup' = TRUE /\ selected' = NoFile /\ buffering' = FALSE
      /\ paused' \in BOOLEAN \/ paused' = paused
  BY DEF CoreGoesOn, Wake
<1>2. ResumeTypes' /\ NothingIsLeft'
  BY <1>1 DEF ResumeTypes, NothingIsLeft
<1>3. CASE list = <<>>
  <2>1. core' = Idle /\ playlist' = <<>> /\ events' = reported
    BY <1>3 DEF CoreGoesOn
  <2>2. PICK c : c = Idle
    OBVIOUS
  <2>3. /\ c \in CoreStates /\ c.phase = "idle" /\ c.file = NoFile
        /\ c.blocked = FALSE /\ c.stopping = FALSE
    BY <2>2 DEF Idle, CoreStates
  <2>4. core' = c
    BY <2>1, <2>2
  <2>5. CoreTypes' /\ PlaylistTypes' /\ EventTypes'
    BY <2>1, <2>3, <2>4, PlaylistFacts DEF CoreTypes, PlaylistTypes, EventTypes
  <2>6. HookIsHeld'
    BY <2>1, <2>3, <2>4 DEF HookIsHeld
  <2>7. \A i \in 1 .. Len(reported) : LastFile(reported, i) =>
          reported[i].type = "END_FILE" /\ reported[i].arg = lastEnd'
    BY <1>3
  <2>8. FileIsKnown'
    BY <1>3, <2>1, <2>3, <2>4, <2>7 DEF FileIsKnown
  <2> QED BY <1>1, <1>2, <2>5, <2>6, <2>8
<1>4. CASE list # <<>>
  <2>1. PICK start : start = Event("START_FILE", "")
    OBVIOUS
  <2>2. PICK hook : hook = Event("HOOK", "on_load")
    OBVIOUS
  <2>3. /\ start \in Events /\ start.type = "START_FILE"
        /\ hook \in Events /\ hook.type = "HOOK" /\ hook.arg = "on_load"
    BY <2>1, <2>2, TypesOfEvents
  <2>4. PICK c : c = [phase |-> "on_load", file |-> Head(list), blocked |-> TRUE, stopping |-> FALSE]
    OBVIOUS
  <2>5. core' = c /\ playlist' = Tail(list)
    BY <1>4, <2>4 DEF CoreGoesOn
  <2>6. Head(list) \in Files
    BY <1>4
  <2>7. /\ c \in CoreStates /\ c.phase = "on_load" /\ c.file # NoFile
        /\ c.blocked = TRUE /\ c.stopping = FALSE
    BY <2>4, <2>6, PlaylistFacts DEF CoreStates
  <2>8. PICK q : q = Append(reported, start)
    OBVIOUS
  <2>9. events' = Append(q, hook)
    <3>1. events' = reported \o <<start, hook>>
      BY <1>4, <2>1, <2>2 DEF CoreGoesOn
    <3> QED BY <2>3, <2>8, <3>1, TwoAdded
  <2>10. q \in Seq(Events) /\ Hooks(q) = {} /\ q[Len(q)] = start /\ Len(q) = Len(reported) + 1
    BY <2>3, <2>8, EventAdded, HooksAdded
  <2>11. /\ events' \in Seq(Events) /\ Hooks(events') = {Len(q) + 1}
         /\ events'[Len(q) + 1] = hook /\ Len(events') = Len(q) + 1
         /\ \A i \in 1 .. Len(q) : events'[i] = q[i]
    BY <2>3, <2>9, <2>10, EventAdded, HooksAdded
  <2>12. CoreTypes'
    BY <2>5, <2>7 DEF CoreTypes
  <2>13. PlaylistTypes'
    <3>1. Tail(list) \in Seq(Files) /\ Len(Tail(list)) = Len(list) - 1 /\ Len(list) \in Nat
      BY <1>4
    <3> QED BY <2>5, <3>1, PlaylistFacts DEF PlaylistTypes
  <2>14. HookIsHeld'
    BY <2>3, <2>5, <2>7, <2>11 DEF HookIsHeld
  <2>15. \A i \in 0 .. Len(q) : LastFile(events', i) => i = Len(q)
    <3>1. \A i \in 0 .. Len(q) : LastFile(events', i) => LastFile(q, i)
      BY <2>3, <2>9, <2>10, LastAdded
    <3>2. \A i \in 0 .. Len(reported) : ~LastFile(q, i)
      BY <2>3, <2>8, LastAdded
    <3> QED BY <2>10, <3>1, <3>2
  <2>16. FileIsKnown'
    <3>1. Len(q) \in Nat \ {0} /\ 0 # Len(q)
      BY <2>10
    <3>2. ~LastFile(events', 0)
      BY <2>15, <3>1
    <3>3. ASSUME NEW i \in 1 .. Len(events'), LastFile(events', i)
          PROVE  events'[i].type # "END_FILE"
      <4>1. i = Len(q) \/ i = Len(q) + 1
        BY <2>11, <2>15, <3>1, <3>3
      <4>2. i = Len(q) => events'[i] = start
        BY <2>10, <2>11, <3>1
      <4> QED BY <2>3, <2>11, <4>1, <4>2
    <3> QED BY <2>5, <2>7, <3>2, <3>3 DEF FileIsKnown
  <2> QED BY <1>1, <1>2, <2>11, <2>12, <2>13, <2>14, <2>16 DEF EventTypes
<1> QED BY <1>3, <1>4

\* mpv is asked to end its file, if it has one, or is not.
LEMMA StoppedFacts ==
  ASSUME CoreTypes
  PROVE  /\ Stopped \in CoreStates /\ Stopped.phase = core.phase /\ Stopped.file = core.file
         /\ Stopped.blocked = core.blocked
         /\ Stopped.stopping => core.phase # "idle"
<1>1. (core.phase # "idle") \in BOOLEAN
  OBVIOUS
<1>2. PICK c : c = Stopped
  OBVIOUS
<1>3. PICK b \in BOOLEAN : b = (core.phase # "idle")
  BY <1>1
<1>4. c = [core EXCEPT !.stopping = b]
  BY <1>2, <1>3 DEF Stopped
<1>5. core \in CoreStates
  BY DEF CoreTypes
<1>6. /\ c \in CoreStates /\ c.phase = core.phase /\ c.file = core.file
      /\ c.blocked = core.blocked /\ c.stopping = b
  BY <1>4, <1>5, CoreFields DEF CoreStates
<1> QED BY <1>2, <1>3, <1>6

\* Calls that leave mpv in its phase, with the events and the fields.
LEMMA StoppedInv ==
  ASSUME PlayerInv, FlagTypes', PlaylistTypes', core' = core \/ core' = Stopped,
         UNCHANGED <<paused, buffering, events, wakeup, busy, resumes, lastEnd>>,
         UNCHANGED <<fileVars, propVars, stateVars>>
  PROVE  PlayerInv'
<1>1. /\ core' \in CoreStates /\ core'.phase = core.phase /\ core'.file = core.file
      /\ core'.blocked = core.blocked
      /\ core'.stopping => core.phase # "idle"
  BY StoppedFacts DEF PlayerInv, CoreTypes
<1>2. CoreTypes' /\ EventTypes' /\ ResumeTypes'
  BY <1>1 DEF PlayerInv, CoreTypes, EventTypes, ResumeTypes
<1>3. HookIsHeld'
  BY <1>1 DEF PlayerInv, HookIsHeld
<1>4. FileIsKnown'
  BY <1>1 DEF PlayerInv, FileIsKnown, fileVars
<1>5. NothingIsLeft'
  BY <1>1 DEF PlayerInv, NothingIsLeft, Progressing, NewState, fileVars, propVars, stateVars
<1> QED BY <1>2, <1>3, <1>4, <1>5 DEF PlayerInv

\* A file ends.
LEMMA CoreEndInv ==
  ASSUME PlayerInv, NEW reason \in EndReasons, CoreEnd(reason)
  PROVE  PlayerInv'
<1>1. ~core.blocked /\ Hooks(events) = {} /\ resumes = {} /\ resumes' = resumes
  BY FreeCore DEF CoreEnd, CoreKeepsPlayer, PlayerInv
<1>2. PICK e : e = Event("END_FILE", reason)
  OBVIOUS
<1>3. e \in Events /\ e.type = "END_FILE" /\ e.arg = reason
  BY <1>2, TypesOfEvents
<1>4. PICK q : q = Append(events, e)
  OBVIOUS
<1>5. CoreGoesOn(playlist, q) /\ lastEnd' = reason
  BY <1>2, <1>4 DEF CoreEnd
<1>6. events \in Seq(Events)
  BY DEF PlayerInv, EventTypes
<1>7. /\ q \in Seq(Events) /\ Hooks(q) = {} /\ q[Len(q)] = e
      /\ Len(q) = Len(events) + 1 /\ Len(events) \in Nat
  BY <1>1, <1>3, <1>4, <1>6, EventAdded, HooksAdded
<1>8. \A i \in 0 .. Len(events) : ~LastFile(q, i)
  BY <1>3, <1>4, <1>6, LastAdded
<1>9. /\ \A i \in 1 .. Len(q) : LastFile(q, i) => q[i].type = "END_FILE" /\ q[i].arg = lastEnd'
      /\ ~LastFile(q, 0)
  BY <1>3, <1>5, <1>7, <1>8
<1>10. playlist \in Seq(Files) /\ Len(playlist) <= MaxPlaylist
  BY DEF PlayerInv, PlaylistTypes
<1>11. /\ CoreTypes' /\ PlaylistTypes' /\ EventTypes' /\ ResumeTypes'
       /\ HookIsHeld' /\ FileIsKnown' /\ NothingIsLeft'
       /\ selected' \in Files \cup {NoFile} /\ wakeup' \in BOOLEAN /\ buffering' \in BOOLEAN
       /\ paused' \in BOOLEAN \/ paused' = paused
  BY <1>1, <1>5, <1>7, <1>9, <1>10, GoesOn
<1>12. FlagTypes'
  BY <1>5, <1>11 DEF PlayerInv, FlagTypes, CoreEnd, CoreKeepsPlayer, fileVars, propVars,
                     stateVars, mediaVars, restoreVars
<1> QED BY <1>11, <1>12 DEF PlayerInv

LEMMA QueueInv ==
  ASSUME PlayerInv, NEW f \in Files, NEW stopped, NEW waiting \in Seq(Files),
         Queue(f, stopped, waiting), stopped = core \/ stopped = Stopped
  PROVE  PlayerInv'
<1>1. FlagTypes' \/ core.phase = "idle"
  BY DEF PlayerInv, FlagTypes, Queue, CallKeepsPlayer, fileVars, propVars, stateVars
<1>2. CASE core.phase = "idle"
  <2>1. CoreGoesOn(<<f>>, events)
    BY <1>2 DEF Queue
  <2>2. Hooks(events) = {} /\ resumes = {} /\ resumes' = resumes
    BY <1>2, FreeCore DEF PlayerInv, CoreTypes, Queue, CallKeepsPlayer
  <2>3. <<f>> \in Seq(Files) /\ <<f>> # <<>> /\ Len(<<f>>) <= MaxPlaylist
    BY PlaylistFacts
  <2>4. /\ CoreTypes' /\ PlaylistTypes' /\ EventTypes' /\ ResumeTypes'
        /\ HookIsHeld' /\ FileIsKnown' /\ NothingIsLeft'
        /\ selected' \in Files \cup {NoFile} /\ wakeup' \in BOOLEAN /\ buffering' \in BOOLEAN
        /\ paused' \in BOOLEAN \/ paused' = paused
    BY <2>1, <2>2, <2>3, GoesOn DEF PlayerInv, EventTypes
  <2>5. FlagTypes'
    BY <2>4 DEF PlayerInv, FlagTypes, Queue, CallKeepsPlayer, fileVars, propVars, stateVars
  <2> QED BY <2>4, <2>5 DEF PlayerInv
<1>3. CASE core.phase # "idle"
  <2>1. /\ core' = stopped /\ playlist' = Append(waiting, f) /\ Len(waiting) < MaxPlaylist
        /\ UNCHANGED <<selected, paused, buffering, events, wakeup, busy, resumes, lastEnd>>
        /\ UNCHANGED <<fileVars, propVars, stateVars>>
    BY <1>3 DEF Queue, CallKeepsPlayer
  <2>2. PlaylistTypes'
    <3>1. /\ Append(waiting, f) \in Seq(Files) /\ Len(waiting) \in Nat
          /\ Len(Append(waiting, f)) = Len(waiting) + 1
      OBVIOUS
    <3> QED BY <2>1, <3>1, PlaylistFacts DEF PlaylistTypes
  <2> QED BY <1>1, <1>3, <2>1, <2>2, StoppedInv
<1> QED BY <1>2, <1>3

LEMMA CoreProceedInv ==
  ASSUME PlayerInv, CoreProceed
  PROVE  PlayerInv'
<1>1. /\ core.phase \in {"on_load", "on_preloaded"} /\ ~core.blocked
      /\ Hooks(events) = {} /\ resumes = {} /\ core \in CoreStates /\ core.file # NoFile
      /\ events \in Seq(Events)
  BY FreeCore DEF CoreProceed, PlayerInv, CoreTypes, EventTypes
<1>2. /\ wakeup' = TRUE
      /\ UNCHANGED <<playlist, selected, paused, buffering, lastEnd, busy, resumes>>
      /\ UNCHANGED <<fileVars, propVars, stateVars, mediaVars, restoreVars>>
  BY DEF CoreProceed, CoreKeepsPlayer, Wake
<1>3. FlagTypes' /\ PlaylistTypes' /\ ResumeTypes' /\ NothingIsLeft'
  BY <1>2 DEF PlayerInv, FlagTypes, PlaylistTypes, ResumeTypes, NothingIsLeft,
              fileVars, propVars, stateVars, mediaVars, restoreVars
<1>4. CASE core.phase = "on_load"
  <2>1. PICK c : c = [core EXCEPT !.phase = "on_preloaded", !.blocked = TRUE]
    OBVIOUS
  <2>2. /\ c \in CoreStates /\ c.phase = "on_preloaded" /\ c.file = core.file
        /\ c.blocked = TRUE
    BY <1>1, <2>1, CoreFields DEF CoreStates
  <2>3. PICK hook : hook = Event("HOOK", "on_preloaded")
    OBVIOUS
  <2>4. hook \in Events /\ hook.type = "HOOK" /\ hook.arg = "on_preloaded"
    BY <2>3, TypesOfEvents
  <2>5. core' = c /\ events' = Append(events, hook)
    BY <1>4, <2>1, <2>3 DEF CoreProceed
  <2>6. /\ events' \in Seq(Events) /\ Hooks(events') = {Len(events) + 1}
        /\ events'[Len(events) + 1] = hook /\ Len(events') = Len(events) + 1
        /\ \A i \in 1 .. Len(events) : events'[i] = events[i]
        /\ Len(events) \in Nat
    BY <1>1, <2>4, <2>5, EventAdded, HooksAdded
  <2>7. CoreTypes' /\ EventTypes'
    BY <1>1, <2>2, <2>5, <2>6 DEF CoreTypes, EventTypes
  <2>8. HookIsHeld'
    BY <1>1, <1>2, <2>2, <2>4, <2>5, <2>6 DEF HookIsHeld
  <2>9. \A i \in 0 .. Len(events) : LastFile(events', i) => LastFile(events, i)
    BY <1>1, <2>4, <2>5, LastAdded
  <2>10. \A i \in 1 .. Len(events) : LastFile(events, i) => events[i].type # "END_FILE"
    BY <1>1 DEF PlayerInv, FileIsKnown
  <2>11. ASSUME NEW i \in 1 .. Len(events'), LastFile(events', i)
         PROVE  events'[i].type # "END_FILE"
    <3>1. i \in 1 .. Len(events) \/ i = Len(events) + 1
      BY <2>6
    <3> QED BY <2>4, <2>6, <2>9, <2>10, <2>11, <3>1
  <2>12. LastFile(events', 0) => m_inPlayback
    <3>1. 0 \in 0 .. Len(events)
      BY <2>6
    <3>2. LastFile(events, 0) => m_inPlayback
      BY <1>1 DEF PlayerInv, FileIsKnown
    <3> QED BY <2>9, <3>1, <3>2
  <2>13. FileIsKnown'
    BY <1>2, <2>2, <2>5, <2>11, <2>12 DEF FileIsKnown, fileVars
  <2> QED BY <1>3, <2>7, <2>8, <2>13 DEF PlayerInv
<1>5. CASE core.phase # "on_load"
  <2>1. PICK c : c = [core EXCEPT !.phase = "playing"]
    OBVIOUS
  <2>2. /\ c \in CoreStates /\ c.phase = "playing" /\ c.file = core.file
        /\ c.blocked = core.blocked
    BY <1>1, <2>1, CoreFields DEF CoreStates
  <2>3. core' = c /\ events' = events
    BY <1>5, <2>1 DEF CoreProceed
  <2>4. CoreTypes' /\ EventTypes'
    BY <1>1, <2>2, <2>3 DEF CoreTypes, EventTypes
  <2>5. HookIsHeld'
    BY <1>1, <1>2, <2>2, <2>3 DEF HookIsHeld
  <2>6. FileIsKnown'
    BY <1>1, <1>2, <2>2, <2>3 DEF PlayerInv, FileIsKnown, fileVars
  <2> QED BY <1>3, <2>4, <2>5, <2>6 DEF PlayerInv
<1> QED BY <1>4, <1>5

LEMMA CoreBuffersInv ==
  ASSUME PlayerInv, CoreBuffers
  PROVE  PlayerInv'
<1>1. /\ wakeup' = TRUE /\ buffering' \in BOOLEAN
      /\ UNCHANGED <<core, playlist, selected, paused, events, lastEnd, busy, resumes>>
      /\ UNCHANGED <<fileVars, propVars, stateVars, mediaVars, restoreVars>>
  BY DEF CoreBuffers, CoreKeepsPlayer, Wake
<1>2. FlagTypes' /\ NothingIsLeft'
  BY <1>1 DEF PlayerInv, FlagTypes, NothingIsLeft,
              fileVars, propVars, stateVars, mediaVars, restoreVars
<1>3. CoreTypes' /\ PlaylistTypes' /\ EventTypes' /\ ResumeTypes'
  BY <1>1 DEF PlayerInv, CoreTypes, PlaylistTypes, EventTypes, ResumeTypes
<1>4. HookIsHeld' /\ FileIsKnown'
  BY <1>1 DEF PlayerInv, HookIsHeld, FileIsKnown, fileVars
<1> QED BY <1>2, <1>3, <1>4 DEF PlayerInv

-----------------------------------------------------------------------------
(* The main thread.                                                        *)

\* Whoever has the hook lets mpv go on, or waits for the codecs.
LEMMA CodecsLoading ==
  ASSUME CoreTypes, NEW hook, StartCodecsLoading(hook, {}),
         core.blocked, hook = core.phase, Hooks(events') = {}
  PROVE  /\ CoreTypes' /\ ResumeTypes' /\ HookIsHeld'
         /\ core'.phase = core.phase /\ core'.file = core.file
<1>1. core \in CoreStates /\ hook \in {"on_load", "on_preloaded"}
  BY DEF CoreTypes
<1>2. CASE /\ resumes' = {} \cup {[hook |-> hook, after |-> "codecs"]}
           /\ UNCHANGED core
  <2>1. PICK r : r = [hook |-> hook, after |-> "codecs"]
    OBVIOUS
  <2>2. r \in Resumes /\ r.hook = hook /\ resumes' = {r}
    BY <1>1, <1>2, <2>1 DEF Resumes
  <2>3. CoreTypes' /\ ResumeTypes'
    BY <1>2, <2>2 DEF CoreTypes, ResumeTypes
  <2>4. HookIsHeld'
    BY <1>2, <2>2 DEF HookIsHeld
  <2> QED BY <1>2, <2>3, <2>4
<1>3. CASE resumes' = {} /\ core' = [core EXCEPT !.blocked = FALSE]
  <2>1. /\ core' \in CoreStates /\ core'.phase = core.phase /\ core'.file = core.file
        /\ core'.blocked = FALSE /\ core'.stopping = core.stopping
    BY <1>1, <1>3, CoreFields DEF CoreStates
  <2>2. CoreTypes' /\ ResumeTypes'
    BY <1>3, <2>1 DEF CoreTypes, ResumeTypes
  <2>3. HookIsHeld'
    BY <1>3, <2>1 DEF HookIsHeld
  <2> QED BY <2>1, <2>2, <2>3
<1> QED BY <1>2, <1>3 DEF StartCodecsLoading

\* The continuation of a hook that waited.
LEMMA Continued ==
  ASSUME PlayerInv, CoreTypes', ResumeTypes', HookIsHeld', core'.phase = core.phase,
         UNCHANGED <<playlist, selected, paused, buffering, lastEnd, events, wakeup, busy>>,
         UNCHANGED <<fileVars, propVars, stateVars, mediaVars, restoreVars>>
  PROVE  PlayerInv'
<1>1. FlagTypes' /\ PlaylistTypes' /\ EventTypes'
  BY DEF PlayerInv, FlagTypes, PlaylistTypes, EventTypes,
         fileVars, propVars, stateVars, mediaVars, restoreVars
<1>2. FileIsKnown'
  BY DEF PlayerInv, FileIsKnown, fileVars
<1>3. NothingIsLeft'
  BY DEF PlayerInv, NothingIsLeft, Progressing, NewState, fileVars, propVars, stateVars
<1> QED BY <1>1, <1>2, <1>3 DEF PlayerInv

LEMMA AfterDelayFacts == AfterDelay \in Resumes /\ AfterDelay.hook = "on_load"
BY DEF AfterDelay, Resumes

LEMMA DelayOverInv ==
  ASSUME PlayerInv, DelayOver
  PROVE  PlayerInv'
<1>1. AfterDelay \in resumes /\ StartCodecsLoading("on_load", resumes \ {AfterDelay})
  BY DEF DelayOver
<1>2. resumes \ {AfterDelay} = {}
  BY <1>1 DEF PlayerInv, HookIsHeld
<1>3. Hooks(events) = {} /\ core.blocked /\ core.phase = "on_load"
  BY <1>1, AfterDelayFacts DEF PlayerInv, HookIsHeld
<1>4. Hooks(events') = {}
  BY <1>3 DEF DelayOver
<1>5. CoreTypes' /\ ResumeTypes' /\ HookIsHeld' /\ core'.phase = core.phase
  BY <1>1, <1>2, <1>3, <1>4, CodecsLoading DEF PlayerInv
<1> QED BY <1>5, Continued DEF DelayOver

LEMMA CodecsDoneInv ==
  ASSUME PlayerInv, CodecsDone
  PROVE  PlayerInv'
<1>1. PICK r \in resumes : resumes' = resumes \ {r}
  BY DEF CodecsDone
<1>2. core' = [core EXCEPT !.blocked = FALSE] /\ core \in CoreStates /\ events' = events
  BY DEF CodecsDone, PlayerInv, CoreTypes
<1>3. resumes' = {} /\ Hooks(events) = {}
  BY <1>1 DEF PlayerInv, HookIsHeld
<1>4. /\ core' \in CoreStates /\ core'.phase = core.phase /\ core'.file = core.file
      /\ core'.blocked = FALSE /\ core'.stopping = core.stopping
  BY <1>2, CoreFields DEF CoreStates
<1>5. CoreTypes' /\ ResumeTypes'
  BY <1>3, <1>4 DEF PlayerInv, CoreTypes, ResumeTypes
<1>6. HookIsHeld'
  BY <1>2, <1>3, <1>4 DEF HookIsHeld
<1> QED BY <1>4, <1>5, <1>6, Continued DEF CodecsDone

\* The steps of the main thread that leave mpv and its events alone.
LEMMA Untouched ==
  ASSUME PlayerInv, FlagTypes', NothingIsLeft',
         UNCHANGED <<core, playlist, events, resumes, lastEnd, fileVars>>
  PROVE  PlayerInv'
<1>1. CoreTypes' /\ PlaylistTypes' /\ EventTypes' /\ ResumeTypes'
  BY DEF PlayerInv, CoreTypes, PlaylistTypes, EventTypes, ResumeTypes
<1>2. HookIsHeld' /\ FileIsKnown'
  BY DEF PlayerInv, HookIsHeld, FileIsKnown, fileVars
<1> QED BY <1>1, <1>2 DEF PlayerInv

LEMMA MainInv ==
  ASSUME PlayerInv,
         StartEvents \/ HandleProperties \/ FinishEvents \/ OnRestoreDisplay \/ DisplayEvent
  PROVE  PlayerInv'
<1>1. CASE StartEvents
  <2>1. FlagTypes' /\ NothingIsLeft'
    BY <1>1 DEF StartEvents, PlayerInv, FlagTypes, NothingIsLeft, coreVars,
                fileVars, propVars, stateVars, mediaVars, restoreVars
  <2> QED BY <1>1, <2>1, Untouched DEF StartEvents, coreVars
<1>2. CASE HandleProperties
  <2>1. Progressing \in BOOLEAN /\ VoConfigured \in BOOLEAN
    BY DEF Progressing, VoConfigured
  <2>2. FlagTypes'
    BY <1>2, <2>1 DEF HandleProperties, PlayerInv, FlagTypes, coreVars,
                      fileVars, propVars, stateVars, mediaVars, restoreVars
  <2>3. NothingIsLeft'
    BY <1>2 DEF HandleProperties, NothingIsLeft
  <2> QED BY <1>2, <2>2, <2>3, Untouched DEF HandleProperties, coreVars
<1>3. CASE FinishEvents
  <2>1. NewState \in States
    BY DEF NewState, States, PlayerInv, FlagTypes
  <2>2. (NewState = "playing" /\ m_windowVisible) \in BOOLEAN
    OBVIOUS
  <2>3. FlagTypes'
    BY <1>3, <2>1, <2>2 DEF FinishEvents, PlayerInv, FlagTypes, coreVars,
                            fileVars, propVars, mediaVars, restoreVars
  <2>4. NothingIsLeft'
    BY <1>3 DEF FinishEvents, NothingIsLeft, NewState, Progressing, coreVars, fileVars, propVars
  <2> QED BY <1>3, <2>3, <2>4, Untouched DEF FinishEvents, coreVars
<1>4. CASE OnRestoreDisplay \/ DisplayEvent
  <2>1. FlagTypes'
    BY <1>4 DEF OnRestoreDisplay, DisplayEvent, PlayerInv, FlagTypes, coreVars,
                fileVars, propVars, stateVars, mediaVars, restoreVars
  <2>2. NothingIsLeft'
    BY <1>4 DEF OnRestoreDisplay, DisplayEvent, PlayerInv, NothingIsLeft, NewState, Progressing,
                coreVars, fileVars, propVars, stateVars
  <2> QED BY <1>4, <2>1, <2>2, Untouched DEF OnRestoreDisplay, DisplayEvent, coreVars
<1> QED BY <1>1, <1>2, <1>3, <1>4

\* The next event of the queue has been taken.
LEMMA TakenFacts ==
  ASSUME PlayerInv, TakeEvent
  PROVE  /\ EventTypes' /\ events \in Seq(Events) /\ Len(events) \in Nat \ {0}
         /\ Len(events') = Len(events) - 1 /\ Head(events) = events[1]
         /\ \A i \in 1 .. Len(events') : events'[i] = events[i + 1]
         /\ \A i \in 0 .. Len(events') : LastFile(events', i) => LastFile(events, i + 1)
         /\ Head(events).type = "HOOK" =>
              /\ Hooks(events') = {} /\ resumes = {}
              /\ core.blocked /\ core.phase = Head(events).arg
         /\ Head(events).type # "HOOK" =>
              /\ \A i \in Hooks(events') : i + 1 \in Hooks(events) /\ events'[i] = events[i + 1]
              /\ Hooks(events') = {} <=> Hooks(events) = {}
<1>1. events \in Seq(Events) /\ events # <<>> /\ events' = Tail(events)
  BY DEF PlayerInv, EventTypes, TakeEvent
<1>2. /\ events' \in Seq(Events) /\ Len(events) \in Nat \ {0}
      /\ Len(events') = Len(events) - 1 /\ Head(events) = events[1]
      /\ \A i \in 1 .. Len(events) - 1 : events'[i] = events[i + 1]
  BY <1>1, EventTaken
<1>3. \A i \in 0 .. Len(events') : LastFile(events', i) => LastFile(events, i + 1)
  BY <1>1, <1>2, LastTaken
<1>4. /\ \A i \in Hooks(events') :
           i + 1 \in Hooks(events) /\ i + 1 # 1 /\ events'[i] = events[i + 1]
      /\ Head(events).type = "HOOK" => 1 \in Hooks(events)
      /\ \A i \in Hooks(events) : i # 1 => i - 1 \in Hooks(events')
      /\ Head(events).type # "HOOK" => 1 \notin Hooks(events)
  BY <1>1, HooksTaken
<1>5. ASSUME Head(events).type = "HOOK"
      PROVE  /\ Hooks(events') = {} /\ resumes = {}
             /\ core.blocked /\ core.phase = Head(events).arg
  <2>1. \A i \in Hooks(events) : i = 1
    BY <1>4, <1>5 DEF PlayerInv, HookIsHeld
  <2>2. Hooks(events') = {}
    BY <1>4, <2>1
  <2>3. resumes = {} /\ core.blocked /\ core.phase = Head(events).arg
    BY <1>2, <1>4, <1>5 DEF PlayerInv, HookIsHeld
  <2> QED BY <2>2, <2>3
<1>6. ASSUME Head(events).type # "HOOK"
      PROVE  Hooks(events') = {} <=> Hooks(events) = {}
  BY <1>4, <1>6
<1>7. EventTypes' /\ events \in Seq(Events)
  BY <1>1, <1>2 DEF EventTypes
<1>8. \A i \in 1 .. Len(events') : events'[i] = events[i + 1]
  BY <1>2
<1>9. \A i \in Hooks(events') : i + 1 \in Hooks(events) /\ events'[i] = events[i + 1]
  BY <1>4
<1> QED BY <1>2, <1>3, <1>5, <1>6, <1>7, <1>8, <1>9

\* The start or the end of a file is handled: the fields say what it says.
LEMMA FileHandled ==
  ASSUME PlayerInv, TakeEvent, Head(events).type # "HOOK",
         UNCHANGED <<core, resumes, lastEnd>>,
         Head(events).type = "START_FILE" => m_inPlayback',
         Head(events).type = "END_FILE" =>
           /\ ~m_inPlayback'
           /\ m_playbackError' <=> Head(events).arg = "error"
           /\ m_playbackCanceled' <=> Head(events).arg = "stop"
  PROVE  HookIsHeld' /\ FileIsKnown'
<1>1. /\ Len(events) \in Nat \ {0} /\ Len(events') = Len(events) - 1 /\ Head(events) = events[1]
      /\ \A i \in 1 .. Len(events') : events'[i] = events[i + 1]
      /\ \A i \in 0 .. Len(events') : LastFile(events', i) => LastFile(events, i + 1)
      /\ \A i \in Hooks(events') : i + 1 \in Hooks(events) /\ events'[i] = events[i + 1]
      /\ Hooks(events') = {} <=> Hooks(events) = {}
      /\ events \in Seq(Events)
  BY TakenFacts
<1>2. \A i \in Hooks(events') : i \in Nat
  BY DEF Hooks
<1>3. HookIsHeld'
  <2>1. \A i, j \in Hooks(events') : i = j
    <3> TAKE i, j \in Hooks(events')
    <3>1. i + 1 = j + 1
      BY <1>1 DEF PlayerInv, HookIsHeld
    <3> QED BY <1>2, <3>1
  <2>2. \A i \in Hooks(events') : events'[i].arg = core.phase
    BY <1>1 DEF PlayerInv, HookIsHeld
  <2> QED BY <1>1, <2>1, <2>2 DEF PlayerInv, HookIsHeld
<1>4. \A i \in 1 .. Len(events) : LastFile(events, i) =>
        /\ events[i].type = "START_FILE" => core.phase # "idle"
        /\ events[i].type = "END_FILE" => core.phase = "idle" /\ lastEnd = events[i].arg
  BY DEF PlayerInv, FileIsKnown
<1>5. \A i \in 1 .. Len(events') : LastFile(events', i) =>
        /\ events'[i].type = "START_FILE" => core.phase # "idle"
        /\ events'[i].type = "END_FILE" => core.phase = "idle" /\ lastEnd = events'[i].arg
  <2> TAKE i \in 1 .. Len(events')
  <2> HAVE LastFile(events', i)
  <2>1. i + 1 \in 1 .. Len(events) /\ i \in 0 .. Len(events')
    BY <1>1
  <2>2. LastFile(events, i + 1) /\ events'[i] = events[i + 1]
    BY <1>1, <2>1
  <2> QED BY <1>4, <2>1, <2>2
<1>6. ASSUME LastFile(events', 0)
      PROVE  /\ m_inPlayback' <=> core.phase # "idle"
             /\ core.phase = "idle" =>
                  /\ m_playbackError' <=> lastEnd = "error"
                  /\ m_playbackCanceled' <=> lastEnd = "stop"
  <2>1. LastFile(events, 1)
    <3>1. 0 \in 0 .. Len(events') /\ 0 + 1 = 1
      BY <1>1
    <3> QED BY <1>1, <1>6, <3>1
  <2>2. 1 \in 1 .. Len(events)
    BY <1>1
  <2>3. /\ Head(events).type = "START_FILE" => core.phase # "idle"
        /\ Head(events).type = "END_FILE" => core.phase = "idle" /\ lastEnd = Head(events).arg
    BY <1>1, <1>4, <2>1, <2>2
  <2>4. Head(events).type = "START_FILE" \/ Head(events).type = "END_FILE"
    <3>1. Head(events) \in Events
      BY <1>1
    <3> QED BY <3>1, TypesOfEvents
  <2> QED BY <2>3, <2>4
<1>7. FileIsKnown'
  BY <1>5, <1>6 DEF FileIsKnown
<1> QED BY <1>3, <1>7

\* A hook is handled: the fields of the player do not change.
LEMMA HookHandled ==
  ASSUME PlayerInv, TakeEvent, Head(events).type = "HOOK",
         core'.phase = core.phase, lastEnd' = lastEnd, UNCHANGED fileVars
  PROVE  FileIsKnown'
<1>1. /\ Len(events) \in Nat \ {0} /\ Len(events') = Len(events) - 1 /\ Head(events) = events[1]
      /\ \A i \in 1 .. Len(events') : events'[i] = events[i + 1]
      /\ \A i \in 0 .. Len(events') : LastFile(events', i) => LastFile(events, i + 1)
  BY TakenFacts
<1>2. \A i \in 1 .. Len(events) : LastFile(events, i) =>
        /\ events[i].type = "START_FILE" => core.phase # "idle"
        /\ events[i].type = "END_FILE" => core.phase = "idle" /\ lastEnd = events[i].arg
  BY DEF PlayerInv, FileIsKnown
<1>3. \A i \in 1 .. Len(events') : LastFile(events', i) =>
        /\ events'[i].type = "START_FILE" => core.phase # "idle"
        /\ events'[i].type = "END_FILE" => core.phase = "idle" /\ lastEnd = events'[i].arg
  <2> TAKE i \in 1 .. Len(events')
  <2> HAVE LastFile(events', i)
  <2>1. i + 1 \in 1 .. Len(events) /\ i \in 0 .. Len(events')
    BY <1>1
  <2>2. LastFile(events, i + 1) /\ events'[i] = events[i + 1]
    BY <1>1, <2>1
  <2> QED BY <1>2, <2>1, <2>2
<1>4. LastFile(events', 0) => LastFile(events, 0)
  <2> HAVE LastFile(events', 0)
  <2>1. LastFile(events, 1)
    <3>1. 0 \in 0 .. Len(events') /\ 0 + 1 = 1
      BY <1>1
    <3> QED BY <1>1, <3>1
  <2>2. \A j \in 1 .. Len(events) : j = 1 \/ j > 1
    BY <1>1
  <2> QED BY <1>1, <2>1, <2>2 DEF LastFile
<1> QED BY <1>3, <1>4 DEF PlayerInv, FileIsKnown, fileVars

LEMMA HandleEventInv ==
  ASSUME PlayerInv, HandleEvent
  PROVE  PlayerInv'
<1>1. /\ TakeEvent /\ busy' = busy /\ busy
      /\ UNCHANGED <<playlist, paused, buffering, lastEnd, wakeup, propVars, stateVars, mediaVars>>
  BY DEF HandleEvent, TakeEvent
<1>2. PlaylistTypes' /\ NothingIsLeft' /\ EventTypes'
  BY <1>1, TakenFacts DEF PlayerInv, PlaylistTypes, NothingIsLeft
<1>3. CASE Head(events).type = "START_FILE" /\ OnStartFile
  <2>1. HookIsHeld' /\ FileIsKnown'
    BY <1>1, <1>3, FileHandled DEF OnStartFile
  <2>2. FlagTypes' /\ CoreTypes' /\ ResumeTypes'
    BY <1>1, <1>3 DEF OnStartFile, PlayerInv, FlagTypes, CoreTypes, ResumeTypes,
                      propVars, stateVars, mediaVars, restoreVars
  <2> QED BY <1>2, <2>1, <2>2 DEF PlayerInv
<1>4. CASE Head(events).type = "END_FILE" /\ OnEndFile(Head(events).arg)
  <2>1. HookIsHeld' /\ FileIsKnown'
    BY <1>1, <1>4, FileHandled DEF OnEndFile
  <2>2. FlagTypes' /\ CoreTypes' /\ ResumeTypes'
    BY <1>1, <1>4 DEF OnEndFile, PlayerInv, FlagTypes, CoreTypes, ResumeTypes,
                      propVars, stateVars, mediaVars
  <2> QED BY <1>2, <2>1, <2>2 DEF PlayerInv
<1>5. CASE Head(events).type = "HOOK" /\ Head(events).arg = "on_load" /\ OnLoadHook
  <2>1. /\ Hooks(events') = {} /\ resumes = {} /\ core.blocked /\ core.phase = "on_load"
    BY <1>1, <1>5, TakenFacts
  <2>2. PICK switched \in BOOLEAN : ResumeOnLoad(switched)
    BY <1>5 DEF OnLoadHook
  <2>3. /\ CoreTypes' /\ ResumeTypes' /\ HookIsHeld' /\ core'.phase = core.phase
    <3>1. CASE switched
      <4>1. resumes' = {AfterDelay} /\ UNCHANGED core
        BY <2>1, <2>2, <3>1 DEF ResumeOnLoad
      <4> QED BY <2>1, <4>1, AfterDelayFacts DEF PlayerInv, CoreTypes, ResumeTypes, HookIsHeld
    <3>2. CASE ~switched
      <4>1. StartCodecsLoading("on_load", {})
        BY <2>1, <2>2, <3>2 DEF ResumeOnLoad
      <4> QED BY <2>1, <4>1, CodecsLoading DEF PlayerInv
    <3> QED BY <3>1, <3>2
  <2>4. m_restoreDisplayTimer' = FALSE \/ m_restoreDisplayTimer' = m_restoreDisplayTimer
    BY <1>5 DEF OnLoadHook
  <2>5. UNCHANGED <<fileVars, selected, m_streamSwitchImminent>>
    BY <1>5 DEF OnLoadHook
  <2>6. FlagTypes'
    BY <1>1, <2>4, <2>5 DEF PlayerInv, FlagTypes, fileVars, propVars, stateVars, mediaVars
  <2>7. FileIsKnown'
    BY <1>1, <1>5, <2>3, <2>5, HookHandled
  <2> QED BY <1>2, <2>3, <2>6, <2>7 DEF PlayerInv
<1>6. CASE Head(events).type = "HOOK" /\ Head(events).arg = "on_preloaded" /\ OnPreloadedHook
  <2>1. /\ Hooks(events') = {} /\ resumes = {} /\ core.blocked /\ core.phase = "on_preloaded"
    BY <1>1, <1>6, TakenFacts
  <2>2. StartCodecsLoading("on_preloaded", {})
    BY <1>6, <2>1 DEF OnPreloadedHook
  <2>3. /\ CoreTypes' /\ ResumeTypes' /\ HookIsHeld' /\ core'.phase = core.phase
    BY <2>1, <2>2, CodecsLoading DEF PlayerInv
  <2>4. selected' = m_media /\ UNCHANGED <<fileVars, restoreVars>>
    BY <1>6 DEF OnPreloadedHook
  <2>5. FlagTypes'
    BY <1>1, <2>4 DEF PlayerInv, FlagTypes, fileVars, propVars, stateVars, mediaVars, restoreVars
  <2>6. FileIsKnown'
    BY <1>1, <1>6, <2>3, <2>4, HookHandled
  <2> QED BY <1>2, <2>3, <2>5, <2>6 DEF PlayerInv
<1> QED BY <1>3, <1>4, <1>5, <1>6 DEF HandleEvent

-----------------------------------------------------------------------------
(* The calls of the web client, and the specification.                     *)

LEMMA StillInv ==
  ASSUME PlayerInv,
         Stop \/ ClearQueue \/ StreamSwitch \/ ChangeSettings
           \/ \E pause \in BOOLEAN : SetPause(pause)
  PROVE  PlayerInv'
<1>1. CASE Stop
  <2>1. FlagTypes' /\ PlaylistTypes'
    BY <1>1, PlaylistFacts DEF Stop, CallKeepsPlayer, PlayerInv, FlagTypes, PlaylistTypes,
                               fileVars, propVars, stateVars, mediaVars
  <2> QED BY <1>1, <2>1, StoppedInv DEF Stop, CallKeepsPlayer
<1>2. CASE ClearQueue
  <2>1. FlagTypes' /\ PlaylistTypes'
    BY <1>2, PlaylistFacts DEF ClearQueue, CallKeepsPlayer, PlayerInv, FlagTypes, PlaylistTypes,
                               fileVars, propVars, stateVars, mediaVars
  <2> QED BY <1>2, <2>1, StoppedInv DEF ClearQueue, CallKeepsPlayer
<1>3. CASE StreamSwitch
  <2>1. FlagTypes' /\ PlaylistTypes'
    BY <1>3 DEF StreamSwitch, CallKeepsPlayer, PlayerInv, FlagTypes, PlaylistTypes,
                fileVars, propVars, stateVars, mediaVars
  <2> QED BY <1>3, <2>1, StoppedInv DEF StreamSwitch, CallKeepsPlayer
<1>4. CASE ChangeSettings
  <2>1. FlagTypes' /\ PlaylistTypes'
    BY <1>4 DEF ChangeSettings, CallKeepsPlayer, PlayerInv, FlagTypes, PlaylistTypes,
                fileVars, propVars, stateVars
  <2> QED BY <1>4, <2>1, StoppedInv DEF ChangeSettings, CallKeepsPlayer
<1>5. ASSUME NEW pause \in BOOLEAN, SetPause(pause)
      PROVE  PlayerInv'
  <2>1. FlagTypes' /\ NothingIsLeft'
    BY <1>5 DEF SetPause, Wake, CallKeepsPlayer, PlayerInv, FlagTypes, NothingIsLeft,
                fileVars, propVars, stateVars, mediaVars
  <2> QED BY <1>5, <2>1, Untouched DEF SetPause, CallKeepsPlayer
<1> QED BY <1>1, <1>2, <1>3, <1>4, <1>5

LEMMA PlayerInvNext ==
  ASSUME PlayerInv, [Next]_vars
  PROVE  PlayerInv'
<1>1. CASE MpvCore
  BY <1>1, CoreProceedInv, CoreEndInv, CoreBuffersInv DEF MpvCore
<1>2. CASE MainThread
  BY <1>2, MainInv, HandleEventInv, DelayOverInv, CodecsDoneInv DEF MainThread
<1>3. ASSUME NEW f \in Files, QueueMedia(f) \/ Load(f)
      PROVE  PlayerInv'
  <2>1. playlist \in Seq(Files) /\ <<>> \in Seq(Files)
    BY DEF PlayerInv, PlaylistTypes
  <2> QED BY <1>3, <2>1, QueueInv DEF QueueMedia, Load
<1>4. CASE UNCHANGED vars
  <2>1. UNCHANGED <<core, playlist, selected, paused, buffering, lastEnd, events, wakeup, busy,
                    resumes>>
        /\ UNCHANGED <<fileVars, propVars, stateVars, mediaVars, restoreVars>>
    BY <1>4 DEF vars, coreVars
  <2>2. CoreTypes' /\ ResumeTypes' /\ HookIsHeld'
    BY <2>1 DEF PlayerInv, CoreTypes, ResumeTypes, HookIsHeld
  <2> QED BY <2>1, <2>2, Continued
<1> QED BY <1>1, <1>2, <1>3, <1>4, StillInv DEF Next, WebClient

LEMMA PlayerInvInit == Init => PlayerInv
<1> SUFFICES ASSUME Init PROVE PlayerInv
  OBVIOUS
<1>1. PICK c : c = Idle
  OBVIOUS
<1>2. /\ c \in CoreStates /\ c.phase = "idle" /\ c.file = NoFile
      /\ c.blocked = FALSE /\ c.stopping = FALSE
  BY <1>1 DEF Idle, CoreStates
<1>3. /\ core = c /\ playlist = <<>> /\ events = <<>> /\ resumes = {} /\ wakeup = TRUE
      /\ lastEnd = "eof" /\ ~m_inPlayback /\ ~m_playbackError /\ ~m_playbackCanceled
  BY <1>1 DEF Init
<1>4. CoreTypes /\ PlaylistTypes /\ EventTypes /\ ResumeTypes
  BY <1>2, <1>3, PlaylistFacts DEF CoreTypes, PlaylistTypes, EventTypes, ResumeTypes
<1>5. FlagTypes
  BY DEF Init, FlagTypes, EndReasons, States
<1>6. Hooks(events) = {} /\ Len(events) = 0
  BY <1>3 DEF Hooks
<1>7. HookIsHeld /\ FileIsKnown /\ NothingIsLeft
  BY <1>2, <1>3, <1>6 DEF HookIsHeld, FileIsKnown, NothingIsLeft
<1> QED BY <1>4, <1>5, <1>7 DEF PlayerInv

LEMMA PlayerAlways == Spec => []PlayerInv
BY PlayerInvInit, PlayerInvNext, PTL DEF Spec

LEMMA OneOrNone ==
  ASSUME NEW S, \A x, y \in S : x = y
  PROVE  Cardinality(S) = IF S = {} THEN 0 ELSE 1
<1>1. CASE S = {}
  BY <1>1, FS_EmptySet
<1>2. CASE S # {}
  <2>1. PICK x \in S : TRUE
    BY <1>2
  <2>2. S = {x}
    BY <2>1
  <2>3. Cardinality({x}) = 1
    BY FS_Singleton
  <2> QED BY <1>2, <2>2, <2>3
<1> QED BY <1>1, <1>2

(* The lambdas in handleMpvEvent: a hook that blocks mpv is in one pair of  *)
(* hands, none is lost, and none is continued twice.                        *)
THEOREM HookOwned == Spec => []HookHasOneOwner
<1>1. ASSUME PlayerInv
      PROVE  HookHasOneOwner
  <2> DEFINE unhandled == {i \in DOMAIN events : events[i].type = "HOOK"}
  <2>1. unhandled = Hooks(events)
    BY <1>1 DEF PlayerInv, EventTypes, Hooks
  <2>2. /\ Cardinality(unhandled) = IF unhandled = {} THEN 0 ELSE 1
        /\ Cardinality(resumes) = IF resumes = {} THEN 0 ELSE 1
    BY <1>1, <2>1, OneOrNone DEF PlayerInv, HookIsHeld
  <2> HIDE DEF unhandled
  <2>3. Cardinality(unhandled) + Cardinality(resumes) = IF core.blocked THEN 1 ELSE 0
    BY <1>1, <2>1, <2>2 DEF PlayerInv, HookIsHeld
  <2>4. /\ \A i \in unhandled : events[i].arg = core.phase
        /\ \A r \in resumes : r.hook = core.phase
    BY <1>1, <2>1 DEF PlayerInv, HookIsHeld
  <2> USE DEF unhandled
  <2> QED BY <2>3, <2>4 DEF HookHasOneOwner
<1> QED BY <1>1, PlayerAlways, PTL

(* updatePlaybackState: when the main thread has nothing left to do, the    *)
(* state that the web client was told is that of mpv, and after playback    *)
(* the way the last file ended.                                             *)
THEOREM StateFollowed == Spec => []StateFollowsCore
<1>1. ASSUME PlayerInv, ~wakeup, ~busy
      PROVE  /\ events = <<>>
             /\ m_state = CASE core.phase = "idle" ->
                    [eof |-> "finished", stop |-> "canceled", error |-> "error"][lastEnd]
               [] core.phase # "idle" /\ paused -> "paused"
               [] core.phase # "idle" /\ ~paused ->
                    IF Progressing THEN "playing" ELSE "buffering"
  <2>1. events = <<>> /\ m_paused = paused /\ m_playbackActive = Progressing /\ m_state = NewState
    BY <1>1 DEF PlayerInv, NothingIsLeft
  <2>2. LastFile(events, 0)
    BY <2>1 DEF LastFile
  <2>3. /\ m_inPlayback <=> core.phase # "idle"
        /\ core.phase = "idle" =>
             /\ m_playbackError <=> lastEnd = "error"
             /\ m_playbackCanceled <=> lastEnd = "stop"
    BY <1>1, <2>2 DEF PlayerInv, FileIsKnown
  <2>4. lastEnd \in {"eof", "stop", "error"} /\ paused \in BOOLEAN /\ Progressing \in BOOLEAN
    BY <1>1 DEF PlayerInv, FlagTypes, EndReasons, Progressing
  <2>5. CASE core.phase = "idle"
    <3>1. m_state = CASE m_playbackError                        -> "error"
                      [] ~m_playbackError /\ m_playbackCanceled   -> "canceled"
                      [] ~m_playbackError /\ ~m_playbackCanceled  -> "finished"
      BY <2>1, <2>3, <2>5 DEF NewState
    <3>2. m_state = [eof |-> "finished", stop |-> "canceled", error |-> "error"][lastEnd]
      <4>1. CASE lastEnd = "eof"
        BY <2>3, <2>5, <3>1, <4>1
      <4>2. CASE lastEnd = "stop"
        BY <2>3, <2>5, <3>1, <4>2
      <4>3. CASE lastEnd = "error"
        BY <2>3, <2>5, <3>1, <4>3
      <4> QED BY <2>4, <4>1, <4>2, <4>3
    <3> QED BY <2>1, <2>5, <3>2
  <2>6. CASE core.phase # "idle"
    <3>1. m_state = CASE m_paused                       -> "paused"
                      [] ~m_paused /\ m_playbackActive  -> "playing"
                      [] ~m_paused /\ ~m_playbackActive -> "buffering"
      BY <2>1, <2>3, <2>6 DEF NewState
    <3> QED BY <2>1, <2>4, <2>6, <3>1
  <2> QED BY <2>5, <2>6
<1>2. PlayerInv => StateFollowsCore
  BY <1>1 DEF StateFollowsCore
<1> QED BY <1>2, PlayerAlways, PTL

(* switchDisplayFrameRate and onRestoreDisplay: the display never changes   *)
(* its mode under a file that is being decoded.                             *)
THEOREM SteadyPicture == Spec => NoSwitchDuringPlayback
<1>1. ASSUME PlayerInv, [Next]_vars
      PROVE  [osMode' # osMode => core.phase \in {"idle", "on_load"}]_vars
  <2> SUFFICES ASSUME core.phase \notin {"idle", "on_load"}
               PROVE  osMode' = osMode
    OBVIOUS
  <2>1. CASE MpvCore
    BY <2>1 DEF MpvCore, CoreProceed, CoreEnd, CoreBuffers, CoreKeepsPlayer, displayVars
  <2>2. CASE HandleEvent
    <3>1. CASE Head(events).type = "HOOK" /\ Head(events).arg = "on_load"
      BY <1>1, <2>2, <3>1, TakenFacts DEF HandleEvent
    <3>2. CASE ~(Head(events).type = "HOOK" /\ Head(events).arg = "on_load")
      BY <2>2, <3>2 DEF HandleEvent, OnStartFile, OnEndFile, OnPreloadedHook, displayVars
    <3> QED BY <3>1, <3>2
  <2>3. CASE StartEvents \/ HandleProperties \/ FinishEvents \/ DelayOver \/ CodecsDone
    BY <2>3 DEF StartEvents, HandleProperties, FinishEvents, DelayOver, CodecsDone, displayVars
  <2>4. CASE OnRestoreDisplay
    BY <2>4 DEF OnRestoreDisplay, IdleActive, displayVars
  <2>5. CASE DisplayEvent
    BY <2>5 DEF DisplayEvent, Display!MonitorChange, Display!InitTimerFires
  <2>6. CASE WebClient
    BY <2>6 DEF WebClient, QueueMedia, Load, Queue, Stop, ClearQueue, StreamSwitch,
                ChangeSettings, SetPause, displayVars
  <2>7. CASE UNCHANGED vars
    BY <2>7 DEF vars, displayVars
  <2> QED BY <1>1, <2>1, <2>2, <2>3, <2>4, <2>5, <2>6, <2>7 DEF Next, MainThread
<1>2. PlayerInv /\ [Next]_vars => [osMode' # osMode => core.phase \in {"idle", "on_load"}]_vars
  BY <1>1
<1> QED BY <1>2, PlayerAlways, PTL DEF Spec, NoSwitchDuringPlayback

(* The fields of the player and of mpv have their types, and only so many   *)
(* files wait in the playlist.                                              *)
THEOREM TypeCorrect == Spec => []TypeOK
<1>1. PlayerInv => TypeOK
  <2> SUFFICES ASSUME PlayerInv PROVE TypeOK
    OBVIOUS
  <2>1. /\ core \in [phase : {"idle", "on_load", "on_preloaded", "playing"},
                     file : Files \cup {NoFile}, blocked : BOOLEAN, stopping : BOOLEAN]
        /\ core.file = NoFile <=> core.phase = "idle"
        /\ core.blocked => core.phase \in {"on_load", "on_preloaded"}
        /\ core.stopping => core.phase # "idle"
    BY DEF PlayerInv, CoreTypes, CoreStates
  <2>2. playlist \in Seq(Files) /\ Len(playlist) <= MaxPlaylist
    BY DEF PlayerInv, PlaylistTypes
  <2>3. events \in Seq({Event("START_FILE", ""), Event("HOOK", "on_load"),
                        Event("HOOK", "on_preloaded")}
                         \cup {Event("END_FILE", reason) : reason \in EndReasons})
    BY DEF PlayerInv, EventTypes, Events
  <2>4. resumes \subseteq [hook : {"on_load", "on_preloaded"}, after : {"delay", "codecs"}]
    BY DEF PlayerInv, ResumeTypes, Resumes
  <2> QED BY <2>1, <2>2, <2>3, <2>4 DEF PlayerInv, FlagTypes, States, TypeOK
<1> QED BY <1>1, PlayerAlways, PTL

-----------------------------------------------------------------------------
(* The mode that suits a file, on the display that is switched for it.     *)

\* The smallest of some numbers is one of them.
LEMMA LeastExists ==
  ASSUME NEW S, S \subseteq Nat, S # {}
  PROVE  Display!Min(S) \in S
<1> DEFINE Upto(x) == 0 .. x
           R == StrictSubsetOrdering(Nat)
           T == {Upto(x) : x \in S}
<1>1. IsWellFoundedOn(R, FiniteSubsetsOf(Nat))
  BY FS_StrictSubsetOrderingWellFounded
<1>2. ASSUME NEW x \in S
      PROVE  Upto(x) \in FiniteSubsetsOf(Nat)
  <2>1. x \in Int
    OBVIOUS
  <2>2. IsFiniteSet(0 .. x)
    BY <2>1, FS_Interval
  <2>3. 0 .. x \subseteq Nat
    BY <2>1
  <2> QED BY <2>2, <2>3 DEF FiniteSubsetsOf
<1>3. T \subseteq FiniteSubsetsOf(Nat) /\ T # {}
  BY <1>2
<1> HIDE DEF R
<1>4. PICK A \in T : \A B \in T : <<B, A>> \notin R
  <2> HIDE DEF T
  <2> QED BY <1>1, <1>3, WFMin
<1>5. PICK m \in S : A = Upto(m)
  OBVIOUS
<1>6. ASSUME NEW y \in S
      PROVE  m <= y
  <2>1. <<Upto(y), Upto(m)>> \notin R
    BY <1>4, <1>5
  <2>2. CASE y < m
    <3>1. Upto(y) \subseteq Upto(m) /\ m \in Upto(m) /\ m \notin Upto(y)
      BY <2>2
    <3>2. Upto(y) \subseteq Nat /\ Upto(m) \subseteq Nat
      OBVIOUS
    <3> HIDE DEF Upto
    <3> QED BY <2>1, <3>1, <3>2 DEF R, StrictSubsetOrdering
  <2> QED BY <2>2
<1> QED BY <1>6 DEF Display!Min

\* What a candidate is worth by itself, and what the current mode adds.
WeighsByItself(modes, id, rate, worth) ==
  \A current : Display!Weight(modes, current, id, rate) =
    (IF Display!SameResolution(modes[id], modes[current]) THEN 1000 ELSE 0)
    + worth + (IF id = current THEN 5 ELSE 0)

LEMMA WeightParts ==
  ASSUME NEW modes, NEW id, NEW rate
  PROVE  \E worth \in 0 .. 360 : WeighsByItself(modes, id, rate, worth)
<1> DEFINE Points(test, points) == IF test THEN points ELSE 0
           m == modes[id]
<1>1. PICK a \in {0, 200} : a = Points(Display!Distance(m.rate, rate) <= 10, 200)
  OBVIOUS
<1>2. PICK b \in {0, 75} : b = Points(Display!IsRateMultipleOf(rate, m.rate, TRUE), 75)
  OBVIOUS
<1>3. PICK c \in {0, 50} : c = Points(Display!Distance(m.rate, rate) <= 500, 50)
  OBVIOUS
<1>4. PICK d \in {0, 25} : d = Points(Display!IsRateMultipleOf(rate, m.rate, FALSE), 25)
  OBVIOUS
<1>5. PICK e \in {0, 10} : e = Points(~m.interlaced, 10)
  OBVIOUS
<1>6. ASSUME NEW current
      PROVE  Display!Weight(modes, current, id, rate) =
               (IF Display!SameResolution(m, modes[current]) THEN 1000 ELSE 0)
               + (a + b + c + d + e) + (IF id = current THEN 5 ELSE 0)
  <2>1. PICK s \in {0, 1000} : s = Points(Display!SameResolution(m, modes[current]), 1000)
    OBVIOUS
  <2>2. PICK t \in {0, 5} : t = Points(id = current, 5)
    OBVIOUS
  <2>3. Display!Weight(modes, current, id, rate) = s + a + b + c + d + e + t
    BY <1>1, <1>2, <1>3, <1>4, <1>5, <2>1, <2>2
    DEF Display!Weight, Display!MatchRes, Display!MatchRateExact, Display!MatchRateMultiple,
        Display!MatchRateClose, Display!MatchMultipleClose, Display!MatchInterlace,
        Display!MatchCurrent
  <2> HIDE DEF m
  <2>4. s + a + b + c + d + e + t = s + (a + b + c + d + e) + t
    OBVIOUS
  <2> QED BY <2>1, <2>2, <2>3, <2>4
<1>7. a + b + c + d + e \in 0 .. 360
  OBVIOUS
<1> QED BY <1>6, <1>7 DEF WeighsByItself

\* A mode that was chosen for a rate is chosen again once it is the current
\* one: the display does not move a second time.
LEMMA ChosenModeStays ==
  ASSUME NEW modes, Len(modes) \in Nat, NEW current \in 1 .. Len(modes), NEW rate, NEW avoid,
         Display!FindBestMatch(modes, current, rate, avoid) # Display!NoMode
  PROVE  LET best == Display!FindBestMatch(modes, current, rate, avoid)
         IN  /\ best \in Display!Ids(modes)
             /\ Display!FindBestMatch(modes, best, rate, avoid) = best
<1> DEFINE W(c, id) == Display!Weight(modes, c, id, rate)
           C        == Display!Candidates(modes, avoid)
           Heaviest(c) == {id \in C : \A other \in C : W(c, id) >= W(c, other)}
<1>1. C \subseteq 1 .. Len(modes)
  BY DEF Display!Candidates, Display!Ids
<1>2. \A c \in 1 .. Len(modes) :
        Display!FindBestMatch(modes, c, rate, avoid) =
          IF Heaviest(c) # {} /\ W(c, Display!Min(Heaviest(c))) > 1000
          THEN Display!Min(Heaviest(c)) ELSE 0
  BY DEF Display!FindBestMatch, Display!NoMode, Display!MatchRes
<1>3. PICK b : b = Display!FindBestMatch(modes, current, rate, avoid)
  OBVIOUS
<1>4. /\ Heaviest(current) # {} /\ b = Display!Min(Heaviest(current)) /\ W(current, b) > 1000
  BY <1>2, <1>3 DEF Display!NoMode
<1>5. b \in C /\ \A other \in C : W(current, b) >= W(current, other)
  <2>1. Heaviest(current) \subseteq Nat
    BY <1>1
  <2>2. b \in Heaviest(current)
    <3> HIDE DEF Heaviest
    <3> QED BY <1>4, <2>1, LeastExists
  <2> QED BY <2>2
<1>6. b \in 1 .. Len(modes)
  BY <1>1, <1>5
<1> DEFINE Same(x, y) == Display!SameResolution(modes[x], modes[y])
<1>7. \A id : \E worth \in 0 .. 360 : WeighsByItself(modes, id, rate, worth)
  BY WeightParts
<1>8. PICK p \in 0 .. 360 : WeighsByItself(modes, b, rate, p)
  BY <1>7
<1>9. Same(b, current)
  BY <1>4, <1>8 DEF WeighsByItself
<1>10. \A id : Same(id, b) <=> Same(id, current)
  BY <1>9 DEF Display!SameResolution
<1>11. Same(b, b)
  BY DEF Display!SameResolution
<1>12. W(b, b) > 1000
  <2>1. W(b, b) = 1000 + p + 5
    BY <1>8, <1>11 DEF WeighsByItself
  <2> HIDE DEF W
  <2> QED BY <2>1
<1>13. ASSUME NEW id \in C, id # b, b # current
       PROVE  W(b, b) > W(b, id)
  <2>1. PICK q \in 0 .. 360 : WeighsByItself(modes, id, rate, q)
    BY <1>7
  <2>2. W(b, id) = (IF Same(id, current) THEN 1000 ELSE 0) + q
    BY <1>10, <1>13, <2>1 DEF WeighsByItself
  <2>3. W(current, id) = (IF Same(id, current) THEN 1000 ELSE 0) + q
                           + (IF id = current THEN 5 ELSE 0)
    BY <2>1 DEF WeighsByItself
  <2>4. W(current, b) = 1000 + p + (IF b = current THEN 5 ELSE 0)
    BY <1>8, <1>9 DEF WeighsByItself
  <2>5. W(b, b) = 1000 + p + 5
    BY <1>8, <1>11 DEF WeighsByItself
  <2>6. W(current, b) >= W(current, id)
    BY <1>5, <1>13
  <2>7. PICK s \in {0, 1000} : s = IF Same(id, current) THEN 1000 ELSE 0
    OBVIOUS
  <2> HIDE DEF W, Same, C
  <2> QED BY <1>13, <2>2, <2>3, <2>4, <2>5, <2>6, <2>7
<1>14. ASSUME b # current
       PROVE  \A id \in C : W(b, b) >= W(b, id)
  <2>1. W(b, b) >= W(b, b)
    <3>1. W(b, b) = 1000 + p + 5
      BY <1>8, <1>11 DEF WeighsByItself
    <3> HIDE DEF W
    <3> QED BY <3>1
  <2>2. \A id \in C : id # b => W(b, b) >= W(b, id)
    <3> SUFFICES ASSUME NEW id \in C, id # b PROVE W(b, b) >= W(b, id)
      OBVIOUS
    <3>1. PICK q \in 0 .. 360 : WeighsByItself(modes, id, rate, q)
      BY <1>7
    <3>2. W(b, b) = 1000 + p + 5
      BY <1>8, <1>11 DEF WeighsByItself
    <3>3. W(b, id) \in {q, 1000 + q}
      BY <3>1 DEF WeighsByItself
    <3>4. W(b, b) > W(b, id)
      BY <1>13, <1>14
    <3> HIDE DEF W, C
    <3> QED BY <3>2, <3>3, <3>4
  <2> QED BY <2>1, <2>2
<1>15. ASSUME b # current
       PROVE  \A id \in C : id # b => ~(\A other \in C : W(b, id) >= W(b, other))
  <2> SUFFICES ASSUME NEW id \in C, id # b PROVE ~(W(b, id) >= W(b, b))
    BY <1>5
  <2>1. PICK q \in 0 .. 360 : WeighsByItself(modes, id, rate, q)
    BY <1>7
  <2>2. W(b, b) = 1000 + p + 5
    BY <1>8, <1>11 DEF WeighsByItself
  <2>3. W(b, id) \in {q, 1000 + q}
    BY <2>1 DEF WeighsByItself
  <2>4. W(b, b) > W(b, id)
    BY <1>13, <1>15
  <2> HIDE DEF W, C
  <2> QED BY <2>2, <2>3, <2>4
<1>16. b # current => Heaviest(b) = {b}
  BY <1>5, <1>14, <1>15
<1>17. Display!Min({b}) = b
  BY <1>6 DEF Display!Min
<1>18. CASE b # current
  <2>1. Display!FindBestMatch(modes, b, rate, avoid) =
          IF Heaviest(b) # {} /\ W(b, Display!Min(Heaviest(b))) > 1000
          THEN Display!Min(Heaviest(b)) ELSE 0
    BY <1>2, <1>6
  <2> HIDE DEF W, Heaviest
  <2>2. Display!FindBestMatch(modes, b, rate, avoid) = b
    BY <1>12, <1>16, <1>17, <1>18, <2>1
  <2> QED BY <1>3, <1>6, <2>2 DEF Display!Ids
<1>19. CASE b = current
  BY <1>3, <1>6, <1>19 DEF Display!Ids
<1> QED BY <1>18, <1>19

-----------------------------------------------------------------------------
(* A client that replaces files with load(), on a display that obeys.      *)

\* Nothing is queued behind a file that plays, nobody switches the feature
\* off, and the windowing system applies the modes it is given.
Replacing ==
  /\ Calls \subseteq {"load", "stop", "clearQueue", "pause", "streamSwitch"}
  /\ SetOutcomes \subseteq {"applied"}
  /\ ModesOf \in [Outputs -> Seq(Display!Modes)]

\* The display that shows the window is enumerated and has a mode.
ScreenInv ==
  /\ window \in Outputs
  /\ Display!DisplayOf(window, outputs) # Display!NoDisplay
  /\ \A d \in DOMAIN outputs : outputs[d] \in Outputs
  /\ osMode \in [Outputs -> Nat]
  /\ \A o \in Outputs : osMode[o] \in 1 .. Len(ModesOf[o])

\* The file that mpv has is the one queued last, or it is being stopped and
\* the one queued last comes next, if any.
LoadedInv ==
  /\ autoSwitch = TRUE
  /\ core.phase = "idle" => playlist = <<>>
  /\ core.phase # "idle" /\ ~core.stopping => playlist = <<>> /\ core.file = m_media
  /\ core.stopping => playlist = <<>> \/ playlist = <<m_media>>

\* The on_load hook of the file has been handled, the on_preloaded hook.
Opened ==
  core.phase \in {"on_preloaded", "playing"} \/ (core.phase = "on_load" /\ Hooks(events) = {})
Chosen ==
  core.phase = "playing" \/ (core.phase = "on_preloaded" /\ Hooks(events) = {})

Suits(rate) ==
  Display!FindBestMatch(ModesOf[window], osMode[window], rate, Avoid)
    \in {Display!NoMode, osMode[window]}

RateInv ==
  Opened /\ ~core.stopping /\ FrameRate[core.file] >= 1000 => Suits(FrameRate[core.file])

StreamsInv == Chosen /\ ~core.stopping => selected = core.file

PlaysInv == PlayerInv /\ ScreenInv /\ LoadedInv /\ RateInv /\ StreamsInv

LEMMA ModesFacts ==
  ASSUME Replacing, NEW o \in Outputs
  PROVE  Len(ModesOf[o]) \in Nat
BY DEF Replacing

\* The display is left alone.
LEMMA ScreenKept ==
  ASSUME ScreenInv, UNCHANGED <<outputs, window, osMode>>
  PROVE  ScreenInv'
BY DEF ScreenInv, Display!DisplayOf, Display!NoDisplay

LEMMA SuitsKept ==
  ASSUME UNCHANGED <<window, osMode>>, NEW rate, Suits(rate)
  PROVE  Suits(rate)'
<1>1. PICK m : m = osMode[window]
  OBVIOUS
<1>2. Display!FindBestMatch(ModesOf[window], m, rate, Avoid) \in {Display!NoMode, m}
  BY <1>1 DEF Suits
<1>3. window' = window /\ osMode'[window'] = m
  BY <1>1
<1>4. Display!FindBestMatch(ModesOf[window'], osMode'[window'], rate, Avoid)
        \in {Display!NoMode, osMode'[window']}
  BY <1>2, <1>3
<1> QED BY <1>4 DEF Suits, Display!NoMode

\* Steps that leave the file of mpv and its display alone.
LEMMA QuietPlays ==
  ASSUME PlaysInv, PlayerInv', playlist' = playlist \/ playlist' = <<>>,
         UNCHANGED <<core, m_media, autoSwitch, selected, outputs, window, osMode>>,
         Hooks(events') = {} => Hooks(events) = {}
  PROVE  PlaysInv'
<1>1. ScreenInv'
  BY ScreenKept DEF PlaysInv
<1>2. LoadedInv'
  BY DEF PlaysInv, LoadedInv
<1>3. (Opened' => Opened) /\ (Chosen' => Chosen)
  BY DEF Opened, Chosen
<1>4. RateInv'
  BY <1>3, SuitsKept DEF PlaysInv, RateInv
<1>5. StreamsInv'
  BY <1>3 DEF PlaysInv, StreamsInv
<1> QED BY <1>1, <1>2, <1>4, <1>5 DEF PlaysInv

LEMMA ClientPlays ==
  ASSUME Replacing, PlaysInv, PlayerInv',
         ClearQueue \/ StreamSwitch \/ \E pause \in BOOLEAN : SetPause(pause)
  PROVE  PlaysInv'
<1>1. /\ playlist' = playlist \/ playlist' = <<>>
      /\ UNCHANGED <<core, selected, events, displayVars, mediaVars>>
  BY DEF ClearQueue, StreamSwitch, SetPause
<1> QED BY <1>1, QuietPlays DEF displayVars, mediaVars

LEMMA SameFile ==
  ASSUME PlayerInv
  PROVE  /\ Stopped.phase = core.phase /\ Stopped.file = core.file
         /\ Stopped.stopping <=> core.phase # "idle"
         /\ core.phase = "idle" => ~core.stopping /\ core.file = NoFile
<1>1. core \in CoreStates
  BY DEF PlayerInv, CoreTypes
<1>2. PICK b \in BOOLEAN : b = (core.phase # "idle")
  OBVIOUS
<1>3. Stopped = [core EXCEPT !.stopping = b]
  BY <1>2 DEF Stopped
<1>4. Stopped.stopping = b
  BY <1>1, <1>3, CoreFields DEF CoreStates
<1> QED BY <1>2, <1>4, StoppedFacts DEF PlayerInv, CoreTypes

LEMMA StopPlays ==
  ASSUME PlaysInv, PlayerInv', Stop
  PROVE  PlaysInv'
<1>1. /\ core' = Stopped /\ playlist' = <<>> /\ UNCHANGED <<displayVars, mediaVars, selected>>
  BY DEF Stop
<1>2. ScreenInv'
  BY <1>1, ScreenKept DEF PlaysInv, displayVars
<1>3. /\ core'.phase = core.phase /\ core'.file = core.file
      /\ core'.stopping <=> core.phase # "idle"
  BY <1>1, SameFile DEF PlaysInv
<1>4. LoadedInv'
  BY <1>1, <1>3 DEF PlaysInv, LoadedInv, mediaVars
<1>5. ~Opened' \/ core'.stopping
  BY <1>3 DEF Opened
<1>6. ~Chosen' \/ core'.stopping
  BY <1>3 DEF Chosen
<1> QED BY <1>2, <1>4, <1>5, <1>6 DEF PlaysInv, RateInv, StreamsInv

\* mpv starts the only file there is, or has none.
LEMMA GoesOnPlays ==
  ASSUME PlaysInv, PlayerInv', NEW list, NEW reported \in Seq(Events),
         list = <<>> \/ list = <<m_media'>>, CoreGoesOn(list, reported),
         autoSwitch' = autoSwitch, UNCHANGED <<outputs, window, osMode>>
  PROVE  PlaysInv'
<1>1. ScreenInv' /\ autoSwitch' = TRUE
  BY ScreenKept DEF PlaysInv, LoadedInv
<1>2. CASE list = <<>>
  <2>1. core' = Idle /\ playlist' = <<>>
    BY <1>2 DEF CoreGoesOn
  <2>2. core'.phase = "idle" /\ core'.stopping = FALSE
    BY <2>1 DEF Idle
  <2>3. LoadedInv' /\ ~Opened' /\ ~Chosen'
    BY <1>1, <2>1, <2>2 DEF LoadedInv, Opened, Chosen
  <2> QED BY <1>1, <2>3 DEF PlaysInv, RateInv, StreamsInv
<1>3. CASE list = <<m_media'>>
  <2>1. list # <<>> /\ Head(list) = m_media' /\ Tail(list) = <<>>
    BY <1>3
  <2>2. /\ core' = [phase |-> "on_load", file |-> Head(list), blocked |-> TRUE, stopping |-> FALSE]
        /\ playlist' = Tail(list)
        /\ events' = reported \o <<Event("START_FILE", ""), Event("HOOK", "on_load")>>
    BY <2>1 DEF CoreGoesOn
  <2>3. core'.phase = "on_load" /\ core'.file = m_media' /\ core'.stopping = FALSE
    BY <2>1, <2>2
  <2>4. LoadedInv'
    BY <1>1, <2>1, <2>2, <2>3 DEF LoadedInv
  <2>5. Hooks(events') # {}
    <3>1. PICK start : start = Event("START_FILE", "")
      OBVIOUS
    <3>2. PICK hook : hook = Event("HOOK", "on_load")
      OBVIOUS
    <3>3. start \in Events /\ hook \in Events /\ hook.type = "HOOK"
      BY <3>1, <3>2, TypesOfEvents
    <3>4. events' = Append(Append(reported, start), hook) /\ Append(reported, start) \in Seq(Events)
      BY <2>2, <3>1, <3>2, <3>3, TwoAdded, EventAdded
    <3>5. PICK q \in Seq(Events) : q = Append(reported, start)
      BY <3>4
    <3>6. Hooks(events') = Hooks(q) \cup {Len(q) + 1}
      BY <3>3, <3>4, <3>5, HooksAdded
    <3> QED BY <3>6
  <2>6. ~Opened' /\ ~Chosen'
    BY <2>3, <2>5 DEF Opened, Chosen
  <2> QED BY <1>1, <2>4, <2>6 DEF PlaysInv, RateInv, StreamsInv
<1> QED BY <1>2, <1>3

LEMMA LoadPlays ==
  ASSUME PlaysInv, PlayerInv', NEW f \in Files, Load(f)
  PROVE  PlaysInv'
<1>1. Queue(f, Stopped, <<>>)
  BY DEF Load
<1>2. m_media' = f /\ UNCHANGED <<outputs, window, osMode, autoSwitch>>
  BY <1>1 DEF Queue
<1>3. CASE core.phase = "idle"
  <2>1. CoreGoesOn(<<f>>, events)
    BY <1>1, <1>3 DEF Queue
  <2>2. events \in Seq(Events)
    BY DEF PlaysInv, PlayerInv, EventTypes
  <2> QED BY <1>2, <2>1, <2>2, GoesOnPlays
<1>4. CASE core.phase # "idle"
  <2>1. core' = Stopped /\ playlist' = Append(<<>>, f) /\ selected' = selected
    BY <1>1, <1>4 DEF Queue
  <2>2. core'.phase = core.phase /\ core'.stopping
    BY <1>4, <2>1, SameFile DEF PlaysInv
  <2>3. playlist' = <<m_media'>>
    BY <1>2, <2>1
  <2>4. ScreenInv'
    BY <1>2, ScreenKept DEF PlaysInv
  <2>5. LoadedInv'
    BY <1>2, <1>4, <2>2, <2>3 DEF PlaysInv, LoadedInv
  <2> QED BY <2>2, <2>4, <2>5 DEF PlaysInv, RateInv, StreamsInv
<1> QED BY <1>3, <1>4

LEMMA CoreEndPlays ==
  ASSUME PlaysInv, PlayerInv', NEW reason \in EndReasons, CoreEnd(reason)
  PROVE  PlaysInv'
<1>1. CoreGoesOn(playlist, Append(events, Event("END_FILE", reason)))
  BY DEF CoreEnd
<1>2. Append(events, Event("END_FILE", reason)) \in Seq(Events)
  <2>1. PICK e \in Events : e = Event("END_FILE", reason)
    BY TypesOfEvents
  <2> QED BY <2>1, EventAdded DEF PlaysInv, PlayerInv, EventTypes
<1>3. UNCHANGED <<outputs, window, osMode, autoSwitch, m_media>> /\ core.phase # "idle"
  BY DEF CoreEnd, CoreKeepsPlayer, displayVars, mediaVars
<1>4. playlist = <<>> \/ playlist = <<m_media'>>
  BY <1>3 DEF PlaysInv, LoadedInv
<1> QED BY <1>1, <1>2, <1>3, <1>4, GoesOnPlays

LEMMA CoreProceedPlays ==
  ASSUME PlaysInv, PlayerInv', CoreProceed
  PROVE  PlaysInv'
<1>1. /\ core.phase \in {"on_load", "on_preloaded"} /\ ~core.blocked /\ core \in CoreStates
      /\ Hooks(events) = {} /\ events \in Seq(Events)
  BY FreeCore DEF CoreProceed, PlaysInv, PlayerInv, CoreTypes, EventTypes
<1>2. UNCHANGED <<playlist, selected, m_media, autoSwitch, outputs, window, osMode>>
  BY DEF CoreProceed, CoreKeepsPlayer, displayVars, mediaVars
<1>3. /\ core'.file = core.file /\ core'.stopping = core.stopping /\ core'.phase # "idle"
      /\ core.phase = "on_load" => core'.phase = "on_preloaded" /\ Hooks(events') # {}
  <2>1. CASE core.phase = "on_load"
    <3>1. /\ core' = [core EXCEPT !.phase = "on_preloaded", !.blocked = TRUE]
          /\ events' = Append(events, Event("HOOK", "on_preloaded"))
      BY <2>1 DEF CoreProceed
    <3>2. PICK hook \in Events : hook = Event("HOOK", "on_preloaded") /\ hook.type = "HOOK"
      BY TypesOfEvents
    <3>3. Hooks(events') = Hooks(events) \cup {Len(events) + 1}
      BY <1>1, <3>1, <3>2, HooksAdded
    <3>4. core'.file = core.file /\ core'.stopping = core.stopping /\ core'.phase = "on_preloaded"
      BY <1>1, <3>1, CoreFields DEF CoreStates
    <3> QED BY <3>3, <3>4
  <2>2. CASE core.phase = "on_preloaded"
    <3>1. core' = [core EXCEPT !.phase = "playing"]
      BY <2>2 DEF CoreProceed
    <3>2. core'.file = core.file /\ core'.stopping = core.stopping /\ core'.phase = "playing"
      BY <1>1, <3>1, CoreFields DEF CoreStates
    <3> QED BY <2>2, <3>2
  <2> QED BY <1>1, <2>1, <2>2
<1>4. ScreenInv' /\ LoadedInv'
  BY <1>1, <1>2, <1>3, ScreenKept DEF PlaysInv, LoadedInv
<1>5. Opened /\ (Chosen' => Chosen)
  BY <1>1, <1>3 DEF Opened, Chosen
<1>6. RateInv'
  BY <1>2, <1>3, <1>5, SuitsKept DEF PlaysInv, RateInv
<1>7. StreamsInv'
  BY <1>2, <1>3, <1>5 DEF PlaysInv, StreamsInv
<1> QED BY <1>4, <1>6, <1>7 DEF PlaysInv

\* Steps that let mpv go on from its hook, or not yet.
LEMMA ContinuedPlays ==
  ASSUME PlaysInv, PlayerInv', Hooks(events) = {} \/ Hooks(events') # {},
         core'.phase = core.phase, core'.file = core.file, core'.stopping = core.stopping,
         UNCHANGED <<playlist, m_media, autoSwitch, selected, outputs, window, osMode>>
  PROVE  PlaysInv'
<1>1. ScreenInv' /\ LoadedInv'
  BY ScreenKept DEF PlaysInv, LoadedInv
<1>2. (Opened' => Opened) /\ (Chosen' => Chosen)
  BY DEF Opened, Chosen
<1>3. RateInv'
  BY <1>2, SuitsKept DEF PlaysInv, RateInv
<1>4. StreamsInv'
  BY <1>2 DEF PlaysInv, StreamsInv
<1> QED BY <1>1, <1>3, <1>4 DEF PlaysInv

LEMMA LoadingFields ==
  ASSUME PlayerInv, NEW hook, NEW others, StartCodecsLoading(hook, others)
  PROVE  core'.phase = core.phase /\ core'.file = core.file /\ core'.stopping = core.stopping
<1>1. core \in CoreStates
  BY DEF PlayerInv, CoreTypes
<1> QED BY <1>1, CoreFields DEF StartCodecsLoading, CoreStates

LEMMA WaitingPlays ==
  ASSUME PlaysInv, PlayerInv', DelayOver \/ CodecsDone
  PROVE  PlaysInv'
<1>1. UNCHANGED <<playlist, selected, events, displayVars, mediaVars>>
  BY DEF DelayOver, CodecsDone
<1>2. core'.phase = core.phase /\ core'.file = core.file /\ core'.stopping = core.stopping
  <2>1. CASE DelayOver
    BY <2>1, LoadingFields DEF DelayOver, PlaysInv
  <2>2. CASE CodecsDone
    <3>1. core' = [core EXCEPT !.blocked = FALSE] /\ core \in CoreStates
      BY <2>2 DEF CodecsDone, PlaysInv, PlayerInv, CoreTypes
    <3> QED BY <3>1, CoreFields DEF CoreStates
  <2> QED BY <2>1, <2>2
<1> QED BY <1>1, <1>2, ContinuedPlays DEF displayVars, mediaVars

\* A mode is set on one of the displays, and the others keep theirs.
LEMMA ModeSet ==
  ASSUME Replacing, ScreenInv, UNCHANGED <<outputs, window>>, NEW o \in Outputs,
         NEW m \in 1 .. Len(ModesOf[o]), NEW outcome, Display!SetDisplayMode(o, m, outcome)
  PROVE  ScreenInv'
<1>1. osMode' = osMode \/ osMode' = [osMode EXCEPT ![o] = m]
  BY DEF Display!SetDisplayMode
<1>2. m \in Nat
  BY ModesFacts
<1>3. osMode' \in [Outputs -> Nat] /\ \A p \in Outputs : osMode'[p] \in 1 .. Len(ModesOf[p])
  BY <1>1, <1>2 DEF ScreenInv
<1> QED BY <1>3 DEF ScreenInv, Display!DisplayOf, Display!NoDisplay

\* onRestoreDisplay: only when no file is loaded.
LEMMA RestorePlays ==
  ASSUME Replacing, PlaysInv, PlayerInv', OnRestoreDisplay
  PROVE  PlaysInv'
<1>1. UNCHANGED <<core, playlist, selected, events, m_media, autoSwitch>>
  BY DEF OnRestoreDisplay, coreVars, mediaVars
<1>2. CASE core.phase = "idle"
  <2>1. Display!RestorePreviousVideoMode
    BY <1>2 DEF OnRestoreDisplay, IdleActive
  <2>2. UNCHANGED <<outputs, window>>
    BY <2>1 DEF Display!RestorePreviousVideoMode, Display!desktop
  <2>3. osMode' = osMode => ScreenInv'
    BY <2>2, ScreenKept DEF PlaysInv
  <2>4. ASSUME osMode' # osMode
        PROVE  ScreenInv'
    <3>1. /\ Display!IsValidDisplayMode(outputs, m_lastDisplay, m_lastVideoMode)
          /\ \E outcome \in SetOutcomes :
               Display!SetDisplayMode(outputs[m_lastDisplay], m_lastVideoMode, outcome)
      BY <2>1, <2>4 DEF Display!RestorePreviousVideoMode, Display!NoSwitch
    <3>2. outputs[m_lastDisplay] \in Outputs
      BY <3>1 DEF Display!IsValidDisplayMode, PlaysInv, ScreenInv
    <3>3. m_lastVideoMode \in 1 .. Len(ModesOf[outputs[m_lastDisplay]])
      BY <3>1 DEF Display!IsValidDisplayMode, Display!Ids
    <3> QED BY <2>2, <3>1, <3>2, <3>3, ModeSet DEF PlaysInv
  <2>5. ScreenInv'
    BY <2>3, <2>4
  <2>6. LoadedInv' /\ ~Opened' /\ ~Chosen'
    BY <1>1, <1>2 DEF PlaysInv, LoadedInv, Opened, Chosen
  <2> QED BY <2>5, <2>6 DEF PlaysInv, RateInv, StreamsInv
<1>3. CASE core.phase # "idle"
  <2>1. UNCHANGED displayVars
    BY <1>3 DEF OnRestoreDisplay, IdleActive
  <2> QED BY <1>1, <2>1, QuietPlays DEF displayVars
<1> QED BY <1>2, <1>3

\* switchToBestVideoMode leaves the window on a mode that suits the rate.
LEMMA SwitchSuits ==
  ASSUME Replacing, ScreenInv, NEW rate, NEW switched,
         Display!SwitchToBestVideoMode(rate, switched)
  PROVE  ScreenInv' /\ Suits(rate)' /\ UNCHANGED <<outputs, window>>
<1> DEFINE current == osMode[window]
           modes   == ModesOf[window]
           best    == Display!FindBestMatch(modes, current, rate, Avoid)
<1>1. UNCHANGED <<outputs, window>>
  BY DEF Display!SwitchToBestVideoMode, Display!desktop
<1>2. window \in Outputs /\ current \in 1 .. Len(modes) /\ Len(modes) \in Nat
  BY ModesFacts DEF ScreenInv
<1>3. CASE best \in {Display!NoMode, current}
  <2>1. osMode' = osMode
    BY <1>3 DEF Display!SwitchToBestVideoMode, Display!NoSwitch, ScreenInv
  <2>2. Suits(rate)
    BY <1>3 DEF Suits
  <2> QED BY <1>1, <2>1, <2>2, ScreenKept, SuitsKept
<1>4. CASE best \notin {Display!NoMode, current}
  <2>1. PICK outcome \in SetOutcomes : Display!SetDisplayMode(window, best, outcome)
    BY <1>4 DEF Display!SwitchToBestVideoMode, ScreenInv
  <2>2. PICK b : b = best
    OBVIOUS
  <2>3. b \in 1 .. Len(modes) /\ Display!FindBestMatch(modes, b, rate, Avoid) = b
    BY <1>2, <1>4, <2>2, ChosenModeStays DEF Display!Ids
  <2>4. outcome = "applied"
    BY <2>1 DEF Replacing
  <2>5. osMode' = [osMode EXCEPT ![window] = b]
    BY <2>1, <2>2, <2>4 DEF Display!SetDisplayMode
  <2>6. osMode'[window] = b
    BY <1>2, <2>5 DEF ScreenInv
  <2>7. Suits(rate)'
    <3>1. PICK m : m = osMode'[window'] /\ m = b
      BY <1>1, <2>6
    <3>2. Display!FindBestMatch(ModesOf[window'], m, rate, Avoid) \in {Display!NoMode, m}
      BY <1>1, <2>3, <3>1
    <3> QED BY <3>1, <3>2 DEF Suits, Display!NoMode
  <2>8. ScreenInv'
    BY <1>1, <1>2, <2>1, <2>2, <2>3, ModeSet
  <2> QED BY <1>1, <2>7, <2>8
<1> QED BY <1>3, <1>4

\* The on_load hook: the rate of the file that was queued last, which is
\* that of mpv unless mpv is to stop.
LEMMA OnLoadPlays ==
  ASSUME Replacing, PlaysInv, PlayerInv', TakeEvent, OnLoadHook,
         Head(events).type = "HOOK", Head(events).arg = "on_load",
         UNCHANGED <<playlist, mediaVars>>
  PROVE  PlaysInv'
<1>1. core.phase = "on_load" /\ Hooks(events') = {}
  BY TakenFacts DEF PlaysInv
<1>2. PICK switched \in BOOLEAN :
        /\ IF ~autoSwitch \/ MediaFrameRate < 1000
           THEN ~switched /\ UNCHANGED <<displayVars, m_restoreDisplayTimer>>
           ELSE /\ m_restoreDisplayTimer' = FALSE
                /\ Display!SwitchToBestVideoMode(MediaFrameRate, switched)
        /\ ResumeOnLoad(switched)
  BY DEF OnLoadHook
<1>3. core'.phase = core.phase /\ core'.file = core.file /\ core'.stopping = core.stopping
  BY <1>2, LoadingFields DEF ResumeOnLoad, PlaysInv
<1>4. autoSwitch /\ selected' = selected /\ UNCHANGED <<playlist, m_media, autoSwitch>>
  BY DEF PlaysInv, LoadedInv, OnLoadHook, mediaVars
<1>5. LoadedInv'
  BY <1>3, <1>4 DEF PlaysInv, LoadedInv
<1>6. ~Chosen'
  BY <1>1, <1>3 DEF Chosen
<1>7. ~core.stopping => core.file = m_media /\ MediaFrameRate = FrameRate[core.file]
  <2>1. core.file # NoFile
    BY <1>1 DEF PlaysInv, PlayerInv, CoreTypes
  <2> QED BY <1>1, <2>1 DEF PlaysInv, LoadedInv, MediaFrameRate
<1>8. CASE MediaFrameRate < 1000
  <2>1. UNCHANGED <<outputs, window, osMode>>
    BY <1>2, <1>8 DEF displayVars
  <2>2. ScreenInv'
    BY <2>1, ScreenKept DEF PlaysInv
  <2>3. RateInv'
    <3>1. \/ core.stopping
          \/ FrameRate[core.file] \in Nat /\ FrameRate[core.file] < 1000
      <4>1. core.file \in Files \cup {NoFile} /\ core.file # NoFile
        BY <1>1 DEF PlaysInv, PlayerInv, CoreTypes, CoreStates
      <4> QED BY <1>7, <1>8, <4>1, PlayerAssumption
    <3> QED BY <1>3, <3>1 DEF RateInv
  <2> QED BY <1>5, <1>6, <2>2, <2>3 DEF PlaysInv, StreamsInv
<1>9. CASE ~(MediaFrameRate < 1000)
  <2>1. Display!SwitchToBestVideoMode(MediaFrameRate, switched)
    BY <1>2, <1>4, <1>9
  <2>2. PICK rate : rate = MediaFrameRate
    OBVIOUS
  <2>3. ScreenInv' /\ Suits(rate)'
    BY <2>1, <2>2, SwitchSuits DEF PlaysInv
  <2>4. ~core'.stopping => FrameRate[core'.file] = rate
    BY <1>3, <1>7, <2>2
  <2>5. RateInv'
    BY <2>3, <2>4 DEF RateInv, Suits
  <2> QED BY <1>5, <1>6, <2>3, <2>5 DEF PlaysInv, StreamsInv
<1> QED BY <1>8, <1>9

LEMMA OnPreloadedPlays ==
  ASSUME PlaysInv, PlayerInv', TakeEvent, OnPreloadedHook,
         Head(events).type = "HOOK", Head(events).arg = "on_preloaded",
         UNCHANGED <<playlist, mediaVars>>
  PROVE  PlaysInv'
<1>1. core.phase = "on_preloaded"
  BY TakenFacts DEF PlaysInv
<1>2. /\ selected' = m_media
      /\ UNCHANGED <<outputs, window, osMode, playlist, m_media, autoSwitch>>
  BY DEF OnPreloadedHook, displayVars, mediaVars
<1>3. core'.phase = core.phase /\ core'.file = core.file /\ core'.stopping = core.stopping
  BY LoadingFields DEF OnPreloadedHook, PlaysInv
<1>4. ScreenInv' /\ LoadedInv'
  BY <1>2, <1>3, ScreenKept DEF PlaysInv, LoadedInv
<1>5. Opened
  BY <1>1 DEF Opened
<1>6. RateInv'
  BY <1>2, <1>3, <1>5, SuitsKept DEF PlaysInv, RateInv
<1>7. StreamsInv'
  BY <1>1, <1>2, <1>3 DEF PlaysInv, LoadedInv, StreamsInv
<1> QED BY <1>4, <1>6, <1>7 DEF PlaysInv

LEMMA HandleEventPlays ==
  ASSUME Replacing, PlaysInv, PlayerInv', HandleEvent
  PROVE  PlaysInv'
<1>1. TakeEvent /\ UNCHANGED <<playlist, mediaVars>>
  BY DEF HandleEvent
<1>2. CASE Head(events).type # "HOOK"
  <2>1. Hooks(events') = {} <=> Hooks(events) = {}
    BY <1>1, <1>2, TakenFacts DEF PlaysInv
  <2>2. UNCHANGED <<core, selected, displayVars>>
    BY <1>2 DEF HandleEvent, OnStartFile, OnEndFile
  <2> QED BY <1>1, <2>1, <2>2, QuietPlays DEF displayVars, mediaVars
<1>3. CASE Head(events).type = "HOOK"
  <2>1. \/ Head(events).arg = "on_load" /\ OnLoadHook
        \/ Head(events).arg = "on_preloaded" /\ OnPreloadedHook
    BY <1>3 DEF HandleEvent
  <2> QED BY <1>1, <1>3, <2>1, OnLoadPlays, OnPreloadedPlays
<1> QED BY <1>2, <1>3

LEMMA MainPlays ==
  ASSUME PlaysInv, PlayerInv',
         StartEvents \/ HandleProperties \/ FinishEvents \/ DisplayEvent \/ CoreBuffers
           \/ UNCHANGED vars
  PROVE  PlaysInv'
<1>1. UNCHANGED <<core, playlist, selected, events, m_media, autoSwitch>>
  BY DEF StartEvents, HandleProperties, FinishEvents, DisplayEvent, CoreBuffers,
         CoreKeepsPlayer, vars, coreVars, mediaVars
<1>2. UNCHANGED <<outputs, window, osMode>>
  BY DEF StartEvents, HandleProperties, FinishEvents, DisplayEvent, CoreBuffers,
         CoreKeepsPlayer, vars, displayVars, Display!MonitorChange, Display!InitTimerFires,
         Display!desktop
<1> QED BY <1>1, <1>2, QuietPlays

LEMMA PlaysInvNext ==
  ASSUME Replacing, PlaysInv, [Next]_vars
  PROVE  PlaysInv'
<1>1. PlayerInv'
  BY PlayerInvNext DEF PlaysInv
<1>2. CASE MpvCore
  BY <1>1, <1>2, CoreProceedPlays, CoreEndPlays, MainPlays DEF MpvCore
<1>3. CASE MainThread
  BY <1>1, <1>3, MainPlays, HandleEventPlays, RestorePlays, WaitingPlays DEF MainThread
<1>4. CASE WebClient
  <2>1. ~(\E f \in Files : QueueMedia(f)) /\ ~ChangeSettings
    BY DEF QueueMedia, ChangeSettings, Called, Replacing
  <2>2. \/ \E f \in Files : Load(f)
        \/ Stop \/ ClearQueue \/ StreamSwitch
        \/ \E pause \in BOOLEAN : SetPause(pause)
    BY <1>4, <2>1 DEF WebClient
  <2> QED BY <1>1, <2>2, LoadPlays, StopPlays, ClientPlays
<1> QED BY <1>1, <1>2, <1>3, <1>4, MainPlays DEF Next

LEMMA PlaysInvInit ==
  ASSUME Replacing, Init
  PROVE  PlaysInv
<1>1. Display!Init /\ core = Idle /\ playlist = <<>> /\ autoSwitch = TRUE
  BY DEF Init
<1>2. core.phase = "idle" /\ core.stopping = FALSE
  BY <1>1 DEF Idle
<1>3. ScreenInv
  <2>1. PICK n \in 1 .. Display!Cardinality(Outputs) : outputs \in [1 .. n -> Outputs]
    <3> DEFINE lists == UNION {[1 .. n -> Outputs] : n \in 1 .. Display!Cardinality(Outputs)}
    <3>1. outputs \in {s \in lists : Display!IsInjective(s)}
      BY <1>1 DEF Display!Init
    <3>2. outputs \in lists
      <4> HIDE DEF lists
      <4> QED BY <3>1
    <3> QED BY <3>2
  <2>2. window \in Display!Range(outputs)
    BY <1>1 DEF Display!Init
  <2>3. PICK d \in 1 .. n : outputs[d] = window
    BY <2>1, <2>2 DEF Display!Range
  <2>4. Display!DisplayOf(window, outputs) \in 1 .. n
    BY <2>1, <2>3 DEF Display!DisplayOf
  <2>5. Display!DisplayOf(window, outputs) # Display!NoDisplay
    BY <2>4 DEF Display!NoDisplay
  <2>6. \A o \in Outputs : osMode[o] \in 1 .. Len(ModesOf[o])
    BY <1>1 DEF Display!Init, Display!Ids
  <2>7. osMode \in [Outputs -> Nat]
    <3>1. osMode \in [Outputs -> UNION {Display!Ids(ModesOf[o]) : o \in Outputs}]
      BY <1>1 DEF Display!Init
    <3>2. \A o \in Outputs : osMode[o] \in Nat
      BY <2>6, ModesFacts
    <3> QED BY <3>1, <3>2
  <2> QED BY <2>1, <2>3, <2>5, <2>6, <2>7 DEF ScreenInv
<1>4. LoadedInv /\ ~Opened /\ ~Chosen
  BY <1>1, <1>2 DEF LoadedInv, Opened, Chosen
<1> QED BY <1>3, <1>4, PlayerInvInit DEF PlaysInv, RateInv, StreamsInv

(* A file plays the way it was queued - with the streams that the client    *)
(* gave queueMedia, at the refresh rate that suits it best - whatever the   *)
(* events, hooks, timers and delays of earlier files left behind: for a     *)
(* client that replaces files with load(), any number of displays, and any  *)
(* modes and rates (handleMpvEvent, switchDisplayFrameRate).                *)
THEOREM QueuedPlays ==
  ASSUME Replacing
  PROVE  Spec => []PlaysAsQueued
<1>1. Init => PlaysInv
  BY PlaysInvInit
<1>2. PlaysInv /\ [Next]_vars => PlaysInv'
  BY PlaysInvNext
<1>3. PlaysInv => PlaysAtItsRate /\ StreamsAreItsOwn
  BY DEF PlaysInv, RateInv, StreamsInv, Opened, Chosen, Suits, PlaysAtItsRate, StreamsAreItsOwn
<1> QED BY <1>1, <1>2, <1>3, TypeCorrect, PTL DEF Spec, PlaysAsQueued
=============================================================================
