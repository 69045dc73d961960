---------------------------- MODULE ProcessesProofs ----------------------------
(***************************************************************************)
(* Proofs about Processes, for any number of instances, helpers, versions, *)
(* crash dumps and failures.                                               *)
(***************************************************************************)
EXTENDS Processes, FiniteSetTheorems, TLAPS

-----------------------------------------------------------------------------
(* The inductive invariants: of the instances and helpers, of the crash    *)
(* dumps, and of the screen saver.                                         *)

AppPlaces    == {"off", "connecting", "loading", "running", "leaving"}
HelperPlaces == {"off", "started", "connecting", "unique", "up"}

ClientStates ==
  [link : Helpers \cup {Nobody}, accepted : BOOLEAN, hello : BOOLEAN,
   lost : BOOLEAN, retry : BOOLEAN, deaf : BOOLEAN]
HelperStates ==
  [at : HelperPlaces, version : Versions, by : Apps \cup {Nobody},
   asked : BOOLEAN, timer : BOOLEAN]
DumpStates == [at : Places, dir : Versions, of : Versions]
UploaderStates ==
  [doing : {"nothing", "busy", "waits"}, watching : BOOLEAN, timer : BOOLEAN,
   dirs : SUBSET Versions, dir : Versions, todo : SUBSET Dumps, n : Nat,
   moved : SUBSET Dumps, sending : SUBSET (Dumps \X Versions)]

AppTypes ==
  /\ app \in [Apps -> AppPlaces]
  /\ told \subseteq Apps
ClientTypes == client \in [Apps -> ClientStates]
HelperTypes == helper \in [Helpers -> HelperStates]
HistoryTypes ==
  /\ behind \subseteq Apps \cup Helpers
  /\ raced \subseteq Names

(* The file of an instance never leads to a helper, and those of a helper   *)
(* never to an instance.                                                    *)
SocketTypes ==
  /\ sock \in [Names -> Apps \cup Helpers \cup {Nobody, Stale}]
  /\ sock["app"] \in Apps \cup {Nobody, Stale}
  /\ sock["helper unique"] \in Helpers \cup {Nobody, Stale}
  /\ sock["helper"] \in Helpers \cup {Nobody, Stale}

FaultTypes == setup \in Setups /\ faults \in Nat /\ faults <= setup.faults
DumpTypes ==
  /\ dump \in [Dumps -> DumpStates]
  /\ up \in [Helpers -> UploaderStates]
  /\ answered \subseteq Dumps /\ retried \subseteq Dumps /\ missed \subseteq Dumps
PowerTypes ==
  /\ cookie \in Cookies \cup {0} /\ held \subseteq Cookies /\ troubles \in 0..MaxTroubles
  /\ asked \in BOOLEAN /\ replied \in BOOLEAN /\ lostTrack \in BOOLEAN

RunningApp(x)    == app[x] \in {"loading", "running"}
RunningHelper(h) == helper[h].at \in {"unique", "up"}

(* Until two of them have raced for it, the file leads to the one that      *)
(* runs, and whoever still wants to listen although one runs is behind.     *)
AppOwner ==
  \/ "app" \in raced
  \/ /\ \A x \in Apps : RunningApp(x) => sock["app"] = x
     /\ \A x, y \in Apps : app[x] = "connecting" /\ RunningApp(y) => x \in behind
HelperOwner ==
  \/ "helper unique" \in raced
  \/ /\ \A h \in Helpers : RunningHelper(h) => sock["helper unique"] = h
     /\ \A g, h \in Helpers :
          helper[g].at = "connecting" /\ RunningHelper(h) => g \in behind

(* Signals that stop() disconnected are not delivered.                      *)
DeafIsNotTold == \A x \in Apps : client[x].deaf => ~client[x].lost

InstancesInv ==
  /\ AppTypes /\ ClientTypes /\ HelperTypes /\ HistoryTypes /\ SocketTypes
  /\ AppOwner /\ HelperOwner /\ DeafIsNotTold

(* A dump leaves its version only by being moved back, and what is sent     *)
(* under another version was moved back before.                             *)
VersionIsKept == \A d \in Dumps : dump[d].dir = dump[d].of \/ d \in retried
SentAs(u, files, back) ==
  \A s \in u.sending :
    /\ files[s[1]].at # "unwritten"
    /\ s[2] = files[s[1]].of \/ s[1] \in back

(* A helper that does not run has no uploader at work.                      *)
IdleIsNew == \A h \in Helpers : ~RunningHelper(h) => up[h] = NewUploader

(* What a scan can find has not been answered; and what uploader u sends    *)
(* has not been answered, cannot be found, is not at hand in its scan, and  *)
(* is sent under one name.                                                  *)
Fresh(files, done) ==
  \A d \in Dumps : files[d].at \in {"unwritten", "incoming", "processing"} => d \notin done
SendsSoundly(u, files, done) ==
  /\ \A s \in u.sending :
       /\ files[s[1]].at \notin {"unwritten", "incoming"} /\ s[1] \notin done
       /\ files[s[1]].at = "processing" => files[s[1]].dir = s[2]
       /\ s[1] \notin u.todo /\ s[1] \notin u.moved
  /\ \A s, t \in u.sending : s[1] = t[1] => s = t
  /\ u.todo \cap u.moved = {}
SendersSound ==
  \/ "helper unique" \in raced
  \/ Fresh(dump, answered) /\ \A h \in Helpers : SendsSoundly(up[h], dump, answered)

DumpsInv ==
  /\ DumpTypes /\ VersionIsKept /\ (\A h \in Helpers : SentAs(up[h], dump, retried))
  /\ IdleIsNew /\ SendersSound

-----------------------------------------------------------------------------
(* The screen saver.                                                       *)

PowerInv == PowerTypes /\ ScreensaverAsAsked

LEMMA CookieFacts ==
  /\ 0 \notin Cookies
  /\ MaxTroubles \in Nat
  /\ \A n \in 0..MaxTroubles : n < MaxTroubles => n + 1 \in 0..MaxTroubles
BY PowerAssumption

LEMMA InhibitInv ==
  ASSUME PowerInv, Inhibit, asked' = TRUE
  PROVE  PowerInv'
<1>1. CASE cookie # 0 /\ replied' = TRUE /\ UNCHANGED <<cookie, held, lostTrack, troubles>>
  <2>1. PowerTypes'
    BY <1>1 DEF PowerInv, PowerTypes
  <2>2. ScreensaverAsAsked'
    BY <1>1 DEF PowerInv, ScreensaverAsAsked
  <2> QED BY <2>1, <2>2 DEF PowerInv
<1>2. CASE /\ cookie = 0
           /\ \E c \in Cookies \ held : cookie' = c /\ held' = held \cup {c}
           /\ replied' = TRUE
           /\ UNCHANGED <<lostTrack, troubles>>
  <2> PICK c \in Cookies \ held : cookie' = c /\ held' = held \cup {c}
    BY <1>2
  <2>1. PowerTypes'
    BY <1>2 DEF PowerInv, PowerTypes
  <2>2. ScreensaverAsAsked'
    BY <1>2, CookieFacts DEF PowerInv, ScreensaverAsAsked
  <2> QED BY <2>1, <2>2 DEF PowerInv
<1>3. CASE /\ cookie = 0 /\ troubles < MaxTroubles
           /\ \/ held' = held /\ lostTrack' = lostTrack
              \/ \E c \in Cookies \ held : held' = held \cup {c} /\ lostTrack' = TRUE
           /\ replied' = FALSE
           /\ troubles' = troubles + 1
           /\ UNCHANGED cookie
  <2>1. troubles' \in 0..MaxTroubles
    BY <1>3, CookieFacts DEF PowerInv, PowerTypes
  <2>2. PowerTypes'
    BY <1>3, <2>1 DEF PowerInv, PowerTypes
  <2>3. ScreensaverAsAsked'
    BY <1>3 DEF PowerInv, ScreensaverAsAsked
  <2> QED BY <2>2, <2>3 DEF PowerInv
<1> QED BY <1>1, <1>2, <1>3 DEF Inhibit

LEMMA UnInhibitInv ==
  ASSUME PowerInv, UnInhibit, asked' = FALSE
  PROVE  PowerInv'
<1>1. CASE cookie = 0 /\ replied' = TRUE /\ UNCHANGED <<cookie, held, lostTrack, troubles>>
  <2>1. PowerTypes'
    BY <1>1 DEF PowerInv, PowerTypes
  <2>2. ScreensaverAsAsked'
    BY <1>1 DEF PowerInv, ScreensaverAsAsked
  <2> QED BY <2>1, <2>2 DEF PowerInv
<1>2. CASE /\ cookie \in held
           /\ cookie' = 0 /\ held' = held \ {cookie} /\ replied' = TRUE
           /\ UNCHANGED <<lostTrack, troubles>>
  <2>1. PowerTypes'
    BY <1>2 DEF PowerInv, PowerTypes
  <2>2. ScreensaverAsAsked'
    BY <1>2 DEF PowerInv, ScreensaverAsAsked
  <2> QED BY <2>1, <2>2 DEF PowerInv
<1>3. CASE /\ cookie # 0 /\ \/ troubles < MaxTroubles /\ troubles' = troubles + 1
                            \/ cookie \notin held /\ troubles' = troubles
           /\ held' \in {held, held \ {cookie}}
           /\ lostTrack' = (lostTrack \/ cookie \notin held')
           /\ replied' = FALSE
           /\ UNCHANGED cookie
  <2>1. troubles' \in 0..MaxTroubles
    BY <1>3, CookieFacts DEF PowerInv, PowerTypes
  <2>2. PowerTypes'
    BY <1>3, <2>1 DEF PowerInv, PowerTypes
  <2>3. ASSUME ~lostTrack'
        PROVE  ~lostTrack /\ held' = held
    BY <1>3, <2>3
  <2>4. ScreensaverAsAsked'
    BY <1>3, <2>3 DEF PowerInv, ScreensaverAsAsked
  <2> QED BY <2>2, <2>4 DEF PowerInv
<1> QED BY <1>1, <1>2, <1>3 DEF UnInhibit

LEMMA PowerStepInv ==
  ASSUME PowerInv, PowerStep
  PROVE  PowerInv'
<1>1. ASSUME NEW enabled \in BOOLEAN, SetScreensaverEnabled(enabled)
      PROVE  PowerInv'
  <2>1. CASE enabled
    BY <1>1, <2>1, UnInhibitInv DEF SetScreensaverEnabled
  <2>2. CASE ~enabled
    BY <1>1, <2>2, InhibitInv DEF SetScreensaverEnabled
  <2> QED BY <2>1, <2>2
<1>2. CASE ServiceRestarts
  <2>1. troubles' \in 0..MaxTroubles
    BY <1>2, CookieFacts DEF ServiceRestarts, PowerInv, PowerTypes
  <2>2. PowerTypes'
    BY <1>2, <2>1 DEF ServiceRestarts, PowerInv, PowerTypes
  <2>3. ScreensaverAsAsked'
    BY <1>2 DEF ServiceRestarts, ScreensaverAsAsked
  <2> QED BY <2>2, <2>3 DEF PowerInv
<1> QED BY <1>1, <1>2 DEF PowerStep

LEMMA PowerInvNext ==
  ASSUME PowerInv, [Next]_vars
  PROVE  PowerInv'
<1>1. CASE UNCHANGED powerVars
  BY <1>1 DEF PowerInv, PowerTypes, ScreensaverAsAsked, powerVars
<1>2. CASE PowerStep
  BY <1>2, PowerStepInv
<1> QED BY <1>1, <1>2 DEF Next, vars

LEMMA PowerInvInit == Init => PowerInv
<1> SUFFICES ASSUME Init PROVE PowerInv
  OBVIOUS
<1>1. 0 \in 0..MaxTroubles
  BY CookieFacts
<1> QED BY <1>1 DEF Init, InitPower, PowerInv, PowerTypes, ScreensaverAsAsked

(* The screen saver is inhibited exactly when the last call that got an     *)
(* answer asked for it, by one inhibition (PowerComponentDBus.cpp: a cookie *)
(* is kept until it is given back), while no answer was lost.               *)
THEOREM ScreensaverFollows == Spec => []ScreensaverAsAsked
<1>1. PowerInv => ScreensaverAsAsked
  BY DEF PowerInv
<1> QED BY PowerInvInit, PowerInvNext, <1>1, PTL DEF Spec

-----------------------------------------------------------------------------
(* What the operators of Instances do.                                     *)

LEMMA ClientFields ==
  ASSUME NEW c \in ClientStates
  PROVE  /\ c.link \in Helpers \cup {Nobody} /\ c.accepted \in BOOLEAN /\ c.hello \in BOOLEAN
         /\ c.lost \in BOOLEAN /\ c.retry \in BOOLEAN /\ c.deaf \in BOOLEAN
         /\ c = [link |-> c.link, accepted |-> c.accepted, hello |-> c.hello,
                 lost |-> c.lost, retry |-> c.retry, deaf |-> c.deaf]
BY DEF ClientStates

LEMMA HelperFields ==
  ASSUME NEW h \in HelperStates
  PROVE  /\ h.at \in HelperPlaces /\ h.version \in Versions /\ h.by \in Apps \cup {Nobody}
         /\ h.asked \in BOOLEAN /\ h.timer \in BOOLEAN
         /\ h = [at |-> h.at, version |-> h.version, by |-> h.by,
                 asked |-> h.asked, timer |-> h.timer]
BY DEF HelperStates

LEMMA VersionFacts ==
  /\ AnyVersion \in Versions
  /\ \A x \in Apps : VersionOf[x] \in Versions
BY InstancesAssumption DEF AnyVersion

LEMMA NewStates ==
  /\ NewClient \in ClientStates /\ ~NewClient.deaf /\ ~NewClient.lost /\ ~NewClient.retry
  /\ NewHelper(AnyVersion) \in HelperStates /\ NewHelper(AnyVersion).at = "off"
  /\ \A x \in Apps : LET g == [NewHelper(VersionOf[x]) EXCEPT !.at = "started", !.by = x]
                    IN  g \in HelperStates /\ g.at = "started" /\ g.by = x
BY VersionFacts DEF NewClient, ClientStates, NewHelper, HelperStates, HelperPlaces

(* A helper may have been launched, told to quit, or have ended.            *)
QuietHelpers ==
  \A h \in Helpers : helper'[h].at = helper[h].at \/ helper'[h].at \in {"off", "started"}

(* If a helper was launched, then by x.                                     *)
OnlyBy(x) == \A h \in Helpers : helper[h].at = "off" /\ helper'[h].at # "off" => helper'[h].by = x
NoHelperStarts == \A h \in Helpers : helper[h].at = "off" => helper'[h].at = "off"

LEMMA ClosedFacts ==
  ASSUME SocketTypes, NEW p, NEW closed, sock' = Closed(p, closed)
  PROVE  /\ SocketTypes'
         /\ \A n \in Names : n \notin closed /\ sock[n] # p => sock'[n] = sock[n]
<1>1. /\ sock["app"] \in Apps \cup {Nobody, Stale}
      /\ sock["helper unique"] \in Helpers \cup {Nobody, Stale}
      /\ sock["helper"] \in Helpers \cup {Nobody, Stale}
  BY DEF SocketTypes
<1>2. \A n \in Names : sock'[n] = IF n \in closed THEN Nobody
                                  ELSE IF sock[n] = p THEN Stale ELSE sock[n]
  BY DEF Closed
<1>3. \A n \in Names : sock'[n] \in {Nobody, Stale} \/ sock'[n] = sock[n]
  BY <1>2
<1>4. sock' \in [Names -> Apps \cup Helpers \cup {Nobody, Stale}]
  <2>1. \A n \in Names : sock[n] \in Apps \cup Helpers \cup {Nobody, Stale}
    BY DEF SocketTypes
  <2> QED BY <1>2, <2>1 DEF Closed
<1>5. {"app", "helper unique", "helper"} \subseteq Names
  BY DEF Names
<1>6. SocketTypes'
  BY <1>1, <1>3, <1>4, <1>5 DEF SocketTypes
<1> QED BY <1>2, <1>6

LEMMA Connecting ==
  ASSUME ClientTypes, HelperTypes, SocketTypes,
         NEW x \in Apps, NEW c \in ClientStates, ConnectToHelper(x, c)
  PROVE  /\ ClientTypes' /\ HelperTypes' /\ QuietHelpers
         /\ \A y \in Apps \ {x} : client'[y] = client[y]
         /\ client'[x].deaf = c.deaf /\ client'[x].lost = c.lost
         /\ OnlyBy(x) /\ (c.deaf => NoHelperStarts)
<1>1. CASE /\ client' = [client EXCEPT ![x] = c]
           /\ UNCHANGED helper
  <2>1. ClientTypes' /\ client'[x] = c /\ \A y \in Apps \ {x} : client'[y] = client[y]
    BY <1>1 DEF ClientTypes
  <2> QED BY <1>1, <2>1 DEF HelperTypes, QuietHelpers, OnlyBy, NoHelperStarts
<1>2. CASE /\ Listening("helper")
           /\ client' = [client EXCEPT ![x] = [c EXCEPT !.link = sock["helper"]]]
           /\ UNCHANGED helper
  <2>1. sock["helper"] \in Helpers \cup {Nobody, Stale}
    BY DEF SocketTypes
  <2>2. sock["helper"] \in Helpers \/ sock["helper"] \in Apps
    BY <1>2 DEF Listening
  <2>3. PICK d : d = [c EXCEPT !.link = sock["helper"]]
    OBVIOUS
  <2>4. sock["helper"] \in Helpers \cup {Nobody}
    BY <2>1, <2>2, InstancesAssumption
  <2>5. d \in ClientStates /\ d.deaf = c.deaf /\ d.lost = c.lost
    BY <2>3, <2>4, ClientFields DEF ClientStates
  <2>6. ClientTypes' /\ client'[x] = d /\ \A y \in Apps \ {x} : client'[y] = client[y]
    BY <1>2, <2>3, <2>5 DEF ClientTypes
  <2> QED BY <1>2, <2>5, <2>6 DEF HelperTypes, QuietHelpers, OnlyBy, NoHelperStarts
<1>3. CASE /\ ~c.deaf
           /\ client' = [client EXCEPT ![x] = [c EXCEPT !.retry = TRUE]]
           /\ \E h \in Helpers :
                /\ helper[h].at = "off"
                /\ helper' = [helper EXCEPT ![h] =
                                [NewHelper(VersionOf[x]) EXCEPT !.at = "started", !.by = x]]
  <2>1. PICK h \in Helpers :
          helper' = [helper EXCEPT ![h] =
                       [NewHelper(VersionOf[x]) EXCEPT !.at = "started", !.by = x]]
    BY <1>3
  <2>2. PICK d : d = [c EXCEPT !.retry = TRUE]
    OBVIOUS
  <2>3. PICK g : g = [NewHelper(VersionOf[x]) EXCEPT !.at = "started", !.by = x]
    OBVIOUS
  <2>4. g \in HelperStates /\ g.at = "started" /\ g.by = x
    BY <2>3, NewStates
  <2>5. d \in ClientStates /\ d.deaf = c.deaf /\ d.lost = c.lost
    BY <2>2, ClientFields DEF ClientStates
  <2>6. ClientTypes' /\ client'[x] = d /\ \A y \in Apps \ {x} : client'[y] = client[y]
    BY <1>3, <2>2, <2>5 DEF ClientTypes
  <2>7. HelperTypes' /\ QuietHelpers /\ OnlyBy(x)
    BY <2>1, <2>3, <2>4 DEF HelperTypes, QuietHelpers, OnlyBy
  <2> QED BY <1>3, <2>5, <2>6, <2>7
<1> QED BY <1>1, <1>2, <1>3 DEF ConnectToHelper

LEMMA ClaimsFacts ==
  ASSUME SocketTypes, HistoryTypes, NEW p, NEW name, Claims(p, name),
         \/ name = "app" /\ p \in Apps
         \/ name = "helper unique" /\ p \in Helpers
  PROVE  /\ SocketTypes' /\ HistoryTypes'
         /\ sock'[name] = p /\ \A n \in Names \ {name} : sock'[n] = sock[n]
         /\ raced \subseteq raced' /\ (p \in behind => name \in raced')
         /\ behind \ {p} \subseteq behind'
<1>1. name \in Names /\ {"app", "helper unique", "helper"} \subseteq Names
  BY DEF Names
<1>2. sock'[name] = p /\ \A n \in Names \ {name} : sock'[n] = sock[n]
  BY <1>1 DEF Claims, SocketTypes
<1>3. sock' \in [Names -> Apps \cup Helpers \cup {Nobody, Stale}]
  BY <1>1 DEF Claims, SocketTypes
<1>4. SocketTypes'
  <2>1. CASE name = "app" /\ p \in Apps
    BY <1>1, <1>2, <1>3, <2>1 DEF SocketTypes
  <2>2. CASE name = "helper unique" /\ p \in Helpers
    BY <1>1, <1>2, <1>3, <2>2 DEF SocketTypes
  <2> QED BY <2>1, <2>2
<1>5. HistoryTypes' /\ raced \subseteq raced' /\ (p \in behind => name \in raced')
  BY <1>1 DEF Claims, HistoryTypes
<1>6. behind \ {p} \subseteq behind'
  BY DEF Claims
<1> QED BY <1>2, <1>4, <1>5, <1>6

(* Steps after which nobody runs or waits to listen that did not before.    *)
LEMMA AppOwnerKept ==
  ASSUME AppOwner, raced \subseteq raced',
         \A x \in Apps : RunningApp(x)' =>
           RunningApp(x) /\ (sock["app"] = x => sock'["app"] = x),
         \A x \in Apps : app'[x] = "connecting" =>
           app[x] = "connecting" /\ (x \in behind => x \in behind')
  PROVE  AppOwner'
<1>1. CASE "app" \in raced
  BY <1>1 DEF AppOwner
<1>2. CASE "app" \notin raced
  <2>1. \A x \in Apps : RunningApp(x)' => sock'["app"] = x
    BY <1>2 DEF AppOwner
  <2>2. \A x, y \in Apps : app'[x] = "connecting" /\ RunningApp(y)' => x \in behind'
    BY <1>2 DEF AppOwner
  <2> QED BY <2>1, <2>2 DEF AppOwner
<1> QED BY <1>1, <1>2

LEMMA HelperOwnerKept ==
  ASSUME HelperOwner, raced \subseteq raced',
         \A h \in Helpers : RunningHelper(h)' =>
           RunningHelper(h) /\ (sock["helper unique"] = h => sock'["helper unique"] = h),
         \A h \in Helpers : helper'[h].at = "connecting" =>
           helper[h].at = "connecting" /\ (h \in behind => h \in behind')
  PROVE  HelperOwner'
<1>1. CASE "helper unique" \in raced
  BY <1>1 DEF HelperOwner
<1>2. CASE "helper unique" \notin raced
  <2>1. \A h \in Helpers : RunningHelper(h)' => sock'["helper unique"] = h
    BY <1>2 DEF HelperOwner
  <2>2. \A g, h \in Helpers :
          helper'[g].at = "connecting" /\ RunningHelper(h)' => g \in behind'
    BY <1>2 DEF HelperOwner
  <2> QED BY <2>1, <2>2 DEF HelperOwner
<1> QED BY <1>1, <1>2

(* What neither touches the places of the instances, the sockets nor the    *)
(* history, nor lets a helper listen.                                       *)
LEMMA QuietStep ==
  ASSUME InstancesInv, ClientTypes', HelperTypes', DeafIsNotTold', QuietHelpers,
         AppTypes', UNCHANGED <<sock, behind, raced>>,
         \A x \in Apps : app'[x] = app[x] \/ (app[x] = "loading" /\ app'[x] = "running")
                         \/ app'[x] \in {"off", "leaving"}
  PROVE  InstancesInv'
<1>1. SocketTypes' /\ HistoryTypes'
  BY DEF InstancesInv, SocketTypes, HistoryTypes
<1>2. \A x \in Apps : RunningApp(x)' =>
        RunningApp(x) /\ (sock["app"] = x => sock'["app"] = x)
  BY DEF RunningApp
<1>3. \A x \in Apps : app'[x] = "connecting" =>
        app[x] = "connecting" /\ (x \in behind => x \in behind')
  OBVIOUS
<1>4. AppOwner'
  BY <1>2, <1>3, AppOwnerKept DEF InstancesInv
<1>5. \A h \in Helpers : RunningHelper(h)' =>
        RunningHelper(h) /\ (sock["helper unique"] = h => sock'["helper unique"] = h)
  BY DEF RunningHelper, QuietHelpers
<1>6. \A h \in Helpers : helper'[h].at = "connecting" =>
        helper[h].at = "connecting" /\ (h \in behind => h \in behind')
  BY DEF QuietHelpers
<1>7. HelperOwner'
  BY <1>5, <1>6, HelperOwnerKept DEF InstancesInv
<1> QED BY <1>1, <1>4, <1>7 DEF InstancesInv

-----------------------------------------------------------------------------
(* Every action of an instance preserves the invariant of the processes.   *)

LEMMA ListenerIsApp ==
  ASSUME SocketTypes, Listening("app")
  PROVE  sock["app"] \in Apps
BY InstancesAssumption DEF SocketTypes, Listening

LEMMA ListenerIsHelper ==
  ASSUME SocketTypes, Listening("helper unique")
  PROVE  sock["helper unique"] \in Helpers
BY InstancesAssumption DEF SocketTypes, Listening

(* The launcher of one instance changes.                                    *)
LEMMA OneClient ==
  ASSUME ClientTypes, DeafIsNotTold, NEW x \in Apps, NEW c \in ClientStates,
         client' = [client EXCEPT ![x] = c], c.deaf => ~c.lost
  PROVE  ClientTypes' /\ DeafIsNotTold' /\ client'[x] = c
<1>1. ClientTypes' /\ client'[x] = c /\ \A y \in Apps \ {x} : client'[y] = client[y]
  BY DEF ClientTypes
<1> QED BY <1>1 DEF DeafIsNotTold

LEMMA EnsureUniqueInv ==
  ASSUME InstancesInv, NEW x \in Apps, EnsureUnique(x)
  PROVE  InstancesInv'
<1>1. ClientTypes' /\ DeafIsNotTold'
  BY NewStates, OneClient DEF EnsureUnique, InstancesInv
<1>2. HelperTypes' /\ QuietHelpers
  BY DEF EnsureUnique, InstancesInv, HelperTypes, QuietHelpers
<1>3. CASE /\ Listening("app")
           /\ \E late \in TimesOut : told' = IF late THEN told ELSE told \cup {sock["app"]}
           /\ UNCHANGED app
  <2>1. sock["app"] \in Apps
    BY <1>3, ListenerIsApp DEF InstancesInv
  <2>2. AppTypes'
    BY <1>3, <2>1 DEF InstancesInv, AppTypes
  <2>3. \A y \in Apps : app'[y] = app[y]
    BY <1>3
  <2>4. UNCHANGED <<sock, behind, raced>>
    BY DEF EnsureUnique
  <2> QED BY <1>1, <1>2, <2>2, <2>3, <2>4, QuietStep
<1>4. CASE /\ ~Listening("app")
           /\ app' = [app EXCEPT ![x] = "connecting"]
           /\ UNCHANGED told
  <2>1. app'[x] = "connecting" /\ \A y \in Apps \ {x} : app'[y] = app[y]
    BY <1>4 DEF InstancesInv, AppTypes
  <2>2. AppTypes'
    BY <1>4 DEF InstancesInv, AppTypes, AppPlaces
  <2>3. SocketTypes' /\ HistoryTypes'
    BY DEF EnsureUnique, InstancesInv, SocketTypes, HistoryTypes
  <2>4. AppOwner'
    <3>1. CASE "app" \in raced
      BY <3>1 DEF EnsureUnique, AppOwner
    <3>2. CASE "app" \notin raced
      <4>1. \A y \in Apps : ~RunningApp(y)
        BY <1>4, <3>2 DEF InstancesInv, AppOwner, Listening
      <4>2. \A y \in Apps : ~RunningApp(y)'
        BY <2>1, <4>1 DEF RunningApp
      <4> QED BY <4>2 DEF AppOwner
    <3> QED BY <3>1, <3>2
  <2>5. HelperOwner'
    BY DEF EnsureUnique, InstancesInv, HelperOwner, RunningHelper
  <2> QED BY <1>1, <1>2, <2>2, <2>3, <2>4, <2>5 DEF InstancesInv
<1> QED BY <1>3, <1>4 DEF EnsureUnique

LEMMA ListenInv ==
  ASSUME InstancesInv, NEW x \in Apps, Listen(x)
  PROVE  InstancesInv'
<1>1. AppTypes' /\ app'[x] = "loading" /\ \A y \in Apps \ {x} : app'[y] = app[y]
  BY DEF Listen, InstancesInv, AppTypes, AppPlaces
<1>2. /\ SocketTypes' /\ HistoryTypes'
      /\ sock'["app"] = x /\ \A n \in Names \ {"app"} : sock'[n] = sock[n]
      /\ raced \subseteq raced' /\ (x \in behind => "app" \in raced')
      /\ behind \ {x} \subseteq behind'
  BY ClaimsFacts DEF Listen, InstancesInv
<1>3. ClientTypes' /\ HelperTypes' /\ DeafIsNotTold'
  BY DEF Listen, InstancesInv, ClientTypes, HelperTypes, DeafIsNotTold
<1>4. AppOwner'
  <2>1. CASE "app" \in raced'
    BY <2>1 DEF AppOwner
  <2>2. CASE "app" \notin raced'
    <3>1. "app" \notin raced /\ x \notin behind
      BY <1>2, <2>2
    <3>2. \A y \in Apps : ~RunningApp(y)
      BY <3>1 DEF Listen, InstancesInv, AppOwner
    <3>3. \A y \in Apps : RunningApp(y)' => y = x
      BY <1>1, <3>2 DEF RunningApp
    <3>4. \A y \in Apps : app'[y] = "connecting" => y \in behind'
      BY <1>1 DEF Listen, Claims
    <3> QED BY <1>2, <3>3, <3>4 DEF AppOwner
  <2> QED BY <2>1, <2>2
<1>5. HelperOwner'
  <2>1. x \notin Helpers
    BY InstancesAssumption
  <2>2. \A h \in Helpers : h \in behind => h \in behind'
    BY <1>2, <2>1
  <2>3. sock'["helper unique"] = sock["helper unique"]
    BY <1>2 DEF Names
  <2>4. helper' = helper
    BY DEF Listen
  <2> QED BY <1>2, <2>2, <2>3, <2>4, HelperOwnerKept DEF InstancesInv, RunningHelper
<1> QED BY <1>1, <1>2, <1>3, <1>4, <1>5 DEF InstancesInv

LEMMA InitializeInv ==
  ASSUME InstancesInv, NEW x \in Apps, Initialize(x)
  PROVE  InstancesInv'
<1>1. client[x] \in ClientStates
  BY DEF InstancesInv, ClientTypes
<1>2. /\ ClientTypes' /\ HelperTypes' /\ QuietHelpers
      /\ \A y \in Apps \ {x} : client'[y] = client[y]
      /\ client'[x].deaf = client[x].deaf /\ client'[x].lost = client[x].lost
  BY <1>1, Connecting DEF Initialize, InstancesInv
<1>3. DeafIsNotTold'
  BY <1>2 DEF InstancesInv, DeafIsNotTold
<1>4. AppTypes'
  BY DEF Initialize, InstancesInv, AppTypes, AppPlaces
<1>5. \A y \in Apps : app'[y] = app[y] \/ (app[y] = "loading" /\ app'[y] = "running")
  <2>1. app[x] = "loading" /\ app'[x] = "running" /\ \A y \in Apps \ {x} : app'[y] = app[y]
    BY DEF Initialize, InstancesInv, AppTypes
  <2> QED BY <2>1
<1>6. UNCHANGED <<sock, behind, raced>>
  BY DEF Initialize
<1> QED BY <1>2, <1>3, <1>4, <1>5, <1>6, QuietStep

(* An instance that ran ends: its files lead nowhere any more.              *)
LEMMA Leaving ==
  ASSUME InstancesInv, NEW x \in Apps, NEW closed, ClientTypes', DeafIsNotTold',
         app' = [app EXCEPT ![x] = "off"] \/ app' = [app EXCEPT ![x] = "leaving"],
         sock' = Closed(x, closed), closed = {} \/ (closed = {"app"} /\ RunningApp(x)),
         told' \subseteq told, behind' = behind \/ behind' = behind \ {x},
         UNCHANGED <<helper, raced>>
  PROVE  InstancesInv'
<1>1. AppTypes' /\ app'[x] \in {"off", "leaving"} /\ \A y \in Apps \ {x} : app'[y] = app[y]
  BY DEF InstancesInv, AppTypes, AppPlaces
<1>2. SocketTypes' /\ \A n \in Names : n \notin closed /\ sock[n] # x => sock'[n] = sock[n]
  BY ClosedFacts DEF InstancesInv
<1>3. HelperTypes' /\ HistoryTypes'
  BY DEF InstancesInv, HelperTypes, HistoryTypes
<1>4. {"app", "helper unique"} \subseteq Names
  BY DEF Names
<1>5. AppOwner'
  <2>1. CASE "app" \in raced
    BY <2>1 DEF AppOwner
  <2>2. CASE "app" \notin raced
    <3>1. \A y \in Apps : RunningApp(y)' => y # x /\ RunningApp(y)
      BY <1>1 DEF RunningApp
    <3>2. \A y \in Apps : RunningApp(y)' => sock["app"] = y /\ closed = {}
      BY <2>2, <3>1 DEF InstancesInv, AppOwner
    <3>3. \A y \in Apps : RunningApp(y)' => sock'["app"] = y
      BY <1>2, <1>4, <3>1, <3>2
    <3>4. \A y \in Apps : app'[y] = "connecting" => y # x /\ app[y] = "connecting"
      BY <1>1
    <3>5. \A y, z \in Apps : app'[y] = "connecting" /\ RunningApp(z)' => y \in behind
      BY <2>2, <3>1, <3>4 DEF InstancesInv, AppOwner
    <3>6. \A y, z \in Apps : app'[y] = "connecting" /\ RunningApp(z)' => y \in behind'
      BY <3>4, <3>5
    <3> QED BY <3>3, <3>6 DEF AppOwner
  <2> QED BY <2>1, <2>2
<1>6. HelperOwner'
  <2>1. x \notin Helpers
    BY InstancesAssumption
  <2>2. \A h \in Helpers : sock["helper unique"] = h => sock'["helper unique"] = h
    BY <1>2, <1>4, <2>1
  <2>3. \A h \in Helpers : h \in behind => h \in behind'
    BY <2>1
  <2> QED BY <2>2, <2>3, HelperOwnerKept DEF InstancesInv, RunningHelper
<1> QED BY <1>1, <1>2, <1>3, <1>5, <1>6 DEF InstancesInv

LEMMA GoneFacts ==
  ASSUME ClientTypes, DeafIsNotTold, NEW x \in Apps, client' = Gone(x)
  PROVE  ClientTypes' /\ DeafIsNotTold' /\ ~client'[x].deaf /\ ~client'[x].retry
<1>1. PICK c : c = [NewClient EXCEPT !.link = client[x].link, !.accepted = client[x].accepted]
  OBVIOUS
<1>2. client[x] \in ClientStates
  BY DEF ClientTypes
<1>3. c \in ClientStates /\ ~c.deaf /\ ~c.lost /\ ~c.retry
  BY <1>1, <1>2, ClientFields DEF ClientStates, NewClient
<1>4. client' = [client EXCEPT ![x] = c]
  BY <1>1 DEF Gone
<1> QED BY <1>3, <1>4, OneClient

LEMMA LeavingInv ==
  ASSUME InstancesInv, NEW x \in Apps, ApplyUpdate(x) \/ Quit(x) \/ Crash(x)
  PROVE  InstancesInv'
<1>1. CASE ApplyUpdate(x)
  <2>1. ClientTypes' /\ DeafIsNotTold'
    BY <1>1 DEF ApplyUpdate, InstancesInv, ClientTypes, DeafIsNotTold
  <2> QED BY <1>1, <2>1, Leaving DEF ApplyUpdate
<1>2. CASE Quit(x)
  <2>1. ClientTypes' /\ DeafIsNotTold' /\ RunningApp(x)
    BY <1>2 DEF Quit, InstancesInv, ClientTypes, DeafIsNotTold, RunningApp
  <2> QED BY <1>2, <2>1, Leaving DEF Quit
<1>3. CASE Crash(x)
  <2>1. ClientTypes' /\ DeafIsNotTold'
    BY <1>3, GoneFacts DEF Crash, InstancesInv
  <2> QED BY <1>3, <2>1, Leaving DEF Crash
<1> QED BY <1>1, <1>2, <1>3

LEMMA ExitInv ==
  ASSUME InstancesInv, NEW x \in Apps, Exit(x)
  PROVE  InstancesInv'
<1>1. ClientTypes' /\ DeafIsNotTold'
  BY GoneFacts DEF Exit, InstancesInv
<1>2. HelperTypes' /\ QuietHelpers
  BY DEF Exit, InstancesInv, HelperTypes, QuietHelpers
<1>3. AppTypes'
  BY DEF Exit, InstancesInv, AppTypes, AppPlaces
<1>4. \A y \in Apps : app'[y] = app[y] \/ app'[y] \in {"off", "leaving"}
  BY DEF Exit, InstancesInv, AppTypes
<1>5. UNCHANGED <<sock, behind, raced>>
  BY DEF Exit
<1> QED BY <1>1, <1>2, <1>3, <1>4, <1>5, QuietStep

(* The steps of a launcher, and those of a helper that only talks to it.    *)
LEMMA Talking ==
  ASSUME InstancesInv, ClientTypes', HelperTypes', DeafIsNotTold', QuietHelpers,
         UNCHANGED <<app, sock, behind, raced>>, told' \subseteq told
  PROVE  InstancesInv'
<1>1. AppTypes'
  BY DEF InstancesInv, AppTypes
<1>2. \A y \in Apps : app'[y] = app[y]
  OBVIOUS
<1> QED BY <1>1, <1>2, QuietStep

LEMMA OtherAppFocusInv ==
  ASSUME InstancesInv, NEW x \in Apps, OtherAppFocus(x)
  PROVE  InstancesInv'
<1>1. ClientTypes' /\ HelperTypes' /\ DeafIsNotTold' /\ QuietHelpers
  BY DEF OtherAppFocus, InstancesInv, ClientTypes, HelperTypes, DeafIsNotTold, QuietHelpers
<1> QED BY <1>1, Talking DEF OtherAppFocus

LEMMA KilledFacts ==
  ASSUME HelperTypes, NEW h, helper' = Killed(h) \/ helper' = helper
  PROVE  HelperTypes' /\ QuietHelpers /\ \A g \in Helpers : helper'[g].at = helper[g].at
<1>1. CASE helper' = helper
  BY <1>1 DEF HelperTypes, QuietHelpers
<1>2. CASE helper' = Killed(h) /\ h \notin Helpers
  <2>1. helper' = helper
    BY <1>2 DEF Killed, HelperTypes
  <2> QED BY <2>1, <1>1
<1>3. CASE helper' = Killed(h) /\ h \in Helpers
  <2>1. PICK g : g = [helper[h] EXCEPT !.asked = TRUE]
    OBVIOUS
  <2>2. helper' = [helper EXCEPT ![h] = g]
    BY <1>3, <2>1 DEF Killed
  <2>3. helper[h] \in HelperStates
    BY <1>3 DEF HelperTypes
  <2>4. g \in HelperStates /\ g.at = helper[h].at
    BY <2>1, <2>3, HelperFields DEF HelperStates
  <2> QED BY <1>3, <2>2, <2>4 DEF HelperTypes, QuietHelpers
<1> QED BY <1>1, <1>2, <1>3

LEMMA GotMessageInv ==
  ASSUME InstancesInv, NEW x \in Apps, GotMessage(x)
  PROVE  InstancesInv'
<1>1. PICK c : c = [client[x] EXCEPT !.hello = FALSE]
  OBVIOUS
<1>2. client[x] \in ClientStates
  BY DEF InstancesInv, ClientTypes
<1>3. c \in ClientStates /\ c.deaf = client[x].deaf /\ c.lost = client[x].lost
  BY <1>1, <1>2, ClientFields DEF ClientStates
<1>4. client' = [client EXCEPT ![x] = c]
  BY <1>1 DEF GotMessage
<1>5. ClientTypes' /\ DeafIsNotTold'
  BY <1>3, <1>4, OneClient DEF InstancesInv, DeafIsNotTold
<1>6. HelperTypes' /\ QuietHelpers
  BY KilledFacts DEF GotMessage, InstancesInv
<1> QED BY <1>5, <1>6, Talking DEF GotMessage

LEMMA StopInv ==
  ASSUME InstancesInv, NEW x \in Apps, Stop(x)
  PROVE  InstancesInv'
<1>1. PICK c : c = [client[x] EXCEPT !.deaf = TRUE, !.lost = FALSE, !.hello = FALSE]
  OBVIOUS
<1>2. client[x] \in ClientStates
  BY DEF InstancesInv, ClientTypes
<1>3. c \in ClientStates /\ ~c.lost
  BY <1>1, <1>2, ClientFields DEF ClientStates
<1>4. client' = [client EXCEPT ![x] = c]
  BY <1>1 DEF Stop
<1>5. ClientTypes' /\ DeafIsNotTold'
  BY <1>3, <1>4, OneClient DEF InstancesInv
<1>6. HelperTypes' /\ QuietHelpers
  BY KilledFacts DEF Stop, InstancesInv
<1> QED BY <1>5, <1>6, Talking DEF Stop

LEMMA ReconnectInv ==
  ASSUME InstancesInv, NEW x \in Apps, SocketDisconnect(x) \/ Retry(x)
  PROVE  /\ InstancesInv'
         /\ OnlyBy(x) /\ (client[x].deaf => NoHelperStarts)
<1>1. client[x] \in ClientStates
  BY DEF InstancesInv, ClientTypes
<1>2. client[x].deaf => ~client[x].lost
  BY DEF InstancesInv, DeafIsNotTold
<1>3. PICK c \in ClientStates :
        /\ ConnectToHelper(x, c) /\ c.deaf = client[x].deaf /\ (c.deaf => ~c.lost)
  <2>1. CASE SocketDisconnect(x)
    <3>1. PICK c : c = [client[x] EXCEPT !.lost = FALSE]
      OBVIOUS
    <3>2. c \in ClientStates /\ ~c.lost /\ c.deaf = client[x].deaf
      BY <1>1, <3>1, ClientFields DEF ClientStates
    <3>3. ~c.deaf
      BY <1>2, <2>1, <3>2 DEF SocketDisconnect
    <3> QED BY <2>1, <3>1, <3>2, <3>3 DEF SocketDisconnect
  <2>2. CASE Retry(x)
    <3>1. PICK c : c = [client[x] EXCEPT !.retry = FALSE]
      OBVIOUS
    <3>2. c \in ClientStates /\ c.deaf = client[x].deaf /\ c.lost = client[x].lost
      BY <1>1, <3>1, ClientFields DEF ClientStates
    <3> QED BY <1>2, <2>2, <3>1, <3>2 DEF Retry
  <2> QED BY <2>1, <2>2
<1>4. /\ ClientTypes' /\ HelperTypes' /\ QuietHelpers
      /\ \A y \in Apps \ {x} : client'[y] = client[y]
      /\ client'[x].deaf = c.deaf /\ client'[x].lost = c.lost
      /\ OnlyBy(x) /\ (c.deaf => NoHelperStarts)
  BY <1>3, Connecting DEF InstancesInv
<1>5. DeafIsNotTold'
  BY <1>3, <1>4 DEF InstancesInv, DeafIsNotTold
<1>6. UNCHANGED <<app, sock, behind, raced>> /\ told' \subseteq told
  BY DEF SocketDisconnect, Retry
<1>7. InstancesInv'
  BY <1>4, <1>5, <1>6, Talking
<1> QED BY <1>3, <1>4, <1>7

-----------------------------------------------------------------------------
(* Every action of a helper preserves the invariant of the processes.      *)

LEMMA OneHelper ==
  ASSUME HelperTypes, NEW h \in Helpers, NEW g \in HelperStates,
         helper' = [helper EXCEPT ![h] = g]
  PROVE  /\ HelperTypes' /\ helper'[h] = g
         /\ \A k \in Helpers \ {h} : helper'[k] = helper[k]
BY DEF HelperTypes

LEMMA HelperStartInv ==
  ASSUME InstancesInv, NEW h \in Helpers, HelperStart(h)
  PROVE  InstancesInv'
<1>1. CASE Listening("helper unique")
  <2>1. helper' = [helper EXCEPT ![h] = NewHelper(AnyVersion)]
    BY <1>1 DEF HelperStart
  <2>2. HelperTypes' /\ QuietHelpers
    BY <2>1, OneHelper, NewStates DEF InstancesInv, QuietHelpers
  <2>3. ClientTypes' /\ DeafIsNotTold'
    BY DEF HelperStart, InstancesInv, ClientTypes, DeafIsNotTold
  <2> QED BY <2>2, <2>3, Talking DEF HelperStart
<1>2. CASE ~Listening("helper unique")
  <2>1. PICK g : g = [helper[h] EXCEPT !.at = "connecting", !.by = Nobody]
    OBVIOUS
  <2>2. helper' = [helper EXCEPT ![h] = g]
    BY <1>2, <2>1 DEF HelperStart
  <2>3. helper[h] \in HelperStates
    BY DEF InstancesInv, HelperTypes
  <2>4. g \in HelperStates /\ g.at = "connecting"
    BY <2>1, <2>3, HelperFields DEF HelperStates, HelperPlaces
  <2>5. /\ HelperTypes' /\ helper'[h] = g
        /\ \A k \in Helpers \ {h} : helper'[k] = helper[k]
    BY <2>2, <2>4, OneHelper DEF InstancesInv
  <2>6. HelperOwner'
    <3>1. CASE "helper unique" \in raced
      BY <3>1 DEF HelperStart, HelperOwner
    <3>2. CASE "helper unique" \notin raced
      <4>1. \A k \in Helpers : ~RunningHelper(k)
        BY <1>2, <3>2 DEF InstancesInv, HelperOwner, Listening
      <4>2. \A k \in Helpers : ~RunningHelper(k)'
        BY <2>4, <2>5, <4>1 DEF RunningHelper
      <4> QED BY <4>2 DEF HelperOwner
    <3> QED BY <3>1, <3>2
  <2>7. AppOwner' /\ AppTypes'
    BY DEF HelperStart, InstancesInv, AppOwner, RunningApp, AppTypes
  <2>8. ClientTypes' /\ DeafIsNotTold' /\ SocketTypes' /\ HistoryTypes'
    BY DEF HelperStart, InstancesInv, ClientTypes, DeafIsNotTold, SocketTypes, HistoryTypes
  <2> QED BY <2>5, <2>6, <2>7, <2>8 DEF InstancesInv
<1> QED BY <1>1, <1>2

LEMMA HelperListenInv ==
  ASSUME InstancesInv, NEW h \in Helpers, HelperListen(h)
  PROVE  InstancesInv'
<1>1. PICK g : g = [helper[h] EXCEPT !.at = "unique"]
  OBVIOUS
<1>2. helper' = [helper EXCEPT ![h] = g]
  BY <1>1 DEF HelperListen
<1>3. helper[h] \in HelperStates
  BY DEF InstancesInv, HelperTypes
<1>4. g \in HelperStates /\ g.at = "unique"
  BY <1>1, <1>3, HelperFields DEF HelperStates, HelperPlaces
<1>5. /\ HelperTypes' /\ helper'[h] = g
      /\ \A k \in Helpers \ {h} : helper'[k] = helper[k]
  BY <1>2, <1>4, OneHelper DEF InstancesInv
<1>6. /\ SocketTypes' /\ HistoryTypes'
      /\ sock'["helper unique"] = h
      /\ \A n \in Names \ {"helper unique"} : sock'[n] = sock[n]
      /\ raced \subseteq raced' /\ (h \in behind => "helper unique" \in raced')
      /\ behind \ {h} \subseteq behind'
  BY ClaimsFacts DEF HelperListen, InstancesInv
<1>7. HelperOwner'
  <2>1. CASE "helper unique" \in raced'
    BY <2>1 DEF HelperOwner
  <2>2. CASE "helper unique" \notin raced'
    <3>1. "helper unique" \notin raced /\ h \notin behind
      BY <1>6, <2>2
    <3>2. \A k \in Helpers : ~RunningHelper(k)
      BY <3>1 DEF HelperListen, InstancesInv, HelperOwner
    <3>3. \A k \in Helpers : RunningHelper(k)' => k = h
      BY <1>5, <3>2 DEF RunningHelper
    <3>4. \A k \in Helpers : helper'[k].at = "connecting" => k # h /\ helper[k].at = "connecting"
      BY <1>4, <1>5
    <3>5. \A k \in Helpers : helper'[k].at = "connecting" => k \in behind'
      BY <3>4 DEF HelperListen, Claims
    <3> QED BY <1>6, <3>3, <3>5 DEF HelperOwner
  <2> QED BY <2>1, <2>2
<1>8. AppOwner'
  <2>1. h \notin Apps
    BY InstancesAssumption
  <2>2. \A x \in Apps : x \in behind => x \in behind'
    BY <1>6, <2>1
  <2>3. sock'["app"] = sock["app"]
    BY <1>6 DEF Names
  <2>4. app' = app
    BY DEF HelperListen
  <2> QED BY <1>6, <2>2, <2>3, <2>4, AppOwnerKept DEF InstancesInv, RunningApp
<1>9. AppTypes' /\ ClientTypes' /\ DeafIsNotTold'
  BY DEF HelperListen, InstancesInv, AppTypes, ClientTypes, DeafIsNotTold
<1> QED BY <1>5, <1>6, <1>7, <1>8, <1>9 DEF InstancesInv

LEMMA HelperUpInv ==
  ASSUME InstancesInv, NEW h \in Helpers, HelperUp(h)
  PROVE  InstancesInv'
<1>1. PICK g : g = [helper[h] EXCEPT !.at = "up"]
  OBVIOUS
<1>2. helper' = [helper EXCEPT ![h] = g]
  BY <1>1 DEF HelperUp
<1>3. helper[h] \in HelperStates
  BY DEF InstancesInv, HelperTypes
<1>4. g \in HelperStates /\ g.at = "up"
  BY <1>1, <1>3, HelperFields DEF HelperStates, HelperPlaces
<1>5. /\ HelperTypes' /\ helper'[h] = g
      /\ \A k \in Helpers \ {h} : helper'[k] = helper[k]
  BY <1>2, <1>4, OneHelper DEF InstancesInv
<1>6. /\ sock'["app"] = sock["app"] /\ sock'["helper unique"] = sock["helper unique"]
      /\ sock'["helper"] = h
      /\ sock' \in [Names -> Apps \cup Helpers \cup {Nobody, Stale}]
  BY DEF HelperUp, InstancesInv, SocketTypes, Names
<1>7. SocketTypes'
  BY <1>6 DEF InstancesInv, SocketTypes
<1>8. HistoryTypes' /\ AppTypes' /\ ClientTypes' /\ DeafIsNotTold'
  BY DEF HelperUp, InstancesInv, HistoryTypes, AppTypes, ClientTypes, DeafIsNotTold
<1>9. AppOwner'
  BY <1>6 DEF HelperUp, InstancesInv, AppOwner, RunningApp
<1>10. HelperOwner'
  <2>1. \A k \in Helpers : RunningHelper(k)' => RunningHelper(k)
    BY <1>5 DEF HelperUp, RunningHelper
  <2>2. \A k \in Helpers : helper'[k].at = "connecting" => helper[k].at = "connecting"
    BY <1>4, <1>5
  <2> QED BY <1>6, <2>1, <2>2, HelperOwnerKept DEF HelperUp, InstancesInv
<1> QED BY <1>5, <1>7, <1>8, <1>9, <1>10 DEF InstancesInv

LEMMA ClientConnectedInv ==
  ASSUME InstancesInv, NEW h \in Helpers, NEW x \in Apps, ClientConnected(h, x)
  PROVE  InstancesInv'
<1>1. PICK g : g = [helper[h] EXCEPT !.timer = FALSE]
  OBVIOUS
<1>2. PICK c : c = [client[x] EXCEPT !.accepted = TRUE, !.hello = Alive(x) /\ ~client[x].deaf]
  OBVIOUS
<1>3. helper[h] \in HelperStates /\ client[x] \in ClientStates
  BY DEF InstancesInv, HelperTypes, ClientTypes
<1>4. g \in HelperStates /\ g.at = helper[h].at
  BY <1>1, <1>3, HelperFields DEF HelperStates
<1>5. c \in ClientStates /\ c.deaf = client[x].deaf /\ c.lost = client[x].lost
  <2>1. (Alive(x) /\ ~client[x].deaf) \in BOOLEAN
    OBVIOUS
  <2> HIDE DEF Alive
  <2> QED BY <1>2, <1>3, <2>1, ClientFields DEF ClientStates
<1>6. helper' = [helper EXCEPT ![h] = g]
  BY <1>1 DEF ClientConnected
<1>7. client' = [client EXCEPT ![x] = c]
  <2>1. client' = [client EXCEPT ![x].accepted = TRUE, ![x].hello = Alive(x) /\ ~client[x].deaf]
    BY DEF ClientConnected
  <2> QED BY <1>2, <1>3, <2>1 DEF InstancesInv, ClientTypes
<1>8. HelperTypes' /\ QuietHelpers
  BY <1>4, <1>6, OneHelper DEF InstancesInv, QuietHelpers
<1>9. ClientTypes' /\ DeafIsNotTold'
  BY <1>5, <1>7, OneClient DEF InstancesInv, DeafIsNotTold
<1> QED BY <1>8, <1>9, Talking DEF ClientConnected

LEMMA ClientDisconnectedInv ==
  ASSUME InstancesInv, NEW h \in Helpers, NEW x \in Apps, ClientDisconnected(h, x)
  PROVE  InstancesInv'
<1>1. PICK g : g = [helper[h] EXCEPT !.timer = TRUE]
  OBVIOUS
<1>2. helper[h] \in HelperStates
  BY DEF InstancesInv, HelperTypes
<1>3. g \in HelperStates /\ g.at = helper[h].at
  BY <1>1, <1>2, HelperFields DEF HelperStates
<1>4. helper' = [helper EXCEPT ![h] = g]
  BY <1>1 DEF ClientDisconnected
<1>5. HelperTypes' /\ QuietHelpers
  BY <1>3, <1>4, OneHelper DEF InstancesInv, QuietHelpers
<1>6. ClientTypes' /\ DeafIsNotTold'
  BY NewStates, OneClient DEF ClientDisconnected, InstancesInv
<1> QED BY <1>5, <1>6, Talking DEF ClientDisconnected

(* A helper ends, also one that ran.                                        *)
LEMMA HelperEndsInv ==
  ASSUME InstancesInv, NEW h \in Helpers, NEW closed, HelperEnds(h, closed),
         closed = {} \/ (closed = {"helper unique"} /\ RunningHelper(h)),
         behind' = behind \/ behind' = behind \ {h}
  PROVE  InstancesInv'
<1>1. /\ HelperTypes' /\ helper'[h].at = "off"
      /\ \A k \in Helpers \ {h} : helper'[k] = helper[k]
  BY OneHelper, NewStates DEF HelperEnds, InstancesInv
<1>2. SocketTypes' /\ \A n \in Names : n \notin closed /\ sock[n] # h => sock'[n] = sock[n]
  BY ClosedFacts DEF HelperEnds, InstancesInv
<1>3. \A x \in Apps : client'[x] \in ClientStates /\ (client'[x].deaf => ~client'[x].lost)
  <2> SUFFICES ASSUME NEW x \in Apps
               PROVE  client'[x] \in ClientStates /\ (client'[x].deaf => ~client'[x].lost)
    OBVIOUS
  <2>1. client[x] \in ClientStates /\ (client[x].deaf => ~client[x].lost)
    BY DEF InstancesInv, ClientTypes, DeafIsNotTold
  <2>2. CASE client[x].link # h
    BY <2>1, <2>2 DEF HelperEnds
  <2>3. CASE client[x].link = h
    <3>1. PICK l \in BOOLEAN : l = (Alive(x) /\ ~client[x].deaf)
      OBVIOUS
    <3>2. PICK c : c = [client[x] EXCEPT !.link = Nobody, !.accepted = FALSE, !.hello = FALSE,
                                         !.lost = Alive(x) /\ ~client[x].deaf]
      OBVIOUS
    <3>3. client'[x] = c
      BY <2>3, <3>2 DEF HelperEnds
    <3>4. c \in ClientStates /\ c.lost = l /\ c.deaf = client[x].deaf
      <4> HIDE DEF Alive
      <4> QED BY <2>1, <3>1, <3>2, ClientFields DEF ClientStates
    <3>5. c.deaf => ~c.lost
      BY <3>1, <3>4
    <3> QED BY <3>3, <3>4, <3>5
  <2> QED BY <2>2, <2>3
<1>4. ClientTypes' /\ DeafIsNotTold'
  BY <1>3 DEF HelperEnds, ClientTypes, DeafIsNotTold
<1>5. HistoryTypes' /\ AppTypes'
  BY DEF HelperEnds, InstancesInv, HistoryTypes, AppTypes
<1>6. {"app", "helper unique"} \subseteq Names
  BY DEF Names
<1>7. HelperOwner'
  <2>1. CASE "helper unique" \in raced
    BY <2>1 DEF HelperEnds, HelperOwner
  <2>2. CASE "helper unique" \notin raced
    <3>1. \A k \in Helpers : RunningHelper(k)' => k # h /\ RunningHelper(k)
      BY <1>1 DEF RunningHelper
    <3>2. \A k \in Helpers : RunningHelper(k)' => sock["helper unique"] = k /\ closed = {}
      BY <2>2, <3>1 DEF InstancesInv, HelperOwner
    <3>3. \A k \in Helpers : RunningHelper(k)' => sock'["helper unique"] = k
      BY <1>2, <1>6, <3>1, <3>2
    <3>4. \A k \in Helpers : helper'[k].at = "connecting" => k # h /\ helper[k].at = "connecting"
      BY <1>1
    <3>5. \A k, m \in Helpers :
            helper'[k].at = "connecting" /\ RunningHelper(m)' => k \in behind
      BY <2>2, <3>1, <3>4 DEF InstancesInv, HelperOwner
    <3>6. \A k, m \in Helpers :
            helper'[k].at = "connecting" /\ RunningHelper(m)' => k \in behind'
      BY <3>4, <3>5
    <3> QED BY <3>3, <3>6 DEF HelperOwner
  <2> QED BY <2>1, <2>2
<1>8. AppOwner'
  <2>1. h \notin Apps
    BY InstancesAssumption
  <2>2. \A x \in Apps : sock["app"] = x => sock'["app"] = x
    BY <1>2, <1>6, <2>1
  <2>3. \A x \in Apps : x \in behind => x \in behind'
    BY <2>1
  <2> QED BY <2>2, <2>3, AppOwnerKept DEF HelperEnds, InstancesInv, RunningApp
<1> QED BY <1>1, <1>2, <1>4, <1>5, <1>7, <1>8 DEF InstancesInv

LEMMA HelperLeavesInv ==
  ASSUME InstancesInv, NEW h \in Helpers, HelperQuits(h) \/ HelperCrashes(h)
  PROVE  InstancesInv'
<1>1. CASE HelperQuits(h)
  <2>1. RunningHelper(h)
    BY <1>1 DEF HelperQuits, RunningHelper
  <2> QED BY <1>1, <2>1, HelperEndsInv DEF HelperQuits
<1>2. CASE HelperCrashes(h)
  BY <1>2, HelperEndsInv DEF HelperCrashes
<1> QED BY <1>1, <1>2

-----------------------------------------------------------------------------
(* The invariant of the processes holds, and no instance that has stopped   *)
(* its helper comes back to it.                                            *)

LEMMA AppStepInv ==
  ASSUME InstancesInv, NEW x \in Apps, AppStep(x) \/ Crash(x)
  PROVE  InstancesInv'
<1>1. CASE EnsureUnique(x) \/ Listen(x) \/ Initialize(x) \/ OtherAppFocus(x) \/ Exit(x)
  BY <1>1, EnsureUniqueInv, ListenInv, InitializeInv, OtherAppFocusInv, ExitInv
<1>2. CASE ApplyUpdate(x) \/ Quit(x) \/ Crash(x)
  BY <1>2, LeavingInv
<1>3. CASE GotMessage(x) \/ SocketDisconnect(x) \/ Retry(x)
  BY <1>3, GotMessageInv, ReconnectInv
<1>4. CASE PowerOff(x)
  BY <1>4, StopInv DEF PowerOff
<1> QED BY <1>1, <1>2, <1>3, <1>4 DEF AppStep

LEMMA SocketStepInv ==
  ASSUME InstancesInv, NEW h \in Helpers,
         SocketStep(h) \/ HelperUp(h) \/ HelperQuits(h) \/ HelperCrashes(h)
  PROVE  InstancesInv'
<1>1. CASE HelperStart(h) \/ HelperListen(h) \/ HelperUp(h)
  BY <1>1, HelperStartInv, HelperListenInv, HelperUpInv
<1>2. CASE \E x \in Apps : ClientConnected(h, x) \/ ClientDisconnected(h, x)
  BY <1>2, ClientConnectedInv, ClientDisconnectedInv
<1>3. CASE HelperQuits(h) \/ HelperCrashes(h)
  BY <1>3, HelperLeavesInv
<1> QED BY <1>1, <1>2, <1>3 DEF SocketStep

LEMMA InstancesUnchanged ==
  ASSUME InstancesInv, UNCHANGED <<app, client, helper, sock, told, behind, raced>>
  PROVE  InstancesInv'
<1>1. AppTypes' /\ ClientTypes' /\ HelperTypes' /\ HistoryTypes' /\ SocketTypes'
  BY DEF InstancesInv, AppTypes, ClientTypes, HelperTypes, HistoryTypes, SocketTypes
<1>2. AppOwner' /\ HelperOwner' /\ DeafIsNotTold'
  BY DEF InstancesInv, AppOwner, HelperOwner, DeafIsNotTold, RunningApp, RunningHelper
<1> QED BY <1>1, <1>2 DEF InstancesInv

LEMMA InstancesInvNext ==
  ASSUME InstancesInv, [Next]_vars
  PROVE  InstancesInv'
<1>1. ASSUME NEW x \in Apps, AppStep(x) \/ CrashWithDump(x)
      PROVE  InstancesInv'
  BY <1>1, AppStepInv DEF CrashWithDump
<1>2. ASSUME NEW h \in Helpers,
             SocketStep(h) \/ HelperSetUp(h) \/ HelperQuit(h) \/ HelperCrash(h)
      PROVE  InstancesInv'
  BY <1>2, SocketStepInv DEF HelperSetUp, HelperQuit, HelperCrash
<1>3. ASSUME NEW h \in Helpers, Uploader(h)
      PROVE  InstancesInv'
  BY <1>3, InstancesUnchanged DEF Uploader
<1>4. CASE UNCHANGED instVars
  BY <1>4, InstancesUnchanged DEF instVars
<1> QED BY <1>1, <1>2, <1>3, <1>4 DEF Next, vars

LEMMA InstancesInvInit == Init => InstancesInv
<1> SUFFICES ASSUME Init PROVE InstancesInv
  OBVIOUS
<1>1. AppTypes /\ HistoryTypes
  BY DEF Init, InitInstances, AppTypes, HistoryTypes, AppPlaces
<1>2. ClientTypes /\ DeafIsNotTold
  BY NewStates DEF Init, InitInstances, ClientTypes, DeafIsNotTold
<1>3. HelperTypes /\ \A h \in Helpers : helper[h].at = "off"
  BY NewStates DEF Init, InitInstances, HelperTypes
<1>4. SocketTypes
  BY DEF Init, InitInstances, SocketTypes, Names
<1>5. AppOwner
  BY DEF Init, InitInstances, AppOwner, RunningApp
<1>6. HelperOwner
  BY <1>3 DEF HelperOwner, RunningHelper
<1> QED BY <1>1, <1>2, <1>3, <1>4, <1>5, <1>6 DEF InstancesInv

LEMMA InstancesAlways == Spec => []InstancesInv
BY InstancesInvInit, InstancesInvNext, PTL DEF Spec

(* No step launches a helper for an instance that is deaf.                  *)
NoneLaunched ==
  \A x \in Apps : client[x].deaf /\ client'[x].deaf =>
    \A h \in Helpers : helper[h].at = "off" /\ helper'[h].at # "off" => helper'[h].by # x

LEMMA NoneLaunchedIf ==
  ASSUME NEW x \in Apps,
         NoHelperStarts \/ (OnlyBy(x) /\ (client[x].deaf => NoHelperStarts))
  PROVE  NoneLaunched
BY DEF NoneLaunched, NoHelperStarts, OnlyBy

LEMMA NoneLaunchedApp ==
  ASSUME InstancesInv, NEW x \in Apps, AppStep(x) \/ Crash(x)
  PROVE  NoneLaunched
<1>1. CASE Listen(x) \/ ApplyUpdate(x) \/ OtherAppFocus(x) \/ Quit(x) \/ EnsureUnique(x)
           \/ Exit(x) \/ Crash(x)
  <2>1. helper' = helper
    BY <1>1 DEF Listen, ApplyUpdate, OtherAppFocus, Quit, EnsureUnique, Exit, Crash
  <2> QED BY <2>1, NoneLaunchedIf DEF NoHelperStarts
<1>2. CASE Initialize(x)
  <2>1. ConnectToHelper(x, client[x]) /\ client[x] \in ClientStates
    BY <1>2 DEF Initialize, InstancesInv, ClientTypes
  <2>2. OnlyBy(x) /\ (client[x].deaf => NoHelperStarts)
    BY <2>1, Connecting DEF InstancesInv
  <2> QED BY <2>2, NoneLaunchedIf
<1>3. CASE SocketDisconnect(x) \/ Retry(x)
  BY <1>3, ReconnectInv, NoneLaunchedIf
<1>4. CASE GotMessage(x) \/ PowerOff(x)
  <2>1. PICK h : helper' = helper \/ helper' = Killed(h)
    BY <1>4 DEF GotMessage, PowerOff, Stop
  <2>2. \A g \in Helpers : helper'[g].at = helper[g].at
    BY <2>1, KilledFacts DEF InstancesInv
  <2> QED BY <2>2, NoneLaunchedIf DEF NoHelperStarts
<1> QED BY <1>1, <1>2, <1>3, <1>4 DEF AppStep

LEMMA NoneLaunchedHelper ==
  ASSUME InstancesInv, NEW h \in Helpers,
         SocketStep(h) \/ HelperUp(h) \/ HelperQuits(h) \/ HelperCrashes(h)
  PROVE  NoneLaunched
<1>1. \A g \in Helpers \ {h} : helper'[g] = helper[g]
  BY DEF SocketStep, HelperStart, HelperListen, HelperUp, HelperQuits, HelperCrashes, HelperEnds,
         ClientConnected, ClientDisconnected, InstancesInv, HelperTypes
<1>2. helper[h].at # "off"
  BY DEF SocketStep, HelperStart, HelperListen, HelperUp, HelperQuits, HelperCrashes,
         ClientConnected, ClientDisconnected
<1>3. NoHelperStarts
  BY <1>1, <1>2 DEF NoHelperStarts
<1>4. CASE \E x \in Apps : TRUE
  BY <1>3, <1>4, NoneLaunchedIf
<1> QED BY <1>4 DEF NoneLaunched

LEMMA NoneLaunchedNext ==
  ASSUME InstancesInv, [Next]_vars
  PROVE  NoneLaunched
<1>1. ASSUME NEW x \in Apps, AppStep(x) \/ CrashWithDump(x)
      PROVE  NoneLaunched
  BY <1>1, NoneLaunchedApp DEF CrashWithDump
<1>2. ASSUME NEW h \in Helpers,
             SocketStep(h) \/ HelperSetUp(h) \/ HelperQuit(h) \/ HelperCrash(h)
      PROVE  NoneLaunched
  BY <1>2, NoneLaunchedHelper DEF HelperSetUp, HelperQuit, HelperCrash
<1>3. CASE UNCHANGED helper
  BY <1>3 DEF NoneLaunched
<1>4. ASSUME NEW h \in Helpers, Uploader(h)
      PROVE  UNCHANGED helper
  BY <1>4 DEF Uploader
<1> QED BY <1>1, <1>2, <1>3, <1>4 DEF Next, vars, instVars

(* stop() (HelperLauncher.cpp: "so it doesn't start up again"): an instance *)
(* that has stopped its helper is not told that the helper is gone, and     *)
(* launches no helper, also when the timer of an earlier launch() runs out. *)
THEOREM StoppedForGood == Spec => StopsForGood
<1>1. InstancesInv /\ InstancesInv' /\ [Next]_vars =>
        [\A x \in Apps : client[x].deaf /\ client'[x].deaf =>
           /\ ~client'[x].lost
           /\ \A h \in Helpers :
                helper[h].at = "off" /\ helper'[h].at # "off" => helper'[h].by # x]_vars
  BY NoneLaunchedNext DEF InstancesInv, DeafIsNotTold, NoneLaunched
<1> QED BY <1>1, InstancesAlways, PTL DEF Spec, StopsForGood

-----------------------------------------------------------------------------
(* The crash dumps.                                                        *)

LEMMA DumpFields ==
  ASSUME NEW r \in DumpStates
  PROVE  /\ r.at \in Places /\ r.dir \in Versions /\ r.of \in Versions
         /\ r = [at |-> r.at, dir |-> r.dir, of |-> r.of]
BY DEF DumpStates

(* What becomes of the files: a dump that was written stays written, and    *)
(* keeps its version unless it is moved back.                               *)
FilesGoOn ==
  /\ dump' \in [Dumps -> DumpStates]
  /\ \A d \in Dumps :
       /\ dump[d].at # "unwritten" => dump'[d].at # "unwritten"
       /\ dump'[d].of = dump[d].of
       /\ dump'[d].dir = dump[d].dir \/ d \in retried'

LEMMA PutFacts ==
  ASSUME DumpTypes, NEW ds, NEW place \in {"processing", "old", "gone"}, dump' = Put(ds, place)
  PROVE  /\ FilesGoOn
         /\ \A d \in Dumps : /\ dump'[d].at = IF d \in ds THEN place ELSE dump[d].at
                             /\ dump'[d].dir = dump[d].dir
<1>1. ASSUME NEW d \in Dumps
      PROVE  /\ dump'[d] \in DumpStates
             /\ dump'[d].at = IF d \in ds THEN place ELSE dump[d].at
             /\ dump'[d].dir = dump[d].dir /\ dump'[d].of = dump[d].of
  <2>1. dump[d] \in DumpStates
    BY DEF DumpTypes
  <2>2. dump'[d] = IF d \in ds THEN [dump[d] EXCEPT !.at = place] ELSE dump[d]
    BY DEF Put
  <2> QED BY <2>1, <2>2, DumpFields DEF DumpStates, Places
<1>2. dump' \in [Dumps -> DumpStates]
  BY <1>1 DEF Put
<1> QED BY <1>1, <1>2 DEF FilesGoOn

LEMMA MovedBackFacts ==
  ASSUME DumpTypes, HelperTypes, NEW h \in Helpers, NEW d, NEW v, NEW u, MoveBack(h, d, v, u)
  PROVE  /\ FilesGoOn /\ retried' \subseteq Dumps /\ retried \subseteq retried'
         /\ \A e \in Dumps :
              IF e = d /\ dump[d].at = "processing" /\ dump[d].dir = v
              THEN dump'[e].at = "incoming"
              ELSE dump'[e].at = dump[e].at /\ dump'[e].dir = dump[e].dir
<1> DEFINE found == {d} \cap Files("processing", v)
<1>1. \A e \in Dumps : e \in found <=> e = d /\ dump[d].at = "processing" /\ dump[d].dir = v
  BY DEF Files, In
<1>2. found \subseteq Dumps
  BY DEF Files, In
<1>3. PICK w \in Versions : w = helper[h].version
  BY HelperFields DEF HelperTypes
<1>4. /\ dump' = [e \in Dumps |-> IF e \notin found THEN dump[e]
                    ELSE [dump[e] EXCEPT !.at = "incoming", !.dir = w]]
      /\ retried' = retried \cup found
  BY <1>3 DEF MoveBack
<1> HIDE DEF found
<1>5. ASSUME NEW e \in Dumps
      PROVE  /\ dump'[e] \in DumpStates /\ dump'[e].of = dump[e].of
             /\ e \in found => dump'[e].at = "incoming"
             /\ e \notin found => dump'[e] = dump[e]
  <2>1. dump[e] \in DumpStates
    BY DEF DumpTypes
  <2>2. dump'[e] = IF e \notin found THEN dump[e]
                   ELSE [dump[e] EXCEPT !.at = "incoming", !.dir = w]
    BY <1>4
  <2> QED BY <2>1, <2>2, DumpFields DEF DumpStates, Places
<1>6. dump' \in [Dumps -> DumpStates]
  BY <1>4, <1>5
<1>7. retried' \subseteq Dumps /\ retried \subseteq retried'
  BY <1>2, <1>4 DEF DumpTypes
<1>8. FilesGoOn
  BY <1>4, <1>5, <1>6 DEF FilesGoOn
<1> QED BY <1>1, <1>5, <1>7, <1>8

LEMMA UploaderFields ==
  ASSUME NEW u \in UploaderStates
  PROVE  /\ u.doing \in {"nothing", "busy", "waits"} /\ u.watching \in BOOLEAN
         /\ u.timer \in BOOLEAN /\ u.dirs \subseteq Versions /\ u.dir \in Versions
         /\ u.todo \subseteq Dumps /\ u.n \in Nat /\ u.moved \subseteq Dumps
         /\ u.sending \subseteq Dumps \X Versions
         /\ u = [doing |-> u.doing, watching |-> u.watching, timer |-> u.timer,
                 dirs |-> u.dirs, dir |-> u.dir, todo |-> u.todo, n |-> u.n,
                 moved |-> u.moved, sending |-> u.sending]
BY DEF UploaderStates

LEMMA NewUploaderFacts ==
  /\ NewUploader \in UploaderStates /\ NewUploader.doing = "nothing" /\ ~NewUploader.watching
  /\ NewUploader.dirs = {} /\ NewUploader.todo = {} /\ NewUploader.moved = {}
  /\ NewUploader.sending = {}
BY VersionFacts DEF NewUploader, UploaderStates

(* The uploader of h becomes u, and others may have started their timers.   *)
Like(u, w) ==
  /\ u.todo = w.todo /\ u.moved = w.moved /\ u.sending = w.sending
  /\ ~w.watching => u = w
Becomes(h, u) ==
  /\ up' \in [Helpers -> UploaderStates]
  /\ Like(up'[h], u)
  /\ \A g \in Helpers \ {h} : Like(up'[g], up[g])

LEMMA NoticedFacts ==
  ASSUME NEW us \in [Helpers -> UploaderStates], NEW ds, NEW v, up' = Noticed(ds, v, us)
  PROVE  up' \in [Helpers -> UploaderStates] /\ \A g \in Helpers : Like(up'[g], us[g])
<1>1. ASSUME NEW g \in Helpers
      PROVE  up'[g] \in UploaderStates /\ Like(up'[g], us[g])
  <2>1. us[g] \in UploaderStates
    OBVIOUS
  <2>2. CASE up'[g] = us[g]
    BY <2>1, <2>2 DEF Like
  <2>3. CASE us[g].watching /\ up'[g] = [us[g] EXCEPT !.timer = TRUE]
    <3>1. PICK w : w = [us[g] EXCEPT !.timer = TRUE]
      OBVIOUS
    <3>2. w \in UploaderStates /\ w.todo = us[g].todo /\ w.moved = us[g].moved
          /\ w.sending = us[g].sending
      BY <2>1, <3>1, UploaderFields DEF UploaderStates
    <3> QED BY <2>3, <3>1, <3>2 DEF Like
  <2> QED BY <2>2, <2>3 DEF Noticed
<1> QED BY <1>1 DEF Noticed

LEMMA OneUploader ==
  ASSUME DumpTypes, NEW h \in Helpers, NEW u \in UploaderStates,
         \/ up' = [up EXCEPT ![h] = u]
         \/ \E ds, v : up' = Noticed(ds, v, [up EXCEPT ![h] = u])
  PROVE  Becomes(h, u)
<1>1. PICK us : us = [up EXCEPT ![h] = u]
  OBVIOUS
<1>2. us \in [Helpers -> UploaderStates] /\ us[h] = u /\ \A g \in Helpers \ {h} : us[g] = up[g]
  BY <1>1 DEF DumpTypes
<1>3. CASE up' = us
  BY <1>2, <1>3 DEF Becomes, Like
<1>4. ASSUME NEW ds, NEW v, up' = Noticed(ds, v, us)
      PROVE  Becomes(h, u)
  BY <1>2, <1>4, NoticedFacts DEF Becomes
<1> QED BY <1>1, <1>3, <1>4

(* The step of one uploader, of a helper that runs.                         *)
LEMMA OneUploaderInv ==
  ASSUME DumpsInv, HelperOwner, UNCHANGED <<helper, raced>>,
         NEW h \in Helpers, NEW u \in UploaderStates, RunningHelper(h), Becomes(h, u),
         FilesGoOn, answered' \subseteq Dumps, missed' \subseteq Dumps,
         retried' \subseteq Dumps, retried \subseteq retried',
         SentAs(u, dump', retried'),
         Fresh(dump, answered) /\ SendsSoundly(up[h], dump, answered)
           => Fresh(dump', answered') /\ SendsSoundly(u, dump', answered')
  PROVE  DumpsInv'
<1>1. DumpTypes'
  BY DEF DumpTypes, FilesGoOn, Becomes
<1>2. VersionIsKept'
  BY DEF DumpsInv, VersionIsKept, FilesGoOn
<1>3. \A g \in Helpers : SentAs(up'[g], dump', retried')
  <2>1. SentAs(up'[h], dump', retried')
    BY DEF Becomes, Like, SentAs
  <2>2. ASSUME NEW g \in Helpers \ {h}
        PROVE  SentAs(up'[g], dump', retried')
    <3>1. up'[g].sending = up[g].sending
      BY DEF Becomes, Like
    <3>2. \A s \in up[g].sending : s[1] \in Dumps
      BY DEF DumpsInv, DumpTypes, UploaderStates
    <3>3. SentAs(up[g], dump, retried)
      BY DEF DumpsInv
    <3> QED BY <3>1, <3>2, <3>3 DEF SentAs, FilesGoOn
  <2> QED BY <2>1, <2>2
<1>4. IdleIsNew'
  BY NewUploaderFacts DEF DumpsInv, IdleIsNew, RunningHelper, Becomes, Like
<1>5. SendersSound'
  <2>1. CASE "helper unique" \in raced
    BY <2>1 DEF SendersSound
  <2>2. CASE "helper unique" \notin raced
    <3>1. Fresh(dump', answered') /\ SendsSoundly(u, dump', answered')
      BY <2>2 DEF DumpsInv, SendersSound
    <3>2. SendsSoundly(up'[h], dump', answered')
      BY <3>1 DEF SendsSoundly, Becomes, Like
    <3>3. ASSUME NEW g \in Helpers \ {h}
          PROVE  SendsSoundly(up'[g], dump', answered')
      <4>1. ~RunningHelper(g)
        BY <2>2 DEF HelperOwner
      <4>2. up'[g] = NewUploader
        BY <4>1, NewUploaderFacts DEF DumpsInv, IdleIsNew, Becomes, Like
      <4> QED BY <4>2, NewUploaderFacts DEF SendsSoundly
    <3> QED BY <3>1, <3>2, <3>3 DEF SendersSound
  <2> QED BY <2>1, <2>2
<1> QED BY <1>1, <1>2, <1>3, <1>4, <1>5 DEF DumpsInv

LEMMA AtWork ==
  ASSUME DumpsInv, NEW h \in Helpers,
         \/ up[h].doing # "nothing"
         \/ up[h].dirs # {} \/ up[h].todo # {} \/ up[h].moved # {} \/ up[h].sending # {}
  PROVE  RunningHelper(h)
BY NewUploaderFacts DEF DumpsInv, IdleIsNew
(* When no file changes.                                                    *)
LEMMA FilesStay ==
  ASSUME DumpsInv, UNCHANGED <<dump, retried>>
  PROVE  FilesGoOn /\ retried' \subseteq Dumps /\ retried \subseteq retried'
BY DEF DumpsInv, DumpTypes, FilesGoOn

(* The uploader only forgets or keeps what it sends, and a file that it     *)
(* sends is not moved where a scan finds it.                                *)
LEMMA SentAsKept ==
  ASSUME DumpsInv, NEW h \in Helpers, NEW u, u.sending \subseteq up[h].sending,
         FilesGoOn, retried \subseteq retried'
  PROVE  SentAs(u, dump', retried')
<1>1. SentAs(up[h], dump, retried) /\ \A s \in up[h].sending : s[1] \in Dumps
  BY DEF DumpsInv, DumpTypes, UploaderStates
<1> QED BY <1>1 DEF SentAs, FilesGoOn

LEMMA ScanningFacts ==
  ASSUME NEW u \in UploaderStates
  PROVE  /\ Scanning(u) \in UploaderStates /\ Scanning(u).todo = u.todo
         /\ Scanning(u).moved = u.moved /\ Scanning(u).sending = u.sending
BY UploaderFields DEF Scanning, UploaderStates

LEMMA StartUploaderInv ==
  ASSUME DumpsInv, HelperOwner, UNCHANGED <<helper, raced>>, NEW h \in Helpers, StartUploader(h)
  PROVE  DumpsInv'
<1>1. PICK u : u = Scanning(up[h])
  OBVIOUS
<1>2. up[h] \in UploaderStates
  BY DEF DumpsInv, DumpTypes
<1>3. /\ u \in UploaderStates /\ u.todo = up[h].todo /\ u.moved = up[h].moved
      /\ u.sending = up[h].sending
  BY <1>1, <1>2, ScanningFacts
<1>4. up' = [up EXCEPT ![h] = u]
  BY <1>1 DEF StartUploader
<1>5. Becomes(h, u) /\ RunningHelper(h)
  BY <1>3, <1>4, OneUploader DEF DumpsInv, StartUploader, RunningHelper
<1>6. PICK ds : dump' = Put(ds, "gone")
  BY DEF StartUploader, Wiped
<1>7. FilesGoOn /\ \A d \in Dumps : /\ dump'[d].at = dump[d].at \/ dump'[d].at = "gone"
                                    /\ dump'[d].dir = dump[d].dir
  BY <1>6, PutFacts DEF DumpsInv
<1>8. /\ UNCHANGED <<answered, retried, missed>>
      /\ answered \subseteq Dumps /\ retried \subseteq Dumps /\ missed \subseteq Dumps
  BY DEF StartUploader, DumpsInv, DumpTypes
<1>9. SentAs(u, dump', retried')
  BY <1>3, <1>7, <1>8, SentAsKept
<1>10. Fresh(dump, answered) => Fresh(dump', answered')
  BY <1>7, <1>8 DEF Fresh
<1>11. SendsSoundly(up[h], dump, answered) => SendsSoundly(u, dump', answered')
  <2>1. \A s \in up[h].sending : s[1] \in Dumps
    BY <1>2, UploaderFields
  <2> QED BY <1>3, <1>7, <1>8, <2>1 DEF SendsSoundly
<1> QED BY <1>3, <1>5, <1>7, <1>8, <1>9, <1>10, <1>11, OneUploaderInv

(* A step of the uploader that moves no file and ends no upload.            *)
LEMMA QuietUploader ==
  ASSUME DumpsInv, HelperOwner, UNCHANGED <<helper, raced, dump, answered, retried>>,
         missed' \subseteq missed,
         NEW h \in Helpers, NEW u \in UploaderStates, RunningHelper(h),
         up' = [up EXCEPT ![h] = u], u.sending = up[h].sending, u.moved = up[h].moved,
         u.todo = up[h].todo \/ (u.todo \subseteq In("incoming") /\ u.moved = {})
  PROVE  DumpsInv'
<1>1. Becomes(h, u)
  BY OneUploader DEF DumpsInv
<1>2. FilesGoOn /\ retried' \subseteq Dumps /\ retried \subseteq retried'
  BY FilesStay
<1>3. SentAs(u, dump', retried')
  BY <1>2, SentAsKept
<1>4. answered' \subseteq Dumps /\ missed' \subseteq Dumps
  BY DEF DumpsInv, DumpTypes
<1>5. SendsSoundly(up[h], dump, answered) => SendsSoundly(u, dump', answered')
  BY DEF SendsSoundly, In
<1> QED BY <1>1, <1>2, <1>3, <1>4, <1>5, OneUploaderInv

LEMMA ScanTimerInv ==
  ASSUME DumpsInv, HelperOwner, UNCHANGED <<helper, raced>>, NEW h \in Helpers, ScanTimer(h)
  PROVE  DumpsInv'
<1>1. PICK u : u = Scanning(up[h])
  OBVIOUS
<1>2. up[h] \in UploaderStates
  BY DEF DumpsInv, DumpTypes
<1>3. /\ u \in UploaderStates /\ u.todo = up[h].todo /\ u.moved = up[h].moved
      /\ u.sending = up[h].sending
  BY <1>1, <1>2, ScanningFacts
<1>4. RunningHelper(h) /\ up' = [up EXCEPT ![h] = u]
  BY <1>1, AtWork DEF ScanTimer
<1> QED BY <1>3, <1>4, QuietUploader DEF ScanTimer

LEMMA WatchAgainInv ==
  ASSUME DumpsInv, HelperOwner, UNCHANGED <<helper, raced>>, NEW h \in Helpers, WatchAgain(h)
  PROVE  DumpsInv'
<1>1. PICK u : u = [up[h] EXCEPT !.doing = "waits", !.watching = TRUE, !.dir = AnyVersion, !.n = 0]
  OBVIOUS
<1>2. up[h] \in UploaderStates
  BY DEF DumpsInv, DumpTypes
<1>3. /\ u \in UploaderStates /\ u.todo = up[h].todo /\ u.moved = up[h].moved
      /\ u.sending = up[h].sending
  BY <1>1, <1>2, UploaderFields, VersionFacts DEF UploaderStates
<1>4. RunningHelper(h) /\ up' = [up EXCEPT ![h] = u]
  BY <1>1, AtWork DEF WatchAgain
<1> QED BY <1>3, <1>4, QuietUploader DEF WatchAgain

LEMMA ListDumpsInv ==
  ASSUME DumpsInv, HelperOwner, UNCHANGED <<helper, raced>>,
         NEW h \in Helpers, NEW v \in Versions, ListDumps(h, v)
  PROVE  DumpsInv'
<1> DEFINE found == Files("incoming", v)
<1>1. found \subseteq In("incoming") /\ found \in SUBSET Dumps
  BY DEF Files, In
<1> HIDE DEF found
<1>2. PICK u : u = [up[h] EXCEPT !.dirs = up[h].dirs \ {v}, !.dir = v, !.n = 0, !.todo = found]
  OBVIOUS
<1>3. up[h] \in UploaderStates
  BY DEF DumpsInv, DumpTypes
<1>4. u \in UploaderStates /\ u.todo = found /\ u.moved = up[h].moved /\ u.sending = up[h].sending
  BY <1>1, <1>2, <1>3, UploaderFields DEF UploaderStates
<1>5. up' = [up EXCEPT ![h] = u] /\ missed' \subseteq missed
  BY <1>2 DEF ListDumps, found
<1>6. RunningHelper(h)
  BY AtWork DEF ListDumps
<1> QED BY <1>1, <1>4, <1>5, <1>6, QuietUploader DEF ListDumps

LEMMA MoveDumpInv ==
  ASSUME DumpsInv, HelperOwner, UNCHANGED <<helper, raced>>,
         NEW h \in Helpers, NEW d \in Dumps, MoveDump(h, d)
  PROVE  DumpsInv'
<1>1. PICK u : u = [up[h] EXCEPT !.todo = up[h].todo \ {d}, !.n = up[h].n + 1, !.moved = {d}]
  OBVIOUS
<1>2. up[h] \in UploaderStates
  BY DEF DumpsInv, DumpTypes
<1>3. /\ u \in UploaderStates /\ u.todo = up[h].todo \ {d} /\ u.moved = {d}
      /\ u.sending = up[h].sending
  <2>1. up[h].n + 1 \in Nat /\ up[h].todo \ {d} \in SUBSET Dumps /\ {d} \in SUBSET Dumps
    BY <1>2, UploaderFields
  <2> QED BY <1>1, <1>2, <2>1, UploaderFields DEF UploaderStates
<1>4. PICK found : found = {d} \cap Files("incoming", up[h].dir)
  OBVIOUS
<1>5. found \subseteq {d} /\ \A e \in found : dump[e].at = "incoming"
  BY <1>4 DEF Files, In
<1>6. up' = Noticed(found, up[h].dir, [up EXCEPT ![h] = u])
  BY <1>1, <1>4 DEF MoveDump
<1>7. Becomes(h, u)
  BY <1>3, <1>6, OneUploader DEF DumpsInv
<1>8. PICK place \in {"gone", "processing"} : dump' = Put(found, place)
  BY <1>4 DEF MoveDump
<1>9. /\ FilesGoOn
      /\ \A e \in Dumps : /\ dump'[e].at = IF e \in found THEN place ELSE dump[e].at
                          /\ dump'[e].dir = dump[e].dir
  BY <1>8, PutFacts DEF DumpsInv
<1>10. /\ UNCHANGED <<answered, retried, missed>>
       /\ answered \subseteq Dumps /\ retried \subseteq Dumps /\ missed \subseteq Dumps
  BY DEF MoveDump, DumpsInv, DumpTypes
<1>11. SentAs(u, dump', retried')
  BY <1>3, <1>9, <1>10, SentAsKept
<1>12. Fresh(dump, answered) => Fresh(dump', answered')
  BY <1>5, <1>9, <1>10 DEF Fresh
<1>13. SendsSoundly(up[h], dump, answered) => SendsSoundly(u, dump', answered')
  <2> SUFFICES ASSUME SendsSoundly(up[h], dump, answered)
               PROVE  SendsSoundly(u, dump', answered')
    OBVIOUS
  <2>1. d \in up[h].todo
    BY DEF MoveDump
  <2>2. ASSUME NEW s \in up[h].sending
        PROVE  s[1] \in Dumps /\ s[1] # d /\ s[1] \notin found
    BY <1>2, <1>5, <2>1, <2>2, UploaderFields DEF SendsSoundly
  <2>3. \A s \in u.sending :
          /\ dump'[s[1]].at \notin {"unwritten", "incoming"} /\ s[1] \notin answered'
          /\ dump'[s[1]].at = "processing" => dump'[s[1]].dir = s[2]
          /\ s[1] \notin u.todo /\ s[1] \notin u.moved
    BY <1>3, <1>9, <1>10, <2>2 DEF SendsSoundly
  <2> QED BY <1>3, <2>3 DEF SendsSoundly
<1>14. RunningHelper(h)
  BY AtWork DEF MoveDump
<1> QED BY <1>3, <1>7, <1>9, <1>10, <1>11, <1>12, <1>13, <1>14, OneUploaderInv

(* What is moved back is sent no longer, and can be found again.            *)
LEMMA MoveBackInv ==
  ASSUME DumpsInv, HelperOwner, HelperTypes, UNCHANGED <<helper, raced, answered, missed>>,
         NEW h \in Helpers, NEW d \in Dumps, NEW v, NEW u \in UploaderStates,
         MoveBack(h, d, v, u), RunningHelper(h), u.sending \subseteq up[h].sending,
         u.todo = up[h].todo, u.moved \subseteq up[h].moved,
         SendsSoundly(up[h], dump, answered) => \A s \in u.sending : s[1] # d
  PROVE  DumpsInv'
<1>1. Becomes(h, u)
  BY OneUploader DEF DumpsInv, MoveBack
<1>2. /\ FilesGoOn /\ retried' \subseteq Dumps /\ retried \subseteq retried'
      /\ \A e \in Dumps :
           IF e = d /\ dump[d].at = "processing" /\ dump[d].dir = v
           THEN dump'[e].at = "incoming"
           ELSE dump'[e].at = dump[e].at /\ dump'[e].dir = dump[e].dir
  BY MovedBackFacts DEF DumpsInv
<1>3. answered' \subseteq Dumps /\ missed' \subseteq Dumps
  BY DEF DumpsInv, DumpTypes
<1>4. SentAs(u, dump', retried')
  BY <1>2, SentAsKept
<1>5. Fresh(dump, answered) => Fresh(dump', answered')
  BY <1>2 DEF Fresh
<1>6. SendsSoundly(up[h], dump, answered) => SendsSoundly(u, dump', answered')
  <2>1. \A s \in up[h].sending : s[1] \in Dumps
    BY DEF DumpsInv, DumpTypes, UploaderStates
  <2> QED BY <1>2, <2>1 DEF SendsSoundly
<1> QED BY <1>1, <1>2, <1>3, <1>4, <1>5, <1>6, OneUploaderInv

LEMMA OpenDumpInv ==
  ASSUME DumpsInv, HelperOwner, HelperTypes, UNCHANGED <<helper, raced>>,
         NEW h \in Helpers, NEW d \in Dumps, OpenDump(h, d)
  PROVE  DumpsInv'
<1> DEFINE v == up[h].dir
<1>1. up[h] \in UploaderStates /\ v \in Versions
  BY UploaderFields DEF DumpsInv, DumpTypes
<1> HIDE DEF v
<1>2. RunningHelper(h)
  BY AtWork DEF OpenDump
<1>3. CASE /\ d \in Files("processing", v)
           /\ up' = [up EXCEPT ![h] = [@ EXCEPT !.moved = {},
                                              !.sending = up[h].sending \cup {<<d, v>>}]]
           /\ UNCHANGED <<dump, retried, faults>>
  <2>1. PICK u : u = [up[h] EXCEPT !.moved = {}, !.sending = up[h].sending \cup {<<d, v>>}]
    OBVIOUS
  <2>2. up[h].sending \cup {<<d, v>>} \in SUBSET (Dumps \X Versions)
    BY <1>1, UploaderFields
  <2>3. /\ u \in UploaderStates /\ u.todo = up[h].todo /\ u.moved = {}
        /\ u.sending = up[h].sending \cup {<<d, v>>}
    BY <1>1, <2>1, <2>2, UploaderFields DEF UploaderStates
  <2>4. up' = [up EXCEPT ![h] = u]
    BY <1>3, <2>1
  <2>5. Becomes(h, u)
    BY <2>3, <2>4, OneUploader DEF DumpsInv
  <2>6. FilesGoOn /\ retried' \subseteq Dumps /\ retried \subseteq retried'
    BY <1>3, FilesStay
  <2>7. dump[d].at = "processing" /\ dump[d].dir = v
    BY <1>3 DEF Files, In
  <2>8. SentAs(u, dump', retried')
    <3>1. SentAs(up[h], dump, retried)
      BY DEF DumpsInv
    <3>2. v = dump[d].of \/ d \in retried
      BY <2>7 DEF DumpsInv, VersionIsKept
    <3> QED BY <1>3, <2>3, <2>7, <3>1, <3>2 DEF SentAs
  <2>9. /\ answered' = answered /\ answered' \subseteq Dumps /\ missed' \subseteq Dumps
    BY DEF OpenDump, DumpsInv, DumpTypes
  <2>10. Fresh(dump, answered) => d \notin answered
    BY <2>7 DEF Fresh
  <2>11. d \in up[h].moved
    BY DEF OpenDump
  <2>12. SendsSoundly(up[h], dump, answered) /\ d \notin answered
           => SendsSoundly(u, dump', answered')
    BY <1>3, <2>3, <2>7, <2>9, <2>11 DEF SendsSoundly
  <2>13. Fresh(dump, answered) => Fresh(dump', answered')
    BY <1>3, <2>9
  <2> QED BY <1>2, <2>3, <2>5, <2>6, <2>8, <2>9, <2>10, <2>12, <2>13, OneUploaderInv
<1>4. CASE MoveBack(h, d, v, [up[h] EXCEPT !.moved = {}, !.timer = TRUE, !.watching = TRUE])
  <2>1. PICK u : u = [up[h] EXCEPT !.moved = {}, !.timer = TRUE, !.watching = TRUE]
    OBVIOUS
  <2>2. /\ u \in UploaderStates /\ u.todo = up[h].todo /\ u.moved = {}
        /\ u.sending = up[h].sending
    BY <1>1, <2>1, UploaderFields DEF UploaderStates
  <2>3. MoveBack(h, d, v, u)
    BY <1>4, <2>1
  <2>4. d \in up[h].moved /\ UNCHANGED <<answered, missed>>
    BY DEF OpenDump
  <2>5. SendsSoundly(up[h], dump, answered) => \A s \in u.sending : s[1] # d
    BY <2>2, <2>4 DEF SendsSoundly
  <2> QED BY <1>2, <2>2, <2>3, <2>4, <2>5, MoveBackInv
<1> QED BY <1>3, <1>4 DEF OpenDump, v

LEMMA RepliedFacts ==
  ASSUME NEW u \in UploaderStates, NEW s
  PROVE  /\ Replied(u, s) \in UploaderStates /\ Replied(u, s).todo = u.todo
         /\ Replied(u, s).moved = u.moved /\ Replied(u, s).sending = u.sending \ {s}
         /\ [Replied(u, s) EXCEPT !.timer = TRUE] \in UploaderStates
         /\ [Replied(u, s) EXCEPT !.timer = TRUE].todo = u.todo
         /\ [Replied(u, s) EXCEPT !.timer = TRUE].moved = u.moved
         /\ [Replied(u, s) EXCEPT !.timer = TRUE].sending = u.sending \ {s}
<1>1. u.sending \ {s} \in SUBSET (Dumps \X Versions)
  BY UploaderFields
<1> QED BY <1>1, UploaderFields DEF Replied, UploaderStates

LEMMA NotNowInv ==
  ASSUME DumpsInv, HelperOwner, HelperTypes, UNCHANGED <<helper, raced>>,
         NEW h \in Helpers, NEW s \in up[h].sending, NotNow(h, s)
  PROVE  DumpsInv'
<1>1. up[h] \in UploaderStates
  BY DEF DumpsInv, DumpTypes
<1>2. s[1] \in Dumps
  BY <1>1, UploaderFields
<1>3. PICK u : u = [Replied(up[h], s) EXCEPT !.timer = TRUE]
  OBVIOUS
<1>4. /\ u \in UploaderStates /\ u.todo = up[h].todo /\ u.moved = up[h].moved
      /\ u.sending = up[h].sending \ {s}
  BY <1>1, <1>3, RepliedFacts
<1>5. MoveBack(h, s[1], s[2], u) /\ UNCHANGED <<answered, missed>>
  BY <1>3 DEF NotNow
<1>6. SendsSoundly(up[h], dump, answered) => \A t \in u.sending : t[1] # s[1]
  BY <1>4 DEF SendsSoundly
<1>7. RunningHelper(h)
  BY AtWork
<1> QED BY <1>2, <1>4, <1>5, <1>6, <1>7, MoveBackInv

LEMMA FinishedInv ==
  ASSUME DumpsInv, HelperOwner, UNCHANGED <<helper, raced>>,
         NEW h \in Helpers, NEW s \in up[h].sending, Finished(h, s)
  PROVE  DumpsInv'
<1>1. up[h] \in UploaderStates
  BY DEF DumpsInv, DumpTypes
<1>2. \A t \in up[h].sending : t[1] \in Dumps
  BY <1>1, UploaderFields
<1>3. PICK u : u = Replied(up[h], s)
  OBVIOUS
<1>4. /\ u \in UploaderStates /\ u.todo = up[h].todo /\ u.moved = up[h].moved
      /\ u.sending = up[h].sending \ {s}
  BY <1>1, <1>3, RepliedFacts
<1>5. up' = [up EXCEPT ![h] = u]
  BY <1>3 DEF Finished
<1>6. Becomes(h, u)
  BY <1>4, <1>5, OneUploader DEF DumpsInv
<1>7. PICK found : found = {s[1]} \cap Files("processing", s[2])
  OBVIOUS
<1>8. \A d \in Dumps : d \in found <=> d = s[1] /\ dump[d].at = "processing" /\ dump[d].dir = s[2]
  BY <1>7 DEF Files, In
<1>9. /\ FilesGoOn
      /\ \A d \in Dumps : /\ dump'[d].at = IF d \in found THEN "old" ELSE dump[d].at
                          /\ dump'[d].dir = dump[d].dir
  <2>1. dump' = Put(found, "old") /\ DumpTypes
    BY <1>7 DEF Finished, DumpsInv
  <2> QED BY <2>1, PutFacts
<1>10. /\ answered' = answered \cup {s[1]} /\ UNCHANGED <<retried, missed>>
       /\ answered' \subseteq Dumps /\ retried \subseteq Dumps /\ missed \subseteq Dumps
  BY <1>2 DEF Finished, DumpsInv, DumpTypes
<1>11. SentAs(u, dump', retried')
  BY <1>4, <1>9, <1>10, SentAsKept
<1>12. Fresh(dump, answered) /\ SendsSoundly(up[h], dump, answered) => Fresh(dump', answered')
  <2> SUFFICES ASSUME Fresh(dump, answered), SendsSoundly(up[h], dump, answered), NEW d \in Dumps,
                      dump'[d].at \in {"unwritten", "incoming", "processing"}
               PROVE  d \notin answered'
    BY DEF Fresh
  <2>1. dump[d].at = dump'[d].at /\ d \notin found
    BY <1>9
  <2>2. d # s[1]
    BY <1>8, <2>1 DEF SendsSoundly
  <2> QED BY <1>10, <2>1, <2>2 DEF Fresh
<1>13. SendsSoundly(up[h], dump, answered) => SendsSoundly(u, dump', answered')
  <2> SUFFICES ASSUME SendsSoundly(up[h], dump, answered)
               PROVE  SendsSoundly(u, dump', answered')
    OBVIOUS
  <2>1. \A t \in u.sending : t[1] # s[1] /\ t[1] \notin found
    BY <1>2, <1>4, <1>8 DEF SendsSoundly
  <2>2. \A t \in u.sending :
          /\ dump'[t[1]].at \notin {"unwritten", "incoming"} /\ t[1] \notin answered'
          /\ dump'[t[1]].at = "processing" => dump'[t[1]].dir = t[2]
          /\ t[1] \notin u.todo /\ t[1] \notin u.moved
    BY <1>2, <1>4, <1>9, <1>10, <2>1 DEF SendsSoundly
  <2> QED BY <1>4, <2>2 DEF SendsSoundly
<1>14. RunningHelper(h)
  BY AtWork
<1> QED BY <1>4, <1>6, <1>9, <1>10, <1>11, <1>12, <1>13, <1>14, OneUploaderInv

(* Steps of other parts: every helper that ran still runs, or its uploader  *)
(* is the one of a new helper.                                              *)
LEMMA UploadersKept ==
  ASSUME DumpsInv, UNCHANGED <<dump, answered, retried, missed>>, raced \subseteq raced',
         up' \in [Helpers -> UploaderStates],
         \A h \in Helpers :
           \/ up'[h] = NewUploader
           \/ up'[h] = up[h] /\ (RunningHelper(h) => RunningHelper(h)')
  PROVE  DumpsInv'
<1>1. DumpTypes' /\ VersionIsKept'
  BY DEF DumpsInv, DumpTypes, VersionIsKept
<1>2. \A h \in Helpers : SentAs(up'[h], dump', retried')
  BY NewUploaderFacts DEF DumpsInv, SentAs
<1>3. IdleIsNew'
  BY DEF DumpsInv, IdleIsNew
<1>4. SendersSound'
  <2>1. CASE "helper unique" \in raced
    BY <2>1 DEF SendersSound
  <2>2. CASE "helper unique" \notin raced
    <3>1. Fresh(dump', answered')
      BY <2>2 DEF DumpsInv, SendersSound
    <3>2. ASSUME NEW h \in Helpers
          PROVE  SendsSoundly(up'[h], dump', answered')
      <4>1. CASE up'[h] = NewUploader
        BY <4>1, NewUploaderFacts DEF SendsSoundly
      <4>2. CASE up'[h] = up[h]
        <5>1. SendsSoundly(up[h], dump, answered)
          BY <2>2 DEF DumpsInv, SendersSound
        <5> QED BY <4>2, <5>1
      <4> QED BY <4>1, <4>2
    <3> QED BY <3>1, <3>2 DEF SendersSound
  <2> QED BY <2>1, <2>2
<1> QED BY <1>1, <1>2, <1>3, <1>4 DEF DumpsInv

LEMMA StopUploaderInv ==
  ASSUME DumpsInv, NEW h \in Helpers, StopUploader(h), raced \subseteq raced',
         \A g \in Helpers \ {h} : helper'[g] = helper[g]
  PROVE  DumpsInv'
<1>1. /\ up' \in [Helpers -> UploaderStates] /\ up'[h] = NewUploader
      /\ \A g \in Helpers \ {h} : up'[g] = up[g]
  BY NewUploaderFacts DEF StopUploader, DumpsInv, DumpTypes
<1> QED BY <1>1, UploadersKept DEF StopUploader, RunningHelper

LEMMA WriteDumpInv ==
  ASSUME DumpsInv, UNCHANGED <<helper, raced>>, NEW x \in Apps, NEW d \in Dumps, WriteDump(x, d)
  PROVE  DumpsInv'
<1>1. PICK v \in Versions : v = VersionOf[x]
  BY VersionFacts
<1>2. /\ dump' = [dump EXCEPT ![d] = [at |-> "incoming", dir |-> v, of |-> v]]
      /\ up' = Noticed({d}, v, up)
      /\ missed' \subseteq missed \cup {d}
      /\ UNCHANGED <<answered, retried>>
      /\ dump[d].at = "unwritten"
  BY <1>1 DEF WriteDump, In
<1>3. up' \in [Helpers -> UploaderStates] /\ \A h \in Helpers : Like(up'[h], up[h])
  BY <1>2, NoticedFacts DEF DumpsInv, DumpTypes
<1>4. PICK r : r = [at |-> "incoming", dir |-> v, of |-> v]
  OBVIOUS
<1>5. r \in DumpStates /\ r.dir = r.of /\ r.at = "incoming"
  BY <1>4 DEF DumpStates, Places
<1>6. dump' \in [Dumps -> DumpStates] /\ dump'[d] = r /\ \A e \in Dumps \ {d} : dump'[e] = dump[e]
  BY <1>2, <1>4, <1>5 DEF DumpsInv, DumpTypes
<1>7. DumpTypes'
  BY <1>2, <1>3, <1>6 DEF DumpsInv, DumpTypes
<1>8. VersionIsKept'
  BY <1>2, <1>5, <1>6 DEF DumpsInv, VersionIsKept
<1>9. ASSUME NEW h \in Helpers
      PROVE  SentAs(up'[h], dump', retried')
  <2>1. SentAs(up[h], dump, retried) /\ \A s \in up[h].sending : s[1] \in Dumps
    BY DEF DumpsInv, DumpTypes, UploaderStates
  <2>2. \A s \in up[h].sending : s[1] # d
    BY <1>2, <2>1 DEF SentAs
  <2> QED BY <1>2, <1>3, <1>6, <2>1, <2>2 DEF SentAs, Like
<1>10. IdleIsNew'
  BY <1>3, NewUploaderFacts DEF DumpsInv, IdleIsNew, RunningHelper, Like
<1>11. SendersSound'
  <2>1. CASE "helper unique" \in raced
    BY <2>1 DEF SendersSound
  <2>2. CASE "helper unique" \notin raced
    <3>1. Fresh(dump, answered) /\ \A h \in Helpers : SendsSoundly(up[h], dump, answered)
      BY <2>2 DEF DumpsInv, SendersSound
    <3>2. Fresh(dump', answered')
      BY <1>2, <1>6, <3>1 DEF Fresh
    <3>3. ASSUME NEW h \in Helpers
          PROVE  SendsSoundly(up'[h], dump', answered')
      <4>1. SendsSoundly(up[h], dump, answered) /\ \A s \in up[h].sending : s[1] \in Dumps
        BY <3>1 DEF DumpsInv, DumpTypes, UploaderStates
      <4>2. \A s \in up[h].sending : s[1] # d
        BY <1>2, <4>1 DEF SendsSoundly
      <4> QED BY <1>2, <1>3, <1>6, <4>1, <4>2 DEF SendsSoundly, Like
    <3> QED BY <3>2, <3>3 DEF SendersSound
  <2> QED BY <2>1, <2>2
<1> QED BY <1>7, <1>8, <1>9, <1>10, <1>11 DEF DumpsInv

(* No helper stops running but by ending, with its uploader.                *)
LEMMA RunsOnApp ==
  ASSUME InstancesInv, NEW x \in Apps, AppStep(x) \/ Crash(x)
  PROVE  raced \subseteq raced' /\ \A h \in Helpers : RunningHelper(h) => RunningHelper(h)'
<1>1. CASE \/ EnsureUnique(x) \/ Listen(x) \/ ApplyUpdate(x) \/ OtherAppFocus(x) \/ Quit(x)
           \/ Exit(x) \/ Crash(x)
  BY <1>1 DEF EnsureUnique, Listen, Claims, ApplyUpdate, OtherAppFocus, Quit, Exit, Crash,
              RunningHelper
<1>2. ASSUME NEW c, ConnectToHelper(x, c)
      PROVE  \A h \in Helpers : RunningHelper(h) => RunningHelper(h)'
  BY <1>2 DEF ConnectToHelper, RunningHelper, InstancesInv, HelperTypes
<1>3. CASE Initialize(x) \/ SocketDisconnect(x) \/ Retry(x)
  BY <1>2, <1>3 DEF Initialize, SocketDisconnect, Retry
<1>4. CASE GotMessage(x) \/ PowerOff(x)
  <2>1. PICK h : helper' = helper \/ helper' = Killed(h)
    BY <1>4 DEF GotMessage, PowerOff, Stop
  <2>2. \A g \in Helpers : helper'[g].at = helper[g].at
    BY <2>1, KilledFacts DEF InstancesInv
  <2> QED BY <1>4, <2>2 DEF GotMessage, PowerOff, Stop, RunningHelper
<1> QED BY <1>1, <1>3, <1>4 DEF AppStep

LEMMA RunsOnHelper ==
  ASSUME InstancesInv, NEW h \in Helpers, SocketStep(h) \/ HelperUp(h)
  PROVE  raced \subseteq raced' /\ \A g \in Helpers : RunningHelper(g) => RunningHelper(g)'
<1>1. CASE HelperStart(h) \/ HelperListen(h) \/ HelperUp(h)
  <2>1. helper \in [Helpers -> HelperStates]
    BY DEF InstancesInv, HelperTypes
  <2>2. PICK r : helper' = [helper EXCEPT ![h] = r] /\ (RunningHelper(h) => r.at = "up")
    <3>1. CASE HelperStart(h)
      BY <3>1 DEF HelperStart, RunningHelper
    <3>2. CASE HelperListen(h) \/ HelperUp(h)
      <4>1. PICK place \in {"unique", "up"} :
              helper' = [helper EXCEPT ![h].at = place] /\ (RunningHelper(h) => place = "up")
        BY <3>2 DEF HelperListen, HelperUp, RunningHelper
      <4>2. helper' = [helper EXCEPT ![h] = [helper[h] EXCEPT !.at = place]]
        BY <2>1, <4>1
      <4>3. [helper[h] EXCEPT !.at = place].at = place
        BY <2>1, HelperFields DEF HelperStates
      <4> QED BY <4>1, <4>2, <4>3
    <3> QED BY <1>1, <3>1, <3>2
  <2>3. \A g \in Helpers : RunningHelper(g) => RunningHelper(g)'
    BY <2>1, <2>2 DEF RunningHelper
  <2>4. raced \subseteq raced'
    BY <1>1 DEF HelperStart, HelperListen, HelperUp, Claims
  <2> QED BY <2>3, <2>4
<1>2. ASSUME NEW x \in Apps, ClientConnected(h, x) \/ ClientDisconnected(h, x)
      PROVE  raced' = raced /\ \A g \in Helpers : RunningHelper(g) => RunningHelper(g)'
  <2>1. PICK b \in BOOLEAN : helper' = [helper EXCEPT ![h].timer = b]
    BY <1>2 DEF ClientConnected, ClientDisconnected
  <2>2. \A g \in Helpers : helper[g] \in HelperStates
    BY DEF InstancesInv, HelperTypes
  <2>3. \A g \in Helpers : helper'[g].at = helper[g].at
    BY <2>1, <2>2, HelperFields DEF InstancesInv, HelperTypes
  <2> QED BY <1>2, <2>3 DEF ClientConnected, ClientDisconnected, RunningHelper
<1> QED BY <1>1, <1>2 DEF SocketStep

LEMMA DumpsInvNext ==
  ASSUME DumpsInv, InstancesInv, [Next]_vars
  PROVE  DumpsInv'
<1>1. ASSUME UNCHANGED dumpVars, raced \subseteq raced',
             \A h \in Helpers : RunningHelper(h) => RunningHelper(h)'
      PROVE  DumpsInv'
  BY <1>1, UploadersKept DEF dumpVars, DumpsInv, DumpTypes
<1>2. ASSUME NEW x \in Apps, AppStep(x) \/ Crash(x), UNCHANGED dumpVars
      PROVE  DumpsInv'
  BY <1>1, <1>2, RunsOnApp
<1>3. ASSUME NEW x \in Apps, CrashWithDump(x)
      PROVE  DumpsInv'
  BY <1>2, <1>3, WriteDumpInv DEF CrashWithDump, Crash
<1>4. ASSUME NEW h \in Helpers, (SocketStep(h) /\ UNCHANGED dumpVars) \/ HelperSetUp(h)
      PROVE  DumpsInv'
  BY <1>1, <1>4, RunsOnHelper DEF HelperSetUp
<1>5. ASSUME NEW h \in Helpers, HelperQuit(h) \/ HelperCrash(h)
      PROVE  DumpsInv'
  <2>1. HelperEnds(h, {}) \/ HelperEnds(h, {"helper unique"})
    BY <1>5 DEF HelperQuit, HelperQuits, HelperCrash, HelperCrashes
  <2>2. raced' = raced /\ \A g \in Helpers \ {h} : helper'[g] = helper[g]
    BY <2>1 DEF HelperEnds, InstancesInv, HelperTypes
  <2> QED BY <1>5, <2>2, StopUploaderInv DEF HelperQuit, HelperCrash
<1>6. ASSUME NEW h \in Helpers, Uploader(h)
      PROVE  DumpsInv'
  <2>1. HelperOwner /\ HelperTypes /\ UNCHANGED <<helper, raced>>
    BY <1>6 DEF InstancesInv, Uploader
  <2>2. CASE StartUploader(h) \/ ScanTimer(h) \/ WatchAgain(h)
    BY <2>1, <2>2, StartUploaderInv, ScanTimerInv, WatchAgainInv
  <2>3. CASE \E v \in Versions : ListDumps(h, v)
    BY <2>1, <2>3, ListDumpsInv
  <2>4. CASE \E d \in Dumps : MoveDump(h, d) \/ OpenDump(h, d)
    BY <2>1, <2>4, MoveDumpInv, OpenDumpInv
  <2>5. CASE \E s \in up[h].sending : NotNow(h, s) \/ Finished(h, s)
    BY <2>1, <2>5, NotNowInv, FinishedInv
  <2> QED BY <1>6, <2>2, <2>3, <2>4, <2>5 DEF Uploader, UploaderStep
<1>7. CASE UNCHANGED <<helper, raced, dumpVars>>
  BY <1>1, <1>7 DEF RunningHelper
<1> QED BY <1>2, <1>3, <1>4, <1>5, <1>6, <1>7 DEF Next, vars, instVars

LEMMA DumpsInvInit == Init => DumpsInv
<1> SUFFICES ASSUME Init PROVE DumpsInv
  OBVIOUS
<1>1. PICK r : r = [at |-> "unwritten", dir |-> AnyVersion, of |-> AnyVersion]
  OBVIOUS
<1>2. r \in DumpStates /\ r.dir = r.of
  BY <1>1, VersionFacts DEF DumpStates, Places
<1>3. /\ dump = [d \in Dumps |-> r] /\ up = [h \in Helpers |-> NewUploader]
      /\ answered = {} /\ retried = {} /\ missed = {}
  BY <1>1 DEF Init, InitUploader
<1>4. DumpTypes
  BY <1>2, <1>3, NewUploaderFacts DEF DumpTypes
<1>5. VersionIsKept /\ IdleIsNew /\ \A h \in Helpers : SentAs(up[h], dump, retried)
  BY <1>2, <1>3, NewUploaderFacts DEF VersionIsKept, IdleIsNew, SentAs
<1>6. SendersSound
  BY <1>3, NewUploaderFacts DEF SendersSound, Fresh, SendsSoundly
<1> QED BY <1>4, <1>5, <1>6 DEF DumpsInv

LEMMA DumpsAlways == Spec => []DumpsInv
BY DumpsInvInit, DumpsInvNext, InstancesAlways, PTL DEF Spec

(* A crash dump for which the server had its say is not uploaded again, no  *)
(* two helpers upload the same (CrashUploader.cpp, uploadCrashDump: "so     *)
(* that we don't accidentially upload it twice"), as long as no two of them *)
(* looked for another before either listened; and each is uploaded with the *)
(* version that crashed until it had to be moved back.                      *)
THEOREM DumpsSound == Spec => []DumpsAreRight
<1>1. ASSUME DumpsInv, InstancesInv
      PROVE  DumpsAreRight
  <2>1. ReportsItsVersion
    BY <1>1 DEF DumpsInv, SentAs, ReportsItsVersion
  <2>2. ASSUME "helper unique" \notin raced
        PROVE  NeverSentTwice
    <3>1. \A h \in Helpers : SendsSoundly(up[h], dump, answered)
      BY <1>1, <2>2 DEF DumpsInv, SendersSound
    <3>2. \A h \in Helpers : Sends(h) \cap answered = {}
      BY <3>1 DEF Sends, SendsSoundly
    <3>3. ASSUME NEW g \in Helpers, NEW h \in Helpers, g # h
          PROVE  Sends(g) \cap Sends(h) = {}
      <4>1. ~RunningHelper(g) \/ ~RunningHelper(h)
        BY <1>1, <2>2, <3>3 DEF InstancesInv, HelperOwner
      <4>2. up[g].sending = {} \/ up[h].sending = {}
        BY <1>1, <4>1, NewUploaderFacts DEF DumpsInv, IdleIsNew
      <4> QED BY <4>2 DEF Sends
    <3> QED BY <3>2, <3>3 DEF NeverSentTwice
  <2> QED BY <2>1, <2>2 DEF DumpsAreRight
<1> QED BY DumpsAlways, InstancesAlways, <1>1, PTL

-----------------------------------------------------------------------------
(* The failures that a behaviour may still have, and type correctness.     *)

LEMMA SetupFaults == \A s \in Setups : s.faults \in Nat
BY InstancesAssumption

LEMMA OneFaultMore ==
  ASSUME FaultTypes, setup' = setup,
         faults' = faults \/ (faults < setup.faults /\ faults' = faults + 1)
  PROVE  FaultTypes'
<1>1. PICK n \in Nat : n = setup.faults
  BY SetupFaults DEF FaultTypes
<1>2. faults \in Nat /\ faults <= n
  BY <1>1 DEF FaultTypes
<1>3. faults' \in Nat /\ faults' <= n
  BY <1>1, <1>2
<1> QED BY <1>1, <1>3 DEF FaultTypes

LEMMA FaultTypesNext ==
  ASSUME FaultTypes, [Next]_vars
  PROVE  FaultTypes'
<1>1. ASSUME NEW x \in Apps, AppStep(x) \/ Crash(x)
      PROVE  UNCHANGED <<setup, faults>>
  <2>1. CASE EnsureUnique(x) \/ Listen(x) \/ Initialize(x) \/ ApplyUpdate(x) \/ OtherAppFocus(x)
    BY <2>1 DEF EnsureUnique, Listen, Initialize, ApplyUpdate, OtherAppFocus
  <2>2. CASE Quit(x) \/ Exit(x) \/ Crash(x)
    BY <2>2 DEF Quit, Exit, Crash
  <2>3. CASE GotMessage(x) \/ SocketDisconnect(x) \/ Retry(x) \/ PowerOff(x)
    BY <2>3 DEF GotMessage, SocketDisconnect, Retry, PowerOff, Stop
  <2> QED BY <1>1, <2>1, <2>2, <2>3 DEF AppStep
<1>2. ASSUME NEW h \in Helpers, SocketStep(h)
      PROVE  UNCHANGED <<setup, faults>>
  BY <1>2 DEF SocketStep, HelperStart, HelperListen, ClientConnected, ClientDisconnected
<1>3. ASSUME NEW h \in Helpers, HelperSetUp(h) \/ HelperQuit(h) \/ HelperCrash(h) \/ Uploader(h)
      PROVE  FaultTypes'
  <2>1. setup' = setup
    BY <1>3 DEF HelperSetUp, HelperUp, HelperQuit, HelperQuits, HelperCrash, HelperCrashes,
                HelperEnds, Uploader
  <2>2. CASE HelperSetUp(h) \/ StartUploader(h) \/ ScanTimer(h) \/ WatchAgain(h)
    BY <2>1, <2>2, OneFaultMore DEF HelperSetUp, HelperUp, StartUploader, ScanTimer, WatchAgain
  <2>3. CASE HelperQuit(h) \/ HelperCrash(h)
    BY <2>1, <2>3, OneFaultMore DEF HelperQuit, HelperQuits, HelperCrash, HelperCrashes
  <2>4. CASE \E v \in Versions : ListDumps(h, v)
    BY <2>1, <2>4, OneFaultMore DEF ListDumps
  <2>5. CASE \E d \in Dumps : MoveDump(h, d) \/ OpenDump(h, d)
    BY <2>1, <2>5, OneFaultMore DEF MoveDump, OpenDump
  <2>6. CASE \E s \in up[h].sending : NotNow(h, s) \/ Finished(h, s)
    BY <2>1, <2>6, OneFaultMore DEF NotNow, Finished
  <2> QED BY <1>3, <2>2, <2>3, <2>4, <2>5, <2>6 DEF Uploader, UploaderStep
<1>4. CASE UNCHANGED <<setup, faults>>
  BY <1>4, OneFaultMore
<1> QED BY <1>1, <1>2, <1>3, <1>4 DEF Next, vars, instVars, CrashWithDump

LEMMA FaultTypesInit == Init => FaultTypes
<1> SUFFICES ASSUME Init PROVE FaultTypes
  OBVIOUS
<1>1. PICK n \in Nat : n = setup.faults
  BY SetupFaults DEF Init, InitInstances
<1> QED BY <1>1 DEF Init, InitInstances, FaultTypes

LEMMA TypesTogether ==
  ASSUME InstancesInv, FaultTypes, DumpsInv, PowerInv
  PROVE  TypeOK
<1>1. faults \in 0..setup.faults
  <2>1. PICK n \in Nat : n = setup.faults
    BY SetupFaults DEF FaultTypes
  <2> QED BY <2>1 DEF FaultTypes
<1>2. /\ setup \in Setups
      /\ app \in [Apps -> {"off", "connecting", "loading", "running", "leaving"}]
      /\ told \subseteq Apps
  BY DEF InstancesInv, AppTypes, AppPlaces, FaultTypes
<1>3. client \in [Apps -> [link : Helpers \cup {Nobody}, accepted : BOOLEAN, hello : BOOLEAN,
                           lost : BOOLEAN, retry : BOOLEAN, deaf : BOOLEAN]]
  BY DEF InstancesInv, ClientTypes, ClientStates
<1>4. helper \in [Helpers -> [at : {"off", "started", "connecting", "unique", "up"},
                              version : Versions, by : Apps \cup {Nobody},
                              asked : BOOLEAN, timer : BOOLEAN]]
  BY DEF InstancesInv, HelperTypes, HelperStates, HelperPlaces
<1>5. /\ sock \in [Names -> Apps \cup Helpers \cup {Nobody, Stale}]
      /\ behind \subseteq Apps \cup Helpers /\ raced \subseteq Names
  BY DEF InstancesInv, SocketTypes, HistoryTypes
<1>6. /\ dump \in [Dumps -> [at : Places, dir : Versions, of : Versions]]
      /\ up \in [Helpers -> [doing : {"nothing", "busy", "waits"}, watching : BOOLEAN,
                             timer : BOOLEAN, dirs : SUBSET Versions, dir : Versions,
                             todo : SUBSET Dumps, n : Nat, moved : SUBSET Dumps,
                             sending : SUBSET (Dumps \X Versions)]]
      /\ answered \subseteq Dumps /\ retried \subseteq Dumps /\ missed \subseteq Dumps
  BY DEF DumpsInv, DumpTypes, DumpStates, UploaderStates
<1>7. /\ cookie \in Cookies \cup {0} /\ held \subseteq Cookies /\ troubles \in 0..MaxTroubles
      /\ {asked, replied, lostTrack} \subseteq BOOLEAN
  BY DEF PowerInv, PowerTypes
<1> QED BY <1>1, <1>2, <1>3, <1>4, <1>5, <1>6, <1>7 DEF TypeOK

LEMMA AtMostOne ==
  ASSUME NEW S, \A x, y \in S : x = y
  PROVE  Cardinality(S) <= 1
<1>1. CASE S = {}
  BY <1>1, FS_EmptySet
<1>2. CASE S # {}
  <2>1. PICK x \in S : TRUE
    BY <1>2
  <2>2. S = {x}
    BY <2>1
  <2>3. Cardinality({x}) = 1
    BY FS_Singleton
  <2> QED BY <2>2, <2>3
<1> QED BY <1>1, <1>2

(* UniqueApplication.h: unless two processes looked for another before      *)
(* either listened, there is one instance of the program and one helper,    *)
(* whatever crashes, takes files away, or leaves them behind.               *)
THEOREM OneOfEachRuns == Spec => []OneOfEach
<1>1. ASSUME InstancesInv, FaultTypes, DumpsInv, PowerInv
      PROVE  OneOfEach
  <2>1. TypeOK
    BY <1>1, TypesTogether
  <2>2. ASSUME "app" \notin raced
        PROVE  Cardinality({x \in Apps : app[x] \in {"loading", "running"}}) <= 1
    <3>1. \A x, y \in {z \in Apps : app[z] \in {"loading", "running"}} : x = y
      BY <1>1, <2>2 DEF InstancesInv, AppOwner, RunningApp
    <3> QED BY <3>1, AtMostOne
  <2>3. ASSUME "helper unique" \notin raced
        PROVE  Cardinality({h \in Helpers : helper[h].at \in {"unique", "up"}}) <= 1
    <3>1. \A g, h \in {k \in Helpers : helper[k].at \in {"unique", "up"}} : g = h
      BY <1>1, <2>3 DEF InstancesInv, HelperOwner, RunningHelper
    <3> QED BY <3>1, AtMostOne
  <2> QED BY <2>1, <2>2, <2>3 DEF OneOfEach
<1> QED BY <1>1, InstancesAlways, DumpsAlways, PowerInvInit, PowerInvNext,
           FaultTypesInit, FaultTypesNext, PTL DEF Spec
=============================================================================
