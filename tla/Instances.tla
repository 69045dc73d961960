------------------------------ MODULE Instances ------------------------------
(***************************************************************************)
(* The processes of the program on one computer: instances that users      *)
(* start (main.cpp), of which one should run (shared/UniqueApplication.h), *)
(* and the helpers that they launch and talk to (utils/HelperLauncher.cpp, *)
(* tools/helper/HelperMain.cpp, HelperSocket.cpp), over local sockets      *)
(* (LocalJsonServer.cpp, LocalJsonClient.cpp) as Unix has them: a file     *)
(* names the process that bound it last, and a connection is made or       *)
(* refused at once, before the other process has noticed anything.  What   *)
(* is left out: listen() succeeds once the file is out of the way, a       *)
(* helper can be launched, and the waits of killHelper(), during which the *)
(* instance does nothing else.                                             *)
(***************************************************************************)
EXTENDS Naturals, FiniteSets

CONSTANTS
  Apps,      \* instances that may be started, and started again
  Helpers,   \* bound: processes of the helper at a time
  Versions,  \* of the program
  VersionOf, \* the version of an instance
  Setups     \* what a behaviour is about: useHelper, the instances (apps)
             \* and crash dumps there may be, whether two processes may look
             \* for another before either listens (races), how many crashes
             \* of a helper, unreadable dumps and uploads that fail for the
             \* moment there are (faults), and whether the screen saver is
             \* used (power)

Nobody == "nobody"   \* no file of that name, or no connection
Stale  == "stale"    \* the file of a process that is gone

ASSUME InstancesAssumption ==
  /\ IsFiniteSet(Apps) /\ IsFiniteSet(Helpers) /\ Apps \cap Helpers = {}
  /\ {Nobody, Stale} \cap (Apps \cup Helpers) = {}
  /\ Versions # {} /\ VersionOf \in [Apps -> Versions]
  /\ \A s \in Setups : s.faults \in Nat

Names  == {"app", "helper unique", "helper"}

VARIABLES
  setup,
  app,     \* where an instance is in main()
  client,  \* its HelperLauncher: the helper it is connected to (link), the
           \* hello to read, a disconnection to handle (lost), the timer of
           \* launch() (retry), signals disconnected by stop() (deaf), and
           \* whether the helper knows of the connection (accepted)
  helper,  \* where a helper is in main(), its version, a "quit" it has to
           \* read (asked), m_quitTimer (timer), and, until it looks for
           \* another, the instance that launched it (by)
  sock,    \* the process that a file of a socket leads to
  told,    \* instances with an "appStart" to read
  faults,
  behind,  \* history: processes that found nobody, and then somebody listened
  raced    \* history: names for which one of those listened as well

instVars == <<setup, app, client, helper, sock, told, faults, behind, raced>>

NewClient == [link |-> Nobody, accepted |-> FALSE, hello |-> FALSE,
              lost |-> FALSE, retry |-> FALSE, deaf |-> FALSE]
AnyVersion == CHOOSE v \in Versions : TRUE   \* of a helper that was never started
NewHelper(v) == [at |-> "off", version |-> v, by |-> Nobody, asked |-> FALSE, timer |-> FALSE]

Listening(name) == sock[name] \in Apps \cup Helpers
Claims(p, name) ==   \* LocalJsonServer::listen(): takes the file away from anyone
  /\ sock' = [sock EXCEPT ![name] = p]
  /\ raced' = IF p \in behind THEN raced \cup {name} ELSE raced
  /\ behind' = (behind \ {p}) \cup
               {q \in Apps \ {p} : name = "app" /\ app[q] = "connecting"} \cup
               {h \in Helpers \ {p} : name = "helper unique" /\ helper[h].at = "connecting"}

(* The file of a server that is closed goes, whoever owns it; the others   *)
(* that lead to the process stay behind.                                   *)
Closed(p, closed) ==
  [n \in Names |-> IF n \in closed THEN Nobody ELSE IF sock[n] = p THEN Stale ELSE sock[n]]

----------------------------------------------------------------------------
(* Instances.                                                               *)
Alive(x) == app[x] \notin {"off", "leaving"}

(* Plausible slip: stop() leaves socketError() connected.                    *)
ConnectOrLaunch(x, c) ==
  \/ /\ ~setup.useHelper \/ c.link # Nobody
     /\ client' = [client EXCEPT ![x] = c]
     /\ UNCHANGED helper
  \/ /\ setup.useHelper /\ c.link = Nobody /\ Listening("helper")
     /\ client' = [client EXCEPT ![x] = [c EXCEPT !.link = sock["helper"]]]
     /\ UNCHANGED helper
  \/ /\ setup.useHelper /\ c.link = Nobody /\ ~Listening("helper")
     /\ client' = [client EXCEPT ![x] = [c EXCEPT !.retry = TRUE]]
     /\ \E h \in Helpers :
          /\ helper[h].at = "off"
          /\ helper' = [helper EXCEPT ![h] = [NewHelper(VersionOf[x]) EXCEPT !.at = "started",
                                                                            !.by = x]]

(* connectToHelper(), with what it leads to when there is nobody:           *)
(* socketError() and launch().  c is the launcher of x so far.              *)
ConnectToHelper(x, c) ==
  \/ /\ \/ ~setup.useHelper
        \/ c.link # Nobody
        \/ ~Listening("helper") /\ c.deaf
     /\ client' = [client EXCEPT ![x] = c]
     /\ UNCHANGED helper
  \/ /\ setup.useHelper /\ c.link = Nobody /\ Listening("helper")
     /\ client' = [client EXCEPT ![x] = [c EXCEPT !.link = sock["helper"]]]
     /\ UNCHANGED helper
  \/ /\ setup.useHelper /\ c.link = Nobody /\ ~Listening("helper") /\ ~c.deaf
     /\ client' = [client EXCEPT ![x] = [c EXCEPT !.retry = TRUE]]
     /\ \E h \in Helpers :
          /\ helper[h].at = "off"
          /\ helper' = [helper EXCEPT ![h] = [NewHelper(VersionOf[x]) EXCEPT !.at = "started",
                                                                            !.by = x]]

TimesOut == {TRUE, FALSE}   \* whether the connection is not made in a second

(* Plausible slip: a timeout counts as an error like any other.              *)
EnsureUniqueImpatient(x) ==
  /\ app[x] = "off" /\ client[x].link = Nobody /\ x \in setup.apps
  /\ setup.races \/ \A y \in Apps : app[y] # "connecting"
  /\ \E late \in TimesOut :
       /\ told' = IF Listening("app") /\ ~late THEN told \cup {sock["app"]} ELSE told
       /\ app' = IF Listening("app") /\ ~late THEN app ELSE [app EXCEPT ![x] = "connecting"]
  /\ client' = [client EXCEPT ![x] = NewClient]
  /\ UNCHANGED <<setup, helper, sock, faults, behind, raced>>

(* ensureUnique(): one that somebody has before leaves, and another waits   *)
(* to listen.                                                               *)
EnsureUnique(x) ==
  /\ app[x] = "off" /\ client[x].link = Nobody /\ x \in setup.apps
  /\ setup.races \/ \A y \in Apps : app[y] # "connecting"
  /\ \/ /\ Listening("app")
        /\ \E late \in TimesOut : told' = IF late THEN told ELSE told \cup {sock["app"]}
        /\ UNCHANGED app
     \/ /\ ~Listening("app")
        /\ app' = [app EXCEPT ![x] = "connecting"]
        /\ UNCHANGED told
  /\ client' = [client EXCEPT ![x] = NewClient]
  /\ UNCHANGED <<setup, helper, sock, faults, behind, raced>>

Listen(x) ==
  /\ app[x] = "connecting"
  /\ Claims(x, "app")
  /\ app' = [app EXCEPT ![x] = "loading"]
  /\ UNCHANGED <<setup, client, helper, told, faults>>

Initialize(x) ==
  /\ app[x] = "loading"
  /\ app' = [app EXCEPT ![x] = "running"]
  /\ ConnectToHelper(x, client[x])
  /\ UNCHANGED <<setup, sock, told, faults, behind, raced>>

ApplyUpdate(x) ==   \* CheckForUpdates() found one; uniqueApp is not deleted
  /\ app[x] = "loading"
  /\ app' = [app EXCEPT ![x] = "off"]
  /\ sock' = Closed(x, {})
  /\ told' = told \ {x}
  /\ UNCHANGED <<setup, client, helper, faults, behind, raced>>

OtherAppFocus(x) ==
  /\ app[x] = "running" /\ x \in told
  /\ told' = told \ {x}
  /\ UNCHANGED <<setup, app, client, helper, sock, faults, behind, raced>>

Quit(x) ==   \* app.exec() returns and uniqueApp is deleted
  /\ app[x] = "running"
  /\ app' = [app EXCEPT ![x] = "leaving"]
  /\ sock' = Closed(x, {"app"})
  /\ told' = told \ {x}
  /\ UNCHANGED <<setup, client, helper, faults, behind, raced>>

Gone(x) ==   \* what is left of the launcher of a process that ended
  [client EXCEPT ![x] = [NewClient EXCEPT !.link = client[x].link, !.accepted = client[x].accepted]]

Exit(x) ==
  /\ app[x] = "leaving"
  /\ app' = [app EXCEPT ![x] = "off"]
  /\ client' = Gone(x)
  /\ UNCHANGED <<setup, helper, sock, told, faults, behind, raced>>

Crash(x) ==
  /\ Alive(x)
  /\ app' = [app EXCEPT ![x] = "off"]
  /\ client' = Gone(x)
  /\ sock' = Closed(x, {})
  /\ told' = told \ {x}
  /\ behind' = behind \ {x}
  /\ UNCHANGED <<setup, helper, faults, raced>>

----------------------------------------------------------------------------
(* The launcher of an instance that runs.                                   *)
Killed(h) == [helper EXCEPT ![h].asked = TRUE]

GotMessage(x) ==
  /\ app[x] = "running" /\ client[x].hello
  /\ LET h == client[x].link IN
       helper' = IF helper[h].version # VersionOf[x] THEN Killed(h) ELSE helper
  /\ client' = [client EXCEPT ![x].hello = FALSE]
  /\ UNCHANGED <<setup, app, sock, told, faults, behind, raced>>

(* Plausible slip: a helper that is gone is not connected to again.          *)
SocketDisconnectOnly(x) ==
  /\ app[x] = "running" /\ client[x].lost
  /\ client' = [client EXCEPT ![x].lost = FALSE]
  /\ UNCHANGED <<setup, app, helper, sock, told, faults, behind, raced>>

SocketDisconnect(x) ==
  /\ app[x] = "running" /\ client[x].lost
  /\ ConnectToHelper(x, [client[x] EXCEPT !.lost = FALSE])
  /\ UNCHANGED <<setup, app, sock, told, faults, behind, raced>>

Retry(x) ==   \* the timer of launch()
  /\ app[x] = "running" /\ client[x].retry
  /\ ConnectToHelper(x, [client[x] EXCEPT !.retry = FALSE])
  /\ UNCHANGED <<setup, app, sock, told, faults, behind, raced>>

Stop(x) ==   \* before an update, PowerOff() and Reboot()
  /\ app[x] = "running" /\ ~client[x].deaf
  /\ client' = [client EXCEPT ![x] = [@ EXCEPT !.deaf = TRUE, !.lost = FALSE, !.hello = FALSE]]
  /\ helper' = IF setup.useHelper /\ client[x].link # Nobody THEN Killed(client[x].link) ELSE helper
  /\ UNCHANGED <<setup, app, sock, told, faults, behind, raced>>

----------------------------------------------------------------------------
(* Helpers.                                                                 *)
HelperStart(h) ==   \* ensureUnique() of the helper
  /\ helper[h].at = "started"
  /\ setup.races \/ \A g \in Helpers : helper[g].at # "connecting"
  /\ helper' = [helper EXCEPT ![h] = IF Listening("helper unique") THEN NewHelper(AnyVersion)
                                     ELSE [@ EXCEPT !.at = "connecting", !.by = Nobody]]
  /\ UNCHANGED <<setup, app, client, sock, told, faults, behind, raced>>

HelperListen(h) ==
  /\ helper[h].at = "connecting"
  /\ Claims(h, "helper unique")
  /\ helper' = [helper EXCEPT ![h].at = "unique"]
  /\ UNCHANGED <<setup, app, client, told, faults>>

HelperUp(h) ==   \* the constructor of HelperSocket
  /\ helper[h].at = "unique"
  /\ sock' = [sock EXCEPT !["helper"] = h]
  /\ helper' = [helper EXCEPT ![h].at = "up"]
  /\ UNCHANGED <<setup, app, client, told, faults, behind, raced>>

ClientConnected(h, x) ==
  /\ helper[h].at = "up" /\ client[x].link = h /\ ~client[x].accepted
  /\ helper' = [helper EXCEPT ![h].timer = FALSE]
  /\ client' = [client EXCEPT ![x].accepted = TRUE, ![x].hello = Alive(x) /\ ~client[x].deaf]
  /\ UNCHANGED <<setup, app, sock, told, faults, behind, raced>>

ClientDisconnected(h, x) ==
  /\ helper[h].at = "up" /\ client[x].link = h /\ client[x].accepted /\ app[x] = "off"
  /\ helper' = [helper EXCEPT ![h].timer = TRUE]
  /\ client' = [client EXCEPT ![x] = NewClient]
  /\ UNCHANGED <<setup, app, sock, told, faults, behind, raced>>

(* A helper ends: its connections are lost.  Its HelperSocket is never      *)
(* deleted, so the file of that socket stays.                               *)
HelperEnds(h, closed) ==
  /\ helper' = [helper EXCEPT ![h] = NewHelper(AnyVersion)]
  /\ sock' = Closed(h, closed)
  /\ client' = [x \in Apps |-> IF client[x].link # h THEN client[x]
                  ELSE [client[x] EXCEPT !.link = Nobody, !.accepted = FALSE, !.hello = FALSE,
                                         !.lost = Alive(x) /\ ~client[x].deaf]]
  /\ UNCHANGED <<setup, app, told, raced>>

HelperQuits(h) ==
  /\ helper[h].at = "up" /\ (helper[h].asked \/ helper[h].timer)
  /\ HelperEnds(h, {"helper unique"})
  /\ UNCHANGED <<faults, behind>>

HelperCrashes(h) ==
  /\ helper[h].at # "off" /\ faults < setup.faults
  /\ HelperEnds(h, {})
  /\ behind' = behind \ {h}
  /\ faults' = faults + 1

----------------------------------------------------------------------------
InitInstances ==
  /\ setup \in Setups
  /\ app = [x \in Apps |-> "off"]
  /\ client = [x \in Apps |-> NewClient]
  /\ helper = [h \in Helpers |-> NewHelper(AnyVersion)]
  /\ sock = [n \in Names |-> Nobody]
  /\ told = {} /\ faults = 0 /\ behind = {} /\ raced = {}
=============================================================================
