------------------------------ MODULE Processes ------------------------------
(***************************************************************************)
(* The processes of the program together: instances, helpers with their    *)
(* uploader of crash dumps, and the power component.                       *)
(***************************************************************************)
EXTENDS CrashUploader, Power

vars == <<instVars, dumpVars, powerVars>>

PowerOff(x) ==   \* and Reboot(), which the system may refuse
  Stop(x)

CrashWithDump(x) ==   \* a program that is not a debug build leaves a dump
  /\ Crash(x)
  /\ \/ \E d \in Dumps : WriteDump(x, d)
     \/ UNCHANGED dumpVars

AppStep(x) ==
  \/ EnsureUnique(x) \/ Listen(x) \/ Initialize(x) \/ ApplyUpdate(x)
  \/ OtherAppFocus(x) \/ Quit(x) \/ Exit(x)
  \/ GotMessage(x) \/ SocketDisconnect(x) \/ Retry(x) \/ PowerOff(x)

(* A helper reads its sockets between the handlers of its uploader.         *)
SocketStep(h) ==
  \/ HelperStart(h) \/ HelperListen(h)
  \/ /\ up[h].doing = "waits"
     /\ \E x \in Apps : ClientConnected(h, x) \/ ClientDisconnected(h, x)

HelperSetUp(h) == up[h].doing = "waits" /\ HelperUp(h) /\ UNCHANGED dumpVars
HelperQuit(h)  == up[h].doing = "waits" /\ HelperQuits(h) /\ StopUploader(h)
HelperCrash(h) == HelperCrashes(h) /\ StopUploader(h)

Uploader(h) == UploaderStep(h) /\ UNCHANGED <<setup, app, client, helper, sock, told, behind, raced>>

PowerStep ==
  /\ setup.power
  /\ (\E enabled \in BOOLEAN : SetScreensaverEnabled(enabled)) \/ ServiceRestarts

Init == InitInstances /\ InitUploader /\ InitPower

Next ==
  \/ \E x \in Apps : ((AppStep(x) /\ UNCHANGED dumpVars) \/ CrashWithDump(x)) /\ UNCHANGED powerVars
  \/ \E h \in Helpers :
       \/ SocketStep(h) /\ UNCHANGED <<dumpVars, powerVars>>
       \/ (HelperSetUp(h) \/ HelperQuit(h) \/ HelperCrash(h) \/ Uploader(h)) /\ UNCHANGED powerVars
  \/ PowerStep /\ UNCHANGED <<instVars, dumpVars>>

(* The event loops, the timers of the launcher and of the uploader, and a   *)
(* server that has answered for good once the failures are used up.         *)
Handled(x) ==
  (GotMessage(x) \/ SocketDisconnect(x) \/ Retry(x)) /\ UNCHANGED <<dumpVars, powerVars>>

Fairness ==
  /\ \A x \in Apps : WF_vars(Handled(x))
  /\ \A h \in Helpers :
       /\ WF_vars(SocketStep(h) /\ UNCHANGED <<dumpVars, powerVars>>)
       /\ WF_vars(HelperSetUp(h) /\ UNCHANGED powerVars)
       /\ WF_vars(HelperQuit(h) /\ UNCHANGED powerVars)
       /\ WF_vars(Uploader(h) /\ UNCHANGED powerVars)

Spec == Init /\ [][Next]_vars /\ Fairness

----------------------------------------------------------------------------
(* Type correctness.                                                        *)
TypeOK ==
  /\ setup \in Setups
  /\ app \in [Apps -> {"off", "connecting", "loading", "running", "leaving"}]
  /\ client \in [Apps -> [link : Helpers \cup {Nobody}, accepted : BOOLEAN, hello : BOOLEAN,
                          lost : BOOLEAN, retry : BOOLEAN, deaf : BOOLEAN]]
  /\ helper \in [Helpers -> [at : {"off", "started", "connecting", "unique", "up"},
                             version : Versions, by : Apps \cup {Nobody},
                             asked : BOOLEAN, timer : BOOLEAN]]
  /\ sock \in [Names -> Apps \cup Helpers \cup {Nobody, Stale}]
  /\ told \subseteq Apps /\ faults \in 0..setup.faults
  /\ behind \subseteq Apps \cup Helpers /\ raced \subseteq Names
  /\ dump \in [Dumps -> [at : Places, dir : Versions, of : Versions]]
  /\ up \in [Helpers -> [doing : {"nothing", "busy", "waits"}, watching : BOOLEAN,
                         timer : BOOLEAN, dirs : SUBSET Versions, dir : Versions,
                         todo : SUBSET Dumps, n : Nat, moved : SUBSET Dumps,
                         sending : SUBSET (Dumps \X Versions)]]
  /\ answered \subseteq Dumps /\ retried \subseteq Dumps /\ missed \subseteq Dumps
  /\ cookie \in Cookies \cup {0} /\ held \subseteq Cookies /\ troubles \in 0..MaxTroubles
  /\ {asked, replied, lostTrack} \subseteq BOOLEAN

(* UniqueApplication: there is one instance of the program, and one helper, *)
(* unless two of them looked for another before either listened.  Crashes   *)
(* leave files behind, a timeout is taken for a running instance, and a     *)
(* server that is closed takes the file away from anyone.                   *)
OneOfEach ==
  /\ TypeOK
  /\ "app" \in raced \/ Cardinality({x \in Apps : app[x] \in {"loading", "running"}}) <= 1
  /\ "helper unique" \in raced \/ Cardinality({h \in Helpers : helper[h].at \in {"unique", "up"}}) <= 1

(* A dump for which the server had its say is not uploaded again, and no    *)
(* two helpers upload the same one at a time (uploadCrashDump moves it      *)
(* first, "so that we don't accidentially upload it twice").  It is         *)
(* uploaded again when there was no reply, whether or not it had arrived.   *)
Sends(h) == {s[1] : s \in up[h].sending}
NeverSentTwice ==
  /\ \A h \in Helpers : Sends(h) \cap answered = {}
  /\ \A g, h \in Helpers : g # h => Sends(g) \cap Sends(h) = {}

(* A dump is uploaded with the version that crashed, also by the helper of  *)
(* another version, unless an upload of it had to be repeated               *)
(* (moveFileBackToIncoming knows the directory of its own version only).    *)
ReportsItsVersion ==
  \A h \in Helpers : \A s \in up[h].sending : s[2] = dump[s[1]].of \/ s[1] \in retried

(* Crash dumps are not uploaded twice and are uploaded under their own      *)
(* version, however many helpers of which versions come and go over their   *)
(* directories, crash in a scan or leave requests behind; unless two        *)
(* helpers looked for another before either listened, and scan together.    *)
DumpsAreRight == ("helper unique" \in raced \/ NeverSentTwice) /\ ReportsItsVersion

(* The screen saver is inhibited when the last call that got an answer      *)
(* asked for it, and there is one inhibition at most, unless the service    *)
(* was restarted or an answer was lost.                                     *)
ScreensaverAsAsked ==
  ~lostTrack => /\ held = {cookie} \ {0}
                /\ replied => (asked <=> held # {})

(* stop(): once an instance has stopped its helper it launches none ("so    *)
(* it doesn't start up again"), neither because one went nor by the timer   *)
(* that was running.  That timer may still connect it to one that somebody  *)
(* else launched, and of the end of that one it is not told.                *)
StopsForGood ==
  [][\A x \in Apps : client[x].deaf /\ client'[x].deaf =>
       /\ ~client'[x].lost
       /\ \A h \in Helpers :
            helper[h].at = "off" /\ helper'[h].at # "off" => helper'[h].by # x]_vars

(* An instance that runs on alone gets a helper of its version and keeps    *)
(* it, whatever helper it found and however that one ended.                 *)
Alone(x) ==
  /\ setup.useHelper
  /\ app[x] = "running" /\ ~client[x].deaf
  /\ \A y \in Apps \ {x} : app[y] = "off"
  /\ "helper unique" \notin raced

Served(x) ==
  /\ client[x].link # Nobody /\ client[x].accepted
  /\ helper[client[x].link].version = VersionOf[x]

HelperServes == \A x \in Apps : <>[]Alone(x) => <>[]Served(x)

(* With a helper that runs on, every dump is uploaded or dropped in the     *)
(* end, but for those written while nobody watched their directory.         *)
DumpsGo ==
  \A h \in Helpers :
    <>[](helper[h].at = "up" /\ "helper unique" \notin raced)
      => <>[](In("incoming") \cup In("processing") \subseteq missed)
=============================================================================
