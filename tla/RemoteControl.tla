---------------------------- MODULE RemoteControl ----------------------------
(***************************************************************************)
(* The Plex Companion server: RemoteComponent with its RemoteSubscriber    *)
(* and RemotePollSubscriber objects.                                       *)
(*                                                                         *)
(* Controllers (phones, tablets) send HTTP requests.  A request either     *)
(* manages a subscription (subscribe, unsubscribe, poll) or is a command   *)
(* that is numbered, remembered in m_responseMap and handed to the web     *)
(* client, which answers it later.  The web client reports the player's    *)
(* timeline, which is posted to "push" subscribers and completes the       *)
(* request a "poll" subscriber left open.                                  *)
(*                                                                         *)
(* Every handler runs on the main thread to its end, so each is one        *)
(* action.  The signal commandReceived reaches the web client later, in    *)
(* order, over the web channel: toWeb.  Requests are numbered in the order *)
(* in which they arrive, and a controller's commandIDs increase, so the    *)
(* number of the request serves as the commandID the controller sent.      *)
(***************************************************************************)
EXTENDS Integers, Sequences, FiniteSets

CONSTANTS
  Clients,             \* controllers, by their X-Plex-Client-Identifier
  MaxRequests,         \* bound: HTTP requests in a behaviour
  MaxUpdates,          \* bound: messages in transit to the web client
  SubscriberTimeout,   \* silence, in checks, after which a subscriber goes
  CommandIdLimit       \* how many commandIDs a subscriber remembers

ASSUME RemoteAssumption ==
  /\ MaxRequests \in Nat
  /\ MaxUpdates \in Nat
  /\ SubscriberTimeout \in Nat
  /\ CommandIdLimit \in Nat \ {0}

NoResponse == 0
NoTimeline == -1

Requests == 1 .. MaxRequests
CommandIds == 1 .. MaxRequests     \* each command is a request

VARIABLES
  m_commandId,       \* the number of the last command
  m_responseMap,     \* command number |-> the request that awaits its answer
  m_subscriberMap,   \* the keys of the map: the subscribed clients
  subscriber,        \* client |-> its subscriber object, if subscribed
  requests,          \* number of requests received so far
  http,              \* request |-> what became of it
  toWeb,             \* commandReceived signals on their way to the web client
  web                \* the web client: is it subscribed, which commands it owes

vars == <<m_commandId, m_responseMap, m_subscriberMap, subscriber,
          requests, http, toWeb, web>>

webVars == <<toWeb, web>>

Messages == [type : {"subscribe", "unsubscribe"}, id : {0}]
              \cup [type : {"command"}, id : CommandIds]

Subscribers ==
  [poll     : BOOLEAN,                          \* a RemotePollSubscriber?
   age      : Nat,                              \* checks since m_subscribeTime
   response : Requests \cup {NoResponse},       \* m_response of a poll subscriber
   ids      : [0 .. MaxRequests -> Nat],        \* m_commandIdMap, 0 if absent
   queue    : Seq(0 .. MaxRequests),            \* m_commandIdQueue
   timeline : Nat \cup {NoTimeline}]            \* commandID in m_timeline

NoIds == [p \in 0 .. MaxRequests |-> 0]

NewSubscriber(poll, r) ==
  [poll |-> poll, age |-> 0, response |-> IF poll THEN r ELSE NoResponse,
   ids |-> NoIds, queue |-> <<>>, timeline |-> NoTimeline]

Init ==
  /\ m_commandId = 0
  /\ m_responseMap = [id \in CommandIds |-> NoResponse]
  /\ m_subscriberMap = {}
  /\ subscriber = [c \in Clients |-> NewSubscriber(FALSE, NoResponse)]
  /\ requests = 0
  /\ http = [r \in Requests |-> "none"]
  /\ toWeb = <<>>
  /\ web = [subscribed |-> FALSE, owes |-> {}]

-----------------------------------------------------------------------------
(* RemoteSubscriber.                                                       *)

\* Plausible slip: the old place in the queue is kept.
KeepOldPlace(s, playerId, controllerId) ==
  LET queue == Append(s.queue, playerId)
      full  == Len(queue) > CommandIdLimit
  IN  [s EXCEPT !.ids   = [p \in DOMAIN s.ids |->
                             CASE full /\ p = Head(queue) -> 0
                               [] p = playerId            -> controllerId
                               [] OTHER                   -> s.ids[p]],
                !.queue = IF full THEN Tail(queue) ELSE queue]

\* q without p, which it holds at most once (CommandIdsConsistent).
Without(q, p) ==
  IF \E i \in DOMAIN q : q[i] = p
  THEN LET i == CHOOSE i \in DOMAIN q : q[i] = p
       IN  SubSeq(q, 1, i - 1) \o SubSeq(q, i + 1, Len(q))
  ELSE q

\* Remember which controller command a player command stands for, and
\* forget the oldest one when there are too many.
SetCommandId(s, playerId, controllerId) ==
  LET queue  == Append(Without(s.queue, playerId), playerId)
      full   == Len(queue) > CommandIdLimit
  IN  [s EXCEPT !.ids   = [p \in DOMAIN s.ids |->
                             CASE full /\ p = Head(queue) -> 0
                               [] p = playerId            -> controllerId
                               [] OTHER                   -> s.ids[p]],
                !.queue = IF full THEN Tail(queue) ELSE queue]

MostRecentCommandId(s) ==
  IF s.queue = <<>> THEN 0 ELSE s.ids[s.queue[Len(s.queue)]]

\* The controller command that a player command stands for.
CommandId(s, playerId) ==
  IF \E i \in DOMAIN s.queue : s.queue[i] = playerId
  THEN s.ids[playerId] ELSE MostRecentCommandId(s)

QueueTimeline(s, playerId) == [s EXCEPT !.timeline = CommandId(s, playerId)]

\* Plausible slip: the check-in moves the time instead of resetting it.
ReSubscribeLater(s) == [s EXCEPT !.age = @ - 1]

ReSubscribe(s) == [s EXCEPT !.age = 0]

\* A sent update completes the open request of a poll subscriber.
SendUpdate(s) == IF s.poll THEN [s EXCEPT !.response = NoResponse] ELSE s

-----------------------------------------------------------------------------
(* Steps shared by the handlers.                                           *)

\* A request arrives: r is its number.
Arrives(r) ==
  /\ requests < MaxRequests
  /\ r = requests + 1
  /\ requests' = r

\* The requests in R are completed (response->end()).
Answer(R) == http' = [q \in Requests |-> IF q \in R THEN "answered" ELSE http[q]]

\* Emit commandReceived.
Tell(type, id) ==
  /\ Len(toWeb) < MaxUpdates
  /\ toWeb' = Append(toWeb, [type |-> type, id |-> id])

\* Plausible slip: "unsubscribe" is sent on every removal.
TellOnEveryRemoval(gone) ==
  IF gone # {} THEN Tell("unsubscribe", 0) ELSE UNCHANGED toWeb

\* subscriberRemove for each client in gone: the last one to go is announced.
TellIfLast(gone) ==
  IF gone # {} /\ m_subscriberMap \subseteq gone
  THEN Tell("unsubscribe", 0) ELSE UNCHANGED toWeb

\* The requests that an update to s completes.
CompletedBy(s) == IF s.poll /\ s.response # NoResponse THEN {s.response} ELSE {}

-----------------------------------------------------------------------------
(* Requests of the controllers.                                            *)

\* A malformed request (missing headers or arguments, CORS preflight): the
\* answer is immediate and nothing else changes.
BadRequest ==
  \E r \in Requests :
    /\ Arrives(r)
    /\ Answer({r})
    /\ UNCHANGED <<m_commandId, m_responseMap, m_subscriberMap, subscriber, webVars>>

\* Plausible slip: "subscribe" is sent for every new subscriber but the first.
TellUnlessFirst ==
  IF m_subscriberMap # {} THEN Tell("subscribe", 0) ELSE UNCHANGED toWeb

\* The first controller makes the player subscribe to the web client.
TellIfFirst ==
  IF m_subscriberMap = {} THEN Tell("subscribe", 0) ELSE UNCHANGED toWeb

\* The subscriber object of c after handleSubscription: refreshed or created.
Registered(c, poll, r) ==
  LET s == IF c \in m_subscriberMap THEN ReSubscribe(subscriber[c])
                                    ELSE NewSubscriber(poll, r)
  IN  SetCommandId(s, m_commandId, r)

Register(c) ==
  /\ m_subscriberMap' = m_subscriberMap \cup {c}
  /\ IF c \in m_subscriberMap THEN UNCHANGED toWeb ELSE TellIfFirst

\* GET /player/timeline/subscribe: an update is sent at once.
Subscribe(c) ==
  \E r \in Requests :
    LET s == Registered(c, FALSE, r)
    IN  /\ Arrives(r)
        /\ Register(c)
        /\ subscriber' = [subscriber EXCEPT ![c] = SendUpdate(s)]
        /\ Answer({r} \cup CompletedBy(s))
        /\ UNCHANGED <<m_commandId, m_responseMap, web>>

\* GET /player/timeline/poll.  A client registered as a push subscriber
\* fails the dynamic_cast, and its request is left alone.
Poll(c, wait) ==
  \E r \in Requests :
    LET s    == IF c \in m_subscriberMap THEN subscriber[c]
                                         ELSE Registered(c, TRUE, r)
        held == [ReSubscribe(s) EXCEPT !.response = r]
    IN  /\ Arrives(r)
        /\ IF c \in m_subscriberMap THEN UNCHANGED <<m_subscriberMap, toWeb>>
                                    ELSE Register(c)
        /\ subscriber' = [subscriber EXCEPT ![c] =
             CASE ~s.poll -> s
               [] s.poll /\ wait -> held
               [] s.poll /\ ~wait -> SendUpdate(held)]
        /\ http' = [http EXCEPT ![r] = IF s.poll /\ ~wait THEN "answered" ELSE "poll"]
        /\ UNCHANGED <<m_commandId, m_responseMap, web>>

\* subscriberRemove for all of gone, on subscriber objects subs: they are
\* deleted, with the pointer to a poll request they may still hold.
Remove(gone, subs) ==
  /\ m_subscriberMap' = m_subscriberMap \ gone
  /\ subscriber' = [c \in Clients |->
       IF c \in gone THEN NewSubscriber(FALSE, NoResponse) ELSE subs[c]]
  /\ TellIfLast(gone)

\* GET /player/timeline/unsubscribe, also by clients that never subscribed.
Unsubscribe(c) ==
  \E r \in Requests :
    /\ Arrives(r)
    /\ Answer({r})
    /\ Remove({c} \cap m_subscriberMap, subscriber)
    /\ UNCHANGED <<m_commandId, m_responseMap, web>>

\* Plausible slip: the number is taken but the response is not remembered.
ForgetResponse(id, r) == UNCHANGED m_responseMap

Remember(id, r) == m_responseMap' = [m_responseMap EXCEPT ![id] = r]

\* Any other path: a command for the web client.  A client that is not
\* subscribed is refused; ending its response runs responseDone, which
\* takes the entry out of m_responseMap again.
Command(c) ==
  \E r \in Requests :
    /\ Arrives(r)
    /\ m_commandId' = m_commandId + 1
    /\ IF c \in m_subscriberMap
       THEN /\ subscriber' = [subscriber EXCEPT ![c] = SetCommandId(@, m_commandId', r)]
            /\ http' = [http EXCEPT ![r] = "command"]
            /\ Remember(m_commandId', r)
            /\ Tell("command", m_commandId')
       ELSE /\ Answer({r})
            /\ UNCHANGED <<m_responseMap, subscriber, toWeb>>
    /\ UNCHANGED <<m_subscriberMap, web>>

\* Plausible slip: m_response of a poll subscriber is a plain pointer.
DisconnectKeepsPointer(r) ==
  /\ http[r] \in {"command", "poll"}
  /\ http' = [http EXCEPT ![r] = "lost"]
  /\ UNCHANGED <<m_commandId, m_responseMap, m_subscriberMap, subscriber, requests, webVars>>

\* The connection of an open request is lost.  Its QHttpResponse is deleted
\* without having emitted done(), so m_responseMap keeps it; m_response of a
\* poll subscriber is a QPointer and becomes null.
Disconnect(r) ==
  /\ http[r] \in {"command", "poll"}
  /\ http' = [http EXCEPT ![r] = "lost"]
  /\ subscriber' = [c \in Clients |->
       IF subscriber[c].response = r
       THEN [subscriber[c] EXCEPT !.response = NoResponse] ELSE subscriber[c]]
  /\ UNCHANGED <<m_commandId, m_responseMap, m_subscriberMap, requests, webVars>>

-----------------------------------------------------------------------------
(* The web client.                                                         *)

\* The web client reads the next commandReceived signal.
WebReceives ==
  /\ toWeb # <<>>
  /\ toWeb' = Tail(toWeb)
  /\ LET msg == Head(toWeb)
     IN  web' = CASE msg.type = "subscribe"   -> [web EXCEPT !.subscribed = TRUE]
                  [] msg.type = "unsubscribe" -> [web EXCEPT !.subscribed = FALSE]
                  [] msg.type = "command"     -> [web EXCEPT !.owes = @ \cup {msg.id}]
  /\ UNCHANGED <<m_commandId, m_responseMap, m_subscriberMap, subscriber, requests, http>>

\* Plausible slip: the entry survives the answer.
KeepEntry(id) == UNCHANGED m_responseMap

\* responseDone: the response that emitted done() leaves the map.
ResponseDone(id) == m_responseMap' = [m_responseMap EXCEPT ![id] = NoResponse]

\* commandResponse(): the answer of the web client to command id.  It may
\* answer a command twice; the second answer finds no entry.  For a lost
\* connection the code would use the deleted response; what that does is
\* not defined, and the model goes on as if nothing had happened.
CommandResponse(id) ==
  /\ id \in web.owes
  /\ web' \in {web, [web EXCEPT !.owes = @ \ {id}]}
  /\ IF m_responseMap[id] # NoResponse /\ http[m_responseMap[id]] # "lost"
     THEN /\ Answer({m_responseMap[id]})
          /\ ResponseDone(id)
     ELSE UNCHANGED <<http, m_responseMap>>
  /\ UNCHANGED <<m_commandId, m_subscriberMap, subscriber, requests, toWeb>>

\* timelineUpdate(): the player's state after command id (0: after none)
\* goes to every subscriber; a timeline that cannot be parsed is replaced by
\* the one before.
TimelineUpdate(id, parsed) ==
  LET queued == [c \in Clients |->
        IF parsed THEN QueueTimeline(subscriber[c], id) ELSE subscriber[c]]
  IN  /\ web.subscribed
      /\ subscriber' = [c \in Clients |->
           IF c \in m_subscriberMap THEN SendUpdate(queued[c]) ELSE subscriber[c]]
      /\ Answer(UNION {CompletedBy(subscriber[c]) : c \in m_subscriberMap})
      /\ UNCHANGED <<m_commandId, m_responseMap, m_subscriberMap, requests, webVars>>

-----------------------------------------------------------------------------
(* The timer of checkSubscribers.                                          *)

Overdue == {c \in m_subscriberMap : subscriber[c].age + 1 > SubscriberTimeout}

\* One period passes and checkSubscribers runs.
CheckSubscribers ==
  /\ m_subscriberMap # {}
  /\ Remove(Overdue, [c \in Clients |->
       IF c \in m_subscriberMap THEN [subscriber[c] EXCEPT !.age = @ + 1] ELSE subscriber[c]])
  /\ UNCHANGED <<m_commandId, m_responseMap, requests, http, web>>

-----------------------------------------------------------------------------

Next ==
  \/ BadRequest
  \/ \E c \in Clients : Subscribe(c)
  \/ \E c \in Clients, wait \in BOOLEAN : Poll(c, wait)
  \/ \E c \in Clients : Unsubscribe(c)
  \/ \E c \in Clients : Command(c)
  \/ \E r \in Requests : Disconnect(r)
  \/ WebReceives
  \/ \E id \in CommandIds : CommandResponse(id)
  \/ \E id \in 0 .. m_commandId, parsed \in BOOLEAN : TimelineUpdate(id, parsed)
  \/ CheckSubscribers

Spec == Init /\ [][Next]_vars

(***************************************************************************)
(* The web client is a program of its own that reads its messages and      *)
(* answers every command; nothing obliges the controllers.                 *)
(***************************************************************************)
Fairness ==
  /\ WF_vars(WebReceives)
  /\ \A id \in CommandIds : WF_vars(CommandResponse(id))

FairSpec == Spec /\ Fairness

-----------------------------------------------------------------------------
(* Properties.                                                             *)

\* The shape of the state.
TypeOK ==
  /\ m_commandId \in 0 .. MaxRequests
  /\ m_responseMap \in [CommandIds -> Requests \cup {NoResponse}]
  /\ m_subscriberMap \subseteq Clients
  /\ subscriber \in [Clients -> Subscribers]
  /\ requests \in 0 .. MaxRequests
  /\ http \in [Requests -> {"none", "command", "poll", "answered", "lost"}]
  /\ toWeb \in Seq(Messages)
  /\ web \in [subscribed : BOOLEAN, owes : SUBSET CommandIds]

\* What the web client will believe once it has read all its messages.
Told ==
  \/ \E i \in DOMAIN toWeb :
       /\ toWeb[i].type = "subscribe"
       /\ \A j \in DOMAIN toWeb : j > i => toWeb[j].type # "unsubscribe"
  \/ web.subscribed /\ \A i \in DOMAIN toWeb : toWeb[i].type # "unsubscribe"

\* The web client is (about to be) subscribed exactly while there is a
\* controller: subscribeToWeb is called for the first subscriber and the
\* last one, however subscriptions, removals and time-outs interleave.
WebFollowsControllers == Told <=> m_subscriberMap # {}

\* handleSubscription and subscriberRemove implement WebFeed.
Feed == INSTANCE WebFeed WITH controllers <- m_subscriberMap, told <- Told
ImplementsWebFeed == Feed!Spec

\* The queue of a subscriber lists the keys of its map, the oldest first,
\* each once, within the limit; later player commands never stand for
\* earlier controller commands (setCommandId).
CommandIdsConsistent ==
  \A c \in m_subscriberMap :
    LET s == subscriber[c]
    IN  /\ Len(s.queue) <= CommandIdLimit
        /\ {p \in DOMAIN s.ids : s.ids[p] # 0} = {s.queue[i] : i \in DOMAIN s.queue}
        /\ \A i, j \in DOMAIN s.queue : i < j =>
             s.queue[i] < s.queue[j] /\ s.ids[s.queue[i]] < s.ids[s.queue[j]]

\* A command that is waiting for its answer can get it: its response is in
\* m_responseMap under a number that the web client owes or will read.
CommandsAnswerable ==
  \A r \in Requests : http[r] = "command" =>
    \E id \in CommandIds :
      /\ m_responseMap[id] = r
      /\ id \in web.owes \/ \E i \in DOMAIN toWeb : toWeb[i] = [type |-> "command", id |-> id]

\* A response that has been ended is not in m_responseMap, so that a second
\* answer to the same command cannot reach it (responseDone).
AnsweredForgotten ==
  \A id \in CommandIds :
    m_responseMap[id] # NoResponse => http[m_responseMap[id]] \in {"command", "lost"}

\* The response a poll subscriber holds is open and held by nobody else, so
\* that an update never writes to a response that is finished or deleted.
HeldPollIsOpen ==
  \A c \in m_subscriberMap :
    LET r == subscriber[c].response
    IN  r # NoResponse =>
          /\ http[r] = "poll"
          /\ \A d \in m_subscriberMap \ {c} : subscriber[d].response # r

\* No subscriber outlives its time-out by a check (checkSubscribers).
SilentAreRemoved ==
  \A c \in m_subscriberMap : subscriber[c].age <= SubscriberTimeout

\* However requests, repeated subscriptions, polls and checks interleave, a
\* subscriber that is listed is one that still asks, and its player commands
\* are attributed to the right controller commands (handleSubscription,
\* setCommandId and checkSubscribers work on the same entry).
SubscribersAreSound == CommandIdsConsistent /\ SilentAreRemoved

\* Every command is answered, or its controller hangs up.
CommandsComplete ==
  \A r \in Requests : http[r] = "command" ~> http[r] \in {"answered", "lost"}
=============================================================================
