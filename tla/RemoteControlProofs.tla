------------------------- MODULE RemoteControlProofs -------------------------
(***************************************************************************)
(* Proofs about RemoteControl, for any number of controllers, requests and *)
(* messages in transit, any time-out and any limit on remembered ids.      *)
(***************************************************************************)
EXTENDS RemoteControl, SequenceTheorems, TLAPS

-----------------------------------------------------------------------------
(* Lemmas about the operations of RemoteSubscriber.                        *)

PlayerIds == 0 .. MaxRequests

\* Taking an element out of a queue leaves a queue of the same elements.
LEMMA WithoutType ==
  ASSUME NEW S, NEW q \in Seq(S), NEW p
  PROVE  Without(q, p) \in Seq(S)
<1>1. ASSUME NEW i \in DOMAIN q
      PROVE  SubSeq(q, 1, i - 1) \o SubSeq(q, i + 1, Len(q)) \in Seq(S)
  <2>1. /\ Len(q) \in Nat
        /\ i \in 1 .. Len(q)
        /\ \A j \in 1 .. Len(q) : q[j] \in S
    BY LenProperties, ElementOfSeq
  <2>2. SubSeq(q, 1, i - 1) \in Seq(S)
    <3>1. \A j \in 1 .. i - 1 : q[j] \in S
      BY <2>1
    <3> QED BY <2>1, <3>1, SubSeqProperties
  <2>3. SubSeq(q, i + 1, Len(q)) \in Seq(S)
    <3>1. \A j \in i + 1 .. Len(q) : q[j] \in S
      BY <2>1
    <3> QED BY <2>1, <3>1, SubSeqProperties
  <2> QED BY <2>2, <2>3, ConcatProperties
<1>2. CASE \E i \in DOMAIN q : q[i] = p
  <2> DEFINE k == CHOOSE i \in DOMAIN q : q[i] = p
  <2>1. k \in DOMAIN q
    BY <1>2
  <2> QED BY <1>1, <1>2, <2>1 DEF Without
<1>3. CASE ~\E i \in DOMAIN q : q[i] = p
  BY <1>3 DEF Without
<1> QED BY <1>2, <1>3

\* setCommandId leaves a well-formed subscriber.
LEMMA SetCommandIdType ==
  ASSUME NEW s \in Subscribers, NEW p \in PlayerIds, NEW n \in Nat
  PROVE  SetCommandId(s, p, n) \in Subscribers
<1> DEFINE queue == Append(Without(s.queue, p), p)
           full  == Len(queue) > CommandIdLimit
           ids   == [x \in DOMAIN s.ids |-> CASE full /\ x = Head(queue) -> 0
                                              [] x = p                   -> n
                                              [] OTHER                   -> s.ids[x]]
           rest  == IF full THEN Tail(queue) ELSE queue
<1>1. s.queue \in Seq(PlayerIds) /\ s.ids \in [PlayerIds -> Nat]
  BY DEF Subscribers, PlayerIds
<1>2. queue \in Seq(PlayerIds) /\ queue # <<>>
  BY <1>1, WithoutType, AppendProperties
<1>3. rest \in Seq(PlayerIds)
  BY <1>2, HeadTailProperties
<1>4. ids \in [PlayerIds -> Nat]
  BY <1>1
<1>5. SetCommandId(s, p, n) = [s EXCEPT !.ids = ids, !.queue = rest]
  BY DEF SetCommandId
<1> HIDE DEF ids, rest
<1> QED BY <1>3, <1>4, <1>5 DEF Subscribers, PlayerIds

\* The controller command that a player command stands for is a number.
LEMMA CommandIdType ==
  ASSUME NEW s \in Subscribers, NEW p \in PlayerIds
  PROVE  CommandId(s, p) \in Nat
<1>1. s.queue \in Seq(PlayerIds) /\ s.ids \in [PlayerIds -> Nat]
  BY DEF Subscribers, PlayerIds
<1>2. MostRecentCommandId(s) \in Nat
  <2>1. CASE s.queue = <<>>
    BY <2>1 DEF MostRecentCommandId
  <2>2. CASE s.queue # <<>>
    <3>1. Len(s.queue) \in 1 .. Len(s.queue)
      BY <1>1, <2>2, EmptySeq
    <3>2. s.queue[Len(s.queue)] \in PlayerIds
      BY <1>1, <3>1, ElementOfSeq
    <3> QED BY <1>1, <2>2, <3>2 DEF MostRecentCommandId
  <2> QED BY <2>1, <2>2
<1> QED BY <1>1, <1>2 DEF CommandId

LEMMA QueueTimelineType ==
  ASSUME NEW s \in Subscribers, NEW p \in PlayerIds
  PROVE  QueueTimeline(s, p) \in Subscribers
BY CommandIdType DEF QueueTimeline, Subscribers

LEMMA SendUpdateType ==
  ASSUME NEW s \in Subscribers
  PROVE  SendUpdate(s) \in Subscribers
BY DEF SendUpdate, Subscribers

LEMMA ReSubscribeType ==
  ASSUME NEW s \in Subscribers
  PROVE  ReSubscribe(s) \in Subscribers
BY DEF ReSubscribe, Subscribers

LEMMA NewSubscriberType ==
  ASSUME NEW poll \in BOOLEAN, NEW r \in Requests \cup {NoResponse}
  PROVE  NewSubscriber(poll, r) \in Subscribers
<1>1. NoIds \in [PlayerIds -> Nat] /\ <<>> \in Seq(PlayerIds)
  BY DEF NoIds, PlayerIds
<1> QED BY <1>1 DEF NewSubscriber, Subscribers, PlayerIds, NoResponse, NoTimeline

-----------------------------------------------------------------------------
(* Type correctness.                                                       *)

\* TypeOK is inductive once the commands are known not to outnumber the
\* requests they came in with.
TypeInv == TypeOK /\ m_commandId <= requests

LEMMA RegisteredType ==
  ASSUME TypeInv, NEW c \in Clients, NEW poll \in BOOLEAN, NEW r \in Requests
  PROVE  Registered(c, poll, r) \in Subscribers
<1> DEFINE s == IF c \in m_subscriberMap THEN ReSubscribe(subscriber[c])
                                         ELSE NewSubscriber(poll, r)
<1>1. s \in Subscribers
  BY ReSubscribeType, NewSubscriberType DEF TypeInv, TypeOK
<1>2. m_commandId \in PlayerIds /\ r \in Nat
  BY DEF TypeInv, TypeOK, PlayerIds, Requests
<1> HIDE DEF s
<1>3. SetCommandId(s, m_commandId, r) \in Subscribers
  BY <1>1, <1>2, SetCommandIdType
<1> QED BY <1>3 DEF Registered, s

\* What is sent to the web client is a message.
LEMMA TellType ==
  ASSUME toWeb \in Seq(Messages), NEW type, NEW id,
         [type |-> type, id |-> id] \in Messages, Tell(type, id)
  PROVE  toWeb' \in Seq(Messages)
BY AppendProperties DEF Tell

LEMMA TellIfType ==
  ASSUME toWeb \in Seq(Messages), NEW gone, TellIfFirst \/ TellIfLast(gone)
  PROVE  toWeb' \in Seq(Messages)
<1>1. \A type \in {"subscribe", "unsubscribe"} : [type |-> type, id |-> 0] \in Messages
  BY DEF Messages
<1> QED BY <1>1, TellType DEF TellIfFirst, TellIfLast

LEMMA RegisterType ==
  ASSUME TypeInv, NEW c \in Clients, Register(c)
  PROVE  m_subscriberMap' \subseteq Clients /\ toWeb' \in Seq(Messages)
BY TellIfType DEF Register, TypeInv, TypeOK

LEMMA RemoveType ==
  ASSUME TypeInv, NEW gone, NEW subs \in [Clients -> Subscribers], Remove(gone, subs)
  PROVE  /\ m_subscriberMap' \subseteq Clients
         /\ subscriber' \in [Clients -> Subscribers]
         /\ toWeb' \in Seq(Messages)
<1>1. NewSubscriber(FALSE, NoResponse) \in Subscribers
  BY NewSubscriberType
<1> QED BY <1>1, TellIfType DEF Remove, TypeInv, TypeOK

HttpStates == {"none", "command", "poll", "answered", "lost"}

LEMMA AnswerType ==
  ASSUME TypeInv, NEW R, Answer(R)
  PROVE  http' \in [Requests -> HttpStates]
BY DEF Answer, TypeInv, TypeOK, HttpStates

LEMMA ArrivesType ==
  ASSUME TypeInv, NEW r \in Requests, Arrives(r)
  PROVE  /\ requests' \in 0 .. MaxRequests
         /\ requests' = requests + 1
         /\ m_commandId \in 0 .. MaxRequests - 1
BY RemoteAssumption DEF Arrives, TypeInv, TypeOK, Requests

LEMMA InitType == Init => TypeInv
<1> SUFFICES ASSUME Init PROVE TypeInv
  OBVIOUS
<1>1. NewSubscriber(FALSE, NoResponse) \in Subscribers
  BY NewSubscriberType
<1>2. <<>> \in Seq(Messages)
  OBVIOUS
<1>3. m_commandId \in 0 .. MaxRequests /\ requests \in 0 .. MaxRequests /\ m_commandId <= requests
  BY RemoteAssumption DEF Init
<1> QED BY <1>1, <1>2, <1>3 DEF Init, TypeInv, TypeOK

LEMMA BadRequestType == TypeInv /\ BadRequest => TypeInv'
<1> SUFFICES ASSUME TypeInv, NEW r \in Requests, Arrives(r), Answer({r}),
                    UNCHANGED <<m_commandId, m_responseMap, m_subscriberMap, subscriber, webVars>>
             PROVE  TypeInv'
  BY DEF BadRequest
<1> QED BY ArrivesType, AnswerType DEF TypeInv, TypeOK, webVars, HttpStates

LEMMA SubscribeType ==
  ASSUME TypeInv, NEW c \in Clients, Subscribe(c)
  PROVE  TypeInv'
<1>1. PICK r \in Requests :
        /\ Arrives(r)
        /\ Register(c)
        /\ subscriber' = [subscriber EXCEPT ![c] = SendUpdate(Registered(c, FALSE, r))]
        /\ Answer({r} \cup CompletedBy(Registered(c, FALSE, r)))
        /\ UNCHANGED <<m_commandId, m_responseMap, web>>
  BY DEF Subscribe
<1>2. SendUpdate(Registered(c, FALSE, r)) \in Subscribers
  BY RegisteredType, SendUpdateType
<1>3. subscriber' \in [Clients -> Subscribers]
  BY <1>1, <1>2 DEF TypeInv, TypeOK
<1>4. http' \in [Requests -> HttpStates]
  BY <1>1, AnswerType
<1>5. m_subscriberMap' \subseteq Clients /\ toWeb' \in Seq(Messages)
  BY <1>1, RegisterType
<1>6. requests' \in 0 .. MaxRequests /\ m_commandId <= requests'
  BY <1>1, ArrivesType DEF TypeInv, TypeOK
<1> QED BY <1>1, <1>3, <1>4, <1>5, <1>6 DEF TypeInv, TypeOK, HttpStates

LEMMA PollType ==
  ASSUME TypeInv, NEW c \in Clients, NEW wait \in BOOLEAN, Poll(c, wait)
  PROVE  TypeInv'
<1> DEFINE s(r)    == IF c \in m_subscriberMap THEN subscriber[c] ELSE Registered(c, TRUE, r)
           held(r) == [ReSubscribe(s(r)) EXCEPT !.response = r]
           new(r)  == CASE ~s(r).poll -> s(r)
                        [] s(r).poll /\ wait -> held(r)
                        [] s(r).poll /\ ~wait -> SendUpdate(held(r))
           open(r) == IF s(r).poll /\ ~wait THEN "answered" ELSE "poll"
<1>1. PICK r \in Requests :
        /\ Arrives(r)
        /\ IF c \in m_subscriberMap THEN UNCHANGED <<m_subscriberMap, toWeb>> ELSE Register(c)
        /\ subscriber' = [subscriber EXCEPT ![c] = new(r)]
        /\ http' = [http EXCEPT ![r] = open(r)]
        /\ UNCHANGED <<m_commandId, m_responseMap, web>>
  BY DEF Poll
<1>2. s(r) \in Subscribers
  BY RegisteredType DEF TypeInv, TypeOK
<1> HIDE DEF s
<1>3. held(r) \in Subscribers
  BY <1>2, ReSubscribeType DEF Subscribers
<1> HIDE DEF held
<1>4. new(r) \in Subscribers
  <2>1. s(r).poll \in BOOLEAN
    BY <1>2 DEF Subscribers
  <2> QED BY <1>2, <1>3, <2>1, SendUpdateType
<1>5. open(r) \in HttpStates
  BY DEF HttpStates
<1> HIDE DEF new, open
<1>6. subscriber' \in [Clients -> Subscribers] /\ http' \in [Requests -> HttpStates]
  BY <1>1, <1>4, <1>5 DEF TypeInv, TypeOK, HttpStates
<1>7. m_subscriberMap' \subseteq Clients /\ toWeb' \in Seq(Messages)
  BY <1>1, RegisterType DEF TypeInv, TypeOK
<1> QED BY <1>1, <1>6, <1>7, ArrivesType DEF TypeInv, TypeOK, HttpStates

LEMMA UnsubscribeType ==
  ASSUME TypeInv, NEW c \in Clients, Unsubscribe(c)
  PROVE  TypeInv'
<1>1. subscriber \in [Clients -> Subscribers]
  BY DEF TypeInv, TypeOK
<1> QED BY <1>1, ArrivesType, AnswerType, RemoveType
        DEF Unsubscribe, TypeInv, TypeOK, HttpStates

LEMMA CommandType ==
  ASSUME TypeInv, NEW c \in Clients, Command(c)
  PROVE  TypeInv'
<1>1. PICK r \in Requests :
        /\ Arrives(r)
        /\ m_commandId' = m_commandId + 1
        /\ IF c \in m_subscriberMap
           THEN /\ subscriber' = [subscriber EXCEPT ![c] = SetCommandId(@, m_commandId', r)]
                /\ http' = [http EXCEPT ![r] = "command"]
                /\ Remember(m_commandId', r)
                /\ Tell("command", m_commandId')
           ELSE /\ Answer({r})
                /\ UNCHANGED <<m_responseMap, subscriber, toWeb>>
        /\ UNCHANGED <<m_subscriberMap, web>>
  BY DEF Command
<1>2. m_commandId' \in CommandIds /\ m_commandId' <= requests'
  BY <1>1, ArrivesType, RemoteAssumption DEF CommandIds, TypeInv, TypeOK
<1>3. CASE c \in m_subscriberMap
  <2>1. SetCommandId(subscriber[c], m_commandId', r) \in Subscribers
    BY <1>2, SetCommandIdType DEF CommandIds, PlayerIds, Requests, TypeInv, TypeOK
  <2>2. subscriber' \in [Clients -> Subscribers]
    BY <1>1, <1>3, <2>1 DEF TypeInv, TypeOK
  <2>3. toWeb' \in Seq(Messages)
    <3>1. [type |-> "command", id |-> m_commandId'] \in Messages
      BY <1>2 DEF Messages
    <3> QED BY <1>1, <1>3, <3>1, TellType DEF TypeInv, TypeOK
  <2>4. http' \in [Requests -> HttpStates]
    BY <1>1, <1>3 DEF TypeInv, TypeOK, HttpStates
  <2>5. m_responseMap' \in [CommandIds -> Requests \cup {NoResponse}]
    BY <1>1, <1>2, <1>3 DEF Remember, TypeInv, TypeOK
  <2>6. m_commandId' \in 0 .. MaxRequests /\ requests' \in 0 .. MaxRequests
    BY <1>1, <1>2, ArrivesType DEF CommandIds
  <2> QED BY <1>1, <1>2, <1>3, <2>2, <2>3, <2>4, <2>5, <2>6 DEF TypeInv, TypeOK, HttpStates
<1>4. CASE c \notin m_subscriberMap
  BY <1>1, <1>2, <1>4, ArrivesType, AnswerType DEF TypeInv, TypeOK, HttpStates, CommandIds
<1> QED BY <1>3, <1>4

LEMMA DisconnectType ==
  ASSUME TypeInv, NEW r \in Requests, Disconnect(r)
  PROVE  TypeInv'
<1>1. \A s \in Subscribers : [s EXCEPT !.response = NoResponse] \in Subscribers
  BY DEF Subscribers
<1>2. subscriber' \in [Clients -> Subscribers]
  BY <1>1 DEF Disconnect, TypeInv, TypeOK
<1> QED BY <1>2 DEF Disconnect, TypeInv, TypeOK, webVars

LEMMA WebReceivesType == TypeInv /\ WebReceives => TypeInv'
<1> SUFFICES ASSUME TypeInv, WebReceives PROVE TypeInv'
  OBVIOUS
<1>1. Head(toWeb) \in Messages /\ toWeb' \in Seq(Messages)
  BY HeadTailProperties DEF WebReceives, TypeInv, TypeOK
<1>2. web' \in [subscribed : BOOLEAN, owes : SUBSET CommandIds]
  BY <1>1 DEF WebReceives, Messages, TypeInv, TypeOK
<1> QED BY <1>1, <1>2 DEF WebReceives, TypeInv, TypeOK

LEMMA CommandResponseType ==
  ASSUME TypeInv, NEW id \in CommandIds, CommandResponse(id)
  PROVE  TypeInv'
<1>1. web' \in [subscribed : BOOLEAN, owes : SUBSET CommandIds]
  BY DEF CommandResponse, TypeInv, TypeOK
<1>2. http' \in [Requests -> HttpStates]
  BY AnswerType DEF CommandResponse, TypeInv, TypeOK, HttpStates
<1>3. m_responseMap' \in [CommandIds -> Requests \cup {NoResponse}]
  BY DEF CommandResponse, ResponseDone, TypeInv, TypeOK
<1> QED BY <1>1, <1>2, <1>3 DEF CommandResponse, TypeInv, TypeOK, HttpStates

LEMMA TimelineUpdateType ==
  ASSUME TypeInv, NEW id \in 0 .. m_commandId, NEW parsed \in BOOLEAN,
         TimelineUpdate(id, parsed)
  PROVE  TypeInv'
<1> DEFINE queued == [c \in Clients |->
             IF parsed THEN QueueTimeline(subscriber[c], id) ELSE subscriber[c]]
<1>1. queued \in [Clients -> Subscribers]
  <2>1. subscriber \in [Clients -> Subscribers] /\ id \in PlayerIds
    BY RemoteAssumption DEF TypeInv, TypeOK, PlayerIds
  <2> QED BY <2>1, QueueTimelineType
<1>2. subscriber' = [c \in Clients |->
        IF c \in m_subscriberMap THEN SendUpdate(queued[c]) ELSE subscriber[c]]
  BY DEF TimelineUpdate
<1> HIDE DEF queued
<1>3. subscriber' \in [Clients -> Subscribers]
  BY <1>1, <1>2, SendUpdateType DEF TypeInv, TypeOK
<1>4. http' \in [Requests -> HttpStates]
  BY AnswerType DEF TimelineUpdate
<1> QED BY <1>3, <1>4 DEF TimelineUpdate, TypeInv, TypeOK, webVars, HttpStates

LEMMA CheckSubscribersType == TypeInv /\ CheckSubscribers => TypeInv'
<1> SUFFICES ASSUME TypeInv, CheckSubscribers PROVE TypeInv'
  OBVIOUS
<1> DEFINE subs == [c \in Clients |->
             IF c \in m_subscriberMap THEN [subscriber[c] EXCEPT !.age = @ + 1] ELSE subscriber[c]]
<1>1. \A s \in Subscribers : [s EXCEPT !.age = @ + 1] \in Subscribers
  BY DEF Subscribers
<1>2. subs \in [Clients -> Subscribers]
  BY <1>1 DEF TypeInv, TypeOK
<1>3. Remove(Overdue, subs)
  BY DEF CheckSubscribers
<1> QED BY <1>2, <1>3, RemoveType DEF CheckSubscribers, TypeInv, TypeOK

LEMMA NextType == TypeInv /\ [Next]_vars => TypeInv'
<1> SUFFICES ASSUME TypeInv, [Next]_vars PROVE TypeInv'
  OBVIOUS
<1>1. CASE BadRequest
  BY <1>1, BadRequestType
<1>2. CASE \E c \in Clients : Subscribe(c)
  BY <1>2, SubscribeType
<1>3. CASE \E c \in Clients, wait \in BOOLEAN : Poll(c, wait)
  BY <1>3, PollType
<1>4. CASE \E c \in Clients : Unsubscribe(c)
  BY <1>4, UnsubscribeType
<1>5. CASE \E c \in Clients : Command(c)
  BY <1>5, CommandType
<1>6. CASE \E r \in Requests : Disconnect(r)
  BY <1>6, DisconnectType
<1>7. CASE WebReceives
  BY <1>7, WebReceivesType
<1>8. CASE \E id \in CommandIds : CommandResponse(id)
  BY <1>8, CommandResponseType
<1>9. CASE \E id \in 0 .. m_commandId, parsed \in BOOLEAN : TimelineUpdate(id, parsed)
  BY <1>9, TimelineUpdateType
<1>10. CASE CheckSubscribers
  BY <1>10, CheckSubscribersType
<1>11. CASE UNCHANGED vars
  BY <1>11 DEF vars, webVars, TypeInv, TypeOK
<1> QED BY <1>1, <1>2, <1>3, <1>4, <1>5, <1>6, <1>7, <1>8, <1>9, <1>10, <1>11 DEF Next

\* Every reachable state is well formed, however many controllers there are.
THEOREM TypeCorrect == Spec => []TypeOK
<1>1. TypeInv => TypeOK
  BY DEF TypeInv
<1> QED BY <1>1, InitType, NextType, PTL DEF Spec

-----------------------------------------------------------------------------
(* The web client is told what WebFeed promises.                           *)

\* What a signal does to the belief of the web client.
LEMMA TellTold ==
  ASSUME toWeb \in Seq(Messages), NEW type, NEW id,
         [type |-> type, id |-> id] \in Messages, Tell(type, id), UNCHANGED web
  PROVE  /\ type = "subscribe" => Told'
         /\ type = "unsubscribe" => ~Told'
         /\ type = "command" => (Told' <=> Told)
<1> DEFINE n == Len(toWeb)
           msg == [type |-> type, id |-> id]
<1>1. /\ n \in Nat
      /\ DOMAIN toWeb = 1 .. n
  BY LenProperties
<1>2. /\ toWeb' \in Seq(Messages)
      /\ Len(toWeb') = n + 1
      /\ \A i \in 1 .. n : toWeb'[i] = toWeb[i]
      /\ toWeb'[n + 1] = msg
  BY AppendProperties DEF Tell
<1>3. DOMAIN toWeb' = 1 .. n + 1
  BY <1>2, LenProperties
<1>4. msg.type = type
  OBVIOUS
<1> HIDE DEF n, msg
<1>5. ASSUME type = "subscribe" PROVE Told'
  <2>1. /\ n + 1 \in DOMAIN toWeb'
        /\ toWeb'[n + 1].type = "subscribe"
        /\ \A j \in DOMAIN toWeb' : ~(j > n + 1)
    BY <1>1, <1>2, <1>3, <1>4, <1>5
  <2> QED BY <2>1 DEF Told
<1>6. ASSUME type = "unsubscribe" PROVE ~Told'
  <2>1. n + 1 \in DOMAIN toWeb' /\ toWeb'[n + 1].type = "unsubscribe"
    BY <1>1, <1>2, <1>3, <1>4, <1>6
  <2>2. \A i \in DOMAIN toWeb' : n + 1 > i \/ i = n + 1
    BY <1>1, <1>3
  <2> QED BY <2>1, <2>2 DEF Told
<1>7. ASSUME type = "command" PROVE Told' <=> Told
  <2>1. \A i \in DOMAIN toWeb' : (i \in DOMAIN toWeb /\ toWeb'[i] = toWeb[i])
                                 \/ toWeb'[i].type = "command"
    BY <1>1, <1>2, <1>3, <1>4, <1>7
  <2>2. \A i \in DOMAIN toWeb : i \in DOMAIN toWeb' /\ toWeb'[i] = toWeb[i]
    BY <1>1, <1>2, <1>3
  <2>3. ASSUME Told PROVE Told'
    BY <2>1, <2>2, <2>3 DEF Told
  <2>4. ASSUME Told' PROVE Told
    BY <2>1, <2>2, <2>4 DEF Told
  <2> QED BY <2>3, <2>4
<1> QED BY <1>5, <1>6, <1>7

\* Reading a message changes what the web client knows, not what it will
\* have been told.
LEMMA ReceivesTold ==
  ASSUME TypeInv, WebReceives
  PROVE  Told' <=> Told
<1> DEFINE n == Len(toWeb)
<1>1. toWeb \in Seq(Messages) /\ toWeb # <<>> /\ toWeb' = Tail(toWeb)
  BY DEF WebReceives, TypeInv, TypeOK
<1>2. /\ n \in Nat \ {0}
      /\ DOMAIN toWeb = 1 .. n
      /\ Head(toWeb) = toWeb[1]
  BY <1>1, LenProperties, EmptySeq
<1>3. /\ toWeb' \in Seq(Messages)
      /\ Len(toWeb') = n - 1
      /\ \A i \in 1 .. n - 1 : toWeb'[i] = toWeb[i + 1]
  BY <1>1, HeadTailProperties
<1>4. DOMAIN toWeb' = 1 .. n - 1
  BY <1>3, LenProperties
<1>5. \/ toWeb[1].type = "subscribe" /\ web'.subscribed
      \/ toWeb[1].type = "unsubscribe" /\ ~web'.subscribed
      \/ toWeb[1].type = "command" /\ web'.subscribed = web.subscribed
  <2>1. toWeb[1].type \in {"subscribe", "unsubscribe", "command"}
    BY <1>1, <1>2, ElementOfSeq DEF Messages
  <2> QED BY <1>2, <2>1 DEF WebReceives, TypeInv, TypeOK
<1> HIDE DEF n
<1>6. /\ \A i \in DOMAIN toWeb' : i + 1 \in DOMAIN toWeb /\ toWeb'[i] = toWeb[i + 1]
      /\ \A i \in DOMAIN toWeb : i = 1 \/ (i - 1 \in DOMAIN toWeb' /\ toWeb'[i - 1] = toWeb[i])
      /\ 1 \in DOMAIN toWeb
      /\ \A i \in DOMAIN toWeb : i \in Int /\ ~(1 > i)
      /\ \A i \in DOMAIN toWeb' : i \in Int /\ i + 1 > 1
  BY <1>2, <1>3, <1>4
<1>7. ASSUME Told' PROVE Told
  <2>1. CASE \E i \in DOMAIN toWeb' :
               /\ toWeb'[i].type = "subscribe"
               /\ \A j \in DOMAIN toWeb' : j > i => toWeb'[j].type # "unsubscribe"
    <3>1. PICK i \in DOMAIN toWeb' :
                 /\ toWeb'[i].type = "subscribe"
                 /\ \A j \in DOMAIN toWeb' : j > i => toWeb'[j].type # "unsubscribe"
      BY <2>1
    <3>2. \A j \in DOMAIN toWeb : j > i + 1 => toWeb[j].type # "unsubscribe"
      <4> SUFFICES ASSUME NEW j \in DOMAIN toWeb, j > i + 1
                   PROVE  toWeb[j].type # "unsubscribe"
        OBVIOUS
      <4>1. j - 1 \in DOMAIN toWeb' /\ toWeb'[j - 1] = toWeb[j] /\ j - 1 > i
        BY <1>6
      <4> QED BY <3>1, <4>1
    <3> QED BY <1>6, <3>1, <3>2 DEF Told
  <2>2. CASE /\ web'.subscribed
             /\ \A i \in DOMAIN toWeb' : toWeb'[i].type # "unsubscribe"
    <3>1. \A i \in DOMAIN toWeb : i # 1 => toWeb[i].type # "unsubscribe"
      BY <1>6, <2>2
    <3> QED BY <1>5, <1>6, <2>2, <3>1 DEF Told
  <2> QED BY <1>7, <2>1, <2>2 DEF Told
<1>8. ASSUME Told PROVE Told'
  <2>1. CASE \E i \in DOMAIN toWeb :
               /\ toWeb[i].type = "subscribe"
               /\ \A j \in DOMAIN toWeb : j > i => toWeb[j].type # "unsubscribe"
    <3>1. PICK i \in DOMAIN toWeb :
                 /\ toWeb[i].type = "subscribe"
                 /\ \A j \in DOMAIN toWeb : j > i => toWeb[j].type # "unsubscribe"
      BY <2>1
    <3>2. CASE i = 1
      <4>1. \A j \in DOMAIN toWeb' : toWeb'[j].type # "unsubscribe"
        BY <1>6, <3>1, <3>2
      <4>2. web'.subscribed
        BY <1>5, <3>1, <3>2
      <4> QED BY <4>1, <4>2 DEF Told
    <3>3. CASE i # 1
      <4>1. i - 1 \in DOMAIN toWeb' /\ toWeb'[i - 1].type = "subscribe"
        BY <1>6, <3>1, <3>3
      <4>2. \A j \in DOMAIN toWeb' : j > i - 1 => toWeb'[j].type # "unsubscribe"
        <5> SUFFICES ASSUME NEW j \in DOMAIN toWeb', j > i - 1
                     PROVE  toWeb'[j].type # "unsubscribe"
          OBVIOUS
        <5>1. j + 1 \in DOMAIN toWeb /\ toWeb'[j] = toWeb[j + 1] /\ j + 1 > i
          BY <1>6
        <5> QED BY <3>1, <5>1
      <4> QED BY <4>1, <4>2 DEF Told
    <3> QED BY <3>2, <3>3
  <2>2. CASE /\ web.subscribed
             /\ \A i \in DOMAIN toWeb : toWeb[i].type # "unsubscribe"
    <3>1. web'.subscribed
      BY <1>5, <1>6, <2>2
    <3>2. \A j \in DOMAIN toWeb' : toWeb'[j].type # "unsubscribe"
      BY <1>6, <2>2
    <3> QED BY <3>1, <3>2 DEF Told
  <2> QED BY <1>8, <2>1, <2>2 DEF Told
<1> QED BY <1>7, <1>8

\* The first controller is announced, and no other.
LEMMA RegisterJoins ==
  ASSUME TypeInv, WebFollowsControllers, NEW c \in Clients, c \notin m_subscriberMap,
         Register(c), UNCHANGED web
  PROVE  Feed!Join(c)
<1>1. CASE m_subscriberMap = {}
  <2>1. [type |-> "subscribe", id |-> 0] \in Messages
    BY DEF Messages
  <2>2. toWeb \in Seq(Messages)
    BY DEF TypeInv, TypeOK
  <2>3. Tell("subscribe", 0)
    BY <1>1 DEF Register, TellIfFirst
  <2>4. Told'
    BY <2>1, <2>2, <2>3, TellTold
  <2> QED BY <2>4 DEF Feed!Join, Register
<1>2. CASE m_subscriberMap # {}
  <2>1. Told' <=> Told
    BY <1>2 DEF Register, TellIfFirst, Told
  <2>2. Told = TRUE
    BY <1>2 DEF WebFollowsControllers, Told
  <2> QED BY <2>1, <2>2 DEF Feed!Join, Register
<1> QED BY <1>1, <1>2

\* The last controller to go is announced, and no other.
LEMMA RemoveLeaves ==
  ASSUME TypeInv, WebFollowsControllers, NEW gone, gone \subseteq m_subscriberMap,
         NEW subs, Remove(gone, subs), UNCHANGED web
  PROVE  Feed!Leave(gone) \/ UNCHANGED <<m_subscriberMap, Told>>
<1>1. CASE gone = {}
  BY <1>1 DEF Remove, TellIfLast, Told
<1>2. CASE gone # {} /\ m_subscriberMap \subseteq gone
  <2>1. [type |-> "unsubscribe", id |-> 0] \in Messages
    BY DEF Messages
  <2>2. toWeb \in Seq(Messages)
    BY DEF TypeInv, TypeOK
  <2>3. Tell("unsubscribe", 0)
    BY <1>2 DEF Remove, TellIfLast
  <2>4. ~Told'
    BY <2>1, <2>2, <2>3, TellTold
  <2>5. m_subscriberMap' = {}
    BY <1>2 DEF Remove
  <2>6. Told' = (m_subscriberMap' # {})
    BY <2>4, <2>5 DEF Told
  <2> QED BY <1>2, <2>6 DEF Feed!Leave, Remove
<1>3. CASE gone # {} /\ ~(m_subscriberMap \subseteq gone)
  <2>1. Told' <=> Told
    BY <1>3 DEF Remove, TellIfLast, Told
  <2>2. m_subscriberMap # {} /\ m_subscriberMap' # {}
    BY <1>3 DEF Remove
  <2>3. Told' = (m_subscriberMap' # {})
    BY <2>1, <2>2 DEF WebFollowsControllers, Told
  <2> QED BY <1>3, <2>3 DEF Feed!Leave, Remove
<1> QED BY <1>1, <1>2, <1>3

\* A step that tells the web client nothing, or a command, is a stutter.
LEMMA QuietStutters ==
  ASSUME UNCHANGED <<m_subscriberMap, toWeb>>, web'.subscribed = web.subscribed
  PROVE  UNCHANGED <<m_subscriberMap, Told>>
BY DEF Told

LEMMA FeedStep == TypeInv /\ WebFollowsControllers /\ [Next]_vars => [Feed!Next]_Feed!vars
<1> SUFFICES ASSUME TypeInv, WebFollowsControllers, [Next]_vars
             PROVE  Feed!Next \/ UNCHANGED <<m_subscriberMap, Told>>
  BY DEF Feed!vars
<1>1. CASE BadRequest
  BY <1>1, QuietStutters DEF BadRequest, webVars
<1>2. ASSUME NEW c \in Clients, Subscribe(c)
      PROVE  Feed!Next \/ UNCHANGED <<m_subscriberMap, Told>>
  <2>1. Register(c) /\ UNCHANGED web
    BY <1>2 DEF Subscribe
  <2>2. CASE c \in m_subscriberMap
    BY <2>1, <2>2, QuietStutters DEF Register
  <2>3. CASE c \notin m_subscriberMap
    BY <2>1, <2>3, RegisterJoins DEF Feed!Next
  <2> QED BY <2>2, <2>3
<1>3. ASSUME NEW c \in Clients, NEW wait \in BOOLEAN, Poll(c, wait)
      PROVE  Feed!Next \/ UNCHANGED <<m_subscriberMap, Told>>
  <2>1. /\ IF c \in m_subscriberMap THEN UNCHANGED <<m_subscriberMap, toWeb>> ELSE Register(c)
        /\ UNCHANGED web
    BY <1>3 DEF Poll
  <2>2. CASE c \in m_subscriberMap
    BY <2>1, <2>2, QuietStutters
  <2>3. CASE c \notin m_subscriberMap
    BY <2>1, <2>3, RegisterJoins DEF Feed!Next
  <2> QED BY <2>2, <2>3
<1>4. ASSUME NEW c \in Clients, Unsubscribe(c)
      PROVE  Feed!Next \/ UNCHANGED <<m_subscriberMap, Told>>
  <2>1. {c} \cap m_subscriberMap \in SUBSET Clients
    OBVIOUS
  <2>2. Remove({c} \cap m_subscriberMap, subscriber) /\ UNCHANGED web
    BY <1>4 DEF Unsubscribe
  <2> QED BY <2>1, <2>2, RemoveLeaves DEF Feed!Next
<1>5. ASSUME NEW c \in Clients, Command(c)
      PROVE  UNCHANGED <<m_subscriberMap, Told>>
  <2>1. CASE c \in m_subscriberMap
    <3>1. m_commandId' \in CommandIds
      BY <1>5, RemoteAssumption, ArrivesType DEF Command, CommandIds, TypeInv, TypeOK
    <3>2. [type |-> "command", id |-> m_commandId'] \in Messages
      BY <3>1 DEF Messages
    <3>3. Tell("command", m_commandId') /\ UNCHANGED <<m_subscriberMap, web>>
      BY <1>5, <2>1 DEF Command
    <3>4. Told' <=> Told
      BY <3>2, <3>3, TellTold DEF TypeInv, TypeOK
    <3> QED BY <3>3, <3>4 DEF Told
  <2>2. CASE c \notin m_subscriberMap
    BY <1>5, <2>2, QuietStutters DEF Command
  <2> QED BY <2>1, <2>2
<1>6. ASSUME NEW r \in Requests, Disconnect(r)
      PROVE  UNCHANGED <<m_subscriberMap, Told>>
  BY <1>6, QuietStutters DEF Disconnect, webVars
<1>7. CASE WebReceives
  <2>1. Told' <=> Told
    BY <1>7, ReceivesTold
  <2> QED BY <1>7, <2>1 DEF WebReceives, Told
<1>8. ASSUME NEW id \in CommandIds, CommandResponse(id)
      PROVE  UNCHANGED <<m_subscriberMap, Told>>
  <2>1. web'.subscribed = web.subscribed
    BY <1>8 DEF CommandResponse, TypeInv, TypeOK
  <2> QED BY <1>8, <2>1, QuietStutters DEF CommandResponse
<1>9. ASSUME NEW id \in 0 .. m_commandId, NEW parsed \in BOOLEAN, TimelineUpdate(id, parsed)
      PROVE  UNCHANGED <<m_subscriberMap, Told>>
  BY <1>9, QuietStutters DEF TimelineUpdate, webVars
<1>10. CASE CheckSubscribers
  <2>1. PICK subs : Remove(Overdue, subs) /\ UNCHANGED web
    BY <1>10 DEF CheckSubscribers
  <2>2. Overdue \subseteq m_subscriberMap /\ Overdue \in SUBSET Clients
    BY DEF Overdue, TypeInv, TypeOK
  <2> QED BY <2>1, <2>2, RemoveLeaves DEF Feed!Next
<1>11. CASE UNCHANGED vars
  BY <1>11, QuietStutters DEF vars, webVars
<1> QED BY <1>1, <1>2, <1>3, <1>4, <1>5, <1>6, <1>7, <1>8, <1>9, <1>10, <1>11 DEF Next

\* What WebFeed promises keeps the web client up to date.
LEMMA FeedFollows == WebFollowsControllers /\ [Feed!Next]_Feed!vars => WebFollowsControllers'
<1>1. ASSUME NEW c \in Clients, Feed!Join(c) PROVE WebFollowsControllers'
  <2>1. m_subscriberMap' # {} /\ Told'
    BY <1>1 DEF Feed!Join
  <2> QED BY <2>1 DEF WebFollowsControllers
<1>2. ASSUME NEW gone \in SUBSET Clients, Feed!Leave(gone) PROVE WebFollowsControllers'
  BY <1>2 DEF Feed!Leave, WebFollowsControllers
<1>3. WebFollowsControllers /\ UNCHANGED <<m_subscriberMap, Told>> => WebFollowsControllers'
  BY DEF WebFollowsControllers
<1> QED BY <1>1, <1>2, <1>3 DEF Feed!Next, Feed!vars

LEMMA InitFollows == Init => Feed!Init /\ WebFollowsControllers
<1> SUFFICES ASSUME Init PROVE Told = FALSE
  BY DEF Init, Feed!Init, WebFollowsControllers
<1>1. DOMAIN toWeb = {}
  BY DEF Init
<1> QED BY <1>1 DEF Init, Told

\* The web client is told to report the player's state exactly while there
\* is a controller, for any number of controllers and however their
\* requests and time-outs interleave (handleSubscription, subscriberRemove).
THEOREM WebFollows == Spec => []WebFollowsControllers
<1>1. TypeInv /\ WebFollowsControllers /\ [Next]_vars => WebFollowsControllers'
  BY FeedStep, FeedFollows
<1> QED BY <1>1, InitType, NextType, InitFollows, PTL DEF Spec

\* The remote control implements WebFeed: each step of it lets one
\* controller join or some leave, with the announcement, or is a stutter.
THEOREM FeedImplemented == Spec => ImplementsWebFeed
<1>1. Spec => []TypeInv
  BY InitType, NextType, PTL DEF Spec
<1> QED BY <1>1, WebFollows, InitFollows, FeedStep, PTL DEF Spec, ImplementsWebFeed, Feed!Spec

-----------------------------------------------------------------------------
(* The commandIDs that a subscriber remembers.                             *)

\* The player commands that s remembers are at most top, each once, in the
\* order in which they came; they stand for requests until last, in that order.
Remembers(s, top, last) ==
  /\ Len(s.queue) <= CommandIdLimit
  /\ {p \in DOMAIN s.ids : s.ids[p] # 0} = {s.queue[i] : i \in DOMAIN s.queue}
  /\ \A i, j \in DOMAIN s.queue : i < j =>
       s.queue[i] < s.queue[j] /\ s.ids[s.queue[i]] < s.ids[s.queue[j]]
  /\ \A i \in DOMAIN s.queue : s.queue[i] <= top /\ s.ids[s.queue[i]] <= last

\* SubscribersAreSound is inductive with what bounds the remembered commands.
SubInv ==
  \A c \in m_subscriberMap : /\ Remembers(subscriber[c], m_commandId, requests)
                             /\ subscriber[c].age <= SubscriberTimeout

\* A command p that is no earlier than the remembered ones is their last, if any.
LEMMA WithoutLatest ==
  ASSUME NEW q \in Seq(PlayerIds), NEW p \in PlayerIds,
         \A i, j \in DOMAIN q : i < j => q[i] < q[j],
         \A i \in DOMAIN q : q[i] <= p
  PROVE  LET w == Without(q, p)
         IN  /\ w \in Seq(PlayerIds) /\ Len(w) <= Len(q)
             /\ \A i \in 1 .. Len(w) : w[i] = q[i] /\ i \in DOMAIN q /\ w[i] # p
             /\ \A i \in DOMAIN q : q[i] # p => i \in 1 .. Len(w)
<1>1. /\ Len(q) \in Nat /\ DOMAIN q = 1 .. Len(q)
      /\ \A i \in 1 .. Len(q) : q[i] \in PlayerIds
  BY LenProperties, ElementOfSeq
<1>2. p \in Nat /\ \A i \in DOMAIN q : q[i] \in Nat
  BY <1>1 DEF PlayerIds
<1>3. CASE \E i \in DOMAIN q : q[i] = p
  <2> DEFINE k == CHOOSE i \in DOMAIN q : q[i] = p
  <2>1. k \in DOMAIN q /\ q[k] = p
    BY <1>3
  <2>2. Without(q, p) = SubSeq(q, 1, k - 1) \o SubSeq(q, k + 1, Len(q))
    BY <1>3 DEF Without
  <2> HIDE DEF k
  <2>3. ASSUME NEW i \in k + 1 .. Len(q)
        PROVE  FALSE
    <3>1. i \in DOMAIN q /\ k < i /\ q[i] \in Nat /\ p \in Nat
      BY <1>1, <1>2, <2>1
    <3>2. p < q[i] /\ q[i] <= p
      BY <2>1, <3>1
    <3> QED BY <3>1, <3>2
  <2>4. k = Len(q)
    BY <1>1, <2>1, <2>3
  <2>5. SubSeq(q, k + 1, Len(q)) = <<>>
    BY <1>1, <2>4, SubSeqEmpty
  <2>6. /\ SubSeq(q, 1, k - 1) \in Seq(PlayerIds)
        /\ Len(SubSeq(q, 1, k - 1)) = k - 1
        /\ \A i \in 1 .. k - 1 : SubSeq(q, 1, k - 1)[i] = q[i]
    BY <1>1, <2>1, SubSeqProperties
  <2>7. Without(q, p) = SubSeq(q, 1, k - 1)
    BY <2>2, <2>5, <2>6, ConcatEmptySeq
  <2>8. \A i \in 1 .. k - 1 : q[i] # p
    BY <1>1, <1>2, <2>1
  <2> QED BY <1>1, <2>1, <2>4, <2>6, <2>7, <2>8
<1>4. CASE ~\E i \in DOMAIN q : q[i] = p
  BY <1>1, <1>4 DEF Without
<1> QED BY <1>3, <1>4

\* setCommandId keeps the map and the queue in step.
LEMMA SetCommandIdRemembers ==
  ASSUME NEW s \in Subscribers, NEW p \in PlayerIds, NEW top \in Nat, top <= p,
         NEW n \in Nat, NEW last \in Nat, last < n, Remembers(s, top, last)
  PROVE  Remembers(SetCommandId(s, p, n), p, n)
<1> DEFINE w     == Without(s.queue, p)
           queue == Append(w, p)
           full  == Len(queue) > CommandIdLimit
           ids   == [x \in DOMAIN s.ids |-> CASE full /\ x = Head(queue) -> 0
                                              [] x = p                   -> n
                                              [] OTHER                   -> s.ids[x]]
           rest  == IF full THEN Tail(queue) ELSE queue
           t     == SetCommandId(s, p, n)
<1>1. /\ s.queue \in Seq(PlayerIds) /\ s.ids \in [PlayerIds -> Nat]
      /\ Len(s.queue) \in Nat /\ DOMAIN s.queue = 1 .. Len(s.queue)
      /\ \A i \in DOMAIN s.queue : s.queue[i] \in PlayerIds /\ s.queue[i] \in Nat
      /\ PlayerIds \subseteq Nat
  <2>1. /\ s.queue \in Seq(PlayerIds) /\ s.ids \in [PlayerIds -> Nat]
        /\ PlayerIds \subseteq Nat
    BY DEF Subscribers, PlayerIds
  <2>2. /\ Len(s.queue) \in Nat /\ DOMAIN s.queue = 1 .. Len(s.queue)
        /\ \A i \in 1 .. Len(s.queue) : s.queue[i] \in PlayerIds
    BY <2>1, LenProperties, ElementOfSeq
  <2> QED BY <2>1, <2>2
<1>2. /\ w \in Seq(PlayerIds) /\ Len(w) <= Len(s.queue)
      /\ \A i \in 1 .. Len(w) : w[i] = s.queue[i] /\ i \in DOMAIN s.queue /\ w[i] # p
      /\ \A i \in DOMAIN s.queue : s.queue[i] # p => i \in 1 .. Len(w)
  <2>1. \A i \in DOMAIN s.queue : s.queue[i] <= p
    BY <1>1 DEF Remembers
  <2>2. \A i, j \in DOMAIN s.queue : i < j => s.queue[i] < s.queue[j]
    BY DEF Remembers
  <2> QED BY <1>1, <2>1, <2>2, WithoutLatest
<1>3. t = [s EXCEPT !.ids = ids, !.queue = rest]
  BY DEF SetCommandId
<1>4. t.ids = ids /\ t.queue = rest
  BY <1>3 DEF Subscribers
<1>5. Len(w) \in Nat
  BY <1>2, LenProperties
<1> HIDE DEF w
<1>6. /\ queue \in Seq(PlayerIds) /\ queue # <<>> /\ Len(queue) = Len(w) + 1
      /\ \A i \in 1 .. Len(w) : queue[i] = w[i]
      /\ queue[Len(w) + 1] = p
  BY <1>2, AppendProperties
<1>7. Head(queue) = queue[1]
  BY <1>6
<1> HIDE DEF queue
<1>8. full => Len(w) >= 1 /\ Head(queue) = s.queue[1] /\ s.queue[1] # p
  BY <1>2, <1>5, <1>6, <1>7, RemoteAssumption
<1> DEFINE o == IF full THEN 1 ELSE 0
<1>9. /\ rest \in Seq(PlayerIds) /\ Len(rest) = Len(w) + 1 - o
      /\ \A i \in 1 .. Len(rest) : rest[i] = queue[i + o]
  BY <1>5, <1>6, HeadTailProperties
<1>10. DOMAIN rest = 1 .. Len(w) + 1 - o
  BY <1>9, LenProperties
<1>11. o \in {0, 1} /\ (o = 1 <=> full) /\ Len(w) + 1 - o <= CommandIdLimit
  BY <1>1, <1>2, <1>5, <1>6, RemoteAssumption DEF Remembers
<1>12. \A x \in PlayerIds :
         ids[x] = IF full /\ x = s.queue[1] THEN 0 ELSE IF x = p THEN n ELSE s.ids[x]
  BY <1>1, <1>8
<1>13. DOMAIN ids = PlayerIds
  BY <1>1
<1> HIDE DEF full, rest, ids, o
<1>14. ASSUME NEW i \in DOMAIN rest
       PROVE  /\ rest[i] \in PlayerIds
              /\ i <= Len(w) - o => /\ i + o \in DOMAIN s.queue
                                    /\ rest[i] = s.queue[i + o]
                                    /\ rest[i] # p
                                    /\ ids[rest[i]] = s.ids[rest[i]]
              /\ i > Len(w) - o => i = Len(w) + 1 - o /\ rest[i] = p /\ ids[p] = n
  <2>1. i \in 1 .. Len(w) + 1 - o /\ i + o \in 1 .. Len(w) + 1
    BY <1>5, <1>10, <1>11
  <2>2. CASE i <= Len(w) - o
    <3>1. i + o \in 1 .. Len(w)
      BY <1>5, <1>11, <2>1, <2>2
    <3>2. rest[i] = s.queue[i + o] /\ i + o \in DOMAIN s.queue /\ rest[i] # p
      BY <1>2, <1>6, <1>9, <2>1, <3>1
    <3>3. full => rest[i] # s.queue[1]
      <4>1. SUFFICES ASSUME full PROVE rest[i] # s.queue[1]
        OBVIOUS
      <4>2. 1 \in DOMAIN s.queue /\ 1 < i + o
        BY <1>1, <1>5, <1>11, <2>1, <3>2, <4>1
      <4>3. s.queue[1] < s.queue[i + o]
        BY <3>2, <4>2 DEF Remembers
      <4> QED BY <1>1, <3>2, <4>2, <4>3
    <3>4. rest[i] \in PlayerIds
      BY <1>1, <3>2
    <3>5. ids[rest[i]] = s.ids[rest[i]]
      BY <1>12, <3>2, <3>3, <3>4
    <3>6. ~(i > Len(w) - o)
      BY <1>5, <1>11, <2>1, <2>2
    <3> QED BY <3>2, <3>4, <3>5, <3>6
  <2>3. CASE i > Len(w) - o
    <3>1. i = Len(w) + 1 - o
      BY <1>5, <1>11, <2>1, <2>3
    <3>2. rest[i] = p
      BY <1>5, <1>6, <1>9, <1>11, <2>1, <3>1
    <3> QED BY <1>5, <1>8, <1>11, <1>12, <2>3, <3>1, <3>2
  <2> QED BY <1>5, <1>11, <2>1, <2>2, <2>3
<1>15. Len(rest) <= CommandIdLimit
  BY <1>9, <1>11
<1>16. \A i \in DOMAIN rest : rest[i] <= p /\ ids[rest[i]] <= n
  <2> SUFFICES ASSUME NEW i \in DOMAIN rest PROVE rest[i] <= p /\ ids[rest[i]] <= n
    OBVIOUS
  <2>1. CASE i <= Len(w) - o
    <3>1. /\ rest[i] <= top /\ ids[rest[i]] <= last
          /\ rest[i] \in Nat /\ ids[rest[i]] \in Nat
      BY <1>1, <1>14, <2>1 DEF Remembers
    <3> QED BY <1>1, <3>1
  <2>2. CASE i > Len(w) - o
    BY <1>1, <1>14, <2>2
  <2> QED BY <1>5, <1>10, <1>11, <2>1, <2>2
<1>17. \A i, j \in DOMAIN rest : i < j => rest[i] < rest[j] /\ ids[rest[i]] < ids[rest[j]]
  <2> SUFFICES ASSUME NEW i \in DOMAIN rest, NEW j \in DOMAIN rest, i < j
               PROVE  rest[i] < rest[j] /\ ids[rest[i]] < ids[rest[j]]
    OBVIOUS
  <2>1. i \in Int /\ j \in Int /\ i <= Len(w) - o
    BY <1>5, <1>10, <1>11
  <2>2. CASE j <= Len(w) - o
    <3>1. i + o < j + o
      BY <1>11, <2>1
    <3> QED BY <1>14, <2>1, <2>2, <3>1 DEF Remembers
  <2>3. CASE j > Len(w) - o
    <3>1. rest[i] <= top /\ ids[rest[i]] <= last /\ rest[i] # p
      BY <1>14, <2>1 DEF Remembers
    <3>2. rest[i] \in Nat /\ ids[rest[i]] \in Nat
      BY <1>1, <1>14, <2>1
    <3> QED BY <1>1, <1>14, <2>3, <3>1, <3>2
  <2> QED BY <1>5, <1>11, <2>1, <2>2, <2>3
<1>18. {x \in DOMAIN ids : ids[x] # 0} = {rest[i] : i \in DOMAIN rest}
  <2>1. ASSUME NEW i \in DOMAIN rest
        PROVE  rest[i] \in PlayerIds /\ ids[rest[i]] # 0
    <3>1. CASE i <= Len(w) - o
      BY <1>1, <1>14, <3>1 DEF Remembers
    <3>2. CASE i > Len(w) - o
      BY <1>14, <3>2
    <3> QED BY <1>5, <1>10, <1>11, <3>1, <3>2
  <2>2. ASSUME NEW x \in PlayerIds, ids[x] # 0
        PROVE  \E i \in DOMAIN rest : rest[i] = x
    <3>1. CASE x = p
      <4>1. Len(w) + 1 - o \in DOMAIN rest
        BY <1>5, <1>8, <1>10, <1>11
      <4>2. Len(w) + 1 - o > Len(w) - o
        BY <1>5, <1>11
      <4> QED BY <1>14, <3>1, <4>1, <4>2
    <3>2. CASE x # p
      <4>1. s.ids[x] # 0 /\ ~(full /\ x = s.queue[1])
        BY <1>12, <2>2, <3>2
      <4>2. PICK k \in DOMAIN s.queue : s.queue[k] = x
        BY <1>1, <4>1 DEF Remembers
      <4>3. k \in 1 .. Len(w)
        BY <1>2, <3>2, <4>2
      <4>4. k - o \in 1 .. Len(w) - o
        BY <1>5, <1>11, <4>1, <4>2, <4>3
      <4>5. k - o \in DOMAIN rest /\ (k - o) + o = k
        BY <1>5, <1>10, <1>11, <4>3, <4>4
      <4> QED BY <1>14, <4>2, <4>4, <4>5
    <3> QED BY <3>1, <3>2
  <2> QED BY <1>13, <2>1, <2>2
<1> QED BY <1>4, <1>15, <1>16, <1>17, <1>18 DEF Remembers

LEMMA RemembersMore ==
  ASSUME NEW s \in Subscribers, NEW top \in Int, NEW last \in Int, Remembers(s, top, last),
         NEW top2 \in Int, NEW last2 \in Int, top <= top2, last <= last2,
         NEW t, t.queue = s.queue, t.ids = s.ids
  PROVE  Remembers(t, top2, last2)
<1>1. /\ s.queue \in Seq(PlayerIds) /\ s.ids \in [PlayerIds -> Nat] /\ PlayerIds \subseteq Nat
  BY DEF Subscribers, PlayerIds
<1>2. \A i \in DOMAIN s.queue : s.queue[i] \in PlayerIds
  BY <1>1, LenProperties, ElementOfSeq
<1>3. ASSUME NEW i \in DOMAIN s.queue
      PROVE  s.queue[i] <= top2 /\ s.ids[s.queue[i]] <= last2
  <2>1. s.queue[i] <= top /\ s.ids[s.queue[i]] <= last
    BY DEF Remembers
  <2>2. s.queue[i] \in Nat /\ s.ids[s.queue[i]] \in Nat
    BY <1>1, <1>2
  <2> QED BY <2>1, <2>2
<1> QED BY <1>3 DEF Remembers

LEMMA NewRemembers ==
  ASSUME NEW poll, NEW r, NEW top, NEW last
  PROVE  Remembers(NewSubscriber(poll, r), top, last)
<1> DEFINE s == NewSubscriber(poll, r)
<1>1. s.queue = <<>> /\ s.ids = NoIds
  BY DEF NewSubscriber
<1>2. DOMAIN s.queue = {} /\ Len(s.queue) = 0
  BY <1>1
<1>3. \A p \in DOMAIN s.ids : s.ids[p] = 0
  BY <1>1 DEF NoIds
<1> HIDE DEF s
<1>4. {p \in DOMAIN s.ids : s.ids[p] # 0} = {} /\ {s.queue[i] : i \in DOMAIN s.queue} = {}
  BY <1>2, <1>3
<1>5. Len(s.queue) <= CommandIdLimit
  BY <1>2, RemoteAssumption
<1>6. Remembers(s, top, last)
  BY <1>2, <1>4, <1>5 DEF Remembers
<1> QED BY <1>6 DEF s

\* A subscription is sound from the request that makes or refreshes it.
LEMMA RegisteredRemembers ==
  ASSUME TypeInv, SubInv, NEW c \in Clients, NEW poll \in BOOLEAN, NEW r \in Requests, Arrives(r)
  PROVE  /\ Remembers(Registered(c, poll, r), m_commandId, r)
         /\ Registered(c, poll, r).age = 0
<1> DEFINE s == IF c \in m_subscriberMap THEN ReSubscribe(subscriber[c])
                                         ELSE NewSubscriber(poll, r)
<1>1. s \in Subscribers
  BY ReSubscribeType, NewSubscriberType DEF TypeInv, TypeOK
<1>2. /\ m_commandId \in PlayerIds /\ m_commandId \in Nat /\ r \in Nat
      /\ requests \in Nat /\ requests < r
  BY DEF TypeInv, TypeOK, PlayerIds, Requests, Arrives
<1>3. Remembers(s, m_commandId, requests) /\ s.age = 0
  <2>1. CASE c \in m_subscriberMap
    <3>1. Remembers(subscriber[c], m_commandId, requests) /\ subscriber[c] \in Subscribers
      BY <2>1 DEF SubInv, TypeInv, TypeOK
    <3>2. s = [subscriber[c] EXCEPT !.age = 0]
      BY <2>1 DEF ReSubscribe
    <3>3. s.queue = subscriber[c].queue /\ s.ids = subscriber[c].ids /\ s.age = 0
      BY <3>1, <3>2 DEF Subscribers
    <3> HIDE DEF s
    <3> QED BY <1>2, <3>1, <3>3, RemembersMore
  <2>2. CASE c \notin m_subscriberMap
    <3>1. s = NewSubscriber(poll, r)
      BY <2>2
    <3> HIDE DEF s
    <3> QED BY <3>1, NewRemembers DEF NewSubscriber
  <2> QED BY <2>1, <2>2
<1>4. Registered(c, poll, r) = SetCommandId(s, m_commandId, r)
  BY DEF Registered
<1> HIDE DEF s
<1>5. SetCommandId(s, m_commandId, r).age = s.age
  BY <1>1 DEF SetCommandId, Subscribers
<1>6. m_commandId <= m_commandId
  BY <1>2
<1> QED BY <1>1, <1>2, <1>3, <1>4, <1>5, <1>6, SetCommandIdRemembers

\* A step that leaves queues and maps alone, and no subscriber too old.
LEMMA SubKept ==
  ASSUME TypeInv, SubInv, m_subscriberMap' \subseteq m_subscriberMap,
         \A c \in m_subscriberMap' : /\ subscriber'[c].queue = subscriber[c].queue
                                     /\ subscriber'[c].ids = subscriber[c].ids
                                     /\ subscriber'[c].age <= SubscriberTimeout,
         m_commandId' \in Int, m_commandId <= m_commandId',
         requests' \in Int, requests <= requests'
  PROVE  SubInv'
<1>1. m_commandId \in Int /\ requests \in Int
  BY DEF TypeInv, TypeOK
<1>2. ASSUME NEW c \in m_subscriberMap'
      PROVE  Remembers(subscriber'[c], m_commandId', requests')
  <2>1. subscriber[c] \in Subscribers /\ Remembers(subscriber[c], m_commandId, requests)
    BY <1>2 DEF TypeInv, TypeOK, SubInv
  <2> QED BY <1>1, <1>2, <2>1, RemembersMore
<1> QED BY <1>2 DEF SubInv

\* A step that gives c, which is or becomes subscribed, the subscriber s.
LEMMA SubChanged ==
  ASSUME TypeInv, SubInv, NEW c \in Clients, NEW s,
         m_subscriberMap' \subseteq m_subscriberMap \cup {c},
         subscriber' = [subscriber EXCEPT ![c] = s],
         Remembers(s, m_commandId', requests'), s.age <= SubscriberTimeout,
         m_commandId' \in Int, m_commandId <= m_commandId',
         requests' \in Int, requests <= requests'
  PROVE  SubInv'
<1>1. m_commandId \in Int /\ requests \in Int
  BY DEF TypeInv, TypeOK
<1>2. ASSUME NEW d \in m_subscriberMap'
      PROVE  /\ Remembers(subscriber'[d], m_commandId', requests')
             /\ subscriber'[d].age <= SubscriberTimeout
  <2>1. CASE d = c
    BY <2>1 DEF TypeInv, TypeOK
  <2>2. CASE d # c
    <3>1. /\ subscriber[d] \in Subscribers /\ Remembers(subscriber[d], m_commandId, requests)
          /\ subscriber[d].age <= SubscriberTimeout
      BY <1>2, <2>2 DEF TypeInv, TypeOK, SubInv
    <3>2. subscriber'[d] = subscriber[d]
      BY <1>2, <2>2 DEF TypeInv, TypeOK
    <3> QED BY <1>1, <3>1, <3>2, RemembersMore
  <2> QED BY <2>1, <2>2
<1> QED BY <1>2 DEF SubInv

LEMMA SubStep == TypeInv /\ SubInv /\ [Next]_vars => SubInv'
<1> SUFFICES ASSUME TypeInv, SubInv, [Next]_vars
             PROVE  SubInv'
  OBVIOUS
<1>1. /\ m_commandId \in Int /\ requests \in Int
      /\ m_subscriberMap \subseteq Clients
      /\ subscriber \in [Clients -> Subscribers]
      /\ \A c \in m_subscriberMap : subscriber[c].age <= SubscriberTimeout
      /\ SubscriberTimeout \in Nat /\ 0 <= SubscriberTimeout
  BY RemoteAssumption DEF TypeInv, TypeOK, SubInv
<1>2. \A r \in Requests : Arrives(r) => /\ requests' = r /\ requests' \in Int
                                        /\ requests <= requests'
  BY <1>1 DEF Arrives, Requests
<1>3. CASE BadRequest
  BY <1>1, <1>2, <1>3, SubKept DEF BadRequest
<1>4. ASSUME NEW c \in Clients, Subscribe(c)
      PROVE  SubInv'
  <2>1. PICK r \in Requests :
          /\ Arrives(r) /\ Register(c)
          /\ subscriber' = [subscriber EXCEPT ![c] = SendUpdate(Registered(c, FALSE, r))]
          /\ UNCHANGED m_commandId
    BY <1>4 DEF Subscribe
  <2> DEFINE s == Registered(c, FALSE, r)
             t == SendUpdate(s)
  <2>2. Remembers(s, m_commandId, r) /\ s.age = 0 /\ s \in Subscribers
    BY <2>1, RegisteredRemembers, RegisteredType
  <2> HIDE DEF s
  <2>3. t.queue = s.queue /\ t.ids = s.ids /\ t.age = s.age
    BY <2>2 DEF SendUpdate, Subscribers
  <2>4. m_subscriberMap' \subseteq m_subscriberMap \cup {c}
    BY <2>1 DEF Register
  <2>5. Remembers(t, m_commandId', requests')
    BY <1>1, <1>2, <2>1, <2>2, <2>3, RemembersMore
  <2>6. subscriber' = [subscriber EXCEPT ![c] = t]
    BY <2>1 DEF s
  <2> HIDE DEF t
  <2>7. /\ m_commandId' \in Int /\ m_commandId <= m_commandId'
        /\ requests' \in Int /\ requests <= requests'
        /\ t.age <= SubscriberTimeout
    BY <1>1, <1>2, <2>1, <2>2, <2>3
  <2> QED BY <2>4, <2>5, <2>6, <2>7, SubChanged
<1>5. ASSUME NEW c \in Clients, NEW wait \in BOOLEAN, Poll(c, wait)
      PROVE  SubInv'
  <2> DEFINE s(r)    == IF c \in m_subscriberMap THEN subscriber[c] ELSE Registered(c, TRUE, r)
             held(r) == [ReSubscribe(s(r)) EXCEPT !.response = r]
             new(r)  == CASE ~s(r).poll -> s(r)
                          [] s(r).poll /\ wait -> held(r)
                          [] s(r).poll /\ ~wait -> SendUpdate(held(r))
  <2>1. PICK r \in Requests :
          /\ Arrives(r)
          /\ IF c \in m_subscriberMap THEN UNCHANGED <<m_subscriberMap, toWeb>> ELSE Register(c)
          /\ subscriber' = [subscriber EXCEPT ![c] = new(r)]
          /\ UNCHANGED m_commandId
    BY <1>5 DEF Poll
  <2>2. /\ s(r) \in Subscribers
        /\ Remembers(s(r), m_commandId, r) /\ s(r).age <= SubscriberTimeout
    <3>1. CASE c \in m_subscriberMap
      <4>1. /\ subscriber[c] \in Subscribers
            /\ Remembers(subscriber[c], m_commandId, requests)
            /\ subscriber[c].age <= SubscriberTimeout
        BY <3>1 DEF SubInv, TypeInv, TypeOK
      <4> QED BY <1>1, <1>2, <2>1, <3>1, <4>1, RemembersMore
    <3>2. CASE c \notin m_subscriberMap
      BY <1>1, <2>1, <3>2, RegisteredRemembers, RegisteredType
    <3> QED BY <3>1, <3>2
  <2> HIDE DEF s
  <2>3. /\ held(r) \in Subscribers /\ held(r).age = 0
        /\ held(r).queue = s(r).queue /\ held(r).ids = s(r).ids
    BY <2>2 DEF ReSubscribe, Subscribers
  <2> HIDE DEF held
  <2>4. /\ SendUpdate(held(r)).age = 0
        /\ SendUpdate(held(r)).queue = s(r).queue /\ SendUpdate(held(r)).ids = s(r).ids
    BY <2>3 DEF SendUpdate, Subscribers
  <2>5. /\ new(r).age <= SubscriberTimeout
        /\ new(r).queue = s(r).queue /\ new(r).ids = s(r).ids
    <3>1. s(r).poll \in BOOLEAN
      BY <2>2 DEF Subscribers
    <3> QED BY <1>1, <2>2, <2>3, <2>4, <3>1
  <2> HIDE DEF new
  <2>6. m_subscriberMap' \subseteq m_subscriberMap \cup {c}
    BY <2>1 DEF Register
  <2>7. Remembers(new(r), m_commandId', requests')
    BY <1>1, <1>2, <2>1, <2>2, <2>5, RemembersMore
  <2>8. /\ m_commandId' \in Int /\ m_commandId <= m_commandId'
        /\ requests' \in Int /\ requests <= requests'
    BY <1>1, <1>2, <2>1
  <2> QED BY <2>1, <2>5, <2>6, <2>7, <2>8, SubChanged
<1>6. ASSUME NEW c \in Clients, Unsubscribe(c)
      PROVE  SubInv'
  <2>1. PICK r \in Requests : /\ Arrives(r) /\ UNCHANGED m_commandId
                              /\ Remove({c} \cap m_subscriberMap, subscriber)
    BY <1>6 DEF Unsubscribe
  <2>2. m_subscriberMap' \subseteq m_subscriberMap
    BY <2>1 DEF Remove
  <2>3. \A d \in m_subscriberMap' : subscriber'[d] = subscriber[d]
    BY <1>1, <2>1 DEF Remove
  <2> QED BY <1>1, <1>2, <2>1, <2>2, <2>3, SubKept
<1>7. ASSUME NEW c \in Clients, Command(c)
      PROVE  SubInv'
  <2>1. PICK r \in Requests :
          /\ Arrives(r) /\ m_commandId' = m_commandId + 1 /\ UNCHANGED m_subscriberMap
          /\ IF c \in m_subscriberMap
             THEN subscriber' = [subscriber EXCEPT ![c] = SetCommandId(@, m_commandId', r)]
             ELSE UNCHANGED subscriber
    BY <1>7 DEF Command
  <2>2. m_commandId' \in Int /\ m_commandId <= m_commandId'
    BY <1>1, <2>1
  <2>3. CASE c \in m_subscriberMap
    <3> DEFINE s == SetCommandId(subscriber[c], m_commandId', r)
    <3>1. /\ subscriber[c] \in Subscribers
          /\ Remembers(subscriber[c], m_commandId, requests)
          /\ subscriber[c].age <= SubscriberTimeout
      BY <2>3 DEF SubInv, TypeInv, TypeOK
    <3>2. /\ m_commandId' \in PlayerIds /\ m_commandId \in Nat /\ requests \in Nat
          /\ r \in Nat /\ requests < r
      BY <2>1, ArrivesType, RemoteAssumption DEF TypeInv, TypeOK, PlayerIds, Requests, Arrives
    <3>3. Remembers(s, m_commandId', r)
      BY <2>2, <3>1, <3>2, SetCommandIdRemembers
    <3>4. s.age = subscriber[c].age
      BY <3>1 DEF SetCommandId, Subscribers
    <3>5. subscriber' = [subscriber EXCEPT ![c] = s]
      BY <2>1, <2>3
    <3> HIDE DEF s
    <3> QED BY <1>2, <2>1, <2>2, <3>1, <3>3, <3>4, <3>5, SubChanged
  <2>4. CASE c \notin m_subscriberMap
    BY <1>1, <1>2, <2>1, <2>2, <2>4, SubKept
  <2> QED BY <2>3, <2>4
<1>8. ASSUME NEW r \in Requests, Disconnect(r)
      PROVE  SubInv'
  <2>1. /\ UNCHANGED <<m_commandId, m_subscriberMap, requests>>
        /\ \A c \in Clients : subscriber'[c] =
             IF subscriber[c].response = r
             THEN [subscriber[c] EXCEPT !.response = NoResponse] ELSE subscriber[c]
    BY <1>8 DEF Disconnect
  <2>2. \A c \in m_subscriberMap : /\ subscriber'[c].queue = subscriber[c].queue
                                   /\ subscriber'[c].ids = subscriber[c].ids
                                   /\ subscriber'[c].age = subscriber[c].age
    BY <1>1, <2>1 DEF Subscribers
  <2> QED BY <1>1, <2>1, <2>2, SubKept
<1>9. CASE WebReceives
  BY <1>1, <1>9, SubKept DEF WebReceives
<1>10. ASSUME NEW id \in CommandIds, CommandResponse(id)
       PROVE  SubInv'
  BY <1>1, <1>10, SubKept DEF CommandResponse
<1>11. ASSUME NEW id \in 0 .. m_commandId, NEW parsed \in BOOLEAN, TimelineUpdate(id, parsed)
       PROVE  SubInv'
  <2> DEFINE queued == [c \in Clients |->
               IF parsed THEN QueueTimeline(subscriber[c], id) ELSE subscriber[c]]
  <2>1. /\ UNCHANGED <<m_commandId, m_subscriberMap, requests>>
        /\ \A c \in m_subscriberMap : subscriber'[c] = SendUpdate(queued[c])
    BY <1>1, <1>11 DEF TimelineUpdate
  <2>2. \A c \in m_subscriberMap : /\ queued[c] \in Subscribers
                                   /\ queued[c].queue = subscriber[c].queue
                                   /\ queued[c].ids = subscriber[c].ids
                                   /\ queued[c].age = subscriber[c].age
    <3> SUFFICES ASSUME NEW c \in m_subscriberMap
                 PROVE  /\ queued[c] \in Subscribers
                        /\ queued[c].queue = subscriber[c].queue
                        /\ queued[c].ids = subscriber[c].ids
                        /\ queued[c].age = subscriber[c].age
      OBVIOUS
    <3>1. c \in Clients /\ subscriber[c] \in Subscribers /\ id \in PlayerIds
      BY <1>1, RemoteAssumption DEF PlayerIds, TypeInv, TypeOK
    <3>2. CASE parsed
      <4>1. queued[c] = QueueTimeline(subscriber[c], id)
        BY <3>1, <3>2
      <4> QED BY <3>1, <4>1, QueueTimelineType DEF QueueTimeline, Subscribers
    <3>3. CASE ~parsed
      BY <3>1, <3>3
    <3> QED BY <3>2, <3>3
  <2> HIDE DEF queued
  <2>3. \A c \in m_subscriberMap : /\ subscriber'[c].queue = subscriber[c].queue
                                   /\ subscriber'[c].ids = subscriber[c].ids
                                   /\ subscriber'[c].age = subscriber[c].age
    BY <2>1, <2>2 DEF SendUpdate, Subscribers
  <2> QED BY <1>1, <2>1, <2>3, SubKept
<1>12. CASE CheckSubscribers
  <2>1. /\ UNCHANGED <<m_commandId, requests>>
        /\ m_subscriberMap' = m_subscriberMap \ Overdue
        /\ \A c \in m_subscriberMap' : subscriber'[c] = [subscriber[c] EXCEPT !.age = @ + 1]
    BY <1>1, <1>12 DEF CheckSubscribers, Remove
  <2>2. \A c \in m_subscriberMap' : /\ subscriber'[c].queue = subscriber[c].queue
                                    /\ subscriber'[c].ids = subscriber[c].ids
                                    /\ subscriber'[c].age <= SubscriberTimeout
    <3> SUFFICES ASSUME NEW c \in m_subscriberMap'
                 PROVE  /\ subscriber'[c].queue = subscriber[c].queue
                        /\ subscriber'[c].ids = subscriber[c].ids
                        /\ subscriber'[c].age <= SubscriberTimeout
      OBVIOUS
    <3>1. /\ subscriber[c] \in Subscribers /\ ~(subscriber[c].age + 1 > SubscriberTimeout)
          /\ subscriber'[c] = [subscriber[c] EXCEPT !.age = @ + 1]
      BY <1>1, <2>1 DEF Overdue
    <3>2. /\ subscriber'[c].queue = subscriber[c].queue
          /\ subscriber'[c].ids = subscriber[c].ids
          /\ subscriber'[c].age = subscriber[c].age + 1 /\ subscriber[c].age \in Nat
      BY <3>1 DEF Subscribers
    <3> QED BY <1>1, <3>1, <3>2
  <2> QED BY <1>1, <2>1, <2>2, SubKept
<1>13. CASE UNCHANGED vars
  BY <1>1, <1>13, SubKept DEF vars
<1> QED BY <1>3, <1>4, <1>5, <1>6, <1>7, <1>8, <1>9, <1>10, <1>11, <1>12, <1>13 DEF Next

\* Each subscriber that is listed still asks, and its player commands stand
\* for the right controller commands.
THEOREM SubscribersSound == Spec => []SubscribersAreSound
<1>1. Init => SubInv
  BY DEF Init, SubInv
<1>2. TypeInv /\ SubInv => SubscribersAreSound
  BY DEF SubInv, Remembers, SubscribersAreSound, CommandIdsConsistent, SilentAreRemoved
<1> QED BY <1>1, <1>2, InitType, NextType, SubStep, PTL DEF Spec

-----------------------------------------------------------------------------
(* What becomes of the requests of the controllers: a response is neither  *)
(* ended twice nor left without a way to be answered.                      *)

\* The web client owes command id an answer, or will read it.
Deliverable(id) ==
  \/ id \in web.owes
  \/ \E i \in DOMAIN toWeb : toWeb[i] = [type |-> "command", id |-> id]

\* Requests are numbered as they arrive.
Fresh == \A r \in Requests : r > requests => http[r] = "none"

\* m_responseMap has no entry yet for the commands to come ...
MapNumbered == \A id \in CommandIds : m_responseMap[id] # NoResponse => id <= m_commandId

\* ... and no response twice.
MapDistinct ==
  \A id1, id2 \in CommandIds :
    m_responseMap[id1] # NoResponse /\ m_responseMap[id1] = m_responseMap[id2] => id1 = id2

MapInv == MapNumbered /\ MapDistinct /\ AnsweredForgotten /\ CommandsAnswerable

ReqInv == Fresh /\ MapInv /\ HeldPollIsOpen

-----------------------------------------------------------------------------
(* Messages on their way to the web client.                                *)

LEMMA TellDelivers ==
  ASSUME toWeb \in Seq(Messages), NEW type, NEW n,
         [type |-> type, id |-> n] \in Messages, Tell(type, n), UNCHANGED web
  PROVE  /\ \A id \in CommandIds : Deliverable(id) => Deliverable(id)'
         /\ type = "command" => Deliverable(n)'
<1>1. /\ toWeb' \in Seq(Messages)
      /\ Len(toWeb') = Len(toWeb) + 1
      /\ \A i \in 1 .. Len(toWeb) : toWeb'[i] = toWeb[i]
      /\ toWeb'[Len(toWeb) + 1] = [type |-> type, id |-> n]
  BY AppendProperties DEF Tell
<1>2. /\ Len(toWeb) \in Nat
      /\ DOMAIN toWeb = 1 .. Len(toWeb)
      /\ DOMAIN toWeb' = 1 .. Len(toWeb) + 1
  BY <1>1, LenProperties
<1>3. /\ \A i \in DOMAIN toWeb : i \in DOMAIN toWeb' /\ toWeb'[i] = toWeb[i]
      /\ Len(toWeb) + 1 \in DOMAIN toWeb'
  BY <1>1, <1>2
<1> QED BY <1>1, <1>3 DEF Deliverable

LEMMA TellIfDelivers ==
  ASSUME TypeInv, NEW gone, TellIfFirst \/ TellIfLast(gone) \/ UNCHANGED toWeb, UNCHANGED web
  PROVE  \A id \in CommandIds : Deliverable(id) => Deliverable(id)'
<1>1. toWeb \in Seq(Messages)
  BY DEF TypeInv, TypeOK
<1>2. \A type \in {"subscribe", "unsubscribe"} : [type |-> type, id |-> 0] \in Messages
  BY DEF Messages
<1>3. CASE UNCHANGED toWeb
  BY <1>3 DEF Deliverable
<1>4. CASE Tell("subscribe", 0)
  BY <1>1, <1>2, <1>4, TellDelivers
<1>5. CASE Tell("unsubscribe", 0)
  BY <1>1, <1>2, <1>5, TellDelivers
<1> QED BY <1>3, <1>4, <1>5 DEF TellIfFirst, TellIfLast

LEMMA ReceivesDelivers ==
  ASSUME TypeInv, WebReceives, NEW id \in CommandIds, Deliverable(id)
  PROVE  Deliverable(id)'
<1>1. toWeb \in Seq(Messages) /\ toWeb # <<>> /\ toWeb' = Tail(toWeb)
  BY DEF WebReceives, TypeInv, TypeOK
<1>2. /\ Len(toWeb) \in Nat \ {0}
      /\ DOMAIN toWeb = 1 .. Len(toWeb)
      /\ Head(toWeb) = toWeb[1]
  BY <1>1, LenProperties, EmptySeq
<1>3. /\ DOMAIN toWeb' = 1 .. Len(toWeb) - 1
      /\ \A i \in 1 .. Len(toWeb) - 1 : toWeb'[i] = toWeb[i + 1]
  BY <1>1, HeadTailProperties, LenProperties
<1>4. web.owes \subseteq web'.owes
  <2>1. toWeb[1].type \in {"subscribe", "unsubscribe", "command"}
    BY <1>1, <1>2, ElementOfSeq DEF Messages
  <2> QED BY <1>2, <2>1 DEF WebReceives, TypeInv, TypeOK
<1>5. ASSUME NEW i \in DOMAIN toWeb, toWeb[i] = [type |-> "command", id |-> id]
      PROVE  Deliverable(id)'
  <2>1. CASE i = 1
    <3>1. Head(toWeb).type = "command" /\ Head(toWeb).id = id
      BY <1>2, <1>5, <2>1
    <3>2. id \in web'.owes
      BY <3>1 DEF WebReceives, TypeInv, TypeOK
    <3> QED BY <3>2 DEF Deliverable
  <2>2. CASE i # 1
    <3>1. i - 1 \in DOMAIN toWeb' /\ toWeb'[i - 1] = toWeb[i]
      BY <1>2, <1>3, <2>2
    <3> QED BY <1>5, <3>1 DEF Deliverable
  <2> QED BY <2>1, <2>2
<1> QED BY <1>4, <1>5 DEF Deliverable

-----------------------------------------------------------------------------
(* The parts of the invariant, under steps that leave them alone.          *)

LEMMA FreshKept ==
  ASSUME TypeInv, TypeInv', Fresh, requests <= requests',
         \A q \in Requests : q > requests' => http'[q] = http[q]
  PROVE  Fresh'
<1> SUFFICES ASSUME NEW q \in Requests, q > requests'
             PROVE  http'[q] = "none"
  BY DEF Fresh, Requests
<1>1. q > requests
  BY RemoteAssumption DEF Requests, TypeInv, TypeOK
<1> QED BY <1>1 DEF Fresh

\* A step that neither registers nor completes a command.
LEMMA MapKept ==
  ASSUME TypeInv, TypeInv', MapInv, UNCHANGED m_responseMap, m_commandId <= m_commandId',
         \A q \in Requests : http[q] \in {"command", "lost"} => http'[q] \in {"command", "lost"},
         \A q \in Requests : http'[q] = "command" => http[q] = "command",
         \A id \in CommandIds : Deliverable(id) => Deliverable(id)'
  PROVE  MapInv'
<1>1. MapNumbered'
  BY DEF MapInv, MapNumbered, TypeInv, TypeOK, CommandIds
<1>2. MapDistinct'
  BY DEF MapInv, MapDistinct
<1>3. AnsweredForgotten'
  BY DEF MapInv, AnsweredForgotten, TypeInv, TypeOK
<1>4. CommandsAnswerable'
  BY DEF MapInv, CommandsAnswerable, Deliverable
<1> QED BY <1>1, <1>2, <1>3, <1>4 DEF MapInv

\* A step in which no subscriber takes hold of a request.
LEMMA HeldKept ==
  ASSUME TypeInv, HeldPollIsOpen,
         \A c \in m_subscriberMap' :
           \/ subscriber'[c].response = NoResponse
           \/ /\ c \in m_subscriberMap
              /\ subscriber'[c].response = subscriber[c].response
              /\ http'[subscriber[c].response] = http[subscriber[c].response]
  PROVE  HeldPollIsOpen'
BY DEF HeldPollIsOpen

\* The number of a request that arrives is new.
LEMMA ArrivesFresh ==
  ASSUME TypeInv, ReqInv, NEW r \in Requests, Arrives(r)
  PROVE  /\ http[r] = "none"
         /\ requests <= requests'
         /\ ~(r > requests')
         /\ \A c \in m_subscriberMap : subscriber[c].response # r
         /\ \A id \in CommandIds : m_responseMap[id] # r
<1>1. http[r] = "none"
  BY DEF Arrives, ReqInv, Fresh, TypeInv, TypeOK
<1>2. requests <= requests' /\ ~(r > requests')
  BY DEF Arrives, TypeInv, TypeOK, Requests
<1>3. \A c \in m_subscriberMap : subscriber[c].response # r
  BY <1>1 DEF ReqInv, HeldPollIsOpen, Requests, NoResponse
<1>4. \A id \in CommandIds : m_responseMap[id] # r
  BY <1>1 DEF ReqInv, MapInv, AnsweredForgotten, Requests, NoResponse
<1> QED BY <1>1, <1>2, <1>3, <1>4

-----------------------------------------------------------------------------
(* What the operations of a subscriber do to the request it holds.         *)

LEMMA SetCommandIdKeeps ==
  ASSUME NEW s \in Subscribers, NEW p, NEW n
  PROVE  /\ SetCommandId(s, p, n).poll = s.poll
         /\ SetCommandId(s, p, n).response = s.response
         /\ SetCommandId(s, p, n).age = s.age
<1> DEFINE queue == Append(Without(s.queue, p), p)
           full  == Len(queue) > CommandIdLimit
           ids   == [x \in DOMAIN s.ids |-> CASE full /\ x = Head(queue) -> 0
                                              [] x = p                   -> n
                                              [] OTHER                   -> s.ids[x]]
           rest  == IF full THEN Tail(queue) ELSE queue
<1>1. SetCommandId(s, p, n) = [s EXCEPT !.ids = ids, !.queue = rest]
  BY DEF SetCommandId
<1> HIDE DEF ids, rest
<1> QED BY <1>1 DEF Subscribers

LEMMA RegisteredResponse ==
  ASSUME TypeInv, NEW c \in Clients, NEW poll \in BOOLEAN, NEW r \in Requests
  PROVE  /\ c \in m_subscriberMap =>
              /\ Registered(c, poll, r).poll = subscriber[c].poll
              /\ Registered(c, poll, r).response = subscriber[c].response
         /\ c \notin m_subscriberMap =>
              /\ Registered(c, poll, r).poll = poll
              /\ Registered(c, poll, r).response = IF poll THEN r ELSE NoResponse
<1>1. CASE c \in m_subscriberMap
  <2>1. subscriber[c] \in Subscribers
    BY DEF TypeInv, TypeOK
  <2>2. ReSubscribe(subscriber[c]) \in Subscribers
    BY <2>1, ReSubscribeType
  <2>3. /\ ReSubscribe(subscriber[c]).poll = subscriber[c].poll
        /\ ReSubscribe(subscriber[c]).response = subscriber[c].response
    BY <2>1 DEF ReSubscribe, Subscribers
  <2> QED BY <1>1, <2>2, <2>3, SetCommandIdKeeps DEF Registered
<1>2. CASE c \notin m_subscriberMap
  <2>1. NewSubscriber(poll, r) \in Subscribers
    BY NewSubscriberType
  <2>2. /\ NewSubscriber(poll, r).poll = poll
        /\ NewSubscriber(poll, r).response = IF poll THEN r ELSE NoResponse
    BY DEF NewSubscriber
  <2> QED BY <1>2, <2>1, <2>2, SetCommandIdKeeps DEF Registered
<1> QED BY <1>1, <1>2

LEMMA SendUpdateResponse ==
  ASSUME NEW s \in Subscribers
  PROVE  SendUpdate(s).response = IF s.poll THEN NoResponse ELSE s.response
BY DEF SendUpdate, Subscribers

LEMMA QueueTimelineKeeps ==
  ASSUME NEW s \in Subscribers, NEW p
  PROVE  /\ QueueTimeline(s, p).poll = s.poll
         /\ QueueTimeline(s, p).response = s.response
<1> DEFINE id == CommandId(s, p)
<1>1. QueueTimeline(s, p) = [s EXCEPT !.timeline = id]
  BY DEF QueueTimeline
<1> HIDE DEF id
<1> QED BY <1>1 DEF Subscribers

-----------------------------------------------------------------------------
(* One lemma per action.                                                   *)

LEMMA BadRequestReq ==
  ASSUME TypeInv, TypeInv', ReqInv, BadRequest
  PROVE  ReqInv'
<1>1. PICK r \in Requests :
        /\ Arrives(r) /\ Answer({r})
        /\ UNCHANGED <<m_commandId, m_responseMap, m_subscriberMap, subscriber, webVars>>
  BY DEF BadRequest
<1>2. \A q \in Requests : http'[q] = IF q = r THEN "answered" ELSE http[q]
  BY <1>1 DEF Answer
<1>3. Fresh'
  BY <1>1, <1>2, ArrivesFresh, FreshKept DEF ReqInv
<1>4. MapInv'
  BY <1>1, <1>2, ArrivesFresh, MapKept DEF ReqInv, webVars, Deliverable, TypeInv, TypeOK
<1>5. \A c \in m_subscriberMap' :
        \/ subscriber'[c].response = NoResponse
        \/ /\ c \in m_subscriberMap
           /\ subscriber'[c].response = subscriber[c].response
           /\ http'[subscriber[c].response] = http[subscriber[c].response]
  BY <1>1, <1>2, ArrivesFresh DEF TypeInv, TypeOK, Subscribers
<1>6. HeldPollIsOpen'
  BY <1>5, HeldKept DEF ReqInv
<1> QED BY <1>3, <1>4, <1>6 DEF ReqInv

LEMMA RegisterDelivers ==
  ASSUME TypeInv, NEW c, Register(c), UNCHANGED web
  PROVE  \A id \in CommandIds : Deliverable(id) => Deliverable(id)'
BY TellIfDelivers DEF Register

LEMMA SubscribeReq ==
  ASSUME TypeInv, TypeInv', ReqInv, NEW c \in Clients, Subscribe(c)
  PROVE  ReqInv'
<1> DEFINE s(r) == Registered(c, FALSE, r)
<1>1. PICK r \in Requests :
        /\ Arrives(r) /\ Register(c)
        /\ subscriber' = [subscriber EXCEPT ![c] = SendUpdate(s(r))]
        /\ Answer({r} \cup CompletedBy(s(r)))
        /\ UNCHANGED <<m_commandId, m_responseMap, web>>
  BY DEF Subscribe
<1>2. /\ c \in m_subscriberMap => /\ s(r).poll = subscriber[c].poll
                                  /\ s(r).response = subscriber[c].response
      /\ c \notin m_subscriberMap => s(r).response = NoResponse
  BY RegisteredResponse
<1>3. s(r) \in Subscribers
  BY RegisteredType
<1>4. SendUpdate(s(r)).response = IF s(r).poll THEN NoResponse ELSE s(r).response
  BY <1>3, SendUpdateResponse
<1> HIDE DEF s
<1>5. CompletedBy(s(r)) = IF c \in m_subscriberMap /\ s(r).poll /\ subscriber[c].response # NoResponse
                          THEN {subscriber[c].response} ELSE {}
  BY <1>2 DEF CompletedBy
<1>6. \A q \in CompletedBy(s(r)) : http[q] = "poll"
  BY <1>5 DEF ReqInv, HeldPollIsOpen
<1>7. \A q \in Requests :
        http'[q] = IF q = r \/ q \in CompletedBy(s(r)) THEN "answered" ELSE http[q]
  BY <1>1 DEF Answer
<1>8. Fresh'
  <2>1. \A q \in Requests : q > requests' => http[q] = "none"
    BY <1>1, ArrivesFresh DEF ReqInv, Fresh, TypeInv, TypeOK, Requests
  <2>2. \A q \in Requests : q > requests' => http'[q] = http[q]
    BY <1>1, <1>6, <1>7, <2>1, ArrivesFresh
  <2> QED BY <1>1, <2>2, ArrivesFresh, FreshKept DEF ReqInv
<1>9. MapInv'
  <2>1. \A id \in CommandIds : Deliverable(id) => Deliverable(id)'
    BY <1>1, RegisterDelivers
  <2> QED BY <1>1, <1>6, <1>7, <2>1, ArrivesFresh, MapKept DEF ReqInv, TypeInv, TypeOK
<1>10. HeldPollIsOpen'
  <2>1. ASSUME NEW d \in m_subscriberMap', subscriber'[d].response # NoResponse
        PROVE  /\ d \in m_subscriberMap
               /\ subscriber'[d].response = subscriber[d].response
               /\ http'[subscriber[d].response] = http[subscriber[d].response]
    <3>1. d \in Clients
      BY DEF TypeInv, TypeOK
    <3>2. CASE d = c
      <4>1. subscriber'[d].response = s(r).response /\ ~s(r).poll
        BY <1>1, <1>3, <1>4, <2>1, <3>2 DEF TypeInv, TypeOK, Subscribers
      <4>2. c \in m_subscriberMap /\ s(r).response = subscriber[c].response
        BY <1>2, <2>1, <4>1
      <4>3. CompletedBy(s(r)) = {}
        BY <1>5, <4>1
      <4>4. subscriber[c].response \in Requests /\ subscriber[c].response # r
        BY <1>1, <2>1, <4>1, <4>2, ArrivesFresh DEF TypeInv, TypeOK, Subscribers
      <4> QED BY <1>7, <3>2, <4>1, <4>2, <4>3, <4>4
    <3>3. CASE d # c
      <4>1. d \in m_subscriberMap /\ subscriber'[d] = subscriber[d]
        BY <1>1, <3>1, <3>3 DEF Register, TypeInv, TypeOK
      <4>2. subscriber[d].response \in Requests /\ subscriber[d].response # r
        BY <1>1, <2>1, <4>1, ArrivesFresh DEF TypeInv, TypeOK, Subscribers
      <4>3. subscriber[d].response \notin CompletedBy(s(r))
        BY <1>5, <2>1, <3>3, <4>1 DEF ReqInv, HeldPollIsOpen
      <4> QED BY <1>7, <4>1, <4>2, <4>3
    <3> QED BY <3>2, <3>3
  <2> QED BY <2>1, HeldKept DEF ReqInv
<1> QED BY <1>8, <1>9, <1>10 DEF ReqInv

LEMMA PollReq ==
  ASSUME TypeInv, TypeInv', ReqInv, NEW c \in Clients, NEW wait \in BOOLEAN, Poll(c, wait)
  PROVE  ReqInv'
<1> DEFINE s(r)    == IF c \in m_subscriberMap THEN subscriber[c] ELSE Registered(c, TRUE, r)
           held(r) == [ReSubscribe(s(r)) EXCEPT !.response = r]
           new(r)  == CASE ~s(r).poll -> s(r)
                        [] s(r).poll /\ wait -> held(r)
                        [] s(r).poll /\ ~wait -> SendUpdate(held(r))
           open(r) == IF s(r).poll /\ ~wait THEN "answered" ELSE "poll"
<1>1. PICK r \in Requests :
        /\ Arrives(r)
        /\ IF c \in m_subscriberMap THEN UNCHANGED <<m_subscriberMap, toWeb>> ELSE Register(c)
        /\ subscriber' = [subscriber EXCEPT ![c] = new(r)]
        /\ http' = [http EXCEPT ![r] = open(r)]
        /\ UNCHANGED <<m_commandId, m_responseMap, web>>
  BY DEF Poll
<1>2. s(r) \in Subscribers /\ s(r).poll \in BOOLEAN
  BY RegisteredType DEF TypeInv, TypeOK, Subscribers
<1>3. c \notin m_subscriberMap => s(r).poll
  BY RegisteredResponse
<1>4. c \in m_subscriberMap => s(r) = subscriber[c]
  OBVIOUS
<1> HIDE DEF s
<1>5. held(r) \in Subscribers /\ held(r).response = r /\ held(r).poll = s(r).poll
  BY <1>2, ReSubscribeType DEF ReSubscribe, Subscribers
<1> HIDE DEF held
<1>6. s(r).poll /\ ~wait => new(r).response = NoResponse
  BY <1>5, SendUpdateResponse
<1>7. s(r).poll /\ wait => new(r).response = r
  BY <1>5
<1>8. ~s(r).poll => new(r) = s(r)
  OBVIOUS
<1> HIDE DEF new
<1>9. \A q \in Requests : http'[q] = IF q = r THEN open(r) ELSE http[q]
  BY <1>1 DEF TypeInv, TypeOK
<1>10. \A d \in m_subscriberMap' \ {c} : /\ d \in m_subscriberMap
                                         /\ subscriber'[d] = subscriber[d]
  BY <1>1 DEF Register, TypeInv, TypeOK
<1>11. subscriber'[c] = new(r)
  BY <1>1 DEF TypeInv, TypeOK
<1>12. Fresh'
  BY <1>1, <1>9, ArrivesFresh, FreshKept DEF ReqInv
<1>13. MapInv'
  <2>1. \A id \in CommandIds : Deliverable(id) => Deliverable(id)'
    BY <1>1, RegisterDelivers DEF Deliverable
  <2>2. open(r) \in {"answered", "poll"}
    OBVIOUS
  <2> QED BY <1>1, <1>9, <2>1, <2>2, ArrivesFresh, MapKept DEF ReqInv, TypeInv, TypeOK
<1>14. HeldPollIsOpen'
  <2>1. \A d \in m_subscriberMap' \ {c} :
          \/ subscriber'[d].response = NoResponse
          \/ /\ d \in m_subscriberMap
             /\ subscriber'[d].response = subscriber[d].response
             /\ http'[subscriber[d].response] = http[subscriber[d].response]
             /\ subscriber[d].response # r
    BY <1>1, <1>9, <1>10, ArrivesFresh DEF TypeInv, TypeOK, Subscribers
  <2>2. CASE s(r).poll /\ wait
    <3>1. subscriber'[c].response = r /\ http'[r] = "poll"
      BY <1>7, <1>9, <1>11, <2>2
    <3> QED BY <2>1, <3>1 DEF ReqInv, HeldPollIsOpen, Requests, NoResponse
  <2>3. CASE s(r).poll /\ ~wait
    BY <1>6, <1>11, <2>1, <2>3, HeldKept DEF ReqInv
  <2>4. CASE ~s(r).poll
    <3>1. c \in m_subscriberMap /\ subscriber'[c] = subscriber[c]
      BY <1>3, <1>4, <1>8, <1>11, <2>4
    <3>2. \/ subscriber'[c].response = NoResponse
          \/ http'[subscriber[c].response] = http[subscriber[c].response]
      BY <1>1, <1>9, <3>1, ArrivesFresh DEF TypeInv, TypeOK, Subscribers
    <3> QED BY <2>1, <3>1, <3>2, HeldKept DEF ReqInv
  <2> QED BY <2>2, <2>3, <2>4
<1> QED BY <1>12, <1>13, <1>14 DEF ReqInv

LEMMA RemoveHeld ==
  ASSUME TypeInv, NEW gone, NEW subs, Remove(gone, subs), NEW d \in m_subscriberMap'
  PROVE  d \in m_subscriberMap /\ subscriber'[d] = subs[d]
BY DEF Remove, TypeInv, TypeOK

LEMMA UnsubscribeReq ==
  ASSUME TypeInv, TypeInv', ReqInv, NEW c \in Clients, Unsubscribe(c)
  PROVE  ReqInv'
<1>1. PICK r \in Requests :
        /\ Arrives(r) /\ Answer({r})
        /\ Remove({c} \cap m_subscriberMap, subscriber)
        /\ UNCHANGED <<m_commandId, m_responseMap, web>>
  BY DEF Unsubscribe
<1>2. \A q \in Requests : http'[q] = IF q = r THEN "answered" ELSE http[q]
  BY <1>1 DEF Answer
<1>3. Fresh'
  BY <1>1, <1>2, ArrivesFresh, FreshKept DEF ReqInv
<1>4. MapInv'
  <2>1. \A id \in CommandIds : Deliverable(id) => Deliverable(id)'
    BY <1>1, TellIfDelivers DEF Remove
  <2> QED BY <1>1, <1>2, <2>1, ArrivesFresh, MapKept DEF ReqInv, TypeInv, TypeOK
<1>5. \A d \in m_subscriberMap' :
        \/ subscriber'[d].response = NoResponse
        \/ /\ d \in m_subscriberMap
           /\ subscriber'[d].response = subscriber[d].response
           /\ http'[subscriber[d].response] = http[subscriber[d].response]
  <2>1. \A d \in m_subscriberMap' : d \in m_subscriberMap /\ subscriber'[d] = subscriber[d]
    BY <1>1, RemoveHeld
  <2> QED BY <1>1, <1>2, <2>1, ArrivesFresh DEF TypeInv, TypeOK, Subscribers
<1>6. HeldPollIsOpen'
  BY <1>5, HeldKept DEF ReqInv
<1> QED BY <1>3, <1>4, <1>6 DEF ReqInv

LEMMA CommandReq ==
  ASSUME TypeInv, TypeInv', ReqInv, NEW c \in Clients, Command(c)
  PROVE  ReqInv'
<1>0. PICK n : n = m_commandId'
  OBVIOUS
<1>1. PICK r \in Requests :
        /\ Arrives(r)
        /\ n = m_commandId + 1
        /\ IF c \in m_subscriberMap
           THEN /\ subscriber' = [subscriber EXCEPT ![c] = SetCommandId(@, n, r)]
                /\ http' = [http EXCEPT ![r] = "command"]
                /\ Remember(n, r)
                /\ Tell("command", n)
           ELSE /\ Answer({r})
                /\ UNCHANGED <<m_responseMap, subscriber, toWeb>>
        /\ UNCHANGED <<m_subscriberMap, web>>
  BY <1>0 DEF Command
<1>2. n \in CommandIds /\ m_commandId \in Nat
  BY <1>0, <1>1, ArrivesType, RemoteAssumption DEF CommandIds, TypeInv, TypeOK
<1>3. \A q \in Requests : q # r => http'[q] = http[q]
  BY <1>1 DEF Answer, TypeInv, TypeOK
<1>4. Fresh'
  BY <1>1, <1>3, ArrivesFresh, FreshKept DEF ReqInv
<1>5. CASE c \notin m_subscriberMap
  <2>1. http'[r] = "answered"
    BY <1>1, <1>5 DEF Answer
  <2>2. MapInv'
    <3>1. \A id \in CommandIds : Deliverable(id) => Deliverable(id)'
      BY <1>1, <1>5 DEF Deliverable
    <3>2. m_commandId <= m_commandId' /\ UNCHANGED m_responseMap
      BY <1>0, <1>1, <1>2, <1>5
    <3> QED BY <1>1, <1>3, <2>1, <3>1, <3>2, ArrivesFresh, MapKept DEF ReqInv
  <2>3. HeldPollIsOpen'
    <3>1. UNCHANGED <<m_subscriberMap, subscriber>>
      BY <1>1, <1>5
    <3>2. \A d \in m_subscriberMap' :
            \/ subscriber'[d].response = NoResponse
            \/ /\ d \in m_subscriberMap
               /\ subscriber'[d].response = subscriber[d].response
               /\ http'[subscriber[d].response] = http[subscriber[d].response]
      BY <1>1, <1>3, <3>1, ArrivesFresh DEF TypeInv, TypeOK, Subscribers
    <3> QED BY <3>2, HeldKept DEF ReqInv
  <2> QED BY <1>4, <2>2, <2>3 DEF ReqInv
<1>6. CASE c \in m_subscriberMap
  <2>1. http'[r] = "command" /\ m_responseMap' = [m_responseMap EXCEPT ![n] = r] /\ r # NoResponse
    BY <1>1, <1>6 DEF Remember, TypeInv, TypeOK, Requests, NoResponse
  <2>2. m_responseMap[n] = NoResponse
    BY <1>1, <1>2 DEF ReqInv, MapInv, MapNumbered
  <2>3. \A id \in CommandIds : m_responseMap'[id] = IF id = n THEN r ELSE m_responseMap[id]
    BY <2>1 DEF TypeInv, TypeOK
  <2>4. (\A id \in CommandIds : Deliverable(id) => Deliverable(id)') /\ Deliverable(n)'
    <3>1. [type |-> "command", id |-> n] \in Messages
      BY <1>2 DEF Messages
    <3>2. Tell("command", n) /\ UNCHANGED web /\ toWeb \in Seq(Messages)
      BY <1>1, <1>6 DEF TypeInv, TypeOK
    <3> QED BY <3>1, <3>2, TellDelivers
  <2>5. MapNumbered'
    BY <1>0, <1>1, <1>2, <2>3 DEF ReqInv, MapInv, MapNumbered, CommandIds
  <2>6. MapDistinct'
    BY <1>1, <2>3, ArrivesFresh DEF ReqInv, MapInv, MapDistinct
  <2>7. AnsweredForgotten'
    BY <1>1, <1>3, <2>1, <2>3, ArrivesFresh DEF ReqInv, MapInv, AnsweredForgotten, TypeInv, TypeOK
  <2>8. CommandsAnswerable'
    <3> SUFFICES ASSUME NEW q \in Requests, http'[q] = "command"
                 PROVE  \E id \in CommandIds : m_responseMap'[id] = q /\ Deliverable(id)'
      BY DEF CommandsAnswerable, Deliverable
    <3>1. CASE q = r
      BY <1>2, <2>3, <2>4, <3>1
    <3>2. CASE q # r
      <4>1. PICK id \in CommandIds : m_responseMap[id] = q /\ Deliverable(id)
        BY <1>3, <3>2 DEF ReqInv, MapInv, CommandsAnswerable, Deliverable
      <4>2. id # n
        BY <2>2, <4>1 DEF Requests, NoResponse
      <4> QED BY <2>3, <2>4, <4>1, <4>2
    <3> QED BY <3>1, <3>2
  <2>9. HeldPollIsOpen'
    <3>1. \A d \in m_subscriberMap' :
            d \in m_subscriberMap /\ subscriber'[d].response = subscriber[d].response
      BY <1>1, <1>6, SetCommandIdKeeps DEF TypeInv, TypeOK
    <3>2. \A d \in m_subscriberMap' :
            \/ subscriber'[d].response = NoResponse
            \/ /\ d \in m_subscriberMap
               /\ subscriber'[d].response = subscriber[d].response
               /\ http'[subscriber[d].response] = http[subscriber[d].response]
      BY <1>1, <1>3, <3>1, ArrivesFresh DEF TypeInv, TypeOK, Subscribers
    <3> QED BY <3>2, HeldKept DEF ReqInv
  <2> QED BY <1>4, <2>5, <2>6, <2>7, <2>8, <2>9 DEF ReqInv, MapInv
<1> QED BY <1>5, <1>6

LEMMA DisconnectReq ==
  ASSUME TypeInv, TypeInv', ReqInv, NEW r \in Requests, Disconnect(r)
  PROVE  ReqInv'
<1>1. /\ http[r] \in {"command", "poll"}
      /\ \A q \in Requests : http'[q] = IF q = r THEN "lost" ELSE http[q]
  BY DEF Disconnect, TypeInv, TypeOK
<1>2. UNCHANGED <<m_commandId, m_responseMap, m_subscriberMap, requests, toWeb, web>>
  BY DEF Disconnect, webVars
<1>3. Fresh'
  <2>1. ~(r > requests)
    BY <1>1 DEF ReqInv, Fresh
  <2> QED BY <1>1, <1>2, <2>1, FreshKept DEF ReqInv, TypeInv, TypeOK
<1>4. MapInv'
  BY <1>1, <1>2, MapKept DEF ReqInv, Deliverable, TypeInv, TypeOK
<1>5. \A d \in m_subscriberMap' :
        \/ subscriber'[d].response = NoResponse
        \/ subscriber'[d] = subscriber[d] /\ subscriber[d].response # r
  BY <1>2 DEF Disconnect, TypeInv, TypeOK, Subscribers
<1>6. HeldPollIsOpen'
  BY <1>1, <1>2, <1>5, HeldKept DEF ReqInv, TypeInv, TypeOK, Subscribers
<1> QED BY <1>3, <1>4, <1>6 DEF ReqInv

LEMMA WebReceivesReq ==
  ASSUME TypeInv, TypeInv', ReqInv, WebReceives
  PROVE  ReqInv'
<1>1. UNCHANGED <<m_commandId, m_responseMap, m_subscriberMap, subscriber, requests, http>>
  BY DEF WebReceives
<1>2. Fresh' /\ HeldPollIsOpen'
  BY <1>1 DEF ReqInv, Fresh, HeldPollIsOpen
<1>3. MapInv'
  BY <1>1, ReceivesDelivers, MapKept DEF ReqInv, TypeInv, TypeOK
<1> QED BY <1>2, <1>3 DEF ReqInv

LEMMA CommandResponseReq ==
  ASSUME TypeInv, TypeInv', ReqInv, NEW id \in CommandIds, CommandResponse(id)
  PROVE  ReqInv'
<1>1. /\ UNCHANGED <<m_commandId, m_subscriberMap, subscriber, requests, toWeb>>
      /\ \A other \in CommandIds \ {id} : Deliverable(other) => Deliverable(other)'
  BY DEF CommandResponse, Deliverable, TypeInv, TypeOK
<1>2. CASE m_responseMap[id] # NoResponse /\ http[m_responseMap[id]] # "lost"
  <2> DEFINE r == m_responseMap[id]
  <2>1. r \in Requests /\ http[r] = "command"
    BY <1>2 DEF ReqInv, MapInv, AnsweredForgotten, TypeInv, TypeOK
  <2>2. \A q \in Requests : http'[q] = IF q = r THEN "answered" ELSE http[q]
    BY <1>2 DEF CommandResponse, Answer
  <2>3. \A i \in CommandIds : m_responseMap'[i] = IF i = id THEN NoResponse ELSE m_responseMap[i]
    BY <1>2 DEF CommandResponse, ResponseDone, TypeInv, TypeOK
  <2>4. \A i \in CommandIds \ {id} : m_responseMap[i] # r
    BY <1>2 DEF ReqInv, MapInv, MapDistinct
  <2> HIDE DEF r
  <2>5. Fresh'
    <3>1. ~(r > requests)
      BY <2>1 DEF ReqInv, Fresh
    <3> QED BY <1>1, <2>2, <3>1, FreshKept DEF ReqInv, TypeInv, TypeOK
  <2>6. MapNumbered' /\ MapDistinct'
    BY <1>1, <2>3 DEF ReqInv, MapInv, MapNumbered, MapDistinct
  <2>7. AnsweredForgotten'
    BY <2>2, <2>3, <2>4 DEF ReqInv, MapInv, AnsweredForgotten, TypeInv, TypeOK
  <2>8. CommandsAnswerable'
    <3> SUFFICES ASSUME NEW q \in Requests, http'[q] = "command"
                 PROVE  \E i \in CommandIds : m_responseMap'[i] = q /\ Deliverable(i)'
      BY DEF CommandsAnswerable, Deliverable
    <3>1. q # r /\ http[q] = "command"
      BY <2>2
    <3>2. PICK i \in CommandIds : m_responseMap[i] = q /\ Deliverable(i)
      BY <3>1 DEF ReqInv, MapInv, CommandsAnswerable, Deliverable
    <3>3. i # id
      BY <3>1, <3>2 DEF r
    <3> QED BY <1>1, <2>3, <3>2, <3>3
  <2>9. HeldPollIsOpen'
    <3>1. \A d \in m_subscriberMap : subscriber[d].response # r
      BY <2>1 DEF ReqInv, HeldPollIsOpen, Requests, NoResponse
    <3> QED BY <1>1, <2>2, <3>1, HeldKept DEF ReqInv, TypeInv, TypeOK, Subscribers
  <2> QED BY <2>5, <2>6, <2>7, <2>8, <2>9 DEF ReqInv, MapInv
<1>3. CASE ~(m_responseMap[id] # NoResponse /\ http[m_responseMap[id]] # "lost")
  <2>1. UNCHANGED <<http, m_responseMap>>
    BY <1>3 DEF CommandResponse
  <2>2. Fresh' /\ HeldPollIsOpen' /\ MapNumbered' /\ MapDistinct' /\ AnsweredForgotten'
    BY <1>1, <2>1 DEF ReqInv, MapInv, Fresh, HeldPollIsOpen, MapNumbered, MapDistinct,
                      AnsweredForgotten
  <2>3. CommandsAnswerable'
    <3> SUFFICES ASSUME NEW q \in Requests, http'[q] = "command"
                 PROVE  \E i \in CommandIds : m_responseMap'[i] = q /\ Deliverable(i)'
      BY DEF CommandsAnswerable, Deliverable
    <3>1. PICK i \in CommandIds : m_responseMap[i] = q /\ Deliverable(i)
      BY <2>1 DEF ReqInv, MapInv, CommandsAnswerable, Deliverable
    <3>2. i # id
      BY <1>3, <2>1, <3>1 DEF Requests, NoResponse
    <3> QED BY <1>1, <2>1, <3>1, <3>2
  <2> QED BY <2>2, <2>3 DEF ReqInv, MapInv
<1> QED BY <1>2, <1>3

LEMMA TimelineUpdateReq ==
  ASSUME TypeInv, TypeInv', ReqInv, NEW id \in 0 .. m_commandId, NEW parsed \in BOOLEAN,
         TimelineUpdate(id, parsed)
  PROVE  ReqInv'
<1> DEFINE queued == [c \in Clients |->
             IF parsed THEN QueueTimeline(subscriber[c], id) ELSE subscriber[c]]
           R == UNION {CompletedBy(subscriber[c]) : c \in m_subscriberMap}
<1>1. /\ subscriber' = [c \in Clients |->
           IF c \in m_subscriberMap THEN SendUpdate(queued[c]) ELSE subscriber[c]]
      /\ Answer(R)
      /\ UNCHANGED <<m_commandId, m_responseMap, m_subscriberMap, requests, webVars>>
  BY DEF TimelineUpdate
<1>2. \A d \in Clients : /\ queued[d] \in Subscribers
                         /\ queued[d].poll = subscriber[d].poll
                         /\ queued[d].response = subscriber[d].response
  <2>1. id \in PlayerIds
    BY RemoteAssumption DEF TypeInv, TypeOK, PlayerIds
  <2>2. \A d \in Clients : subscriber[d] \in Subscribers
    BY DEF TypeInv, TypeOK
  <2> QED BY <2>1, <2>2, QueueTimelineType, QueueTimelineKeeps
<1> HIDE DEF queued
<1>3. \A d \in m_subscriberMap :
        subscriber'[d].response = IF subscriber[d].poll THEN NoResponse ELSE subscriber[d].response
  BY <1>1, <1>2, SendUpdateResponse DEF TypeInv, TypeOK
<1>4. \A q \in R : \E c \in m_subscriberMap :
        subscriber[c].poll /\ subscriber[c].response = q /\ q # NoResponse
  BY DEF CompletedBy
<1> HIDE DEF R
<1>5. \A q \in R : http[q] = "poll"
  BY <1>4 DEF ReqInv, HeldPollIsOpen
<1>6. \A q \in Requests : http'[q] = IF q \in R THEN "answered" ELSE http[q]
  BY <1>1 DEF Answer
<1>7. Fresh'
  <2>1. \A q \in Requests : q > requests => http[q] = "none"
    BY DEF ReqInv, Fresh
  <2> QED BY <1>1, <1>5, <1>6, <2>1, FreshKept DEF ReqInv, TypeInv, TypeOK
<1>8. MapInv'
  BY <1>1, <1>5, <1>6, MapKept DEF ReqInv, webVars, Deliverable, TypeInv, TypeOK
<1>9. HeldPollIsOpen'
  <2>1. ASSUME NEW d \in m_subscriberMap, ~subscriber[d].poll, subscriber[d].response # NoResponse
        PROVE  subscriber[d].response \notin R
    BY <1>4, <2>1 DEF ReqInv, HeldPollIsOpen
  <2> QED BY <1>1, <1>3, <1>6, <2>1, HeldKept DEF ReqInv, TypeInv, TypeOK, Subscribers
<1> QED BY <1>7, <1>8, <1>9 DEF ReqInv

LEMMA CheckSubscribersReq ==
  ASSUME TypeInv, TypeInv', ReqInv, CheckSubscribers
  PROVE  ReqInv'
<1> DEFINE subs == [c \in Clients |->
             IF c \in m_subscriberMap THEN [subscriber[c] EXCEPT !.age = @ + 1] ELSE subscriber[c]]
<1>1. /\ Remove(Overdue, subs)
      /\ UNCHANGED <<m_commandId, m_responseMap, requests, http, web>>
  BY DEF CheckSubscribers
<1>2. \A d \in Clients : subs[d].response = subscriber[d].response
  BY DEF TypeInv, TypeOK, Subscribers
<1> HIDE DEF subs
<1>3. Fresh'
  BY <1>1 DEF ReqInv, Fresh
<1>4. MapInv'
  <2>1. \A id \in CommandIds : Deliverable(id) => Deliverable(id)'
    BY <1>1, TellIfDelivers DEF Remove
  <2> QED BY <1>1, <2>1, MapKept DEF ReqInv, TypeInv, TypeOK
<1>5. HeldPollIsOpen'
  <2>1. \A d \in m_subscriberMap' :
          d \in m_subscriberMap /\ subscriber'[d].response = subscriber[d].response
    BY <1>1, <1>2, RemoveHeld DEF TypeInv, TypeOK
  <2> QED BY <1>1, <2>1, HeldKept DEF ReqInv
<1> QED BY <1>3, <1>4, <1>5 DEF ReqInv

-----------------------------------------------------------------------------
(* The theorems.                                                           *)

LEMMA InitReq == Init => ReqInv
<1> SUFFICES ASSUME Init PROVE ReqInv
  OBVIOUS
<1>1. Fresh /\ HeldPollIsOpen /\ CommandsAnswerable
  BY DEF Init, Fresh, HeldPollIsOpen, CommandsAnswerable
<1>2. MapNumbered /\ MapDistinct /\ AnsweredForgotten
  BY DEF Init, MapNumbered, MapDistinct, AnsweredForgotten
<1> QED BY <1>1, <1>2 DEF ReqInv, MapInv

LEMMA NextReq == TypeInv /\ TypeInv' /\ ReqInv /\ [Next]_vars => ReqInv'
<1> SUFFICES ASSUME TypeInv, TypeInv', ReqInv, [Next]_vars PROVE ReqInv'
  OBVIOUS
<1>1. CASE BadRequest
  BY <1>1, BadRequestReq
<1>2. CASE \E c \in Clients : Subscribe(c)
  BY <1>2, SubscribeReq
<1>3. CASE \E c \in Clients, wait \in BOOLEAN : Poll(c, wait)
  BY <1>3, PollReq
<1>4. CASE \E c \in Clients : Unsubscribe(c)
  BY <1>4, UnsubscribeReq
<1>5. CASE \E c \in Clients : Command(c)
  BY <1>5, CommandReq
<1>6. CASE \E r \in Requests : Disconnect(r)
  BY <1>6, DisconnectReq
<1>7. CASE WebReceives
  BY <1>7, WebReceivesReq
<1>8. CASE \E id \in CommandIds : CommandResponse(id)
  BY <1>8, CommandResponseReq
<1>9. CASE \E id \in 0 .. m_commandId, parsed \in BOOLEAN : TimelineUpdate(id, parsed)
  BY <1>9, TimelineUpdateReq
<1>10. CASE CheckSubscribers
  BY <1>10, CheckSubscribersReq
<1>11. CASE UNCHANGED vars
  BY <1>11 DEF vars, webVars, ReqInv, Fresh, MapInv, MapNumbered, MapDistinct,
               AnsweredForgotten, CommandsAnswerable, HeldPollIsOpen
<1> QED BY <1>1, <1>2, <1>3, <1>4, <1>5, <1>6, <1>7, <1>8, <1>9, <1>10, <1>11 DEF Next

LEMMA ReqInvariant == Spec => []ReqInv
BY InitType, NextType, InitReq, NextReq, PTL DEF Spec

\* A command that waits for its answer can be answered: its response is in
\* m_responseMap under a number that the web client owes or will read.
THEOREM CommandsCanBeAnswered == Spec => []CommandsAnswerable
<1>1. ReqInv => CommandsAnswerable
  BY DEF ReqInv, MapInv
<1> QED BY <1>1, ReqInvariant, PTL

\* No response is ended twice: the one that a command has left in
\* m_responseMap is open, or its connection was lost (responseDone).
THEOREM AnsweredOnce == Spec => []AnsweredForgotten
<1>1. ReqInv => AnsweredForgotten
  BY DEF ReqInv, MapInv
<1> QED BY <1>1, ReqInvariant, PTL

\* The response that a poll subscriber holds is open and held by nobody else
\* (setHTTPResponse, sendUpdate, the QPointer m_response).
THEOREM HeldPollsAreOpen == Spec => []HeldPollIsOpen
<1>1. ReqInv => HeldPollIsOpen
  BY DEF ReqInv
<1> QED BY <1>1, ReqInvariant, PTL
=============================================================================
