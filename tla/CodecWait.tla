------------------------------ MODULE CodecWait ------------------------------
(***************************************************************************)
(* What CodecsFetcher promises to its users (CodecsComponent.h:106):       *)
(* a fetcher works through the items it was given, each of them is         *)
(* answered once, whether or not its download succeeds, and with the last  *)
(* answer the fetcher reports that it is done.                             *)
(***************************************************************************)
CONSTANTS Fetchers, Items

VARIABLES up,        \* whether the program runs
          waiting,   \* fetchers whose user waits for done()
          left       \* [Fetchers -> items that are not answered yet]

vars == <<up, waiting, left>>

Idle == waiting = {} /\ left = [f \in Fetchers |-> {}]

Init == ~up /\ Idle

(* The program starts, and its first fetcher may begin at once. *)
Start ==
  /\ ~up /\ up'
  /\ \/ UNCHANGED <<waiting, left>>
     \/ \E f \in Fetchers, S \in (SUBSET Items) \ {{}} :
          waiting' = {f} /\ left' = [left EXCEPT ![f] = S]

(* A fetcher with nothing to do reports at once: its user never waits. *)
Begin(f) ==
  /\ up /\ f \notin waiting
  /\ waiting' = waiting \cup {f}
  /\ \E S \in (SUBSET Items) \ {{}} : left' = [left EXCEPT ![f] = S]
  /\ UNCHANGED up

Answer(f) ==
  \E i \in left[f] :
    /\ left' = [left EXCEPT ![f] = @ \ {i}]
    /\ waiting' = IF left[f] = {i} THEN waiting \ {f} ELSE waiting
    /\ UNCHANGED up

Stop == up /\ ~up' /\ Idle'

Next == Start \/ Stop \/ \E f \in Fetchers : Begin(f) \/ Answer(f)

Safety == Init /\ [][Next]_vars
Spec   == Safety /\ \A f \in Fetchers : WF_vars(Answer(f))
==============================================================================
