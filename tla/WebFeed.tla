------------------------------- MODULE WebFeed -------------------------------
(***************************************************************************)
(* What the remote control promises the web client: it is asked for        *)
(* timelines from the moment the first controller subscribes until the     *)
(* last one has gone, in the very step in which that happens.              *)
(***************************************************************************)
CONSTANT Clients

VARIABLES controllers,   \* the controllers that follow the player
          told           \* was "subscribe" the last thing the web client was told?

vars == <<controllers, told>>

Init == controllers = {} /\ told = FALSE

Join(c) ==
  /\ c \notin controllers
  /\ controllers' = controllers \cup {c}
  /\ told' = TRUE

Leave(gone) ==
  /\ gone # {}
  /\ gone \subseteq controllers
  /\ controllers' = controllers \ gone
  /\ told' = (controllers' # {})

Next == (\E c \in Clients : Join(c)) \/ (\E gone \in SUBSET Clients : Leave(gone))

Spec == Init /\ [][Next]_vars
=============================================================================
