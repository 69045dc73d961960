---------------------------- MODULE MCProcesses ----------------------------
(* An old and a new instance and two processes of the helper, for TLC.       *)
EXTENDS Processes

Old == "1.0"
New == "1.1"
TheVersionOf == [x \in Apps |-> IF x = "old app" THEN Old ELSE New]

Setup(uses, apps, dumps, n) ==
  [useHelper |-> uses, apps |-> apps, dumps |-> dumps, faults |-> n,
   races |-> FALSE, power |-> FALSE]

TheSetups ==
  {[Setup(FALSE, {"old app", "new app"}, {}, 0) EXCEPT !.races = TRUE],
   [Setup(TRUE, {"new app"}, {}, 1) EXCEPT !.races = TRUE],
   [Setup(TRUE, {"new app"}, {"d1"}, 0) EXCEPT !.races = TRUE],
   Setup(TRUE, {"old app", "new app"}, {}, 1),
   Setup(TRUE, {"old app", "new app"}, {"d1"}, 0),
   Setup(TRUE, {"new app"}, {"d1", "d2"}, 1),
   [Setup(FALSE, {}, {}, 0) EXCEPT !.power = TRUE]}
=============================================================================
