------------------------------ MODULE MCWindow ------------------------------
(* Two screens, which QGuiApplication::screens() lists in this order.      *)
EXTENDS Window

MCFirstOf == [S \in (SUBSET Screens) \ {{}} |-> IF "s1" \in S THEN "s1" ELSE "s2"]
=============================================================================
