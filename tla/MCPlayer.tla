------------------------------- MODULE MCPlayer -------------------------------
(***************************************************************************)
(* A television with three modes, a film that needs one of them, news that *)
(* need another, and a song without video.                                 *)
(***************************************************************************)
EXTENDS Player

CONSTANTS tv, film, news, song

Mode(rate) ==
  [width |-> 1920, height |-> 1080, bpp |-> 0, rate |-> rate, interlaced |-> FALSE]

MCModesOf == [o \in {tv} |-> <<Mode(60000), Mode(24000), Mode(50000)>>]

MCRates == {24000, 50000}

MCFrameRate == [f \in Files |-> CASE f = film -> 24000 [] f = news -> 50000 [] f = song -> 0]
=============================================================================
