----------------------------- MODULE MCModeMatch -----------------------------
(***************************************************************************)
(* Evaluates the mode searches on every short list of modes.               *)
(***************************************************************************)
EXTENDS ModeSearch

\* Modes a television offers, in two resolutions, with the rates that films
\* (23.976, 24), PAL (25, 50) and NTSC (29.97, 59.94) need, and a rate that
\* is closer to a film's than it rounds to.
Mode(w, hz, i) ==
  [width |-> w, height |-> (w * 9) \div 16, bpp |-> 0, rate |-> hz, interlaced |-> i]

SomeModes ==
  {Mode(1920, hz, FALSE) : hz \in {23976, 24000, 24400, 25000, 47952, 50000, 59940}}
    \cup {Mode(1280, 24000, FALSE), Mode(1280, 60000, FALSE), Mode(1920, 50000, TRUE)}

SomeRates == {12000, 23976, 24600, 25000, 29970}
=============================================================================
