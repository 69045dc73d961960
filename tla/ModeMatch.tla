------------------------------ MODULE ModeMatch ------------------------------
(***************************************************************************)
(* The mode selection algorithms of the display subsystem: the pure        *)
(* functions of DisplayManager (findBestMatch, findBestMode,               *)
(* isRateMultipleOf) and the mode search of DisplayComponent's "switch"    *)
(* host command.                                                           *)
(*                                                                         *)
(* The modes of one display are a sequence of records; the code's mode ids *)
(* 0, 1, 2, ... are the positions 1, 2, 3, ... and the code's -1 ("no such *)
(* mode") is NoMode.  Refresh rates are in millihertz, so that the code's  *)
(* float comparisons (0.01 Hz, 0.5 Hz, 1 Hz) are exact.                    *)
(***************************************************************************)
EXTENDS Integers, Sequences, FiniteSetsExt, SequencesExt

NoMode == 0

Ids(modes) == 1 .. Len(modes)

Distance(a, b) == IF a > b THEN a - b ELSE b - a

SameResolution(m, n) ==
  m.width = n.width /\ m.height = n.height /\ m.bpp = n.bpp

-----------------------------------------------------------------------------
(* Rates.                                                                  *)

\* lrint(): to the nearest integer number of hertz, halves to even.
RoundHz(rate) ==
  LET hz   == rate \div 1000
      rest == rate % 1000
  IN  IF rest > 500 \/ (rest = 500 /\ hz % 2 = 1) THEN hz + 1 ELSE hz

\* Plausible slip: the tolerance of an exact match is not scaled down.
LooseRateMultipleOf(refresh, multiple, exact) ==
  /\ RoundHz(refresh) # 0
  /\ LET newRate == (RoundHz(multiple) \div RoundHz(refresh)) * refresh
     IN  newRate >= 1000 /\ Distance(newRate, multiple) < 1000

\* Is the display rate "multiple" a whole multiple of the video rate?
IsRateMultipleOf(refresh, multiple, exact) ==
  /\ RoundHz(refresh) # 0
  /\ LET factor  == RoundHz(multiple) \div RoundHz(refresh)
         newRate == factor * refresh
     IN  /\ newRate >= 1000
         /\ Distance(newRate, multiple) < IF exact THEN 10 * factor ELSE 1000

-----------------------------------------------------------------------------
(* findBestMatch: the mode whose rate suits a video.                       *)

MatchRes           == 1000
MatchRateExact     == 200
MatchRateMultiple  == 75
MatchRateClose     == 50
MatchMultipleClose == 25
MatchInterlace     == 10
MatchCurrent       == 5

\* The rates that refreshrate.avoid_25hz_30hz rules out.
Avoidable(rate) == Distance(rate, 30000) < 500 \/ Distance(rate, 25000) < 500

Candidates(modes, avoid) ==
  {id \in Ids(modes) : ~(avoid /\ Avoidable(modes[id].rate))}

\* The weight of one candidate for a progressive video of the given rate.
Weight(modes, current, id, rate) ==
  LET m == modes[id]
      Score(test, points) == IF test THEN points ELSE 0
  IN  Score(SameResolution(m, modes[current]), MatchRes)
      + Score(Distance(m.rate, rate) <= 10, MatchRateExact)
      + Score(IsRateMultipleOf(rate, m.rate, TRUE), MatchRateMultiple)
      + Score(Distance(m.rate, rate) <= 500, MatchRateClose)
      + Score(IsRateMultipleOf(rate, m.rate, FALSE), MatchMultipleClose)
      + Score(~m.interlaced, MatchInterlace)
      + Score(id = current, MatchCurrent)

\* The first of the heaviest candidates, if its resolution matches.
FindBestMatch(modes, current, rate, avoid) ==
  IF current = NoMode THEN NoMode ELSE
    LET W(id) == Weight(modes, current, id, rate)
        best  == {id \in Candidates(modes, avoid) :
                    \A other \in Candidates(modes, avoid) : W(id) >= W(other)}
    IN  IF best # {} /\ W(Min(best)) > MatchRes THEN Min(best) ELSE NoMode

-----------------------------------------------------------------------------
(* findBestMode: the best mode whatever plays.                             *)

\* Does a candidate replace the best mode so far?  Equal modes replace.
Improves(best, candidate) ==
  /\ best.interlaced \/ ~candidate.interlaced
  /\ best.bpp <= candidate.bpp
  /\ best.width <= candidate.width
  /\ best.height <= candidate.height
  /\ best.rate <= candidate.rate

\* best[i] is the best of the first i modes.
FindBestMode(modes) ==
  LET best[i \in 0 .. Len(modes)] ==
        IF i = 0 THEN NoMode
        ELSE IF best[i - 1] = NoMode \/ Improves(modes[best[i - 1]], modes[i]) THEN i
        ELSE best[i - 1]
  IN  best[Len(modes)]

-----------------------------------------------------------------------------
(* switchCommand: the mode nearest to a request typed by the user.         *)

Comparable(m, request) ==
  SameResolution(m, request) /\ m.interlaced = request.interlaced

\* The first comparable mode with the smallest difference in rate.
FindRequestedMode(modes, request) ==
  LET D(id)  == Distance(modes[id].rate, request.rate)
      usable == {id \in Ids(modes) : Comparable(modes[id], request)}
      best   == {id \in usable : \A other \in usable : D(id) <= D(other)}
  IN  IF best = {} THEN NoMode ELSE Min(best)
=============================================================================
