----------------------------- MODULE ModeSearch -----------------------------
(***************************************************************************)
(* Asks the three mode searches of ModeMatch one question each, about any  *)
(* list of modes, and says when the answers are right.  One state is one   *)
(* call: SearchInit chooses the inputs, Evaluate computes the answers.     *)
(***************************************************************************)
EXTENDS ModeMatch

CONSTANTS
  Offers,     \* the modes that displays offer
  FilmRates,  \* the frame rates of the videos
  MaxModes    \* the longest list of modes

\* No display has a mode at the rate of a video and another one that is fifty
\* times as fast: findBestMatch's tolerance for an exact multiple grows with
\* the factor, and from a factor of a hundred on exceeds that for an
\* approximate one.
ASSUME SearchAssumption ==
  /\ Offers \subseteq [width : Nat, height : Nat, bpp : Nat, rate : Nat, interlaced : BOOLEAN]
  /\ FilmRates \subseteq Nat
  /\ \A m, n \in Offers : \A r \in FilmRates :
       Distance(m.rate, r) <= 500 => n.rate <= 50 * r
  /\ MaxModes \in Nat

VARIABLES
  offered,    \* the modes of the display
  active,     \* the one it is in
  film,       \* the frame rate of the video, or the one that is asked for
  avoiding,   \* the setting refreshrate.avoid_25hz_30hz
  answer      \* what the three searches answer

searchVars == <<offered, active, film, avoiding, answer>>

SearchInit ==
  /\ offered \in UNION {[1 .. n -> Offers] : n \in 1 .. MaxModes}
  /\ active \in Ids(offered)
  /\ film \in FilmRates
  /\ avoiding \in BOOLEAN
  /\ answer = <<>>

Evaluate ==
  /\ answer = <<>>
  /\ answer' = [match     |-> FindBestMatch(offered, active, film, avoiding),
                best      |-> FindBestMode(offered),
                requested |-> FindRequestedMode(offered, [offered[active] EXCEPT !.rate = film])]
  /\ UNCHANGED <<offered, active, film, avoiding>>

SearchSpec == SearchInit /\ [][Evaluate]_searchVars

Answered == answer # <<>>

AnswersAreModes ==
  Answered => /\ answer.match \in Ids(offered) \cup {NoMode}
              /\ answer.best \in Ids(offered)
              /\ answer.requested \in Ids(offered)

-----------------------------------------------------------------------------
(* Properties of the answers.                                              *)

\* A rate switch never changes the resolution and never picks a mode that
\* refreshrate.avoid_25hz_30hz excludes (findBestMatch adds weights that
\* must never outvote the resolution).
MatchKeepsResolution ==
  Answered /\ answer.match # NoMode =>
    SameResolution(offered[answer.match], offered[active])
MatchRespectsAvoid ==
  Answered /\ answer.match # NoMode /\ avoiding =>
    ~Avoidable(offered[answer.match].rate)

\* What findBestMatch asks of a rate, the most important question first: is
\* it the one of the video, a multiple of it, close to it, about a multiple?
Virtues(rate) ==
  << Distance(rate, film) <= 10,
     IsRateMultipleOf(film, rate, TRUE),
     Distance(rate, film) <= 500,
     IsRateMultipleOf(film, rate, FALSE) >>

\* What counts as a multiple of the video's rate is one: the display shows
\* each frame for k refreshes, and strays by less than 0.01 Hz for each.
MultiplesAreExact ==
  \A id \in Ids(offered) :
    LET rate == offered[id].rate
    IN  IsRateMultipleOf(film, rate, TRUE) =>
          \E k \in 1 .. RoundHz(rate) : Distance(k * film, rate) < 10 * k

\* The first question on which two rates differ decides between them.
SuitsBetter(a, b) ==
  \E i \in 1 .. 4 : /\ Virtues(a)[i] /\ ~Virtues(b)[i]
                    /\ \A j \in 1 .. i - 1 : Virtues(a)[j] <=> Virtues(b)[j]
SuitsAsWell(a, b) ==
  \A i \in 1 .. 4 : Virtues(a)[i] <=> Virtues(b)[i]

\* The additive weights of findBestMatch order the modes as intended: the
\* answers to the questions about the rate are compared like the letters of
\* two words, so that no number of lesser advantages makes up for a greater
\* one; only between rates that suit as well do interlacing, then the mode
\* already active, then the position decide.
Better(a, b) ==
  LET ma == offered[a]
      mb == offered[b]
  IN  \/ SuitsBetter(ma.rate, mb.rate)
      \/ /\ SuitsAsWell(ma.rate, mb.rate)
         /\ \/ ~ma.interlaced /\ mb.interlaced
            \/ /\ ma.interlaced = mb.interlaced
               /\ \/ a = active
                  \/ b # active /\ a < b
MatchIsLexicographic ==
  Answered /\ answer.match # NoMode =>
    \A other \in Candidates(offered, avoiding) \ {answer.match} :
      SameResolution(offered[other], offered[active]) => Better(answer.match, other)

\* While the active mode is not excluded, a switch happens only towards a
\* mode that suits the video better: with no suitable mode the display is
\* left alone (the weight MATCH_WEIGHT_CURRENT).
NoPointlessSwitch ==
  Answered /\ active \in Candidates(offered, avoiding) /\ answer.match # active =>
    /\ answer.match # NoMode
    /\ \/ SuitsBetter(offered[answer.match].rate, offered[active].rate)
       \/ offered[active].interlaced /\ ~offered[answer.match].interlaced

\* findBestMode never settles on a mode that another mode dominates in
\* every respect it compares.
BestIsNotDominated ==
  Answered =>
    \A id \in Ids(offered) :
      Improves(offered[answer.best], offered[id]) =>
        Improves(offered[id], offered[answer.best])

\* The "switch" host command finds a mode of the requested resolution with
\* no nearer rate among them (modeDistance).
RequestedIsNearest ==
  Answered =>
    /\ Comparable(offered[answer.requested], offered[active])
    /\ \A id \in Ids(offered) : Comparable(offered[id], offered[active]) =>
         Distance(offered[answer.requested].rate, film) <= Distance(offered[id].rate, film)

\* What the three searches answer is right, on every list of modes and from
\* every current mode.  The additive weights of findBestMatch, whose sums
\* could tip the wrong way, never give up the resolution, an excluded rate
\* or a greater virtue for lesser ones; findBestMode and switchCommand,
\* which go through the list once and keep the best mode so far, end with a
\* mode that none surpasses.
ModesAreRight ==
  /\ AnswersAreModes
  /\ MatchKeepsResolution
  /\ MatchRespectsAvoid
  /\ MultiplesAreExact
  /\ MatchIsLexicographic
  /\ NoPointlessSwitch
  /\ BestIsNotDominated
  /\ RequestedIsNearest
=============================================================================
