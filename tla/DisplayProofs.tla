---------------------------- MODULE DisplayProofs ----------------------------
(***************************************************************************)
(* Proofs about ModeSearch, DisplaySwitch and PlayerOutput, for any        *)
(* displays, modes, videos, devices, files and streams.                    *)
(***************************************************************************)
EXTENDS PlayerOutput, ModeSearch, SequenceTheorems, FiniteSetTheorems, TLAPS

-----------------------------------------------------------------------------
(* Lemmas about numbers and sequences.                                     *)

\* A set of natural numbers has a smallest element: of the intervals that
\* end in the set, one contains no other.
LEMMA SmallestExists ==
  ASSUME NEW S, S \subseteq Nat, S # {}
  PROVE  Min(S) \in S /\ \A y \in S : Min(S) <= y
<1> DEFINE Upto(x) == 0 .. x
           R == StrictSubsetOrdering(Nat)
           T == {Upto(x) : x \in S}
<1>1. IsWellFoundedOn(R, FiniteSubsetsOf(Nat))
  BY FS_StrictSubsetOrderingWellFounded
<1>2. ASSUME NEW x \in S
      PROVE  Upto(x) \in FiniteSubsetsOf(Nat)
  <2>1. x \in Int
    OBVIOUS
  <2>2. IsFiniteSet(0 .. x)
    BY <2>1, FS_Interval
  <2>3. 0 .. x \subseteq Nat
    BY <2>1
  <2> QED BY <2>2, <2>3 DEF FiniteSubsetsOf
<1>3. T \subseteq FiniteSubsetsOf(Nat) /\ T # {}
  BY <1>2
<1> HIDE DEF R
<1>4. PICK A \in T : \A B \in T : <<B, A>> \notin R
  <2> HIDE DEF T
  <2> QED BY <1>1, <1>3, WFMin
<1>5. PICK m \in S : A = Upto(m)
  OBVIOUS
<1>6. ASSUME NEW y \in S
      PROVE  m <= y
  <2>1. <<Upto(y), Upto(m)>> \notin R
    BY <1>4, <1>5
  <2>2. CASE y < m
    <3>1. Upto(y) \subseteq Upto(m) /\ m \in Upto(m) /\ m \notin Upto(y)
      BY <2>2
    <3>2. Upto(y) \subseteq Nat /\ Upto(m) \subseteq Nat
      OBVIOUS
    <3> HIDE DEF Upto
    <3> QED BY <2>1, <3>1, <3>2 DEF R, StrictSubsetOrdering
  <2> QED BY <2>2
<1> QED BY <1>6 DEF Min

\* Induction, with a set in place of the predicate.
LEMMA InductionOverSet ==
  ASSUME NEW S, 0 \in S, \A n \in Nat : n \in S => n + 1 \in S
  PROVE  Nat \subseteq S
<1> DEFINE T == Nat \ S
<1> SUFFICES ASSUME T # {} PROVE FALSE
  OBVIOUS
<1>1. PICK m \in T : \A k \in T : m <= k
  <2>1. T \subseteq Nat
    OBVIOUS
  <2> HIDE DEF T
  <2> QED BY <2>1, SmallestExists
<1>2. m # 0 /\ m \in Nat
  OBVIOUS
<1>3. m - 1 \in Nat /\ m - 1 \in 0 .. m - 1
  BY <1>2
<1>4. m - 1 \in S
  BY <1>1, <1>3
<1>5. (m - 1) + 1 \in S
  BY <1>3, <1>4
<1> QED BY <1>2, <1>5

(* The first m values of V that a step makes of each other.                 *)
Runs(f, V, m, zero, step) ==
  /\ f \in [0 .. m -> V]
  /\ f[0] = zero
  /\ \A i \in 1 .. m : f[i] = step[<<f[i - 1], i>>]

(* A step that stays in V can be repeated n times.                          *)
LEMMA RecursionExists ==
  ASSUME NEW V, NEW n \in Nat, NEW zero \in V, NEW step \in [V \X (1 .. n) -> V]
  PROVE  \E f : Runs(f, V, n, zero, step)
<1> DEFINE S == {m \in Nat : m <= n => \E f : Runs(f, V, m, zero, step)}
<1>1. 0 \in S
  <2> DEFINE g == [i \in 0 .. 0 |-> zero]
  <2>1. Runs(g, V, 0, zero, step)
    BY DEF Runs
  <2> QED BY <2>1
<1>2. ASSUME NEW m \in Nat, m \in S
      PROVE  m + 1 \in S
  <2> SUFFICES ASSUME m + 1 <= n
               PROVE  \E f : Runs(f, V, m + 1, zero, step)
    BY DEF S
  <2>1. PICK f : Runs(f, V, m, zero, step)
    BY <1>2
  <2> DEFINE g == [i \in 0 .. m + 1 |-> IF i <= m THEN f[i] ELSE step[<<f[m], m + 1>>]]
  <2>2. f[m] \in V /\ step[<<f[m], m + 1>>] \in V
    BY <2>1 DEF Runs
  <2>3. g \in [0 .. m + 1 -> V] /\ g[0] = zero
    BY <2>1, <2>2 DEF Runs
  <2>4. ASSUME NEW i \in 1 .. m + 1
        PROVE  g[i] = step[<<g[i - 1], i>>]
    <3>1. i - 1 \in 0 .. m /\ i - 1 \in 0 .. m + 1
      OBVIOUS
    <3>2. g[i - 1] = f[i - 1]
      BY <3>1
    <3>3. CASE i <= m
      BY <2>1, <3>2, <3>3 DEF Runs
    <3>4. CASE i = m + 1
      <4>1. i - 1 = m /\ ~(i <= m)
        BY <3>4
      <4> QED BY <3>2, <3>4, <4>1
    <3> QED BY <3>3, <3>4
  <2>5. Runs(g, V, m + 1, zero, step)
    <3> HIDE DEF g
    <3> QED BY <2>3, <2>4 DEF Runs
  <2> QED BY <2>5
<1>3. Nat \subseteq S
  <2> HIDE DEF S
  <2> QED BY <1>1, <1>2, InductionOverSet
<1>4. n \in S /\ n <= n
  BY <1>3
<1> QED BY <1>4

(* What holds at first and is kept by each step holds at the end.           *)
LEMMA AllTheWay ==
  ASSUME NEW n \in Nat, NEW T, 0 \in T, \A i \in 1 .. n : i - 1 \in T => i \in T
  PROVE  \A i \in 0 .. n : i \in T
<1> DEFINE S == {m \in Nat : m <= n => m \in T}
<1>1. 0 \in S
  OBVIOUS
<1>2. ASSUME NEW m \in Nat, m \in S
      PROVE  m + 1 \in S
  <2> SUFFICES ASSUME m + 1 <= n
               PROVE  m + 1 \in T
    OBVIOUS
  <2>1. m \in T /\ m + 1 \in 1 .. n /\ (m + 1) - 1 = m
    BY <1>2
  <2> QED BY <2>1
<1>3. Nat \subseteq S
  <2> HIDE DEF S
  <2> QED BY <1>1, <1>2, InductionOverSet
<1>4. ASSUME NEW i \in 0 .. n
      PROVE  i \in T
  <2>1. i \in Nat /\ i <= n
    OBVIOUS
  <2>2. i \in S
    BY <1>3, <2>1
  <2> QED BY <2>1, <2>2
<1> QED BY <1>4

LEMMA SeqFacts ==
  ASSUME NEW S, NEW s \in Seq(S)
  PROVE  /\ Len(s) \in Nat /\ DOMAIN s = 1 .. Len(s)
         /\ \A i \in DOMAIN s : s[i] \in S
         /\ Range(s) \subseteq S
BY LenProperties, ElementOfSeq DEF Range

\* Putting a new element into a sequence without repetitions.
LEMMA InsertAtFacts ==
  ASSUME NEW S, NEW s \in Seq(S), IsInjective(s), NEW e \in S, e \notin Range(s),
         NEW i \in 1 .. Len(s) + 1
  PROVE  LET t == InsertAt(s, i, e)
         IN  t \in Seq(S) /\ IsInjective(t) /\ Range(t) = Range(s) \cup {e}
<1> DEFINE a == SubSeq(s, 1, i - 1)
           b == SubSeq(s, i, Len(s))
           t == (a \o <<e>>) \o b
<1>1. Len(s) \in Nat /\ DOMAIN s = 1 .. Len(s) /\ \A j \in DOMAIN s : s[j] \in S
  BY SeqFacts
<1>2. a \in Seq(S) /\ Len(a) = i - 1 /\ \A j \in 1 .. i - 1 : a[j] = s[j]
  BY <1>1, SubSeqProperties
<1>3. b \in Seq(S) /\ Len(b) = Len(s) - i + 1 /\ \A j \in 1 .. Len(s) - i + 1 : b[j] = s[i + j - 1]
  BY <1>1, SubSeqProperties
<1>4. <<e>> \in Seq(S) /\ Len(<<e>>) = 1 /\ <<e>>[1] = e
  OBVIOUS
<1> HIDE DEF a, b
<1>5. /\ a \o <<e>> \in Seq(S) /\ Len(a \o <<e>>) = i
      /\ \A j \in 1 .. i : (a \o <<e>>)[j] = IF j < i THEN s[j] ELSE e
  BY <1>2, <1>4, ConcatProperties
<1>6. /\ t \in Seq(S) /\ Len(t) = Len(s) + 1
      /\ \A j \in 1 .. Len(s) + 1 :
           t[j] = IF j < i THEN s[j] ELSE IF j = i THEN e ELSE s[j - 1]
  BY <1>1, <1>3, <1>5, ConcatProperties
<1>7. DOMAIN t = 1 .. Len(s) + 1
  BY <1>6, SeqFacts
<1>8. InsertAt(s, i, e) = t
  BY DEF InsertAt, a, b
<1> HIDE DEF t
<1>9. \A j \in DOMAIN s : s[j] # e
  BY DEF Range
<1>10. IsInjective(t)
  <2> SUFFICES ASSUME NEW j \in DOMAIN t, NEW k \in DOMAIN t, t[j] = t[k], j < k
               PROVE  FALSE
    BY <1>1, <1>7 DEF IsInjective
  <2>1. CASE k < i
    BY <1>1, <1>6, <1>7, <2>1 DEF IsInjective
  <2>2. CASE j < i /\ k = i
    BY <1>1, <1>6, <1>7, <1>9, <2>2
  <2>3. CASE j < i /\ k > i
    BY <1>1, <1>6, <1>7, <2>3 DEF IsInjective
  <2>4. CASE j = i
    <3>1. k - 1 \in DOMAIN s /\ t[k] = s[k - 1] /\ t[j] = e
      BY <1>1, <1>6, <1>7, <2>4
    <3> QED BY <1>9, <3>1
  <2>5. CASE j > i
    BY <1>1, <1>6, <1>7, <2>5 DEF IsInjective
  <2> QED BY <1>1, <1>7, <2>1, <2>2, <2>3, <2>4, <2>5
<1>11. Range(t) = Range(s) \cup {e}
  <2>1. ASSUME NEW j \in DOMAIN t
        PROVE  t[j] \in Range(s) \cup {e}
    BY <1>1, <1>6, <1>7 DEF Range
  <2>2. ASSUME NEW j \in DOMAIN s
        PROVE  s[j] \in Range(t)
    <3>1. CASE j < i
      <4>1. j \in DOMAIN t /\ t[j] = s[j]
        BY <1>1, <1>6, <1>7, <3>1
      <4> QED BY <4>1 DEF Range
    <3>2. CASE j >= i
      <4>1. j + 1 \in DOMAIN t /\ t[j + 1] = s[j]
        BY <1>1, <1>6, <1>7, <3>2
      <4> QED BY <4>1 DEF Range
    <3> QED BY <1>1, <3>1, <3>2
  <2>3. e \in Range(t)
    <3>1. i \in DOMAIN t /\ t[i] = e
      BY <1>1, <1>6, <1>7
    <3> QED BY <3>1 DEF Range
  <2> QED BY <2>1, <2>2, <2>3 DEF Range
<1> QED BY <1>6, <1>8, <1>10, <1>11

\* Taking an element out of it.
LEMMA RemoveAtFacts ==
  ASSUME NEW S, NEW s \in Seq(S), IsInjective(s), NEW i \in DOMAIN s
  PROVE  LET t == RemoveAt(s, i)
         IN  t \in Seq(S) /\ IsInjective(t) /\ Range(t) = Range(s) \ {s[i]}
<1> DEFINE a == SubSeq(s, 1, i - 1)
           b == SubSeq(s, i + 1, Len(s))
           t == a \o b
<1>1. /\ Len(s) \in Nat /\ DOMAIN s = 1 .. Len(s) /\ i \in 1 .. Len(s)
      /\ \A j \in DOMAIN s : s[j] \in S
  BY SeqFacts
<1>2. a \in Seq(S) /\ Len(a) = i - 1 /\ \A j \in 1 .. i - 1 : a[j] = s[j]
  BY <1>1, SubSeqProperties
<1>3. b \in Seq(S) /\ Len(b) = Len(s) - i /\ \A j \in 1 .. Len(s) - i : b[j] = s[i + j]
  BY <1>1, SubSeqProperties
<1> HIDE DEF a, b
<1>4. /\ t \in Seq(S) /\ Len(t) = Len(s) - 1
      /\ \A j \in 1 .. Len(s) - 1 : t[j] = IF j < i THEN s[j] ELSE s[j + 1]
  <2>1. /\ t \in Seq(S) /\ Len(t) = Len(a) + Len(b)
        /\ \A j \in 1 .. Len(a) + Len(b) :
             t[j] = IF j <= Len(a) THEN a[j] ELSE b[j - Len(a)]
    BY <1>2, <1>3, ConcatProperties
  <2> HIDE DEF t
  <2>2. Len(a) + Len(b) = Len(s) - 1
    BY <1>1, <1>2, <1>3
  <2>3. ASSUME NEW j \in 1 .. Len(s) - 1
        PROVE  t[j] = IF j < i THEN s[j] ELSE s[j + 1]
    <3>1. CASE j < i
      <4>1. j \in 1 .. i - 1 /\ j <= Len(a)
        BY <1>1, <1>2, <3>1
      <4> QED BY <1>2, <2>1, <2>2, <3>1, <4>1
    <3>2. CASE j >= i
      <4>1. /\ j - (i - 1) \in 1 .. Len(s) - i /\ i + (j - (i - 1)) = j + 1
            /\ ~(j <= Len(a)) /\ j - Len(a) = j - (i - 1) /\ ~(j < i)
        BY <1>1, <1>2, <3>2
      <4> QED BY <1>3, <2>1, <2>2, <4>1
    <3> QED BY <1>1, <3>1, <3>2
  <2> QED BY <2>1, <2>2, <2>3
<1>5. DOMAIN t = 1 .. Len(s) - 1
  BY <1>4, SeqFacts
<1>6. RemoveAt(s, i) = t
  BY DEF RemoveAt, a, b
<1> HIDE DEF t
<1>7. IsInjective(t)
  BY <1>1, <1>4, <1>5 DEF IsInjective
<1>8. Range(t) = Range(s) \ {s[i]}
  <2>1. ASSUME NEW j \in DOMAIN t
        PROVE  t[j] \in Range(s) \ {s[i]}
    BY <1>1, <1>4, <1>5 DEF Range, IsInjective
  <2>2. ASSUME NEW j \in DOMAIN s, s[j] # s[i]
        PROVE  s[j] \in Range(t)
    <3>1. CASE j < i
      <4>1. j \in DOMAIN t /\ t[j] = s[j]
        BY <1>1, <1>4, <1>5, <3>1
      <4> QED BY <4>1 DEF Range
    <3>2. CASE j > i
      <4>1. j - 1 \in DOMAIN t /\ t[j - 1] = s[j]
        BY <1>1, <1>4, <1>5, <3>2
      <4> QED BY <4>1 DEF Range
    <3> QED BY <1>1, <2>2, <3>1, <3>2
  <2> QED BY <2>1, <2>2 DEF Range
<1> QED BY <1>4, <1>6, <1>7, <1>8


-----------------------------------------------------------------------------
(* The invariant of DisplaySwitch.                                         *)

\* The shape of the state; while the flag says that a timer runs, one does.
TypeInv ==
  /\ TypeOK
  /\ osMode \in [Outputs -> Nat] /\ home \in [Outputs -> Nat]
  /\ m_initTimer => shots > 0

\* The output whose mode is recorded is the one the window is still on.
RecordInWindow ==
  ~disturbed /\ Recorded => m_lastDisplay \in DOMAIN outputs /\ outputs[m_lastDisplay] = window

\* If a rate f that was reported is not that of its output any more, news are
\* on their way.
Noticed(f) ==
  f.output \in listening /\ f.rate # ModesOf[f.output][osMode[f.output]].rate
    => notice \/ shots > 0

RecordInv  == RecordIsHome /\ RecordInWindow
DisplayInv == TypeInv /\ StaleIsNoticed /\ Noticed(displayFps) /\ RecordInv

-----------------------------------------------------------------------------
(* Displays, modes and rates.                                              *)

LEMMA ModesFacts ==
  ASSUME NEW o \in Outputs
  PROVE  /\ ModesOf[o] \in Seq(Modes)
         /\ Ids(ModesOf[o]) = DOMAIN ModesOf[o] /\ Ids(ModesOf[o]) \subseteq Nat \ {NoMode}
         /\ \A m \in Ids(ModesOf[o]) : ModesOf[o][m].rate \in Nat
<1>1. ModesOf[o] \in Seq(Modes)
  BY DisplayAssumption
<1>2. /\ Len(ModesOf[o]) \in Nat /\ DOMAIN ModesOf[o] = 1 .. Len(ModesOf[o])
      /\ \A m \in DOMAIN ModesOf[o] : ModesOf[o][m] \in Modes
  BY <1>1, SeqFacts
<1>3. Ids(ModesOf[o]) = DOMAIN ModesOf[o] /\ Ids(ModesOf[o]) \subseteq Nat \ {NoMode}
  BY <1>2 DEF Ids, NoMode
<1>4. \A m \in DOMAIN ModesOf[o] : ModesOf[o][m].rate \in Nat
  BY <1>2 DEF Modes
<1> QED BY <1>1, <1>3, <1>4

LEMMA DisplayOfValid ==
  ASSUME NEW displays \in Seq(Outputs), NEW o, DisplayOf(o, displays) # NoDisplay
  PROVE  /\ DisplayOf(o, displays) \in DOMAIN displays /\ DisplayOf(o, displays) \in Nat
         /\ displays[DisplayOf(o, displays)] = o
         /\ o \in Outputs
<1>1. \E d \in DOMAIN displays : displays[d] = o
  BY DEF DisplayOf
<1>2. DisplayOf(o, displays) = CHOOSE d \in DOMAIN displays : displays[d] = o
  BY <1>1 DEF DisplayOf
<1>3. DisplayOf(o, displays) \in DOMAIN displays /\ displays[DisplayOf(o, displays)] = o
  BY <1>1, <1>2
<1> QED BY <1>3, SeqFacts

\* currentRefreshRate is the rate of the display it names.
LEMMA FpsValid ==
  ASSUME NEW displays \in Seq(Outputs), NEW mode, \A o \in Outputs : mode[o] \in Ids(ModesOf[o])
  PROVE  LET f == Fps(displays, mode)
         IN  /\ f \in [output : Outputs \cup {NoOutput}, rate : Nat]
             /\ f.output \in Outputs => f.rate = ModesOf[f.output][mode[f.output]].rate
<1>1. CASE DisplayOf(window, displays) = NoDisplay
  <2>1. Fps(displays, mode) = [output |-> NoOutput, rate |-> 0]
    BY <1>1 DEF Fps
  <2> QED BY <2>1, DisplayAssumption
<1>2. CASE DisplayOf(window, displays) # NoDisplay
  <2>1. Fps(displays, mode) = [output |-> window, rate |-> ModesOf[window][mode[window]].rate]
    BY <1>2 DEF Fps
  <2>2. window \in Outputs
    BY <1>2, DisplayOfValid
  <2>3. ModesOf[window][mode[window]].rate \in Nat
    BY <2>2, ModesFacts
  <2> QED BY <2>1, <2>2, <2>3
<1> QED BY <1>1, <1>2

\* findBestMatch finds no mode, or one of the list.
LEMMA FindBestMatchValid ==
  ASSUME NEW modes, Len(modes) \in Nat, NEW current, NEW rate, NEW avoid
  PROVE  FindBestMatch(modes, current, rate, avoid) \in {NoMode} \cup Ids(modes)
<1> DEFINE W(id) == Weight(modes, current, id, rate)
           best  == {id \in Candidates(modes, avoid) :
                       \A other \in Candidates(modes, avoid) : W(id) >= W(other)}
<1>1. best \subseteq Ids(modes) /\ Ids(modes) \subseteq Nat
  BY DEF Candidates, Ids
<1>2. FindBestMatch(modes, current, rate, avoid) \in {NoMode, Min(best)}
  BY DEF FindBestMatch
<1>3. best = {} => FindBestMatch(modes, current, rate, avoid) = NoMode
  BY DEF FindBestMatch
<1> HIDE DEF best
<1>4. best # {} => Min(best) \in best
  BY <1>1, SmallestExists
<1> QED BY <1>1, <1>2, <1>3, <1>4

LEMMA TypeFacts ==
  ASSUME TypeInv
  PROVE  /\ outputs \in Seq(Outputs) /\ m_displays \in Seq(Outputs)
         /\ \A o \in Outputs : osMode[o] \in Ids(ModesOf[o])
         /\ Range(outputs) \subseteq Outputs
         /\ listening \subseteq Range(outputs) /\ listening \subseteq Outputs
         /\ window # NoOutput => window \in Range(outputs) /\ window \in Outputs
         /\ DisplayOf(window, outputs) # NoDisplay => window \in Range(outputs) /\ window \in Outputs
<1>1. outputs \in Seq(Outputs) /\ Range(outputs) \subseteq Outputs
  BY SeqFacts DEF TypeInv, TypeOK
<1>2. DisplayOf(window, outputs) # NoDisplay => window \in Range(outputs)
  BY <1>1, DisplayOfValid DEF Range
<1> QED BY <1>1, <1>2 DEF TypeInv, TypeOK

\* What happens to the modes is signalled for every screen that is listened to.
ModesMove ==
  /\ osMode' \in [Outputs -> Nat] /\ \A o \in Outputs : osMode'[o] \in Ids(ModesOf[o])
  /\ notice' \in BOOLEAN /\ (notice => notice')
  /\ \A o \in listening : osMode'[o] # osMode[o] => notice'

LEMMA SetDisplayModeMoves ==
  ASSUME TypeInv, NEW o \in Outputs, NEW m \in Ids(ModesOf[o]), NEW outcome,
         SetDisplayMode(o, m, outcome)
  PROVE  /\ ModesMove
         /\ osMode' = IF outcome = "applied" THEN [osMode EXCEPT ![o] = m] ELSE osMode
<1>1. osMode' = IF outcome = "applied" THEN [osMode EXCEPT ![o] = m] ELSE osMode
  BY DEF SetDisplayMode
<1>2. /\ osMode \in [Outputs -> Nat] /\ \A p \in Outputs : osMode[p] \in Ids(ModesOf[p])
      /\ notice \in BOOLEAN /\ m \in Nat /\ listening \subseteq Outputs
  BY ModesFacts, TypeFacts DEF TypeInv, TypeOK
<1>3. /\ osMode' \in [Outputs -> Nat] /\ \A p \in Outputs : osMode'[p] \in Ids(ModesOf[p])
      /\ \A p \in Outputs \ {o} : osMode'[p] = osMode[p]
  BY <1>1, <1>2
<1>4. /\ notice' \in BOOLEAN /\ (notice => notice')
      /\ o \in listening /\ osMode'[o] # osMode[o] => notice'
  BY <1>2 DEF SetDisplayMode
<1> QED BY <1>1, <1>2, <1>3, <1>4 DEF ModesMove

LEMMA NoSwitchMoves ==
  ASSUME TypeInv, NoSwitch
  PROVE  ModesMove /\ osMode' = osMode
BY DEF NoSwitch, ModesMove, TypeInv, TypeOK

-----------------------------------------------------------------------------
(* The steps of DisplaySwitch.                                             *)

\* An operation that enumerates the displays and reports the rate, before or
\* after it has set a mode.
LEMMA ReportKeeps ==
  ASSUME TypeInv, ModesMove, Initialize, UNCHANGED desktop, shots' \in 0 .. MaxShots,
         home' \in [Outputs -> Nat], \A o \in Outputs : home'[o] \in Ids(ModesOf[o]),
         disturbed' \in BOOLEAN, m_lastVideoMode' \in Nat, m_lastDisplay' \in Nat,
         displayFps' = Fps(outputs, osMode) \/ displayFps' = Fps(outputs, osMode')
  PROVE  TypeInv' /\ StaleIsNoticed' /\ Noticed(displayFps)'
<1>1. displayFps' \in [output : Outputs \cup {NoOutput}, rate : Nat]
  BY TypeFacts, FpsValid DEF ModesMove
<1>2. TypeInv'
  BY <1>1 DEF TypeInv, TypeOK, ModesMove, Initialize, desktop
<1>3. StaleIsNoticed'
  BY DEF StaleIsNoticed, Initialize, desktop
<1>4. Noticed(displayFps)'
  <2> SUFFICES ASSUME displayFps'.output \in listening,
                      displayFps'.rate # ModesOf[displayFps'.output][osMode'[displayFps'.output]].rate
               PROVE  notice'
    BY DEF Noticed, desktop
  <2>1. displayFps'.output \in Outputs
    BY TypeFacts
  <2>2. displayFps'.rate = ModesOf[displayFps'.output][osMode[displayFps'.output]].rate
    BY <2>1, TypeFacts, FpsValid DEF ModesMove
  <2> QED BY <2>2 DEF ModesMove
<1> QED BY <1>2, <1>3, <1>4

LEMMA SwitchToBestKeeps ==
  ASSUME DisplayInv, NEW rate, NEW switched, SwitchToBestVideoMode(rate, switched)
  PROVE  DisplayInv'
<1> DEFINE display == DisplayOf(window, outputs)
           current == osMode[window]
           best    == FindBestMatch(ModesOf[window], current, rate, Avoid)
<1>1. TypeInv /\ RecordInv
  BY DEF DisplayInv
<1>2. /\ Initialize
      /\ displayFps' = Fps(outputs, osMode')
      /\ UNCHANGED <<desktop, shots, home, disturbed>>
  BY DEF SwitchToBestVideoMode
<1>3. CASE display = NoDisplay
  <2>1. NoSwitch /\ UNCHANGED saved
    BY <1>3 DEF SwitchToBestVideoMode
  <2>2. ModesMove /\ osMode' = osMode
    BY <1>1, <2>1, NoSwitchMoves
  <2>3. TypeInv' /\ StaleIsNoticed' /\ Noticed(displayFps)'
    BY <1>1, <1>2, <2>1, <2>2, ReportKeeps DEF saved, TypeInv, TypeOK
  <2>4. RecordInv'
    BY <1>1, <1>2, <2>1, <2>2 DEF RecordInv, RecordIsHome, RecordInWindow, Recorded, saved, desktop
  <2> QED BY <2>3, <2>4 DEF DisplayInv
<1>4. CASE display # NoDisplay
  <2>1. /\ display \in DOMAIN outputs /\ display \in Nat /\ outputs[display] = window
        /\ window \in Outputs /\ window \in Range(outputs)
    BY <1>1, <1>4, TypeFacts, DisplayOfValid
  <2>2. /\ Record(display, current)
        /\ \/ best \in {NoMode, current} /\ NoSwitch
           \/ best \notin {NoMode, current} /\ \E outcome \in SetOutcomes : SetDisplayMode(window, best, outcome)
    BY <1>4 DEF SwitchToBestVideoMode
  <2>3. /\ current \in Ids(ModesOf[window]) /\ current \in Nat \ {NoMode}
        /\ best \in {NoMode} \cup Ids(ModesOf[window])
    BY <1>1, <2>1, TypeFacts, ModesFacts, FindBestMatchValid, SeqFacts
  <2> HIDE DEF display, best
  <2>4. ModesMove /\ \A o \in Outputs \ {window} : osMode'[o] = osMode[o]
    <3>1. CASE NoSwitch
      BY <1>1, <3>1, NoSwitchMoves
    <3>2. CASE best \in Ids(ModesOf[window]) /\ \E outcome \in SetOutcomes : SetDisplayMode(window, best, outcome)
      BY <1>1, <2>1, <3>2, SetDisplayModeMoves DEF TypeInv
    <3> QED BY <2>2, <2>3, <3>1, <3>2
  <2>5. m_lastVideoMode' \in Nat /\ m_lastDisplay' \in Nat
    BY <1>1, <2>1, <2>2, <2>3 DEF Record, saved, TypeInv, TypeOK
  <2>6. TypeInv' /\ StaleIsNoticed' /\ Noticed(displayFps)'
    BY <1>1, <1>2, <2>4, <2>5, ReportKeeps DEF TypeInv, TypeOK
  <2>7. ASSUME ~disturbed
        PROVE  /\ Recorded' /\ m_lastDisplay' \in DOMAIN outputs /\ outputs[m_lastDisplay'] = window
               /\ m_lastVideoMode' = home[window]
    <3>1. CASE Recorded
      BY <1>1, <2>2, <2>7, <3>1 DEF Record, saved, Recorded, RecordInv, RecordIsHome, RecordInWindow
    <3>2. CASE ~Recorded
      BY <1>1, <2>1, <2>2, <2>3, <2>7, <3>2 DEF Record, Recorded, RecordInv, RecordIsHome, NoMode
    <3> QED BY <3>1, <3>2
  <2>8. ASSUME ~disturbed, NEW o \in Range(outputs), o # window
        PROVE  osMode'[o] = home[o]
    <3>1. o \in Outputs /\ osMode'[o] = osMode[o]
      BY <1>1, <2>4, <2>8, TypeFacts
    <3>2. osMode[o] = home[o]
      BY <1>1, <2>8 DEF RecordInv, RecordIsHome, RecordInWindow
    <3> QED BY <3>1, <3>2
  <2>9. RecordInv'
    BY <1>2, <2>7, <2>8 DEF RecordInv, RecordIsHome, RecordInWindow, desktop
  <2> QED BY <2>6, <2>9 DEF DisplayInv
<1> QED BY <1>3, <1>4


LEMMA RestoreKeeps == DisplayInv /\ RestorePreviousVideoMode => DisplayInv'
<1> SUFFICES ASSUME DisplayInv, RestorePreviousVideoMode
             PROVE  DisplayInv'
  OBVIOUS
<1> DEFINE valid  == IsValidDisplayMode(outputs, m_lastDisplay, m_lastVideoMode)
           output == outputs[m_lastDisplay]
<1>1. TypeInv /\ RecordInv
  BY DEF DisplayInv
<1>2. /\ Initialize
      /\ displayFps' = Fps(outputs, osMode)
      /\ UNCHANGED <<desktop, shots, home>>
  BY DEF RestorePreviousVideoMode
<1>3. valid => /\ m_lastDisplay \in DOMAIN outputs /\ output \in Outputs
               /\ m_lastVideoMode \in Ids(ModesOf[output])
  BY <1>1, TypeFacts, SeqFacts DEF IsValidDisplayMode
<1>4. CASE ~valid
  <2>1. NoSwitch /\ UNCHANGED <<saved, disturbed>>
    BY <1>4 DEF RestorePreviousVideoMode
  <2>2. ModesMove /\ osMode' = osMode
    BY <1>1, <2>1, NoSwitchMoves
  <2>3. TypeInv' /\ StaleIsNoticed' /\ Noticed(displayFps)'
    BY <1>1, <1>2, <2>1, <2>2, ReportKeeps DEF saved, TypeInv, TypeOK
  <2>4. RecordInv'
    BY <1>1, <1>2, <2>1, <2>2 DEF RecordInv, RecordIsHome, RecordInWindow, Recorded, saved, desktop
  <2> QED BY <2>3, <2>4 DEF DisplayInv
<1>5. CASE valid
  <2>1. /\ Forget
        /\ \/ osMode[output] = m_lastVideoMode /\ NoSwitch /\ UNCHANGED disturbed
           \/ /\ osMode[output] # m_lastVideoMode
              /\ \E outcome \in SetOutcomes :
                   /\ SetDisplayMode(output, m_lastVideoMode, outcome)
                   /\ disturbed' = (disturbed \/ outcome # "applied")
    BY <1>5 DEF RestorePreviousVideoMode
  <2>2. m_lastVideoMode' = NoMode /\ m_lastDisplay' = NoDisplay /\ ~Recorded'
    BY <2>1 DEF Forget, Recorded
  <2>3. CASE osMode[output] = m_lastVideoMode /\ NoSwitch /\ UNCHANGED disturbed
    <3>1. ModesMove /\ osMode' = osMode
      BY <1>1, <2>3, NoSwitchMoves
    <3>2. TypeInv' /\ StaleIsNoticed' /\ Noticed(displayFps)'
      BY <1>1, <1>2, <2>2, <2>3, <3>1, ReportKeeps DEF TypeInv, TypeOK, NoMode, NoDisplay
    <3>3. ASSUME ~disturbed, NEW o \in Range(outputs)
          PROVE  osMode[o] = home[o]
      BY <1>1, <2>3, <3>3 DEF RecordInv, RecordIsHome
    <3>4. RecordInv'
      BY <1>2, <2>2, <2>3, <3>1, <3>3 DEF RecordInv, RecordIsHome, RecordInWindow, desktop
    <3> QED BY <3>2, <3>4 DEF DisplayInv
  <2>4. ASSUME NEW outcome \in SetOutcomes,
               SetDisplayMode(output, m_lastVideoMode, outcome),
               disturbed' = (disturbed \/ outcome # "applied")
        PROVE  DisplayInv'
    <3>1. /\ ModesMove
          /\ osMode' = IF outcome = "applied" THEN [osMode EXCEPT ![output] = m_lastVideoMode]
                       ELSE osMode
      BY <1>1, <1>3, <1>5, <2>4, SetDisplayModeMoves
    <3>2. disturbed' \in BOOLEAN
      BY <1>1, <2>4 DEF TypeInv, TypeOK
    <3>3. TypeInv' /\ StaleIsNoticed' /\ Noticed(displayFps)'
      BY <1>1, <1>2, <2>2, <3>1, <3>2, ReportKeeps DEF TypeInv, TypeOK, NoMode, NoDisplay
    <3>4. ASSUME ~disturbed', NEW o \in Range(outputs)
          PROVE  osMode'[o] = home[o]
      <4>1. ~disturbed /\ outcome = "applied" /\ o \in Outputs
        BY <1>1, <2>4, <3>4, TypeFacts
      <4>2. Recorded
        BY <1>3, <1>5, ModesFacts DEF Recorded
      <4>3. CASE o = output
        BY <1>1, <3>1, <4>1, <4>2, <4>3 DEF RecordInv, RecordIsHome, TypeInv
      <4>4. CASE o # output
        BY <1>1, <3>1, <4>1, <4>4 DEF RecordInv, RecordIsHome, TypeInv
      <4> QED BY <4>3, <4>4
    <3>5. RecordInv'
      BY <1>2, <2>2, <3>4 DEF RecordInv, RecordIsHome, RecordInWindow, desktop
    <3> QED BY <3>3, <3>5 DEF DisplayInv
  <2> QED BY <2>1, <2>3, <2>4
<1> QED BY <1>4, <1>5

LEMMA SwitchCommandKeeps ==
  ASSUME DisplayInv, NEW mode, SwitchCommand(mode)
  PROVE  DisplayInv'
<1>1. TypeInv /\ RecordInv
  BY DEF DisplayInv
<1>2. /\ Initialize
      /\ displayFps' = Fps(outputs, osMode)
      /\ UNCHANGED <<desktop, shots>>
  BY DEF SwitchCommand
<1>3. CASE DisplayOf(window, outputs) = NoDisplay \/ mode \notin Ids(ModesOf[window])
  <2>1. NoSwitch /\ UNCHANGED <<saved, home, disturbed>>
    BY <1>3 DEF SwitchCommand
  <2>2. ModesMove /\ osMode' = osMode
    BY <1>1, <2>1, NoSwitchMoves
  <2>3. TypeInv' /\ StaleIsNoticed' /\ Noticed(displayFps)'
    BY <1>1, <1>2, <2>1, <2>2, ReportKeeps DEF saved, TypeInv, TypeOK
  <2>4. RecordInv'
    BY <1>1, <1>2, <2>1, <2>2 DEF RecordInv, RecordIsHome, RecordInWindow, Recorded, saved, desktop
  <2> QED BY <2>3, <2>4 DEF DisplayInv
<1>4. CASE DisplayOf(window, outputs) # NoDisplay /\ mode \in Ids(ModesOf[window])
  <2>1. PICK outcome \in SetOutcomes :
          /\ SetDisplayMode(window, mode, outcome)
          /\ IF outcome = "refused" THEN UNCHANGED saved ELSE Forget
          /\ home' = IF outcome = "applied" THEN [home EXCEPT ![window] = mode] ELSE home
          /\ disturbed' = (disturbed \/ (outcome = "ignored" /\ Recorded))
    BY <1>4 DEF SwitchCommand
  <2>2. window \in Outputs /\ mode \in Nat
    BY <1>1, <1>4, TypeFacts, ModesFacts
  <2>3. /\ ModesMove
        /\ osMode' = IF outcome = "applied" THEN [osMode EXCEPT ![window] = mode] ELSE osMode
    BY <1>1, <1>4, <2>1, <2>2, SetDisplayModeMoves
  <2>4. /\ home' \in [Outputs -> Nat] /\ \A o \in Outputs : home'[o] \in Ids(ModesOf[o])
        /\ disturbed' \in BOOLEAN /\ m_lastVideoMode' \in Nat /\ m_lastDisplay' \in Nat
    <3>1. home' \in [Outputs -> Nat] /\ \A o \in Outputs : home'[o] \in Ids(ModesOf[o])
      BY <1>1, <1>4, <2>1, <2>2 DEF TypeInv, TypeOK
    <3>2. disturbed' \in BOOLEAN
      BY <1>1, <2>1 DEF TypeInv, TypeOK, Recorded
    <3>3. m_lastVideoMode' \in Nat /\ m_lastDisplay' \in Nat
      BY <1>1, <2>1 DEF TypeInv, TypeOK, Forget, saved, NoMode, NoDisplay
    <3> QED BY <3>1, <3>2, <3>3
  <2>5. TypeInv' /\ StaleIsNoticed' /\ Noticed(displayFps)'
    BY <1>1, <1>2, <2>3, <2>4, ReportKeeps DEF TypeInv, TypeOK
  <2>6. RecordInv'
    <3>1. outcome \in {"applied", "refused", "ignored"}
      BY DisplayAssumption
    <3>2. CASE outcome = "refused"
      BY <1>1, <1>2, <2>1, <2>3, <3>2
         DEF RecordInv, RecordIsHome, RecordInWindow, Recorded, saved, desktop
    <3>3. CASE outcome = "ignored"
      <4>1. ~Recorded' /\ osMode' = osMode /\ home' = home
        BY <2>1, <2>3, <3>3 DEF Forget, Recorded
      <4>2. ~disturbed' => ~disturbed /\ ~Recorded
        BY <2>1, <3>3
      <4> QED BY <1>1, <1>2, <4>1, <4>2 DEF RecordInv, RecordIsHome, RecordInWindow, desktop
    <3>4. CASE outcome = "applied"
      <4>1. ~Recorded' /\ (~disturbed' => ~disturbed)
        BY <2>1, <3>4 DEF Forget, Recorded
      <4>2. ASSUME ~disturbed, NEW o \in Range(outputs)
            PROVE  osMode'[o] = home'[o]
        <5>1. o \in Outputs
          BY <1>1, TypeFacts
        <5>2. o # window => osMode[o] = home[o]
          BY <1>1, <4>2 DEF RecordInv, RecordIsHome, RecordInWindow
        <5> QED BY <1>1, <2>1, <2>2, <2>3, <3>4, <5>1, <5>2 DEF TypeInv
      <4> QED BY <1>2, <4>1, <4>2 DEF RecordInv, RecordIsHome, RecordInWindow, desktop
    <3> QED BY <3>1, <3>2, <3>3, <3>4
  <2> QED BY <2>5, <2>6 DEF DisplayInv
<1> QED BY <1>3, <1>4

LEMMA TimerKeeps == DisplayInv /\ InitTimerFires => DisplayInv'
<1> SUFFICES ASSUME DisplayInv, InitTimerFires
             PROVE  DisplayInv'
  OBVIOUS
<1>1. TypeInv /\ RecordInv
  BY DEF DisplayInv
<1>2. /\ Initialize /\ shots > 0 /\ shots' = shots - 1
      /\ displayFps' = Fps(outputs, osMode)
      /\ UNCHANGED <<desktop, osMode, notice, saved, home, disturbed>>
  BY DEF InitTimerFires
<1>3. ModesMove /\ shots' \in 0 .. MaxShots
  BY <1>1, <1>2, DisplayAssumption DEF ModesMove, TypeInv, TypeOK
<1>4. TypeInv' /\ StaleIsNoticed' /\ Noticed(displayFps)'
  BY <1>1, <1>2, <1>3, ReportKeeps DEF saved, TypeInv, TypeOK
<1>5. RecordInv'
  BY <1>1, <1>2 DEF RecordInv, RecordIsHome, RecordInWindow, Recorded, saved, desktop
<1> QED BY <1>4, <1>5 DEF DisplayInv

LEMMA ReportingKeeps == DisplayInv /\ Reporting => DisplayInv'
BY SwitchToBestKeeps, RestoreKeeps, SwitchCommandKeeps, TimerKeeps DEF Reporting


\* The signals and the steps of the desktop and its user: whatever they make
\* out of date is signalled, or the timer is running for it.
LEMMA SystemNoticed ==
  ASSUME TypeInv, NEW f, Noticed(f), MonitorChange \/ Environment
  PROVE  Noticed(f)'
<1>1. CASE MonitorChange
  <2>1. shots' > 0
    BY <1>1 DEF MonitorChange, TypeInv, TypeOK
  <2> QED BY <2>1 DEF Noticed
<1>2. ASSUME NEW o \in Outputs, Connect(o) \/ Disconnect(o)
      PROVE  Noticed(f)'
  BY <1>2 DEF Connect, Disconnect, Noticed
<1>3. ASSUME NEW o \in Outputs, MoveWindow(o)
      PROVE  Noticed(f)'
  BY <1>3 DEF MoveWindow, Noticed, timer
<1>4. ASSUME NEW o \in Outputs, NEW m \in Ids(ModesOf[o]), ChooseMode(o, m)
      PROVE  Noticed(f)'
  <2>1. ModesMove /\ UNCHANGED <<listening, shots>>
    BY <1>4, SetDisplayModeMoves DEF ChooseMode, desktop
  <2>2. ASSUME f.output \in listening, osMode'[f.output] = osMode[f.output]
        PROVE  Noticed(f)'
    BY <2>1, <2>2 DEF Noticed, ModesMove
  <2> QED BY <2>1, <2>2 DEF Noticed, ModesMove
<1> QED BY <1>1, <1>2, <1>3, <1>4 DEF Environment

LEMMA MonitorChangeKeeps ==
  ASSUME DisplayInv, MonitorChange
  PROVE  TypeInv' /\ StaleIsNoticed' /\ RecordInv'
<1>1. TypeInv /\ StaleIsNoticed /\ RecordInv
  BY DEF DisplayInv
<1>2. /\ shots' \in 0 .. MaxShots /\ shots' > 0 /\ m_initTimer' = TRUE /\ notice' = FALSE
      /\ UNCHANGED <<desktop, osMode, m_displays, saved, displayFps, home, disturbed>>
  BY <1>1, DisplayAssumption DEF MonitorChange, TypeInv, TypeOK
<1>3. TypeInv'
  BY <1>1, <1>2 DEF TypeInv, TypeOK, desktop, saved
<1>4. StaleIsNoticed'
  BY <1>2 DEF StaleIsNoticed
<1>5. RecordInv'
  BY <1>1, <1>2 DEF RecordInv, RecordIsHome, RecordInWindow, Recorded, saved, desktop
<1> QED BY <1>3, <1>4, <1>5

LEMMA ConnectKeeps ==
  ASSUME DisplayInv, NEW o \in Outputs, Connect(o)
  PROVE  TypeInv' /\ StaleIsNoticed' /\ RecordInv'
<1>1. TypeInv /\ RecordInv
  BY DEF DisplayInv
<1>2. PICK i \in 1 .. Len(outputs) + 1 : outputs' = InsertAt(outputs, i, o)
  BY DEF Connect
<1>3. PICK m \in Ids(ModesOf[o]) : /\ osMode' = [osMode EXCEPT ![o] = m]
                                   /\ home' = [home EXCEPT ![o] = m]
  BY DEF Connect
<1>4. /\ o \notin Range(outputs) /\ notice' = TRUE
      /\ window' = IF outputs = <<>> THEN o ELSE window
      /\ disturbed' = (disturbed \/ Recorded)
      /\ UNCHANGED <<listening, shots, m_displays, saved, m_initTimer, displayFps>>
  BY DEF Connect
<1>5. outputs \in Seq(Outputs) /\ IsInjective(outputs)
  BY <1>1 DEF TypeInv, TypeOK
<1>6. /\ outputs' \in Seq(Outputs) /\ IsInjective(outputs')
      /\ Range(outputs') = Range(outputs) \cup {o}
  BY <1>2, <1>4, <1>5, InsertAtFacts
<1>7. /\ osMode' \in [Outputs -> Nat] /\ \A p \in Outputs : osMode'[p] \in Ids(ModesOf[p])
      /\ home' \in [Outputs -> Nat] /\ \A p \in Outputs : home'[p] \in Ids(ModesOf[p])
      /\ osMode'[o] = home'[o]
      /\ \A p \in Outputs \ {o} : osMode'[p] = osMode[p] /\ home'[p] = home[p]
  BY <1>1, <1>3, ModesFacts DEF TypeInv, TypeOK
<1>8. window' \in Range(outputs') /\ listening' \subseteq Range(outputs')
  BY <1>1, <1>4, <1>6 DEF TypeInv, TypeOK
<1>9. disturbed' \in BOOLEAN
  BY <1>1, <1>4 DEF TypeInv, TypeOK, Recorded
<1>10. TypeInv'
  BY <1>1, <1>4, <1>6, <1>7, <1>8, <1>9 DEF TypeInv, TypeOK, saved
<1>11. StaleIsNoticed'
  BY <1>4 DEF StaleIsNoticed
<1>12. ~disturbed' => ~disturbed /\ ~Recorded /\ ~Recorded'
  BY <1>4 DEF Recorded, saved
<1>13. ASSUME ~disturbed', NEW p \in Range(outputs')
       PROVE  osMode'[p] = home'[p]
  <2>1. CASE p = o
    BY <1>7, <2>1
  <2>2. CASE p \in Range(outputs) /\ p # o
    <3>1. p \in Outputs
      BY <1>1, <2>2, TypeFacts
    <3>2. osMode[p] = home[p]
      BY <1>1, <1>12, <1>13, <2>2 DEF RecordInv, RecordIsHome
    <3> QED BY <1>7, <2>2, <3>1, <3>2
  <2> QED BY <1>6, <1>13, <2>1, <2>2
<1>14. RecordInv'
  BY <1>12, <1>13 DEF RecordInv, RecordIsHome, RecordInWindow
<1> QED BY <1>10, <1>11, <1>14

LEMMA DisconnectKeeps ==
  ASSUME DisplayInv, NEW o \in Outputs, Disconnect(o)
  PROVE  TypeInv' /\ StaleIsNoticed' /\ RecordInv'
<1>1. TypeInv /\ RecordInv
  BY DEF DisplayInv
<1>2. PICK i \in DOMAIN outputs : outputs[i] = o /\ outputs' = RemoveAt(outputs, i)
  BY DEF Disconnect
<1>3. /\ window' \in IF window # o THEN {window}
                     ELSE IF outputs' = <<>> THEN {NoOutput} ELSE Range(outputs')
      /\ listening' = listening \ {o}
      /\ notice' = TRUE
      /\ disturbed' = (disturbed \/ Recorded)
      /\ UNCHANGED <<osMode, shots, m_displays, saved, m_initTimer, displayFps, home>>
  BY DEF Disconnect
<1>4. outputs \in Seq(Outputs) /\ IsInjective(outputs)
  BY <1>1 DEF TypeInv, TypeOK
<1>5. /\ outputs' \in Seq(Outputs) /\ IsInjective(outputs')
      /\ Range(outputs') = Range(outputs) \ {o}
  BY <1>2, <1>4, RemoveAtFacts
<1>6. window \in Range(outputs)
  <2>1. outputs # <<>>
    BY <1>2
  <2> QED BY <1>1, <2>1 DEF TypeInv, TypeOK
<1>7. /\ window' \in Range(outputs') \/ (outputs' = <<>> /\ window' = NoOutput)
      /\ listening' \subseteq Range(outputs')
  BY <1>1, <1>3, <1>5, <1>6 DEF TypeInv, TypeOK
<1>8. disturbed' \in BOOLEAN
  BY <1>1, <1>3 DEF TypeInv, TypeOK, Recorded
<1>9. TypeInv'
  BY <1>1, <1>3, <1>5, <1>7, <1>8 DEF TypeInv, TypeOK, saved
<1>10. StaleIsNoticed'
  BY <1>3 DEF StaleIsNoticed
<1>11. ~disturbed' => ~disturbed /\ ~Recorded /\ ~Recorded'
  BY <1>3 DEF Recorded, saved
<1>12. RecordInv'
  BY <1>1, <1>3, <1>5, <1>11 DEF RecordInv, RecordIsHome, RecordInWindow
<1> QED BY <1>9, <1>10, <1>12

LEMMA MoveWindowKeeps ==
  ASSUME DisplayInv, NEW o \in Outputs, MoveWindow(o)
  PROVE  TypeInv' /\ StaleIsNoticed' /\ RecordInv'
<1>1. TypeInv /\ StaleIsNoticed /\ RecordInv
  BY DEF DisplayInv
<1>2. /\ window' \in Range(outputs) /\ disturbed' = (disturbed \/ Recorded)
      /\ disturbed' \in BOOLEAN
      /\ UNCHANGED <<outputs, listening, osMode, notice, shots, m_displays, m_lastVideoMode,
                     m_lastDisplay, m_initTimer, displayFps, home>>
  BY <1>1 DEF MoveWindow, TypeInv, TypeOK, Recorded, timer, saved
<1>3. TypeInv'
  BY <1>1, <1>2 DEF TypeInv, TypeOK
<1>4. StaleIsNoticed'
  BY <1>1, <1>2 DEF StaleIsNoticed
<1>5. RecordInv'
  BY <1>1, <1>2 DEF RecordInv, RecordIsHome, RecordInWindow, Recorded
<1> QED BY <1>3, <1>4, <1>5

LEMMA ChooseModeKeeps ==
  ASSUME DisplayInv, NEW o \in Outputs, NEW m \in Ids(ModesOf[o]), ChooseMode(o, m)
  PROVE  TypeInv' /\ StaleIsNoticed' /\ RecordInv'
<1>1. TypeInv /\ StaleIsNoticed /\ RecordInv
  BY DEF DisplayInv
<1>2. ModesMove /\ osMode' = [osMode EXCEPT ![o] = m]
  BY <1>1, SetDisplayModeMoves DEF ChooseMode
<1>3. /\ home' = [home EXCEPT ![o] = m] /\ disturbed' = (disturbed \/ Recorded)
      /\ UNCHANGED <<outputs, window, listening, shots, m_displays, m_lastVideoMode,
                     m_lastDisplay, m_initTimer, displayFps>>
  BY DEF ChooseMode, desktop, saved
<1>4. /\ home' \in [Outputs -> Nat] /\ \A p \in Outputs : home'[p] \in Ids(ModesOf[p])
      /\ disturbed' \in BOOLEAN
  BY <1>1, <1>3, ModesFacts DEF TypeInv, TypeOK, Recorded
<1>5. TypeInv'
  BY <1>1, <1>2, <1>3, <1>4 DEF TypeInv, TypeOK, ModesMove
<1>6. StaleIsNoticed'
  BY <1>1, <1>2, <1>3 DEF StaleIsNoticed, ModesMove
<1>7. ~disturbed' => ~disturbed /\ ~Recorded /\ ~Recorded'
  BY <1>3 DEF Recorded
<1>8. ASSUME ~disturbed', NEW p \in Range(outputs)
      PROVE  osMode'[p] = home'[p]
  <2>1. p \in Outputs /\ osMode[p] = home[p]
    BY <1>1, <1>7, <1>8, TypeFacts DEF RecordInv, RecordIsHome
  <2> QED BY <1>1, <1>2, <1>3, <2>1 DEF TypeInv
<1>9. RecordInv'
  BY <1>3, <1>7, <1>8 DEF RecordInv, RecordIsHome, RecordInWindow
<1> QED BY <1>5, <1>6, <1>9

LEMMA SystemKeeps ==
  ASSUME DisplayInv, MonitorChange \/ Environment
  PROVE  DisplayInv'
<1>1. TypeInv' /\ StaleIsNoticed' /\ RecordInv'
  BY MonitorChangeKeeps, ConnectKeeps, DisconnectKeeps, MoveWindowKeeps, ChooseModeKeeps
     DEF Environment
<1>2. UNCHANGED displayFps
  BY DEF MonitorChange, Environment, Connect, Disconnect, MoveWindow, ChooseMode
<1>3. PICK f : f = displayFps
  OBVIOUS
<1>4. Noticed(f)'
  BY <1>3, SystemNoticed DEF DisplayInv
<1>5. Noticed(displayFps)'
  BY <1>2, <1>3, <1>4 DEF Noticed
<1> QED BY <1>1, <1>5 DEF DisplayInv

LEMMA DisplayInit == Init => DisplayInv
<1> SUFFICES ASSUME Init
             PROVE  DisplayInv
  OBVIOUS
<1>1. /\ outputs \in Seq(Outputs) /\ IsInjective(outputs)
      /\ window \in Range(outputs) /\ listening = Range(outputs)
  <2>1. PICK n \in 1 .. Cardinality(Outputs) : outputs \in [1 .. n -> Outputs]
    BY DEF Init
  <2>2. Cardinality(Outputs) \in Nat
    BY DisplayAssumption, FS_CardinalityType
  <2>3. n \in Nat
    BY <2>2
  <2>4. outputs \in Seq(Outputs)
    BY <2>1, <2>3, SeqDef
  <2> QED BY <2>4 DEF Init
<1>2. osMode \in [Outputs -> Nat] /\ \A o \in Outputs : osMode[o] \in Ids(ModesOf[o])
  BY ModesFacts DEF Init
<1>3. /\ displayFps \in [output : Outputs \cup {NoOutput}, rate : Nat]
      /\ displayFps.output \in Outputs
           => displayFps.rate = ModesOf[displayFps.output][osMode[displayFps.output]].rate
  BY <1>1, <1>2, FpsValid DEF Init
<1>4. TypeInv
  <2>1. /\ m_displays = outputs /\ home = osMode /\ shots = 0
        /\ notice = FALSE /\ m_initTimer = FALSE /\ disturbed = FALSE
        /\ m_lastVideoMode = 0 /\ m_lastDisplay = 0
    BY DEF Init, NoMode, NoDisplay
  <2>2. 0 \in 0 .. MaxShots
    BY DisplayAssumption
  <2>3. /\ \A o \in Outputs : osMode[o] \in Ids(ModesOf[o]) /\ home[o] \in Ids(ModesOf[o])
        /\ osMode \in [Outputs -> Nat] /\ home \in [Outputs -> Nat]
    BY <1>2, <2>1
  <2>4. TypeOK
    BY <1>1, <1>3, <2>1, <2>2, <2>3 DEF TypeOK
  <2> QED BY <2>1, <2>3, <2>4 DEF TypeInv
<1>5. Noticed(displayFps)
  BY <1>3, <1>4, TypeFacts DEF Noticed
<1>6. StaleIsNoticed /\ RecordInv
  BY DEF Init, StaleIsNoticed, RecordInv, RecordIsHome, RecordInWindow, Recorded
<1> QED BY <1>4, <1>5, <1>6 DEF DisplayInv

LEMMA QuietKeeps == DisplayInv /\ UNCHANGED vars => DisplayInv'
<1> SUFFICES ASSUME DisplayInv, UNCHANGED vars
             PROVE  DisplayInv'
  OBVIOUS
<1>1. UNCHANGED <<outputs, window, listening, osMode, notice, shots, m_displays, m_lastVideoMode,
                  m_lastDisplay, m_initTimer, displayFps, home, disturbed>>
  BY DEF vars, desktop, timer, saved
<1>2. TypeInv' /\ StaleIsNoticed'
  BY <1>1 DEF DisplayInv, TypeInv, TypeOK, StaleIsNoticed
<1>3. Noticed(displayFps)' /\ RecordInv'
  BY <1>1 DEF DisplayInv, Noticed, RecordInv, RecordIsHome, RecordInWindow, Recorded
<1> QED BY <1>2, <1>3 DEF DisplayInv

LEMMA DisplayCorrect == Spec => []DisplayInv
<1>1. DisplayInv /\ [Next]_vars => DisplayInv'
  BY ReportingKeeps, SystemKeeps, QuietKeeps DEF Next, Component
<1> QED BY <1>1, DisplayInit, PTL DEF Spec

LEMMA DisplayInvShows == DisplayInv => RecordIsHome /\ ChangesAreNoticed
BY DEF DisplayInv, RecordInv, TypeInv, ChangesAreNoticed, FpsIsNoticed, Noticed

\* DisplaySwitch alone: the record of the mode brings the user's desktop
\* back, and no change of the displays is lost.
THEOREM DisplaySound == Spec => [](RecordIsHome /\ ChangesAreNoticed)
BY DisplayCorrect, DisplayInvShows, PTL

-----------------------------------------------------------------------------
(* The displays, as the player uses them: PlayerOutput moves the variables *)
(* of DisplaySwitch by its actions, and sets the rate when the settings of *)
(* the video change.                                                       *)

LEMMA RateSetKeeps ==
  ASSUME DisplayInv, displayFps' = Fps(m_displays, osMode),
         UNCHANGED <<desktop, osMode, timer, m_displays, saved, m_initTimer, home, disturbed>>
  PROVE  DisplayInv'
<1>1. UNCHANGED <<outputs, window, listening, osMode, notice, shots, m_displays, m_lastVideoMode,
                  m_lastDisplay, m_initTimer, home, disturbed>>
  BY DEF desktop, timer, saved
<1>2. /\ displayFps' \in [output : Outputs \cup {NoOutput}, rate : Nat]
      /\ displayFps'.output \in Outputs
           => displayFps'.rate = ModesOf[displayFps'.output][osMode[displayFps'.output]].rate
  BY TypeFacts, FpsValid DEF DisplayInv
<1>3. TypeInv'
  BY <1>1, <1>2 DEF DisplayInv, TypeInv, TypeOK
<1>4. Noticed(displayFps)'
  BY <1>1, <1>2, TypeFacts DEF DisplayInv, Noticed
<1> QED BY <1>1, <1>3, <1>4 DEF DisplayInv, StaleIsNoticed, RecordInv, RecordIsHome,
                                RecordInWindow, Recorded

LEMMA OutputKeepsDisplay == DisplayInv /\ [OutputNext]_outputVars => DisplayInv'
<1> SUFFICES ASSUME DisplayInv, [OutputNext]_outputVars
             PROVE  DisplayInv'
  OBVIOUS
<1>1. CASE DisplayReports
  BY <1>1, ReportingKeeps DEF DisplayReports
<1>2. CASE DisplayMoves
  BY <1>2, SystemKeeps DEF DisplayMoves
<1>3. CASE \E v \in VideoInputs : SetVideoSettings(v)
  BY <1>3, RateSetKeeps DEF SetVideoSettings
<1>4. CASE UNCHANGED vars
  BY <1>4, QuietKeeps
<1> QED BY <1>1, <1>2, <1>3, <1>4
        DEF OutputNext, outputVars, VideoStep, ClientSetsDelay, Decode, ParamsChanged

LEMMA OutputDisplayCorrect == OutputSpec => []DisplayInv
<1>1. OutputInit => DisplayInv
  BY DisplayInit DEF OutputInit
<1> QED BY <1>1, OutputKeepsDisplay, PTL DEF OutputSpec

-----------------------------------------------------------------------------
(* The delay of the sound and the aspect of the picture.                   *)

DelayInv ==
  /\ delay.ms = video.delays[DelayKey(delay.of.rate)] + m_playbackAudioDelay
  /\ Noticed(delay.of)

LEMMA DelaySet ==
  ASSUME NEW v, NEW ms, NEW fps, SetAudioDelay(v, ms, fps), video' = v, Noticed(fps)'
  PROVE  DelayInv'
BY DEF SetAudioDelay, DelayInv, Noticed

LEMMA DelayStep == DisplayInv /\ DelayInv /\ [OutputNext]_outputVars => DelayInv'
<1> SUFFICES ASSUME DisplayInv, DelayInv, [OutputNext]_outputVars
             PROVE  DelayInv'
  OBVIOUS
<1>1. Noticed(displayFps)'
  BY OutputKeepsDisplay DEF DisplayInv
<1>2. PICK fps : fps = displayFps'
  OBVIOUS
<1>3. Noticed(fps)'
  BY <1>1, <1>2 DEF Noticed
<1>4. CASE DisplayReports
  BY <1>2, <1>3, <1>4, DelaySet DEF DisplayReports, UpdateVideoSettings
<1>5. CASE DisplayMoves
  <2>1. MonitorChange \/ Environment
    BY <1>5 DEF DisplayMoves
  <2>2. UNCHANGED <<video, m_playbackAudioDelay, delay>>
    BY <1>5 DEF DisplayMoves, videoVars
  <2>3. PICK f : f = delay.of
    OBVIOUS
  <2>4. Noticed(f)'
    BY <2>1, <2>3, SystemNoticed DEF DisplayInv, DelayInv
  <2>5. Noticed(delay.of)'
    BY <2>2, <2>3, <2>4 DEF Noticed
  <2> QED BY <2>2, <2>5 DEF DelayInv
<1>6. ASSUME NEW v \in VideoInputs, SetVideoSettings(v)
      PROVE  DelayInv'
  BY <1>2, <1>3, <1>6, DelaySet DEF SetVideoSettings, UpdateVideoSettings
<1>7. ASSUME NEW ms \in ClientDelays, ClientSetsDelay(ms)
      PROVE  DelayInv'
  <2>1. PICK f : f = Fps(m_displays, osMode)
    OBVIOUS
  <2>2. UNCHANGED vars /\ UNCHANGED video /\ SetAudioDelay(video, ms, f)
    BY <1>7, <2>1 DEF ClientSetsDelay
  <2>3. f.output \in Outputs => f.rate = ModesOf[f.output][osMode[f.output]].rate
    BY <2>1, TypeFacts, FpsValid DEF DisplayInv
  <2>4. UNCHANGED <<listening, osMode>>
    BY <2>2 DEF vars, desktop
  <2>5. Noticed(f)'
    BY <2>3, <2>4, TypeFacts DEF Noticed, DisplayInv
  <2>6. PICK v : v = video
    OBVIOUS
  <2> QED BY <2>2, <2>5, <2>6, DelaySet
<1>8. CASE UNCHANGED vars /\ UNCHANGED <<video, m_playbackAudioDelay, delay>>
  <2>1. UNCHANGED <<listening, osMode, notice, shots>>
    BY <1>8 DEF vars, desktop, timer
  <2> QED BY <1>8, <2>1 DEF DelayInv, Noticed
<1> QED BY <1>4, <1>5, <1>6, <1>7, <1>8
        DEF OutputNext, outputVars, videoVars, VideoStep, Decode, ParamsChanged

LEMMA DelayInit == OutputInit => DelayInv
<1> SUFFICES ASSUME OutputInit
             PROVE  DelayInv
  OBVIOUS
<1>1. video \in VideoInputs
  BY OutputAssumption DEF OutputInit
<1>2. DelayKey(displayFps.rate) \in DelayKeys
  BY DEF DelayKey, DelayKeys
<1>3. video.delays[DelayKey(displayFps.rate)] \in Int
  BY <1>1, <1>2, OutputAssumption
<1>4. Noticed(displayFps)
  BY DisplayInit DEF OutputInit, DisplayInv
<1>5. /\ delay = [of |-> displayFps, ms |-> video.delays[DelayKey(displayFps.rate)]]
      /\ m_playbackAudioDelay = 0
  BY DEF OutputInit
<1> QED BY <1>3, <1>4, <1>5 DEF DelayInv, Noticed

LEMMA DelayShows == DelayInv => DelayFits
BY DEF DelayInv, DelayFits, Noticed

\* Only "custom" depends on what mpv's properties were before.
LEMMA ShapeForAspect ==
  ASSUME NEW forcing, forcing # "custom", NEW aspect, NEW s, NEW t
  PROVE  ShapeFor(forcing, aspect, s) = ShapeFor(forcing, aspect, t)
BY DEF ShapeFor

LEMMA AspectStep == AspectFits /\ [OutputNext]_outputVars => AspectFits'
<1> SUFFICES ASSUME AspectFits, [OutputNext]_outputVars
             PROVE  AspectFits'
  OBVIOUS
<1>1. ASSUME NEW v, UpdateVideoAspectSettings(v), video' = v, UNCHANGED decoded
      PROVE  AspectFits'
  BY <1>1, ShapeForAspect DEF UpdateVideoAspectSettings, AspectFits
<1>2. CASE DisplayReports \/ ParamsChanged
  <2>1. PICK v : v = video
    OBVIOUS
  <2> QED BY <1>1, <1>2, <2>1 DEF DisplayReports, ParamsChanged, UpdateVideoSettings
<1>3. ASSUME NEW v \in VideoInputs, SetVideoSettings(v)
      PROVE  AspectFits'
  BY <1>1, <1>3 DEF SetVideoSettings, UpdateVideoSettings
<1>4. CASE params'
  BY <1>4 DEF AspectFits
<1>5. CASE UNCHANGED <<video, decoded, params, shape>>
  BY <1>5 DEF AspectFits
<1> QED BY <1>2, <1>3, <1>4, <1>5
        DEF OutputNext, outputVars, videoVars, VideoStep, Decode, ClientSetsDelay, DisplayMoves

LEMMA AspectInit == OutputInit => AspectFits
BY DEF OutputInit, AspectFits

-----------------------------------------------------------------------------
(* The audio device.                                                       *)

\* The properties of mpv that the player sets.
IsOutput(o) ==
  o = [device |-> o.device, spdif |-> o.spdif, channels |-> o.channels, ac3 |-> o.ac3,
       route |-> o.route]

\* With the list of devices that the player has: if the device that the user
\* chose is on it, the sound goes there as long as the device is there; if it
\* is not, the sound goes to the default one.
Routed(o, device, devices) ==
  o.route = IF device \notin devices THEN AutoDevice ELSE IF device \in Listed THEN device ELSE "none"

RouteInv ==
  ~m_reloadAudioTimer /\ audio.device \notin overruled =>
    /\ audio.device \notin m_audioDevices => ao.route = AutoDevice
    /\ audio.device \in m_audioDevices /\ audio.device \in Listed => ao.route = audio.device

AudioInv ==
  /\ IsOutput(ao) /\ plugged \subseteq Devices
  /\ ~news => m_audioDevices = Listed
  /\ audio.device \in choices /\ (~news => Listed \subseteq choices)
  /\ RouteInv

LEMMA OpenedRoutes ==
  ASSUME NEW o, IsOutput(o), NEW device, NEW devices
  PROVE  IsOutput(Opened(o, device, devices)) /\ Routed(Opened(o, device, devices), device, devices)
<1> DEFINE d == IF device \in devices THEN device ELSE AutoDevice
           r == IF d \in Listed THEN d ELSE "none"
<1>1. PICK device0, spdif, channels, ac3, route :
        o = [device |-> device0, spdif |-> spdif, channels |-> channels, ac3 |-> ac3,
             route |-> route]
  BY DEF IsOutput
<1>2. Opened(o, device, devices) = [o EXCEPT !.device = d, !.route = r]
  BY DEF Opened
<1>3. r = IF device \notin devices THEN AutoDevice ELSE IF device \in Listed THEN device ELSE "none"
  BY DEF Listed
<1> HIDE DEF d, r
<1>4. Opened(o, device, devices) = [device |-> d, spdif |-> spdif, channels |-> channels,
                                    ac3 |-> ac3, route |-> r]
  BY <1>1, <1>2
<1> QED BY <1>3, <1>4 DEF IsOutput, Routed

LEMMA ConfigurationRoutes ==
  ASSUME NEW o, IsOutput(o), NEW a
  PROVE  /\ IsOutput(AudioConfiguration(a, o))
         /\ Routed(AudioConfiguration(a, o), a.device, m_audioDevices)
<1> DEFINE p == Opened(o, a.device, m_audioDevices)
<1>1. IsOutput(p) /\ Routed(p, a.device, m_audioDevices)
  BY OpenedRoutes
<1>2. PICK spdif, channels, ac3 :
        AudioConfiguration(a, o) = [p EXCEPT !.spdif = spdif, !.channels = channels, !.ac3 = ac3]
  BY DEF AudioConfiguration
<1> HIDE DEF p
<1> QED BY <1>1, <1>2 DEF IsOutput, Routed

LEMMA AudioStepKeeps == AudioInv /\ AudioStep => AudioInv'
<1> SUFFICES ASSUME AudioInv, AudioStep
             PROVE  AudioInv'
  OBVIOUS
<1>1. CASE UpdateAudioDeviceList
  BY <1>1 DEF UpdateAudioDeviceList, CheckCurrentAudioDevice, AudioInv, RouteInv, Listed, IsOutput
<1>2. CASE ReloadAudio
  <2>1. /\ m_reloadAudioTimer' = FALSE /\ ao' = Opened(ao, audio.device, m_audioDevices)
        /\ UNCHANGED <<plugged, news, m_audioDevices, choices, audio>>
    BY <1>2 DEF ReloadAudio
  <2>2. IsOutput(ao') /\ Routed(ao', audio.device, m_audioDevices)
    BY <2>1, OpenedRoutes DEF AudioInv
  <2> QED BY <2>1, <2>2 DEF AudioInv, RouteInv, Routed, Listed, IsOutput
<1>3. ASSUME NEW a \in AudioInputs, SetAudioSettings(a)
      PROVE  AudioInv'
  <2>1. /\ a.device \in choices /\ audio' = a /\ ao' = AudioConfiguration(a, ao)
        /\ UNCHANGED <<plugged, news, m_audioDevices, m_reloadAudioTimer, choices>>
    BY <1>3 DEF SetAudioSettings
  <2>2. IsOutput(ao') /\ Routed(ao', a.device, m_audioDevices)
    BY <2>1, ConfigurationRoutes DEF AudioInv
  <2> QED BY <2>1, <2>2 DEF AudioInv, RouteInv, Routed, Listed, IsOutput
<1>4. ASSUME NEW d \in Devices, Unplug(d)
      PROVE  AudioInv'
  <2>1. /\ d # AutoDevice /\ plugged' = plugged \ {d} /\ news' = TRUE
        /\ UNCHANGED <<m_audioDevices, m_reloadAudioTimer, choices, audio, overruled>>
    BY <1>4, OutputAssumption DEF Unplug
  <2>2. IsOutput(ao') /\ (ao.route # d => ao'.route = ao.route)
    BY <1>4 DEF Unplug, AudioInv, IsOutput
  <2>3. RouteInv'
    BY <2>1, <2>2 DEF AudioInv, RouteInv, Listed
  <2> QED BY <2>1, <2>2, <2>3 DEF AudioInv, IsOutput
<1>5. ASSUME NEW d \in Devices, PlugIn(d)
      PROVE  AudioInv'
  BY <1>5 DEF PlugIn, AudioInv, RouteInv, Listed, IsOutput
<1>6. ASSUME NEW d \in Devices, SetAudioDevice(d)
      PROVE  AudioInv'
  <2>1. /\ ao' = Opened(ao, d, {d}) /\ overruled' = overruled \cup {audio.device}
        /\ UNCHANGED <<plugged, news, m_audioDevices, m_reloadAudioTimer, choices, audio>>
    BY <1>6 DEF SetAudioDevice
  <2>2. IsOutput(ao')
    BY <2>1, OpenedRoutes DEF AudioInv
  <2> QED BY <2>1, <2>2 DEF AudioInv, RouteInv, Listed, IsOutput
<1> QED BY <1>1, <1>2, <1>3, <1>4, <1>5, <1>6 DEF AudioStep

LEMMA AudioNext == AudioInv /\ [OutputNext]_outputVars => AudioInv'
<1>1. AudioInv /\ UNCHANGED audioVars => AudioInv'
  BY DEF audioVars, AudioInv, RouteInv, Listed, IsOutput
<1> QED BY <1>1, AudioStepKeeps DEF OutputNext, outputVars, OtherThanDisplay

LEMMA AudioInit == OutputInit => AudioInv
<1> SUFFICES ASSUME OutputInit
             PROVE  AudioInv
  OBVIOUS
<1>1. /\ plugged \subseteq Devices /\ m_audioDevices = Listed /\ news = TRUE
      /\ choices = Listed \cup {audio.device}
      /\ ao = AudioConfiguration(audio, [device |-> AutoDevice, route |-> AutoDevice, spdif |-> {},
                                         channels |-> "", ac3 |-> FALSE])
  BY DEF OutputInit
<1>2. IsOutput([device |-> AutoDevice, route |-> AutoDevice, spdif |-> {}, channels |-> "", ac3 |-> FALSE])
  BY DEF IsOutput
<1>3. IsOutput(ao) /\ Routed(ao, audio.device, m_audioDevices)
  BY <1>1, <1>2, ConfigurationRoutes
<1> QED BY <1>1, <1>3 DEF AudioInv, RouteInv, Routed

LEMMA AudioShows == AudioInv => DeviceFollows
BY DEF AudioInv, RouteInv, DeviceFollows

-----------------------------------------------------------------------------
(* The streams.                                                            *)

Wanted == Streams \cup {NoStream}

\* Every list of tracks that mpv may have: an external file is in it once.
IsTracks(tracks) ==
  /\ tracks \in Seq(Tracks)
  /\ \A i, j \in DOMAIN tracks : tracks[i] = tracks[j] /\ tracks[i].url # "" => i = j

\* The tracks of a type that a stream s may be.
Matches(tracks, type, s) ==
  {i \in DOMAIN tracks : tracks[i].type = type /\ tracks[i].url = s.url /\ tracks[i].ff = s.id}

\* The number n is that of a track that was asked for, if there is any.
Chosen(tracks, n, type, s) ==
  Matches(tracks, type, s) # {} => \E i \in Matches(tracks, type, s) : TrackId(tracks, i) = n

\* A value of the variable media.
IsMedia(m) ==
  /\ m = [file |-> m.file, tracks |-> m.tracks, sid |-> m.sid, aid |-> m.aid,
          subtitle |-> m.subtitle, audio |-> m.audio]
  /\ IsTracks(m.tracks)
  /\ m.subtitle \in Wanted /\ m.audio \in Wanted /\ m.audio.url = ""

SubtitleChosen(m) ==
  m.tracks # <<>> =>
    Chosen(m.tracks, m.sid, "sub", m.subtitle) /\ (m.subtitle.id = "" => m.sid = 0)

AudioChosen(m) == m.tracks # <<>> => Chosen(m.tracks, m.aid, "audio", m.audio)

StreamInv == IsMedia(media) /\ SubtitleChosen(media) /\ AudioChosen(media)

\* What EXCEPT does to such a record.
LEMMA MediaUpdates ==
  ASSUME NEW m, IsMedia(m), NEW x
  PROVE  /\ [m EXCEPT !.tracks = x]
              = [file |-> m.file, tracks |-> x, sid |-> m.sid, aid |-> m.aid,
                 subtitle |-> m.subtitle, audio |-> m.audio]
         /\ [m EXCEPT !.sid = x]
              = [file |-> m.file, tracks |-> m.tracks, sid |-> x, aid |-> m.aid,
                 subtitle |-> m.subtitle, audio |-> m.audio]
         /\ [m EXCEPT !.aid = x]
              = [file |-> m.file, tracks |-> m.tracks, sid |-> m.sid, aid |-> x,
                 subtitle |-> m.subtitle, audio |-> m.audio]
         /\ [m EXCEPT !.subtitle = x]
              = [file |-> m.file, tracks |-> m.tracks, sid |-> m.sid, aid |-> m.aid,
                 subtitle |-> x, audio |-> m.audio]
         /\ [m EXCEPT !.audio = x]
              = [file |-> m.file, tracks |-> m.tracks, sid |-> m.sid, aid |-> m.aid,
                 subtitle |-> m.subtitle, audio |-> x]
<1>1. PICK file, tracks, sid, aid, subtitle, audio0 :
        m = [file |-> file, tracks |-> tracks, sid |-> sid, aid |-> aid,
             subtitle |-> subtitle, audio |-> audio0]
  BY DEF IsMedia
<1>2. [m EXCEPT !.tracks = x]
        = [file |-> m.file, tracks |-> x, sid |-> m.sid, aid |-> m.aid,
           subtitle |-> m.subtitle, audio |-> m.audio]
  BY <1>1
<1>3. [m EXCEPT !.sid = x]
        = [file |-> m.file, tracks |-> m.tracks, sid |-> x, aid |-> m.aid,
           subtitle |-> m.subtitle, audio |-> m.audio]
  BY <1>1
<1>4. [m EXCEPT !.aid = x]
        = [file |-> m.file, tracks |-> m.tracks, sid |-> m.sid, aid |-> x,
           subtitle |-> m.subtitle, audio |-> m.audio]
  BY <1>1
<1>5. [m EXCEPT !.subtitle = x]
        = [file |-> m.file, tracks |-> m.tracks, sid |-> m.sid, aid |-> m.aid,
           subtitle |-> x, audio |-> m.audio]
  BY <1>1
<1>6. [m EXCEPT !.audio = x]
        = [file |-> m.file, tracks |-> m.tracks, sid |-> m.sid, aid |-> m.aid,
           subtitle |-> m.subtitle, audio |-> x]
  BY <1>1
<1> QED BY <1>2, <1>3, <1>4, <1>5, <1>6

\* The selection finds the stream that was asked for, and sid = 0 if it was
\* no subtitles.
LEMMA SelectionChosen ==
  ASSUME NEW tracks, IsTracks(tracks), NEW type, NEW s
  PROVE  /\ Chosen(tracks, Selection(tracks, s, type), type, s)
         /\ type = "sub" /\ s.id = "" => Selection(tracks, s, type) = 0
<1> DEFINE found == {i \in FindStreamsForURL(tracks, s.url) :
                       tracks[i].type = type /\ tracks[i].ff = s.id}
<1>1. found = Matches(tracks, type, s)
  BY DEF FindStreamsForURL, Matches
<1>2. Selection(tracks, s, type) = IF s.id # "" /\ found # {} THEN TrackId(tracks, Min(found))
                                   ELSE IF type = "audio" \/ s.id # "" THEN 1 ELSE 0
  BY DEF Selection
<1> HIDE DEF found
<1>3. Matches(tracks, type, s) # {} => s.id # ""
  <2>1. tracks \in Seq(Tracks)
    BY DEF IsTracks
  <2>2. \A i \in DOMAIN tracks : tracks[i] \in Tracks
    BY <2>1, SeqFacts
  <2>3. \A x \in Tracks : x.ff # ""
    BY DEF Tracks
  <2> QED BY <2>2, <2>3 DEF Matches
<1>4. found # {} => Min(found) \in found
  <2>1. DOMAIN tracks \subseteq Nat
    <3>1. tracks \in Seq(Tracks)
      BY DEF IsTracks
    <3>2. Len(tracks) \in Nat /\ DOMAIN tracks = 1 .. Len(tracks)
      BY <3>1, SeqFacts
    <3> QED BY <3>2
  <2>2. found \subseteq Nat
    BY <1>1, <2>1 DEF Matches
  <2> QED BY <2>2, SmallestExists
<1> QED BY <1>1, <1>2, <1>3, <1>4 DEF Chosen

\* What reselectStream() makes of the list of tracks.
LEMMA AddedFacts ==
  ASSUME NEW tracks, IsTracks(tracks), NEW s \in Wanted, NEW accepted
  PROVE  LET t == Added(tracks, s, accepted)
         IN  /\ IsTracks(t)
             /\ Len(tracks) \in Nat /\ DOMAIN tracks = 1 .. Len(tracks) /\ DOMAIN tracks \subseteq DOMAIN t
             /\ \A i \in DOMAIN tracks : t[i] = tracks[i]
             /\ \A i \in DOMAIN t \ DOMAIN tracks : t[i].url # ""
<1> DEFINE t == Added(tracks, s, accepted)
           e == ExternalOf[s.url]
<1>1. tracks \in Seq(Tracks) /\ Len(tracks) \in Nat /\ DOMAIN tracks = 1 .. Len(tracks)
  BY SeqFacts DEF IsTracks
<1>2. CASE t = tracks
  BY <1>1, <1>2
<1>3. CASE s.url # "" /\ FindStreamsForURL(tracks, s.url) = {} /\ t = tracks \o e
  <2>1. s.url \in DOMAIN ExternalOf
    <3>1. NoStream.url = ""
      BY DEF NoStream
    <3> QED BY <1>3, <3>1, TracksAssumption DEF Wanted
  <2>2. /\ e \in Seq(Tracks) /\ IsInjective(e) /\ \A i \in DOMAIN e : e[i].url = s.url
    BY <2>1, TracksAssumption
  <2> HIDE DEF e
  <2>3. Len(e) \in Nat /\ DOMAIN e = 1 .. Len(e)
    BY <2>2, SeqFacts
  <2>4. /\ t \in Seq(Tracks) /\ Len(t) = Len(tracks) + Len(e)
        /\ \A i \in 1 .. Len(tracks) + Len(e) :
             t[i] = IF i <= Len(tracks) THEN tracks[i] ELSE e[i - Len(tracks)]
    BY <1>1, <1>3, <2>2, ConcatProperties
  <2> HIDE DEF t
  <2>5. DOMAIN t = 1 .. Len(tracks) + Len(e)
    BY <2>4, SeqFacts
  <2>6. \A i \in DOMAIN tracks : t[i] = tracks[i] /\ i \in DOMAIN t /\ tracks[i].url # s.url
    <3>1. ASSUME NEW i \in DOMAIN tracks
          PROVE  t[i] = tracks[i] /\ i \in DOMAIN t
      <4>1. i \in 1 .. Len(tracks) + Len(e) /\ i <= Len(tracks)
        BY <1>1, <2>3
      <4> QED BY <2>4, <2>5, <4>1
    <3>2. \A i \in DOMAIN tracks : tracks[i].url # s.url
      BY <1>3 DEF FindStreamsForURL
    <3> QED BY <3>1, <3>2
  <2>7. ASSUME NEW i \in DOMAIN t \ DOMAIN tracks
        PROVE  /\ i - Len(tracks) \in DOMAIN e /\ i \in Nat
               /\ t[i] = e[i - Len(tracks)] /\ t[i].url = s.url
    <3>1. i \in Nat /\ i > Len(tracks) /\ i <= Len(tracks) + Len(e)
      BY <1>1, <2>3, <2>5
    <3>2. i - Len(tracks) \in DOMAIN e /\ t[i] = e[i - Len(tracks)]
      BY <1>1, <2>3, <2>4, <3>1
    <3> QED BY <2>2, <3>1, <3>2
  <2>8. ASSUME NEW i \in DOMAIN t, NEW j \in DOMAIN t, t[i] = t[j], t[i].url # ""
        PROVE  i = j
    <3>1. CASE i \in DOMAIN tracks /\ j \in DOMAIN tracks
      BY <2>6, <2>8, <3>1 DEF IsTracks
    <3>2. CASE i \notin DOMAIN tracks /\ j \notin DOMAIN tracks
      <4>1. i - Len(tracks) = j - Len(tracks)
        BY <2>2, <2>7, <2>8, <3>2 DEF IsInjective
      <4> QED BY <1>1, <2>7, <3>2, <4>1
    <3> QED BY <2>6, <2>7, <2>8, <3>1, <3>2
  <2>9. IsTracks(t)
    BY <2>4, <2>8 DEF IsTracks
  <2>10. \A i \in DOMAIN t \ DOMAIN tracks : t[i].url # ""
    BY <1>3, <2>7
  <2> QED BY <1>1, <2>6, <2>9, <2>10 DEF t
<1> QED BY <1>2, <1>3 DEF Added

LEMMA UpToHere ==
  ASSUME NEW l \in Nat, NEW i \in 1 .. l, NEW j \in 1 .. i
  PROVE  j \in 1 .. l
OBVIOUS

\* Adding an external file leaves the numbers of the tracks, and the choice
\* of a stream of the file itself, as they are.
LEMMA ChosenStays ==
  ASSUME NEW tracks, IsTracks(tracks), NEW s \in Wanted, NEW accepted,
         NEW n, NEW type, NEW w, w.url = "", Chosen(tracks, n, type, w)
  PROVE  Chosen(Added(tracks, s, accepted), n, type, w)
<1> DEFINE t == Added(tracks, s, accepted)
<1>1. /\ Len(tracks) \in Nat /\ DOMAIN tracks = 1 .. Len(tracks) /\ DOMAIN tracks \subseteq DOMAIN t
      /\ \A i \in DOMAIN tracks : t[i] = tracks[i]
      /\ \A i \in DOMAIN t \ DOMAIN tracks : t[i].url # ""
  BY AddedFacts
<1> HIDE DEF t
<1>2. Matches(t, type, w) = Matches(tracks, type, w)
  BY <1>1 DEF Matches
<1>3. ASSUME NEW i \in DOMAIN tracks
      PROVE  TrackId(t, i) = TrackId(tracks, i)
  <2>1. \A j \in 1 .. i : t[j] = tracks[j]
    <3>1. PICK l \in Nat : DOMAIN tracks = 1 .. l
      BY <1>1
    <3>2. i \in 1 .. l
      BY <3>1
    <3>3. ASSUME NEW j \in 1 .. i
          PROVE  j \in DOMAIN tracks
      BY <3>1, <3>2, UpToHere
    <3> QED BY <1>1, <3>3
  <2>2. t[i] = tracks[i]
    BY <1>1
  <2>3. {j \in 1 .. i : t[j].type = t[i].type} = {j \in 1 .. i : tracks[j].type = tracks[i].type}
    BY <2>1, <2>2
  <2> QED BY <2>3 DEF TrackId
<1>4. Chosen(t, n, type, w)
  BY <1>2, <1>3 DEF Chosen, Matches
<1> QED BY <1>4 DEF t

LEMMA ReselectSubtitleChooses ==
  ASSUME NEW m, IsMedia(m), NEW accepted
  PROVE  LET r == ReselectSubtitle(m, accepted)
         IN  IsMedia(r) /\ SubtitleChosen(r) /\ (AudioChosen(m) => AudioChosen(r))
<1> DEFINE a      == accepted /\ m.tracks # <<>>
           tracks == Added(m.tracks, m.subtitle, a)
           r      == ReselectSubtitle(m, accepted)
<1>1. r = [m EXCEPT !.tracks = tracks, !.sid = Selection(tracks, m.subtitle, "sub")]
  BY DEF ReselectSubtitle
<1>2. IsTracks(tracks)
  BY AddedFacts DEF IsMedia
<1>3. m.tracks = <<>> => tracks = <<>>
  BY DEF Added
<1>4. Chosen(m.tracks, m.aid, "audio", m.audio) => Chosen(tracks, m.aid, "audio", m.audio)
  <2> HIDE DEF a
  <2> QED BY ChosenStays DEF IsMedia
<1>5. /\ Chosen(tracks, Selection(tracks, m.subtitle, "sub"), "sub", m.subtitle)
      /\ m.subtitle.id = "" => Selection(tracks, m.subtitle, "sub") = 0
  BY <1>2, SelectionChosen
<1> HIDE DEF tracks, r, a
<1>6. /\ r = [file |-> m.file, tracks |-> tracks, sid |-> Selection(tracks, m.subtitle, "sub"),
              aid |-> m.aid, subtitle |-> m.subtitle, audio |-> m.audio]
  <2>1. PICK file, tracks0, sid, aid, subtitle, audio0 :
          m = [file |-> file, tracks |-> tracks0, sid |-> sid, aid |-> aid,
               subtitle |-> subtitle, audio |-> audio0]
    BY DEF IsMedia
  <2> QED BY <1>1, <2>1
<1>7. IsMedia(r)
  BY <1>2, <1>6 DEF IsMedia
<1>8. SubtitleChosen(r)
  BY <1>5, <1>6 DEF SubtitleChosen
<1>9. AudioChosen(m) => AudioChosen(r)
  BY <1>3, <1>4, <1>6 DEF AudioChosen
<1> QED BY <1>7, <1>8, <1>9 DEF r

LEMMA ReselectAudioChooses ==
  ASSUME NEW m, IsMedia(m), SubtitleChosen(m)
  PROVE  LET r == ReselectAudio(m)
         IN  IsMedia(r) /\ SubtitleChosen(r) /\ AudioChosen(r)
<1>1. Chosen(m.tracks, Selection(m.tracks, m.audio, "audio"), "audio", m.audio)
  BY SelectionChosen DEF IsMedia
<1>2. ReselectAudio(m) = [file |-> m.file, tracks |-> m.tracks, sid |-> m.sid,
                          aid |-> Selection(m.tracks, m.audio, "audio"),
                          subtitle |-> m.subtitle, audio |-> m.audio]
  BY MediaUpdates DEF ReselectAudio
<1>3. PICK r : r = ReselectAudio(m)
  OBVIOUS
<1>4. /\ r.tracks = m.tracks /\ r.sid = m.sid /\ r.subtitle = m.subtitle /\ r.audio = m.audio
      /\ r.aid = Selection(m.tracks, m.audio, "audio")
      /\ r = [file |-> r.file, tracks |-> r.tracks, sid |-> r.sid, aid |-> r.aid,
              subtitle |-> r.subtitle, audio |-> r.audio]
  BY <1>2, <1>3
<1>5. IsMedia(r)
  BY <1>4 DEF IsMedia
<1>6. SubtitleChosen(r)
  BY <1>4 DEF SubtitleChosen
<1>7. AudioChosen(r)
  BY <1>1, <1>4 DEF AudioChosen
<1> QED BY <1>3, <1>5, <1>6, <1>7

LEMMA StreamStepKeeps == StreamInv /\ StreamStep => StreamInv'
<1> SUFFICES ASSUME StreamInv, StreamStep
             PROVE  StreamInv'
  OBVIOUS
<1> USE DEF StreamInv
<1>0. IsTracks(<<>>)
  BY DEF IsTracks
<1>1. ASSUME NEW f \in DOMAIN TracksOf, NEW s \in Streams, NEW a \in AudioStreams, LoadMedia(f, s, a)
      PROVE  StreamInv'
  BY <1>0, <1>1 DEF LoadMedia, IsMedia, SubtitleChosen, AudioChosen, AudioStreams, Wanted
<1>2. ASSUME NEW accepted \in BOOLEAN, SelectStreams(accepted)
      PROVE  StreamInv'
  <2> DEFINE m == [media EXCEPT !.tracks = TracksOf[media.file]]
             r == ReselectSubtitle(m, accepted)
  <2>1. media.file \in DOMAIN TracksOf /\ media' = ReselectAudio(r)
    BY <1>2 DEF SelectStreams
  <2>2. IsTracks(TracksOf[media.file])
    BY <2>1, TracksAssumption DEF IsTracks
  <2>3. m = [file |-> media.file, tracks |-> TracksOf[media.file], sid |-> media.sid,
             aid |-> media.aid, subtitle |-> media.subtitle, audio |-> media.audio]
    BY MediaUpdates
  <2> HIDE DEF m
  <2>4. IsMedia(m)
    BY <2>2, <2>3 DEF IsMedia
  <2>5. IsMedia(r) /\ SubtitleChosen(r)
    BY <2>4, ReselectSubtitleChooses
  <2> QED BY <2>1, <2>5, ReselectAudioChooses
<1>3. ASSUME NEW accepted \in BOOLEAN, NEW s \in Streams, SetSubtitleStream(s, accepted)
      PROVE  StreamInv'
  <2> DEFINE m == [media EXCEPT !.subtitle = s]
  <2>1. m = [file |-> media.file, tracks |-> media.tracks, sid |-> media.sid,
             aid |-> media.aid, subtitle |-> s, audio |-> media.audio]
    BY MediaUpdates
  <2>2. media' = ReselectSubtitle(m, accepted)
    BY <1>3 DEF SetSubtitleStream
  <2> HIDE DEF m
  <2>3. IsMedia(m) /\ AudioChosen(m)
    BY <2>1 DEF IsMedia, AudioChosen, Wanted
  <2> QED BY <2>2, <2>3, ReselectSubtitleChooses
<1>4. ASSUME NEW s \in AudioStreams, SetAudioStream(s)
      PROVE  StreamInv'
  <2> DEFINE m == [media EXCEPT !.audio = s]
  <2>1. m = [file |-> media.file, tracks |-> media.tracks, sid |-> media.sid,
             aid |-> media.aid, subtitle |-> media.subtitle, audio |-> s]
    BY MediaUpdates
  <2>2. media' = ReselectAudio(m)
    BY <1>4 DEF SetAudioStream
  <2> HIDE DEF m
  <2>3. IsMedia(m) /\ SubtitleChosen(m)
    BY <2>1 DEF IsMedia, SubtitleChosen, Wanted, AudioStreams
  <2> QED BY <2>2, <2>3, ReselectAudioChooses
<1> QED BY <1>1, <1>2, <1>3, <1>4 DEF StreamStep

LEMMA StreamNext == StreamInv /\ [OutputNext]_outputVars => StreamInv'
<1>1. StreamInv /\ UNCHANGED media => StreamInv'
  BY DEF StreamInv, IsMedia, SubtitleChosen, AudioChosen
<1> QED BY <1>1, StreamStepKeeps DEF OutputNext, outputVars, OtherThanDisplay

LEMMA StreamInit == OutputInit => StreamInv
<1> SUFFICES ASSUME OutputInit
             PROVE  StreamInv
  OBVIOUS
<1>1. media = [file |-> "none", tracks |-> <<>>, sid |-> 0, aid |-> 0,
               subtitle |-> NoStream, audio |-> NoStream]
  BY DEF OutputInit
<1>2. IsTracks(<<>>) /\ NoStream.url = "" /\ NoStream \in Wanted
  BY DEF IsTracks, NoStream, Wanted
<1>3. media.tracks = <<>> /\ media.subtitle = NoStream /\ media.audio = NoStream
  BY <1>1
<1>4. IsMedia(media)
  BY <1>1, <1>2 DEF IsMedia
<1> QED BY <1>3, <1>4 DEF StreamInv, SubtitleChosen, AudioChosen

LEMMA StreamShows == StreamInv => StreamsAreChosen
<1> SUFFICES ASSUME StreamInv, media.tracks # <<>>
             PROVE  StreamsAreChosen
  BY DEF StreamsAreChosen
<1>1. ASSUME NEW type, NEW s, NEW n, Chosen(media.tracks, n, type, s),
             NEW i \in DOMAIN media.tracks, IsTrack(TrackId(media.tracks, i), type, s)
      PROVE  IsTrack(n, type, s)
  BY <1>1 DEF Chosen, Matches, IsTrack
<1>2. /\ Chosen(media.tracks, media.sid, "sub", media.subtitle)
      /\ Chosen(media.tracks, media.aid, "audio", media.audio)
      /\ media.subtitle.id = "" => media.sid = 0
  BY DEF StreamInv, SubtitleChosen, AudioChosen
<1>3. \A i, j \in DOMAIN media.tracks :
        media.tracks[i] = media.tracks[j] /\ media.tracks[i].url # "" => i = j
  BY DEF StreamInv, IsMedia, IsTracks
<1> QED BY <1>1, <1>2, <1>3 DEF StreamsAreChosen

-----------------------------------------------------------------------------
(* The mode searches.                                                      *)

LEMMA DistanceFacts ==
  ASSUME NEW a \in Nat, NEW b \in Nat
  PROVE  Distance(a, b) \in Nat /\ a - b <= Distance(a, b) /\ b - a <= Distance(a, b)
BY DEF Distance

\* Rounding moves a rate by half a hertz at most.
LEMMA RoundHzFacts ==
  ASSUME NEW r \in Nat
  PROVE  /\ RoundHz(r) \in Nat
         /\ 1000 * RoundHz(r) <= r + 500 /\ r <= 1000 * RoundHz(r) + 500
<1> DEFINE hz == r \div 1000
           rest == r % 1000
<1>1. hz \in Nat /\ rest \in 0 .. 999 /\ r = 1000 * hz + rest
  OBVIOUS
<1>2. RoundHz(r) \in {hz, hz + 1} /\ (RoundHz(r) = hz + 1 => rest >= 500) /\ (RoundHz(r) = hz => rest <= 500)
  <2> DEFINE odd == hz % 2 = 1
  <2>1. RoundHz(r) = IF rest > 500 \/ (rest = 500 /\ odd) THEN hz + 1 ELSE hz
    BY DEF RoundHz
  <2> HIDE DEF odd, hz, rest
  <2> QED BY <1>1, <2>1
<1> HIDE DEF hz, rest
<1> QED BY <1>1, <1>2

\* A whole quotient.
LEMMA QuotientFacts ==
  ASSUME NEW a \in Nat, NEW b \in Nat, b > 0
  PROVE  /\ (a \div b) \in Nat
         /\ (a \div b) * b <= a /\ a < (a \div b) * b + b
OBVIOUS

\* An exact multiple that is as close as half a hertz is the rate itself.
LEMMA CloseMultipleIsExact ==
  ASSUME NEW r \in Nat, NEW m \in Nat,
         IsRateMultipleOf(r, m, TRUE), Distance(m, r) <= 500
  PROVE  Distance(m, r) <= 10
<1> DEFINE hr == RoundHz(r)
           hm == RoundHz(m)
           f  == hm \div hr
<1>1. /\ hr \in Nat /\ 1000 * hr <= r + 500 /\ r <= 1000 * hr + 500
      /\ hm \in Nat /\ 1000 * hm <= m + 500 /\ m <= 1000 * hm + 500
  BY RoundHzFacts
<1>2. hr # 0 /\ f * r >= 1000 /\ Distance(f * r, m) < 10 * f
  BY DEF IsRateMultipleOf
<1> HIDE DEF hr, hm
<1>3. f \in Nat /\ f * hr <= hm /\ hm < f * hr + hr
  BY <1>1, <1>2, QuotientFacts
<1> HIDE DEF f
<1>4. f * r \in Nat
  BY <1>3
<1>5. f * r - m < 10 * f
  BY <1>2, <1>3, <1>4, DistanceFacts
<1>6. m - r <= 500
  BY DistanceFacts
<1>7. CASE f = 0
  BY <1>2, <1>7
<1>8. CASE f = 1
  BY <1>2, <1>8 DEF Distance
<1>9. CASE f >= 2
  <2>1. r < 520
    <3> SUFFICES ASSUME r >= 520 PROVE FALSE
      OBVIOUS
    <3>1. f * r - r >= 10 * f + 500
      BY <1>3, <1>9
    <3> DEFINE p == f * r
    <3>2. p \in Nat /\ p - m < 10 * f /\ p - r >= 10 * f + 500
      BY <1>4, <1>5, <3>1
    <3> HIDE DEF p
    <3> QED BY <1>3, <1>6, <3>2
  <2>2. hr = 1
    BY <1>1, <1>2, <2>1
  <2>3. hm >= 2
    BY <1>1, <1>3, <1>9, <2>2
  <2> QED BY <1>1, <1>6, <2>1, <2>3
<1> QED BY <1>3, <1>7, <1>8, <1>9

\* A multiple is one by the factor that the code computes.
LEMMA MultipleHasFactor ==
  ASSUME NEW r \in Nat, NEW m \in Nat, IsRateMultipleOf(r, m, TRUE)
  PROVE  \E k \in 1 .. RoundHz(m) : Distance(k * r, m) < 10 * k
<1> DEFINE hr == RoundHz(r)
           hm == RoundHz(m)
           f  == hm \div hr
<1>1. hr \in Nat /\ hm \in Nat
  BY RoundHzFacts
<1>2. hr # 0 /\ f * r >= 1000 /\ Distance(f * r, m) < 10 * f
  BY DEF IsRateMultipleOf
<1> HIDE DEF hr, hm
<1>3. f \in Nat /\ f * hr <= hm
  BY <1>1, <1>2, QuotientFacts
<1> HIDE DEF f
<1>4. f # 0
  BY <1>2
<1>5. f <= f * hr /\ f * hr \in Nat
  BY <1>1, <1>2, <1>3
<1>6. f \in 1 .. hm
  BY <1>1, <1>3, <1>4, <1>5
<1> QED BY <1>2, <1>6 DEF hm

\* An exact multiple by a factor of a hundred or less is an approximate one.
LEMMA ExactMultipleIsApproximate ==
  ASSUME NEW r \in Nat, NEW m \in Nat, m <= 50 * r,
         IsRateMultipleOf(r, m, TRUE)
  PROVE  IsRateMultipleOf(r, m, FALSE)
<1> DEFINE hr == RoundHz(r)
           hm == RoundHz(m)
           f  == hm \div hr
<1>1. /\ hr \in Nat /\ 1000 * hr <= r + 500 /\ r <= 1000 * hr + 500
      /\ hm \in Nat /\ 1000 * hm <= m + 500 /\ m <= 1000 * hm + 500
  BY RoundHzFacts
<1>2. hr # 0 /\ f * r >= 1000 /\ Distance(f * r, m) < 10 * f
  BY DEF IsRateMultipleOf
<1>3. IsRateMultipleOf(r, m, FALSE) <=> Distance(f * r, m) < 1000
  BY <1>2 DEF IsRateMultipleOf
<1> HIDE DEF hr, hm
<1>4. f \in Nat /\ f * hr <= hm
  BY <1>1, <1>2, QuotientFacts
<1> HIDE DEF f
<1>5. f * r \in Nat
  BY <1>4
<1>6. Distance(f * r, m) \in Nat
  BY <1>5, DistanceFacts
<1>7. hm <= 76 * hr
  BY <1>1, <1>2
<1>8. f <= 76
  <2> SUFFICES ASSUME f >= 77 PROVE FALSE
    BY <1>4
  <2>1. f * hr >= 77 * hr
    BY <1>1, <1>4
  <2>2. f * hr \in Nat
    BY <1>1, <1>4
  <2> QED BY <1>1, <1>2, <1>4, <1>7, <2>1, <2>2
<1> DEFINE d == Distance(f * r, m)
<1>9. d \in Nat /\ d < 10 * f /\ (d < 1000 => IsRateMultipleOf(r, m, FALSE))
  BY <1>2, <1>3, <1>6
<1> HIDE DEF d
<1>10. f \in Nat
  BY <1>4
<1>11. d < 1000
  <2>1. d < 10 * f /\ d \in Nat
    BY <1>9
  <2> QED BY <1>8, <1>10, <2>1
<1> QED BY <1>9, <1>11

\* What findBestMatch gives for a rate.
Points(rate) ==
  (IF Distance(rate, film) <= 10 THEN 200 ELSE 0) + (IF IsRateMultipleOf(film, rate, TRUE) THEN 75 ELSE 0)
  + (IF Distance(rate, film) <= 500 THEN 50 ELSE 0) + (IF IsRateMultipleOf(film, rate, FALSE) THEN 25 ELSE 0)

LEMMA SuitsByWord ==
  ASSUME NEW x, NEW y
  PROVE  LET E(r) == Distance(r, film) <= 10
             M(r) == IsRateMultipleOf(film, r, TRUE)
             C(r) == Distance(r, film) <= 500
             A(r) == IsRateMultipleOf(film, r, FALSE)
         IN  /\ \/ E(x) /\ ~E(y)
                \/ (E(x) <=> E(y)) /\ M(x) /\ ~M(y)
                \/ (E(x) <=> E(y)) /\ (M(x) <=> M(y)) /\ C(x) /\ ~C(y)
                \/ (E(x) <=> E(y)) /\ (M(x) <=> M(y)) /\ (C(x) <=> C(y)) /\ A(x) /\ ~A(y)
                => SuitsBetter(x, y)
             /\ (E(x) <=> E(y)) /\ (M(x) <=> M(y)) /\ (C(x) <=> C(y)) /\ (A(x) <=> A(y))
                => SuitsAsWell(x, y)
<1> DEFINE E(r) == Distance(r, film) <= 10
           M(r) == IsRateMultipleOf(film, r, TRUE)
           C(r) == Distance(r, film) <= 500
           A(r) == IsRateMultipleOf(film, r, FALSE)
<1>1. \A r : Virtues(r) = <<E(r), M(r), C(r), A(r)>>
  BY DEF Virtues
<1> HIDE DEF E, M, C, A
<1>2. \A r : Virtues(r)[1] = E(r) /\ Virtues(r)[2] = M(r) /\ Virtues(r)[3] = C(r) /\ Virtues(r)[4] = A(r)
  BY <1>1
<1>3. ASSUME E(x), ~E(y)
      PROVE  SuitsBetter(x, y)
  <2>1. Virtues(x)[1] /\ ~Virtues(y)[1] /\ 1 \in 1 .. 4 /\ 1 .. 1 - 1 = {}
    BY <1>2, <1>3
  <2> QED BY <2>1 DEF SuitsBetter
<1>4. ASSUME E(x) <=> E(y), M(x), ~M(y)
      PROVE  SuitsBetter(x, y)
  <2>1. Virtues(x)[2] /\ ~Virtues(y)[2] /\ 2 \in 1 .. 4
    BY <1>2, <1>4
  <2>2. \A j \in 1 .. 2 - 1 : Virtues(x)[j] <=> Virtues(y)[j]
    BY <1>2, <1>4
  <2> QED BY <2>1, <2>2 DEF SuitsBetter
<1>5. ASSUME E(x) <=> E(y), M(x) <=> M(y), C(x), ~C(y)
      PROVE  SuitsBetter(x, y)
  <2>1. Virtues(x)[3] /\ ~Virtues(y)[3] /\ 3 \in 1 .. 4
    BY <1>2, <1>5
  <2>2. \A j \in 1 .. 3 - 1 : Virtues(x)[j] <=> Virtues(y)[j]
    BY <1>2, <1>5
  <2> QED BY <2>1, <2>2 DEF SuitsBetter
<1>6. ASSUME E(x) <=> E(y), M(x) <=> M(y), C(x) <=> C(y), A(x), ~A(y)
      PROVE  SuitsBetter(x, y)
  <2>1. Virtues(x)[4] /\ ~Virtues(y)[4] /\ 4 \in 1 .. 4
    BY <1>2, <1>6
  <2>2. \A j \in 1 .. 4 - 1 : Virtues(x)[j] <=> Virtues(y)[j]
    BY <1>2, <1>6
  <2> QED BY <2>1, <2>2 DEF SuitsBetter
<1>7. ASSUME E(x) <=> E(y), M(x) <=> M(y), C(x) <=> C(y), A(x) <=> A(y)
      PROVE  SuitsAsWell(x, y)
  BY <1>2, <1>7 DEF SuitsAsWell
<1>8. /\ \/ E(x) /\ ~E(y)
         \/ (E(x) <=> E(y)) /\ M(x) /\ ~M(y)
         \/ (E(x) <=> E(y)) /\ (M(x) <=> M(y)) /\ C(x) /\ ~C(y)
         \/ (E(x) <=> E(y)) /\ (M(x) <=> M(y)) /\ (C(x) <=> C(y)) /\ A(x) /\ ~A(y)
         => SuitsBetter(x, y)
      /\ (E(x) <=> E(y)) /\ (M(x) <=> M(y)) /\ (C(x) <=> C(y)) /\ (A(x) <=> A(y))
         => SuitsAsWell(x, y)
  BY <1>3, <1>4, <1>5, <1>6, <1>7
<1> QED BY <1>8 DEF E, M, C, A

\* Of two modes on offer the one with more points for its rate suits better.
LEMMA PointsDecide ==
  ASSUME film \in FilmRates, NEW m \in Offers, NEW n \in Offers
  PROVE  /\ Points(m.rate) \in 0 .. 350 /\ Points(n.rate) \in 0 .. 350
         /\ \/ Points(m.rate) >= Points(n.rate) + 25 /\ SuitsBetter(m.rate, n.rate)
            \/ Points(m.rate) = Points(n.rate) /\ SuitsAsWell(m.rate, n.rate)
            \/ Points(n.rate) >= Points(m.rate) + 25
<1> DEFINE x == m.rate
           y == n.rate
           E(r) == Distance(r, film) <= 10
           M(r) == IsRateMultipleOf(film, r, TRUE)
           C(r) == Distance(r, film) <= 500
           A(r) == IsRateMultipleOf(film, r, FALSE)
<1>1. x \in Nat /\ y \in Nat /\ film \in Nat
  BY SearchAssumption
<1>2. \A r \in {x, y} : E(r) \in BOOLEAN /\ M(r) \in BOOLEAN /\ C(r) \in BOOLEAN /\ A(r) \in BOOLEAN
  BY DEF IsRateMultipleOf
<1>3. \A r \in {x, y} : (E(r) => C(r)) /\ (M(r) /\ C(r) => E(r))
  <2> SUFFICES ASSUME NEW r \in {x, y}
               PROVE  (E(r) => C(r)) /\ (M(r) /\ C(r) => E(r))
    OBVIOUS
  <2>1. r \in Nat /\ Distance(r, film) \in Nat
    BY <1>1, DistanceFacts
  <2>2. E(r) => C(r)
    BY <2>1
  <2>3. M(r) /\ C(r) => E(r)
    BY <1>1, <2>1, CloseMultipleIsExact
  <2> QED BY <2>2, <2>3
<1>4. C(x) \/ C(y) => x <= 50 * film /\ y <= 50 * film
  BY SearchAssumption
<1>5. C(x) \/ C(y) => (M(x) => A(x)) /\ (M(y) => A(y))
  BY <1>1, <1>4, ExactMultipleIsApproximate
<1>6. /\ Points(x) = (IF E(x) THEN 200 ELSE 0) + (IF M(x) THEN 75 ELSE 0)
                     + (IF C(x) THEN 50 ELSE 0) + (IF A(x) THEN 25 ELSE 0)
      /\ Points(y) = (IF E(y) THEN 200 ELSE 0) + (IF M(y) THEN 75 ELSE 0)
                     + (IF C(y) THEN 50 ELSE 0) + (IF A(y) THEN 25 ELSE 0)
  BY DEF Points
<1>7. /\ \/ E(x) /\ ~E(y)
         \/ (E(x) <=> E(y)) /\ M(x) /\ ~M(y)
         \/ (E(x) <=> E(y)) /\ (M(x) <=> M(y)) /\ C(x) /\ ~C(y)
         \/ (E(x) <=> E(y)) /\ (M(x) <=> M(y)) /\ (C(x) <=> C(y)) /\ A(x) /\ ~A(y)
         => SuitsBetter(x, y)
      /\ (E(x) <=> E(y)) /\ (M(x) <=> M(y)) /\ (C(x) <=> C(y)) /\ (A(x) <=> A(y))
         => SuitsAsWell(x, y)
  BY SuitsByWord
<1> HIDE DEF E, M, C, A, x, y
<1>8. /\ Points(x) \in 0 .. 350 /\ Points(y) \in 0 .. 350
      /\ \/ Points(x) >= Points(y) + 25 /\ \/ E(x) /\ ~E(y)
                                           \/ (E(x) <=> E(y)) /\ M(x) /\ ~M(y)
                                           \/ (E(x) <=> E(y)) /\ (M(x) <=> M(y)) /\ C(x) /\ ~C(y)
                                           \/ (E(x) <=> E(y)) /\ (M(x) <=> M(y)) /\ (C(x) <=> C(y)) /\ A(x) /\ ~A(y)
         \/ Points(x) = Points(y) /\ (E(x) <=> E(y)) /\ (M(x) <=> M(y)) /\ (C(x) <=> C(y)) /\ (A(x) <=> A(y))
         \/ Points(y) >= Points(x) + 25
  BY <1>2, <1>3, <1>5, <1>6
<1>9. /\ Points(x) \in 0 .. 350 /\ Points(y) \in 0 .. 350
      /\ \/ Points(x) >= Points(y) + 25 /\ SuitsBetter(x, y)
         \/ Points(x) = Points(y) /\ SuitsAsWell(x, y)
         \/ Points(y) >= Points(x) + 25
  BY <1>7, <1>8
<1> QED BY <1>9 DEF x, y

\* The inputs of a search.
SearchInputs ==
  /\ offered \in UNION {[1 .. n -> Offers] : n \in 1 .. MaxModes}
  /\ active \in Ids(offered)
  /\ film \in FilmRates
  /\ avoiding \in BOOLEAN

LEMMA InputFacts ==
  ASSUME SearchInputs
  PROVE  /\ Len(offered) \in Nat \ {0} /\ Ids(offered) = 1 .. Len(offered)
         /\ \A id \in Ids(offered) :
              /\ id \in Nat /\ id # NoMode
              /\ offered[id] \in Offers /\ offered[id].rate \in Nat
              /\ offered[id].width \in Nat /\ offered[id].height \in Nat /\ offered[id].bpp \in Nat
              /\ offered[id].interlaced \in BOOLEAN
<1>1. PICK n \in 1 .. MaxModes : offered \in [1 .. n -> Offers]
  BY DEF SearchInputs
<1>2. n \in Nat /\ n >= 1
  BY <1>1, SearchAssumption
<1>3. offered \in Seq(Offers) /\ Len(offered) = n
  BY <1>1, <1>2
<1>4. Ids(offered) = 1 .. n
  BY <1>3 DEF Ids
<1>5. ASSUME NEW id \in Ids(offered)
      PROVE  id \in Nat /\ id # NoMode /\ offered[id] \in Offers
  BY <1>1, <1>2, <1>4, <1>5 DEF NoMode
<1>6. \A m \in Offers : /\ m.rate \in Nat /\ m.width \in Nat /\ m.height \in Nat /\ m.bpp \in Nat
                        /\ m.interlaced \in BOOLEAN
  BY SearchAssumption
<1> QED BY <1>2, <1>3, <1>4, <1>5, <1>6

\* The heaviest of some candidates exists.
Weighs(W, S) == W \in [S -> 0 .. 2000]

LEMMA HeaviestExists ==
  ASSUME NEW S, S # {}, NEW W, Weighs(W, S)
  PROVE  \E id \in S : \A other \in S : W[id] >= W[other]
<1> DEFINE T == {2000 - W[id] : id \in S}
<1>1. T \subseteq Nat /\ T # {}
  BY DEF Weighs
<1>2. Min(T) \in T /\ \A y \in T : Min(T) <= y
  <2> HIDE DEF T
  <2> QED BY <1>1, SmallestExists
<1>3. PICK w \in T : \A y \in T : w <= y
  <2> HIDE DEF T
  <2> QED BY <1>2
<1>4. PICK id \in S : w = 2000 - W[id]
  BY <1>3
<1>5. ASSUME NEW other \in S
      PROVE  W[id] >= W[other]
  <2>1. 2000 - W[other] \in T
    OBVIOUS
  <2>2. w <= 2000 - W[other]
    BY <1>3, <2>1
  <2>3. W[id] \in 0 .. 2000 /\ W[other] \in 0 .. 2000
    BY DEF Weighs
  <2> DEFINE i == W[id]
             o == W[other]
  <2>4. i \in 0 .. 2000 /\ o \in 0 .. 2000 /\ 2000 - i <= 2000 - o
    BY <1>4, <2>2, <2>3
  <2> HIDE DEF i, o
  <2>5. i >= o
    BY <2>4
  <2> QED BY <2>5 DEF i, o
<1> QED BY <1>5

\* The weight of a mode, and what it consists of.
ForResolution(id)  == IF SameResolution(offered[id], offered[active]) THEN 1000 ELSE 0
ForInterlacing(id) == IF offered[id].interlaced THEN 0 ELSE 10
ForCurrent(id)     == IF id = active THEN 5 ELSE 0

LEMMA WeightFacts ==
  ASSUME SearchInputs, NEW id \in Ids(offered)
  PROVE  /\ Weight(offered, active, id, film)
              = ForResolution(id) + Points(offered[id].rate) + ForInterlacing(id) + ForCurrent(id)
         /\ Points(offered[id].rate) \in 0 .. 350
         /\ Weight(offered, active, id, film) \in 0 .. 2000
         /\ Weight(offered, active, id, film) > MatchRes => SameResolution(offered[id], offered[active])
<1> DEFINE m == offered[id]
           W == Weight(offered, active, id, film)
           same == ForResolution(id)
           lace == ForInterlacing(id)
           own  == ForCurrent(id)
           e == IF Distance(m.rate, film) <= 10 THEN 200 ELSE 0
           x == IF IsRateMultipleOf(film, m.rate, TRUE) THEN 75 ELSE 0
           c == IF Distance(m.rate, film) <= 500 THEN 50 ELSE 0
           a == IF IsRateMultipleOf(film, m.rate, FALSE) THEN 25 ELSE 0
<1>1. m \in Offers /\ film \in FilmRates
  BY InputFacts DEF SearchInputs
<1>2. W = same + e + x + c + a + (IF ~m.interlaced THEN 10 ELSE 0) + own
  BY DEF Weight, MatchRes, MatchRateExact, MatchRateMultiple, MatchRateClose, MatchMultipleClose,
         MatchInterlace, MatchCurrent, ForResolution, ForCurrent
<1>3. (IF ~m.interlaced THEN 10 ELSE 0) = lace
  BY DEF ForInterlacing
<1>4. Points(m.rate) = e + x + c + a
  BY DEF Points
<1>5. e \in 0 .. 200 /\ x \in 0 .. 75 /\ c \in 0 .. 50 /\ a \in 0 .. 25
  OBVIOUS
<1>6. same \in 0 .. 1000 /\ lace \in 0 .. 10 /\ own \in 0 .. 5 /\ (same = 0 \/ SameResolution(m, offered[active]))
  BY DEF ForResolution, ForInterlacing, ForCurrent
<1>7. Points(m.rate) \in 0 .. 350
  BY <1>1, PointsDecide
<1> HIDE DEF W, same, lace, own, e, x, c, a
<1>8. W = same + Points(m.rate) + lace + own
  BY <1>2, <1>3, <1>4, <1>5, <1>6
<1>9. W \in 0 .. 2000 /\ (W > 1000 => same # 0)
  <2> DEFINE p == Points(m.rate)
  <2>1. p \in 0 .. 350 /\ same \in 0 .. 1000 /\ lace \in 0 .. 10 /\ own \in 0 .. 5
    BY <1>6, <1>7
  <2>2. W = same + p + lace + own
    BY <1>8
  <2> HIDE DEF p
  <2> QED BY <2>1, <2>2
<1>10. W > MatchRes => SameResolution(m, offered[active])
  BY <1>6, <1>9 DEF MatchRes
<1>11. /\ W = same + Points(m.rate) + lace + own
       /\ Points(m.rate) \in 0 .. 350
       /\ W \in 0 .. 2000
       /\ W > MatchRes => SameResolution(m, offered[active])
  <2>1. W \in 0 .. 2000
    BY <1>9
  <2> QED BY ONLY <1>7, <1>8, <1>10, <2>1
<1> QED BY <1>11 DEF W, same, lace, own

\* Of two candidates of the same resolution, the one that is not lighter.
LEMMA HeavierIsBetter ==
  ASSUME SearchInputs, NEW a \in Ids(offered), NEW b \in Ids(offered), a # b,
         SameResolution(offered[a], offered[active]), SameResolution(offered[b], offered[active]),
         Weight(offered, active, a, film) >= Weight(offered, active, b, film),
         Weight(offered, active, a, film) = Weight(offered, active, b, film) => a < b
  PROVE  /\ Better(a, b)
         /\ b = active => \/ SuitsBetter(offered[a].rate, offered[b].rate)
                          \/ offered[b].interlaced /\ ~offered[a].interlaced
<1> DEFINE ma == offered[a]
           mb == offered[b]
           pa == Points(ma.rate)
           pb == Points(mb.rate)
           Wa == Weight(offered, active, a, film)
           Wb == Weight(offered, active, b, film)
           la == ForInterlacing(a)
           lb == ForInterlacing(b)
           oa == ForCurrent(a)
           ob == ForCurrent(b)
<1>1. Wa = 1000 + pa + la + oa /\ Wb = 1000 + pb + lb + ob
  BY WeightFacts DEF ForResolution
<1>2. ma \in Offers /\ mb \in Offers /\ film \in FilmRates
  BY InputFacts DEF SearchInputs
<1>3. /\ pa \in 0 .. 350 /\ pb \in 0 .. 350
      /\ \/ pa >= pb + 25 /\ SuitsBetter(ma.rate, mb.rate)
         \/ pa = pb /\ SuitsAsWell(ma.rate, mb.rate)
         \/ pb >= pa + 25
  BY <1>2, PointsDecide
<1>4. ma.interlaced \in BOOLEAN /\ mb.interlaced \in BOOLEAN
  BY InputFacts
<1>5. la \in {0, 10} /\ lb \in {0, 10} /\ oa \in {0, 5} /\ ob \in {0, 5}
  BY DEF ForInterlacing, ForCurrent
<1>6. /\ la = 10 <=> ~ma.interlaced
      /\ lb = 10 <=> ~mb.interlaced
      /\ oa = 5 <=> a = active
      /\ ob = 5 <=> b = active
  BY <1>4 DEF ForInterlacing, ForCurrent
<1>7. Wa >= Wb /\ (Wa = Wb => a < b)
  OBVIOUS
<1>8. ~(a = active /\ b = active)
  OBVIOUS
<1> HIDE DEF Wa, Wb, pa, pb, la, lb, oa, ob
<1>9. ~(pb >= pa + 25)
  BY <1>1, <1>3, <1>5, <1>7
<1>10. CASE pa >= pb + 25 /\ SuitsBetter(ma.rate, mb.rate)
  BY <1>10 DEF Better
<1>11. CASE pa = pb /\ SuitsAsWell(ma.rate, mb.rate)
  <2>1. la + oa >= lb + ob /\ (la + oa = lb + ob => a < b)
    BY <1>1, <1>3, <1>5, <1>7, <1>11
  <2>2. \/ la = 10 /\ lb = 0
        \/ la = lb /\ ((oa = 5 /\ ob = 0) \/ (oa = 0 /\ ob = 0 /\ a < b))
    BY <1>5, <1>6, <1>8, <2>1
  <2>3. CASE la = 10 /\ lb = 0
    <3>1. ~ma.interlaced /\ mb.interlaced
      BY <1>4, <1>6, <2>3
    <3> QED BY <1>11, <3>1 DEF Better
  <2>4. CASE la = lb /\ oa = 5 /\ ob = 0
    <3>1. a = active /\ b # active
      BY <1>6, <2>4
    <3>2. ma.interlaced = mb.interlaced
      BY <1>4, <1>5, <1>6, <2>4
    <3> QED BY <1>11, <3>1, <3>2 DEF Better
  <2>5. CASE la = lb /\ oa = 0 /\ ob = 0 /\ a < b
    <3>1. a # active /\ b # active
      BY <1>6, <2>5
    <3>2. ma.interlaced = mb.interlaced
      BY <1>4, <1>5, <1>6, <2>5
    <3> QED BY <1>11, <2>5, <3>1, <3>2 DEF Better
  <2> QED BY <2>2, <2>3, <2>4, <2>5
<1> QED BY <1>3, <1>9, <1>10, <1>11

\* What findBestMatch answers: no mode, or the first of the heaviest.
LEMMA MatchFacts ==
  ASSUME SearchInputs
  PROVE  LET W(id) == Weight(offered, active, id, film)
             C == Candidates(offered, avoiding)
             match == FindBestMatch(offered, active, film, avoiding)
         IN  /\ \/ match = NoMode
                \/ /\ match \in C /\ match \in Ids(offered)
                   /\ SameResolution(offered[match], offered[active])
                   /\ \A other \in C \ {match} :
                        W(match) >= W(other) /\ (W(match) = W(other) => match < other)
             /\ active \in C => match # NoMode
<1> DEFINE W(id) == Weight(offered, active, id, film)
           C == Candidates(offered, avoiding)
           match == FindBestMatch(offered, active, film, avoiding)
           best == {id \in C : \A other \in C : W(id) >= W(other)}
<1>1. C \subseteq Ids(offered) /\ Ids(offered) \subseteq Nat
  BY DEF Candidates, Ids
<1>2. active \in Ids(offered) /\ active # NoMode
  BY InputFacts DEF SearchInputs
<1>3. \A id \in C : W(id) \in 0 .. 2000
                    /\ (W(id) > MatchRes => SameResolution(offered[id], offered[active]))
  BY <1>1, WeightFacts
<1>4. match = IF best # {} /\ W(Min(best)) > MatchRes THEN Min(best) ELSE NoMode
  BY <1>2 DEF FindBestMatch
<1>5. best \subseteq C
  OBVIOUS
<1>6. best # {} => Min(best) \in best /\ \A y \in best : Min(best) <= y
  <2>1. best \subseteq Nat
    BY <1>1, <1>5
  <2> HIDE DEF best
  <2> QED BY <2>1, SmallestExists
<1>7. C # {} => best # {}
  <2> SUFFICES ASSUME C # {} PROVE best # {}
    OBVIOUS
  <2> DEFINE F == [id \in C |-> W(id)]
  <2>1. Weighs(F, C)
    <3> HIDE DEF W, C
    <3> QED BY <1>3 DEF Weighs
  <2>2. PICK id \in C : \A other \in C : F[id] >= F[other]
    <3> HIDE DEF F, C
    <3> QED BY <2>1, HeaviestExists
  <2>3. \A other \in C : W(id) >= W(other)
    <3> HIDE DEF W, C
    <3> QED BY <2>2
  <2> QED BY <2>3
<1>8. ASSUME match # NoMode
      PROVE  /\ match \in C /\ match \in Ids(offered)
             /\ SameResolution(offered[match], offered[active])
             /\ \A other \in C \ {match} :
                  W(match) >= W(other) /\ (W(match) = W(other) => match < other)
  <2> HIDE DEF match
  <2>1. match = Min(best) /\ best # {} /\ W(match) > MatchRes
    <3> HIDE DEF best, W
    <3> QED BY <1>4, <1>8
  <2>2. match \in best /\ \A y \in best : match <= y
    <3> HIDE DEF best
    <3> QED BY <1>6, <2>1
  <2>3. match \in C /\ match \in Ids(offered) /\ \A other \in C : W(match) >= W(other)
    <3> HIDE DEF W, C
    <3> QED BY <1>1, <2>2
  <2>4. SameResolution(offered[match], offered[active])
    <3> HIDE DEF W, C
    <3> QED BY <1>3, <2>1, <2>3
  <2>5. ASSUME NEW other \in C \ {match}
        PROVE  W(match) >= W(other) /\ (W(match) = W(other) => match < other)
    <3>1. W(match) >= W(other)
      BY <2>3
    <3>2. W(match) = W(other) => other \in best
      <4> HIDE DEF W, C
      <4> QED BY <2>3
    <3>3. other \in best => match <= other
      BY <2>2
    <3>4. match \in Nat /\ other \in Nat /\ match # other
      BY <1>1, <2>3
    <3> HIDE DEF W, best
    <3> QED BY <3>1, <3>2, <3>3, <3>4
  <2> QED BY <2>3, <2>4, <2>5
<1>9. ASSUME active \in C
      PROVE  match # NoMode
  <2>1. W(active) > MatchRes
    <3>1. SameResolution(offered[active], offered[active])
      BY DEF SameResolution
    <3>2. /\ Points(offered[active].rate) \in 0 .. 350
          /\ W(active) = 1000 + Points(offered[active].rate) + (IF offered[active].interlaced THEN 0 ELSE 10) + 5
      BY <1>2, <3>1, WeightFacts DEF ForResolution, ForInterlacing, ForCurrent
    <3> DEFINE p == Points(offered[active].rate)
               l == IF offered[active].interlaced THEN 0 ELSE 10
    <3>3. l \in {0, 10}
      OBVIOUS
    <3> HIDE DEF p, l, W
    <3> QED BY <3>2, <3>3 DEF MatchRes
  <2>2. best # {} /\ Min(best) \in best
    <3> HIDE DEF best
    <3> QED BY <1>6, <1>7, <1>9
  <2>3. W(Min(best)) >= W(active)
    <3> HIDE DEF W
    <3> QED BY <1>9, <2>2
  <2>4. Min(best) \in C
    BY <1>5, <2>2
  <2>5. Min(best) # NoMode
    <3> HIDE DEF best, C
    <3> QED BY <1>1, <2>4, InputFacts
  <2>6. W(active) \in 0 .. 2000 /\ W(Min(best)) \in 0 .. 2000 /\ MatchRes = 1000
    <3> HIDE DEF best, W, C
    <3> QED BY <1>3, <1>9, <2>4 DEF MatchRes
  <2>7. W(Min(best)) > MatchRes
    <3> DEFINE top == W(Min(best))
               own == W(active)
    <3>1. top \in 0 .. 2000 /\ own \in 0 .. 2000 /\ top >= own /\ own > MatchRes /\ MatchRes = 1000
      BY <2>1, <2>3, <2>6
    <3> HIDE DEF top, own
    <3>2. top > MatchRes
      BY <3>1
    <3> QED BY <3>2 DEF top
  <2> HIDE DEF best, W
  <2> QED BY <1>4, <2>2, <2>5, <2>7
<1> HIDE DEF C, W, match, best
<1>10. /\ \/ match = NoMode
          \/ /\ match \in C /\ match \in Ids(offered)
             /\ SameResolution(offered[match], offered[active])
             /\ \A other \in C \ {match} :
                  W(match) >= W(other) /\ (W(match) = W(other) => match < other)
       /\ active \in C => match # NoMode
  BY <1>8, <1>9
<1> QED BY <1>10 DEF C, W, match

\* Improving on a mode is transitive.
LEMMA ImprovesTransitive ==
  ASSUME SearchInputs, NEW a \in Ids(offered), NEW b \in Ids(offered), NEW c \in Ids(offered),
         Improves(offered[a], offered[b]), Improves(offered[b], offered[c])
  PROVE  Improves(offered[a], offered[c])
<1> DEFINE x == offered[a]
           y == offered[b]
           z == offered[c]
<1>1. /\ x.bpp \in Nat /\ x.width \in Nat /\ x.height \in Nat /\ x.rate \in Nat
      /\ y.bpp \in Nat /\ y.width \in Nat /\ y.height \in Nat /\ y.rate \in Nat
      /\ z.bpp \in Nat /\ z.width \in Nat /\ z.height \in Nat /\ z.rate \in Nat
  BY InputFacts
<1> HIDE DEF x, y, z
<1>2. Improves(x, y) /\ Improves(y, z)
  BY DEF x, y, z
<1>3. x.interlaced \/ ~z.interlaced
  BY <1>2 DEF Improves
<1>4. x.bpp <= z.bpp /\ x.width <= z.width /\ x.height <= z.height /\ x.rate <= z.rate
  BY <1>1, <1>2 DEF Improves
<1>5. Improves(x, z)
  BY <1>3, <1>4 DEF Improves
<1> QED BY <1>5 DEF x, z

\* findBestMode() ends with a mode that none surpasses.
LEMMA BestFacts ==
  ASSUME SearchInputs
  PROVE  /\ FindBestMode(offered) \in Ids(offered)
         /\ \A id \in Ids(offered) :
              Improves(offered[FindBestMode(offered)], offered[id]) =>
                Improves(offered[id], offered[FindBestMode(offered)])
<1> DEFINE n == Len(offered)
           Kept(b, i) == IF b = NoMode \/ Improves(offered[b], offered[i]) THEN i ELSE b
           Right(g) == g = [i \in 0 .. n |-> IF i = 0 THEN NoMode ELSE
                                             IF g[i - 1] = NoMode \/ Improves(offered[g[i - 1]], offered[i]) THEN i
                                             ELSE g[i - 1]]
           run == CHOOSE g : Right(g)
           step == [x \in (0 .. n) \X (1 .. n) |-> Kept(x[1], x[2])]
<1>1. n \in Nat \ {0} /\ Ids(offered) = 1 .. n
  BY InputFacts
<1>2. step \in [(0 .. n) \X (1 .. n) -> 0 .. n]
  BY <1>1
<1>3. PICK f : Runs(f, 0 .. n, n, 0, step)
  <2>1. n \in Nat /\ 0 \in 0 .. n
    BY <1>1
  <2> HIDE DEF step, n
  <2> QED BY <1>2, <2>1, RecursionExists
<1>4. Right([i \in 0 .. n |-> f[i]])
  <2> DEFINE g == [i \in 0 .. n |-> f[i]]
  <2>1. ASSUME NEW i \in 0 .. n
        PROVE  g[i] = IF i = 0 THEN NoMode ELSE Kept(g[i - 1], i)
    <3>1. CASE i = 0
      BY <1>3, <3>1 DEF Runs, NoMode
    <3>2. CASE i # 0
      <4>1. i \in 1 .. n /\ i - 1 \in 0 .. n
        BY <1>1, <3>2
      <4>2. f[i] = step[<<f[i - 1], i>>] /\ f[i - 1] \in 0 .. n
        <5> HIDE DEF step, n
        <5> QED BY <1>3, <4>1 DEF Runs
      <4>3. <<f[i - 1], i>> \in (0 .. n) \X (1 .. n)
        BY <4>1, <4>2
      <4>4. f[i] = Kept(f[i - 1], i)
        <5> HIDE DEF Kept, n
        <5> QED BY <4>2, <4>3
      <4> HIDE DEF Kept
      <4> QED BY <3>2, <4>1, <4>4
    <3> QED BY <3>1, <3>2
  <2>2. g = [i \in 0 .. n |-> g[i]]
    OBVIOUS
  <2> HIDE DEF g, n
  <2>3. Right(g)
    BY <2>1, <2>2
  <2> QED BY <2>3 DEF g
<1>5. Right(run)
  <2> HIDE DEF Right
  <2> QED BY <1>4
<1>6. FindBestMode(offered) = run[n]
  BY DEF FindBestMode
<1>7. run[0] = NoMode /\ \A i \in 1 .. n : run[i] = Kept(run[i - 1], i)
  <2> HIDE DEF run, n
  <2> QED BY <1>1, <1>5
<1> DEFINE Top(b, i) == /\ b \in 1 .. i
                        /\ \A j \in 1 .. i : Improves(offered[b], offered[j]) => Improves(offered[j], offered[b])
           T == {i \in 0 .. n : IF i = 0 THEN run[i] = NoMode ELSE Top(run[i], i)}
<1> HIDE DEF run, n
<1>8. 0 \in T
  BY <1>1, <1>7
<1>9. ASSUME NEW i \in 1 .. n, i - 1 \in T
      PROVE  i \in T
  <2> DEFINE b == run[i - 1]
  <2>0. i \in Ids(offered) /\ 1 .. i \subseteq Ids(offered) /\ i # 0 /\ i \in 0 .. n
    BY <1>1
  <2>1. run[i] = Kept(b, i)
    BY <1>7
  <2>2. i = 1 => b = NoMode
    BY <1>9
  <2>3. i # 1 => Top(b, i - 1)
    BY <1>1, <1>9
  <2> HIDE DEF b
  <2>4. CASE i = 1
    <3>1. run[i] = 1
      BY <2>1, <2>2, <2>4
    <3>2. Top(1, 1)
      OBVIOUS
    <3> HIDE DEF Top
    <3> QED BY <2>0, <2>4, <3>1, <3>2
  <2>5. CASE i # 1 /\ Improves(offered[b], offered[i])
    <3>1. run[i] = i
      BY <2>1, <2>5
    <3>2. ASSUME NEW j \in 1 .. i, Improves(offered[i], offered[j])
          PROVE  Improves(offered[j], offered[i])
      <4>1. CASE j = i
        BY <3>2, <4>1
      <4>2. CASE j # i
        <5>1. j \in 1 .. i - 1 /\ b \in Ids(offered) /\ j \in Ids(offered)
          BY <1>1, <2>0, <2>3, <2>5, <4>2
        <5>2. Improves(offered[b], offered[j])
          BY <2>0, <2>5, <3>2, <5>1, ImprovesTransitive
        <5>3. Improves(offered[j], offered[b])
          BY <2>3, <2>5, <5>1, <5>2
        <5> QED BY <2>0, <2>5, <5>1, <5>3, ImprovesTransitive
      <4> QED BY <4>1, <4>2
    <3>3. Top(i, i)
      BY <1>1, <3>2
    <3> HIDE DEF Top
    <3> QED BY <2>0, <3>1, <3>3
  <2>6. CASE i # 1 /\ ~Improves(offered[b], offered[i])
    <3>1. b \in 1 .. i - 1 /\ b # NoMode
      BY <1>1, <2>3, <2>6 DEF NoMode
    <3>2. run[i] = b
      BY <2>1, <2>6, <3>1
    <3>3. ASSUME NEW j \in 1 .. i, Improves(offered[b], offered[j])
          PROVE  Improves(offered[j], offered[b])
      <4>1. j \in 1 .. i - 1
        BY <1>1, <2>6, <3>3
      <4> QED BY <2>3, <2>6, <3>3, <4>1
    <3>4. Top(b, i)
      BY <1>1, <3>1, <3>3
    <3> HIDE DEF Top
    <3> QED BY <2>0, <3>2, <3>4
  <2> QED BY <2>4, <2>5, <2>6
<1>10. n \in T
  <2> HIDE DEF T
  <2> QED BY <1>1, <1>8, <1>9, AllTheWay
<1>11. Top(run[n], n)
  BY <1>1, <1>10
<1> QED BY <1>1, <1>6, <1>11

\* The mode that "switch" finds is as near as any.
LEMMA RequestFacts ==
  ASSUME SearchInputs
  PROVE  LET found == FindRequestedMode(offered, [offered[active] EXCEPT !.rate = film])
         IN  /\ found \in Ids(offered)
             /\ Comparable(offered[found], offered[active])
             /\ \A id \in Ids(offered) : Comparable(offered[id], offered[active]) =>
                  Distance(offered[found].rate, film) <= Distance(offered[id].rate, film)
<1> DEFINE request == [offered[active] EXCEPT !.rate = film]
           D(id) == Distance(offered[id].rate, film)
           U == {id \in Ids(offered) : Comparable(offered[id], offered[active])}
           best == {id \in U : \A other \in U : D(id) <= D(other)}
           found == FindRequestedMode(offered, request)
<1>1. active \in Ids(offered) /\ offered[active] \in Offers /\ film \in Nat
  BY InputFacts, SearchAssumption DEF SearchInputs
<1>2. \A id \in Ids(offered) : id \in Nat /\ offered[id].rate \in Nat
  BY InputFacts
<1>3. request.rate = film /\ \A id : Comparable(offered[id], request) <=> Comparable(offered[id], offered[active])
  BY <1>1, SearchAssumption DEF Comparable, SameResolution
<1>4. found = IF best = {} THEN NoMode ELSE Min(best)
  <2>1. {id \in Ids(offered) : Comparable(offered[id], request)} = U
    BY <1>3
  <2> HIDE DEF U
  <2> QED BY <1>3, <2>1 DEF FindRequestedMode
<1>5. \A id \in U : D(id) \in Nat
  BY <1>1, <1>2, DistanceFacts
<1>6. active \in U
  BY <1>1 DEF Comparable, SameResolution
<1>7. best # {}
  <2> DEFINE V == {D(id) : id \in U}
  <2>1. V \subseteq Nat /\ V # {}
    <3> HIDE DEF D, U
    <3> QED BY <1>5, <1>6
  <2>2. Min(V) \in V /\ \A y \in V : Min(V) <= y
    <3> HIDE DEF V
    <3> QED BY <2>1, SmallestExists
  <2>3. PICK id \in U : D(id) = Min(V)
    <3> HIDE DEF D, U
    <3> QED BY <2>2
  <2>4. \A other \in U : D(id) <= D(other)
    <3> HIDE DEF D, U
    <3> QED BY <2>2, <2>3
  <2> HIDE DEF D, U
  <2> QED BY <2>4
<1>8. Min(best) \in best
  <2>1. best \subseteq Nat
    BY <1>2
  <2> HIDE DEF best
  <2> QED BY <1>7, <2>1, SmallestExists
<1>9. found \in U /\ \A other \in U : D(found) <= D(other)
  <2>1. found \in best
    <3> HIDE DEF best, found
    <3> QED BY <1>4, <1>7, <1>8
  <2> HIDE DEF D, U, found
  <2> QED BY <2>1
<1> HIDE DEF found
<1>10. /\ found \in Ids(offered)
       /\ Comparable(offered[found], offered[active])
       /\ \A id \in Ids(offered) : Comparable(offered[id], offered[active]) => D(found) <= D(id)
  BY <1>9
<1> QED BY <1>10 DEF found

\* The answers to some inputs.
SearchInv ==
  /\ SearchInputs
  /\ Answered => answer = [match     |-> FindBestMatch(offered, active, film, avoiding),
                           best      |-> FindBestMode(offered),
                           requested |-> FindRequestedMode(offered, [offered[active] EXCEPT !.rate = film])]

LEMMA SearchInvHolds == SearchSpec => []SearchInv
<1>1. SearchInit => SearchInv
  BY DEF SearchInit, SearchInv, SearchInputs, Answered
<1>2. SearchInv /\ [Evaluate]_searchVars => SearchInv'
  <2> SUFFICES ASSUME SearchInv, [Evaluate]_searchVars PROVE SearchInv'
    OBVIOUS
  <2>1. CASE Evaluate
    BY <2>1 DEF SearchInv, SearchInputs, Evaluate, Answered
  <2>2. CASE UNCHANGED searchVars
    BY <2>2 DEF SearchInv, SearchInputs, searchVars, Answered
  <2> QED BY <2>1, <2>2
<1> QED BY <1>1, <1>2, PTL DEF SearchSpec

LEMMA SearchInvShows == SearchInv => ModesAreRight
<1>0. SearchInv => MultiplesAreExact
  <2> SUFFICES ASSUME SearchInv, NEW id \in Ids(offered), IsRateMultipleOf(film, offered[id].rate, TRUE)
               PROVE  \E k \in 1 .. RoundHz(offered[id].rate) :
                        Distance(k * film, offered[id].rate) < 10 * k
    BY DEF MultiplesAreExact
  <2>1. film \in Nat /\ offered[id].rate \in Nat
    BY InputFacts, SearchAssumption DEF SearchInv, SearchInputs
  <2> QED BY <2>1, MultipleHasFactor
<1> SUFFICES ASSUME SearchInv, Answered
             PROVE  ModesAreRight
  BY <1>0 DEF ModesAreRight, AnswersAreModes, MatchKeepsResolution, MatchRespectsAvoid, MatchIsLexicographic,
              NoPointlessSwitch, BestIsNotDominated, RequestedIsNearest
<1> DEFINE W(id) == Weight(offered, active, id, film)
           C == Candidates(offered, avoiding)
<1>1. SearchInputs
  BY DEF SearchInv
<1>2. /\ answer.match = FindBestMatch(offered, active, film, avoiding)
      /\ answer.best = FindBestMode(offered)
      /\ answer.requested = FindRequestedMode(offered, [offered[active] EXCEPT !.rate = film])
  BY DEF SearchInv
<1>3. /\ \/ answer.match = NoMode
         \/ /\ answer.match \in C /\ answer.match \in Ids(offered)
            /\ SameResolution(offered[answer.match], offered[active])
            /\ \A other \in C \ {answer.match} :
                 W(answer.match) >= W(other) /\ (W(answer.match) = W(other) => answer.match < other)
      /\ active \in C => answer.match # NoMode
  BY <1>1, <1>2, MatchFacts
<1>4. C \subseteq Ids(offered)
  BY DEF Candidates
<1>5. AnswersAreModes
  BY <1>1, <1>2, <1>3, BestFacts, RequestFacts DEF AnswersAreModes
<1>6. MatchKeepsResolution
  BY <1>3 DEF MatchKeepsResolution
<1>7. MatchRespectsAvoid
  BY <1>3 DEF MatchRespectsAvoid, Candidates
<1>8. ASSUME answer.match # NoMode, NEW other \in C \ {answer.match},
             SameResolution(offered[other], offered[active])
      PROVE  /\ Better(answer.match, other)
             /\ other = active => \/ SuitsBetter(offered[answer.match].rate, offered[other].rate)
                                  \/ offered[other].interlaced /\ ~offered[answer.match].interlaced
  <2>1. answer.match \in Ids(offered) /\ other \in Ids(offered) /\ answer.match # other
    BY <1>3, <1>4, <1>8
  <2>2. SameResolution(offered[answer.match], offered[active])
    BY <1>3, <1>8
  <2>3. W(answer.match) >= W(other) /\ (W(answer.match) = W(other) => answer.match < other)
    BY <1>3, <1>8
  <2> QED BY <1>1, <1>8, <2>1, <2>2, <2>3, HeavierIsBetter
<1>9. MatchIsLexicographic
  BY <1>8 DEF MatchIsLexicographic
<1>10. NoPointlessSwitch
  <2> SUFFICES ASSUME active \in C, answer.match # active
               PROVE  /\ answer.match # NoMode
                      /\ \/ SuitsBetter(offered[answer.match].rate, offered[active].rate)
                         \/ offered[active].interlaced /\ ~offered[answer.match].interlaced
    BY DEF NoPointlessSwitch
  <2>1. answer.match # NoMode
    BY <1>3
  <2>2. SameResolution(offered[active], offered[active])
    BY DEF SameResolution
  <2> QED BY <1>8, <2>1, <2>2
<1>11. BestIsNotDominated
  BY <1>1, <1>2, BestFacts DEF BestIsNotDominated
<1>12. RequestedIsNearest
  BY <1>1, <1>2, RequestFacts DEF RequestedIsNearest
<1> QED BY <1>0, <1>5, <1>6, <1>7, <1>9, <1>10, <1>11, <1>12 DEF ModesAreRight

-----------------------------------------------------------------------------
(* What the runs check, for every value of the constants.                  *)

\* restorePreviousVideoMode() brings the mode back that the user's desktop
\* had, whatever the player does about videos in between.
THEOREM DesktopComesBack == OutputSpec => []RecordIsHome
BY OutputDisplayCorrect, DisplayInvShows, PTL

\* DisplayComponent's list of displays and the rate it reported are right, or
\* the signal or the timer that renews them is under way.
THEOREM ChangesNoticed == OutputSpec => []ChangesAreNoticed
BY OutputDisplayCorrect, DisplayInvShows, PTL

\* mpv's audio device, audio delay, aspect and streams are those that the
\* settings and the client ask for.
THEOREM OutputCorrect == OutputSpec => []OutputIsCurrent
<1>1. OutputSpec => [](DisplayInv /\ DelayInv)
  BY OutputDisplayCorrect, DelayInit, DelayStep, PTL DEF OutputSpec
<1>2. OutputSpec => []AspectFits
  BY AspectInit, AspectStep, PTL DEF OutputSpec
<1>3. OutputSpec => []AudioInv
  BY AudioInit, AudioNext, PTL DEF OutputSpec
<1>4. OutputSpec => []StreamInv
  BY StreamInit, StreamNext, PTL DEF OutputSpec
<1>5. DelayInv /\ AspectFits /\ AudioInv /\ StreamInv => OutputIsCurrent
  BY DelayShows, AudioShows, StreamShows DEF OutputIsCurrent
<1> QED BY <1>1, <1>2, <1>3, <1>4, <1>5, PTL

\* The searches for a mode answer rightly, whatever modes a display offers
\* and whatever the frame rate of the video.
THEOREM SearchesAreRight == SearchSpec => []ModesAreRight
BY SearchInvHolds, SearchInvShows, PTL
=============================================================================
