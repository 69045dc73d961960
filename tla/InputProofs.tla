----------------------------- MODULE InputProofs ----------------------------
(***************************************************************************)
(* Proofs about Input, for any files of mappings, any keys and joysticks,  *)
(* any computers, and any number of events and offers under way; and,      *)
(* after them, about Settings, for any description, any old files and any  *)
(* number of starts, changes and refused writes.                           *)
(***************************************************************************)
EXTENDS Input, Settings, SequenceTheorems, FiniteSetTheorems, TLAPS

-----------------------------------------------------------------------------
(* Induction, with a set in place of the predicate.                        *)

(* Of the intervals that end in S one contains no other.                   *)
LEMMA LeastOfSet ==
  ASSUME NEW S, S \subseteq Nat, S # {}
  PROVE  \E m \in S : \A k \in 0 .. m - 1 : k \notin S
<1> DEFINE Upto(x) == 0 .. x
           R == StrictSubsetOrdering(Nat)
           T == {Upto(x) : x \in S}
<1>1. IsWellFoundedOn(R, FiniteSubsetsOf(Nat))
  BY FS_StrictSubsetOrderingWellFounded
<1>2. ASSUME NEW x \in S
      PROVE  Upto(x) \in FiniteSubsetsOf(Nat)
  <2>1. x \in Int
    OBVIOUS
  <2>2. IsFiniteSet(0 .. x)
    BY <2>1, FS_Interval
  <2>3. 0 .. x \subseteq Nat
    BY <2>1
  <2> QED BY <2>2, <2>3 DEF FiniteSubsetsOf
<1>3. T \subseteq FiniteSubsetsOf(Nat) /\ T # {}
  BY <1>2
<1> HIDE DEF R
<1>4. PICK A \in T : \A B \in T : <<B, A>> \notin R
  <2> HIDE DEF T
  <2> QED BY <1>1, <1>3, WFMin
<1>5. PICK m \in S : A = Upto(m)
  OBVIOUS
<1>6. ASSUME NEW y \in S, y < m
      PROVE  FALSE
  <2>1. <<Upto(y), Upto(m)>> \notin R
    BY <1>4, <1>5
  <2>2. Upto(y) \subseteq Upto(m) /\ m \in Upto(m) /\ m \notin Upto(y)
    BY <1>6
  <2>3. Upto(y) \subseteq Nat /\ Upto(m) \subseteq Nat
    OBVIOUS
  <2> HIDE DEF Upto
  <2> QED BY <2>1, <2>2, <2>3 DEF R, StrictSubsetOrdering
<1> QED BY <1>6

LEMMA InductionOverSet ==
  ASSUME NEW S, 0 \in S, \A n \in Nat : n \in S => n + 1 \in S
  PROVE  Nat \subseteq S
<1> DEFINE T == Nat \ S
<1> SUFFICES ASSUME T # {} PROVE FALSE
  OBVIOUS
<1>1. PICK m \in T : \A k \in 0 .. m - 1 : k \notin T
  <2>1. T \subseteq Nat
    OBVIOUS
  <2> HIDE DEF T
  <2> QED BY <2>1, LeastOfSet
<1>2. m # 0 /\ m \in Nat
  OBVIOUS
<1>3. m - 1 \in Nat /\ m - 1 \in 0 .. m - 1
  BY <1>2
<1>4. m - 1 \in S
  BY <1>1, <1>3
<1>5. (m - 1) + 1 \in S
  BY <1>3, <1>4
<1> QED BY <1>2, <1>5

(* The first m values of V that a step makes of each other.                 *)
Runs(f, V, m, zero, step) ==
  /\ f \in [0 .. m -> V]
  /\ f[0] = zero
  /\ \A i \in 1 .. m : f[i] = step[<<f[i - 1], i>>]

(* A step that stays in V can be repeated n times.                          *)
LEMMA RecursionExists ==
  ASSUME NEW V, NEW n \in Nat, NEW zero \in V, NEW step \in [V \X (1 .. n) -> V]
  PROVE  \E f : Runs(f, V, n, zero, step)
<1> DEFINE S == {m \in Nat : m <= n => \E f : Runs(f, V, m, zero, step)}
<1>1. 0 \in S
  <2> DEFINE g == [i \in 0 .. 0 |-> zero]
  <2>1. Runs(g, V, 0, zero, step)
    BY DEF Runs
  <2> QED BY <2>1
<1>2. ASSUME NEW m \in Nat, m \in S
      PROVE  m + 1 \in S
  <2> SUFFICES ASSUME m + 1 <= n
               PROVE  \E f : Runs(f, V, m + 1, zero, step)
    BY DEF S
  <2>1. PICK f : Runs(f, V, m, zero, step)
    BY <1>2
  <2> DEFINE g == [i \in 0 .. m + 1 |-> IF i <= m THEN f[i] ELSE step[<<f[m], m + 1>>]]
  <2>2. f[m] \in V /\ step[<<f[m], m + 1>>] \in V
    BY <2>1 DEF Runs
  <2>3. g \in [0 .. m + 1 -> V] /\ g[0] = zero
    BY <2>1, <2>2 DEF Runs
  <2>4. ASSUME NEW i \in 1 .. m + 1
        PROVE  g[i] = step[<<g[i - 1], i>>]
    <3>1. i - 1 \in 0 .. m /\ i - 1 \in 0 .. m + 1
      OBVIOUS
    <3>2. g[i - 1] = f[i - 1]
      BY <3>1
    <3>3. CASE i <= m
      BY <2>1, <3>2, <3>3 DEF Runs
    <3>4. CASE i = m + 1
      <4>1. i - 1 = m /\ ~(i <= m)
        BY <3>4
      <4> QED BY <3>2, <3>4, <4>1
    <3> QED BY <3>3, <3>4
  <2>5. Runs(g, V, m + 1, zero, step)
    <3> HIDE DEF g
    <3> QED BY <2>3, <2>4 DEF Runs
  <2> QED BY <2>5
<1>3. Nat \subseteq S
  <2> HIDE DEF S
  <2> QED BY <1>1, <1>2, InductionOverSet
<1>4. n \in S /\ n <= n
  BY <1>3
<1> QED BY <1>4

(* What holds at first and is kept by each step holds at the end.           *)
LEMMA AllTheWay ==
  ASSUME NEW n \in Nat, NEW T, 0 \in T, \A i \in 1 .. n : i - 1 \in T => i \in T
  PROVE  \A i \in 0 .. n : i \in T
<1> DEFINE S == {m \in Nat : m <= n => m \in T}
<1>1. 0 \in S
  OBVIOUS
<1>2. ASSUME NEW m \in Nat, m \in S
      PROVE  m + 1 \in S
  <2> SUFFICES ASSUME m + 1 <= n
               PROVE  m + 1 \in T
    OBVIOUS
  <2>1. m \in T /\ m + 1 \in 1 .. n /\ (m + 1) - 1 = m
    BY <1>2
  <2> QED BY <2>1
<1>3. Nat \subseteq S
  <2> HIDE DEF S
  <2> QED BY <1>1, <1>2, InductionOverSet
<1>4. ASSUME NEW i \in 0 .. n
      PROVE  i \in T
  <2>1. i \in Nat /\ i <= n
    OBVIOUS
  <2>2. i \in S
    BY <1>3, <2>1
  <2> QED BY <2>1, <2>2
<1> QED BY <1>4

-----------------------------------------------------------------------------
(* Sequences.                                                              *)

LEMMA FlattenType ==
  ASSUME NEW S, NEW seqs \in Seq(Seq(S))
  PROVE  FlattenSeq(seqs) \in Seq(S)
<1> DEFINE n == Len(seqs)
           Right(g) == g = [i \in 1 .. n |-> IF i = 1 THEN seqs[i] ELSE g[i - 1] \o seqs[i]]
           flatten == CHOOSE g : Right(g)
           step == [x \in Seq(S) \X (1 .. n) |->
                      IF x[2] = 1 THEN seqs[1] ELSE x[1] \o seqs[x[2]]]
<1>1. n \in Nat /\ \A i \in 1 .. n : seqs[i] \in Seq(S)
  OBVIOUS
<1>2. step \in [Seq(S) \X (1 .. n) -> Seq(S)]
  BY <1>1, ConcatProperties
<1>3. \E g : Right(g)
  <2>1. PICK f : Runs(f, Seq(S), n, <<>>, step)
    <3>1. <<>> \in Seq(S)
      OBVIOUS
    <3> HIDE DEF step, n
    <3> QED BY <1>1, <1>2, <3>1, RecursionExists
  <2> DEFINE g == [i \in 1 .. n |-> f[i]]
  <2>2. ASSUME NEW i \in 1 .. n
        PROVE  g[i] = IF i = 1 THEN seqs[i] ELSE g[i - 1] \o seqs[i]
    <3>0. i - 1 \in 0 .. n
      BY <1>1
    <3>1. f[i] = step[<<f[i - 1], i>>] /\ f[i - 1] \in Seq(S)
      <4> HIDE DEF step, n
      <4> QED BY <2>1, <3>0 DEF Runs
    <3>2. f[i] = IF i = 1 THEN seqs[1] ELSE f[i - 1] \o seqs[i]
      BY <3>1
    <3>3. i # 1 => i - 1 \in 1 .. n
      BY <1>1
    <3> QED BY <3>2, <3>3
  <2>3. g = [i \in 1 .. n |-> g[i]]
    OBVIOUS
  <2> HIDE DEF g, n
  <2>4. Right(g)
    BY <2>2, <2>3
  <2> QED BY <2>4
<1>4. Right(flatten)
  <2> HIDE DEF Right
  <2> QED BY <1>3
<1>5. ASSUME n # 0
      PROVE  FlattenSeq(seqs) = flatten[n]
  BY <1>5 DEF FlattenSeq
<1>6. n = 0 => FlattenSeq(seqs) \in Seq(S)
  BY DEF FlattenSeq
<1> DEFINE T == {i \in 0 .. n : i # 0 => flatten[i] \in Seq(S)}
<1>7. ASSUME NEW i \in 1 .. n, i - 1 \in T
      PROVE  i \in T
  <2>1. flatten[i] = IF i = 1 THEN seqs[i] ELSE flatten[i - 1] \o seqs[i]
    <3> HIDE DEF flatten, n
    <3> QED BY <1>4
  <2>2. i # 1 => flatten[i - 1] \in Seq(S)
    BY <1>1, <1>7
  <2> HIDE DEF flatten
  <2>3. flatten[i] \in Seq(S)
    BY <1>1, <2>1, <2>2, ConcatProperties
  <2> QED BY <2>3
<1>8. \A i \in 0 .. n : i \in T
  <2>1. 0 \in T
    BY <1>1
  <2> HIDE DEF T, n
  <2> QED BY <1>1, <1>7, <2>1, AllTheWay
<1>9. n # 0 => flatten[n] \in Seq(S)
  <2> HIDE DEF flatten
  <2> QED BY <1>1, <1>8
<1> HIDE DEF flatten
<1> QED BY <1>5, <1>6, <1>9

(* A sequence of sequences that is made of another one.                     *)
LEMMA FlattenOf ==
  ASSUME NEW S, NEW T, NEW s \in Seq(T), NEW f, DOMAIN f = DOMAIN s,
         f = [i \in DOMAIN s |-> f[i]], \A i \in DOMAIN s : f[i] \in Seq(S)
  PROVE  FlattenSeq(f) \in Seq(S)
<1>1. DOMAIN s = 1 .. Len(s) /\ Len(s) \in Nat
  OBVIOUS
<1>2. f \in Seq(Seq(S))
  BY <1>1
<1> QED BY <1>2, FlattenType

-----------------------------------------------------------------------------
(* What the state is made of.                                              *)

\* Every key that an input can name; the actions are names, or a key itself.
AnyKey ==
  STRING \cup {"", "KEY_HAT_CENTERED", "KEY_HAT_", "KEY_BUTTON_0", "KEY_BACK"} \cup DeckKeys
    \cup {AxisKey(d) : d \in {"UP", "DOWN"}} \cup {"KEY_HAT_" \o v : v \in HatKeys}
    \cup {CecMap[c] : c \in DOMAIN CecMap} \cup KbKeys \cup NetKeys

Events == [source : Pads \cup {"CEC"}, key : AnyKey, state : {"KeyDown", "KeyUp", "KeyPressed"}]

SourceTypes ==
  /\ inputs \subseteq {"net", "sdl", "cec"} /\ upDown \in BOOLEAN /\ lost \in BOOLEAN
  /\ pads \in [has : [Pads -> SUBSET {"stick", "hat", "button"}],
               plugged : SUBSET Pads, opened : SUBSET Pads,
               stick : [Pads -> Sticks], hat : [Pads -> Hats], button : [Pads -> BOOLEAN]]
  /\ axis \in {"", "UP", "DOWN"} /\ lastHat \in AnyKey
  /\ cec \in [attached : BOOLEAN, open : BOOLEAN, port : BOOLEAN, opening : BOOLEAN,
              alert : BOOLEAN, held : CecKeys \cup {NoCode}, failed : BOOLEAN]
  /\ cec.opening => cec.attached \/ ~cec.open
  /\ posted \in Seq(Events) /\ Len(posted) <= MaxQueue

\* Maps whose names are known and whose mappings are those of files.
Named(m) == [pattern : SUBSET Sources, name : DOMAIN m.inputs]
AreMaps(m) ==
  /\ m.sources \in Seq(Named(m))
  /\ \A n \in DOMAIN m.inputs : \E f \in Files : m.inputs[n] = f.mapping

MapTypes ==
  /\ files \subseteq UserFiles /\ noticed \in BOOLEAN /\ unseen \in BOOLEAN
  /\ AreMaps(maps)
  /\ DOMAIN cache \subseteq Sources

ModeRecords == [setting : {"tv", "desktop"}, desktop : BOOLEAN, switching : Seq(BOOLEAN),
                layout : {"auto", "tv"}, cursor : BOOLEAN]

RepeatRecords == [on : BOOLEAN, fast : BOOLEAN, actions : Seq(AnyKey)]

HolderTypes ==
  /\ setup \in Setups /\ keyDown \in BOOLEAN /\ client \in BOOLEAN /\ missed \in BOOLEAN
  /\ held.kb \subseteq KbKeys /\ held.net \subseteq NetKeys /\ DOMAIN held = {"kb", "net"}

KeyTypes ==
  /\ repeat \in RepeatRecords
  /\ offers \in 0 .. MaxOffers
  /\ mode \in ModeRecords /\ overtaken \in BOOLEAN

-----------------------------------------------------------------------------
(* An auto-repeat has somebody who will end it.                            *)

\* An input of a worker that holds a key and will tell its release.
SourceOwes ==
  \/ axis # "" /\ \E p \in pads.plugged : pads.stick[p] # "CENTER"
  \/ \E p \in pads.plugged : pads.hat[p] # "CENTERED" \/ pads.button[p]
  \/ cec.held # NoCode /\ upDown

\* So will the keyboard or a remote control, of a key that they told.
HolderOwes == \/ \E k \in held.kb : <<"Keyboard", k>> \in down
              \/ \E k \in held.net : <<"net", k>> \in down

ReleasePosted == \E i \in DOMAIN posted : posted[i].state = "KeyUp"

RepeatEnds ==
  ~lost => /\ repeat.on => SourceOwes \/ HolderOwes \/ ReleasePosted
           /\ \A i \in DOMAIN posted :
                posted[i].state = "KeyDown" =>
                  SourceOwes \/ \E j \in DOMAIN posted : j > i /\ posted[j].state = "KeyUp"

-----------------------------------------------------------------------------
(* The mode of the window, and the key that is held alone.                 *)

\* At most one switch is posted, to the mode that is set.
Follows(m) ==
  /\ Len(m.switching) <= 1
  /\ m.switching # <<>> => m.switching[1] = (m.setting = "desktop") /\ m.desktop = ~m.switching[1]
  /\ m.switching = <<>> => /\ m.desktop = (m.setting = "desktop")
                           /\ m.desktop /\ m.layout = "auto" => m.cursor

ModeInv == overtaken \/ Follows(mode)

\* What a key is mapped to, whatever is cached.
Meant(source, key) ==
  IF source = "direct" THEN <<[type |-> "string", actions |-> <<key>>]>>
    ELSE LET names == Match(maps, source)
         IN  FlattenSeq([i \in DOMAIN names |-> Entries(maps, names[i], key)])

\* While one key is held alone, what is pending is its long press.
HeldAlone(k) ==
  /\ down = {k}
  /\ press.asked = LongOf(Meant(k[1], k[2]))
  /\ hold.map = press.asked /\ hold.long = press.long

HoldInv ==
  /\ DOMAIN hold = {"map", "long"} /\ hold.long \in BOOLEAN /\ (hold.long => hold.map # NoLong)
  /\ DOMAIN press = {"tidy", "asked", "long"} /\ press.tidy \in BOOLEAN
  /\ press.tidy /\ down # {} => \E k \in down : HeldAlone(k)

\* What remapInput() works on.
MapInv == MapTypes /\ MapsFollowFiles
KeyInv == MapInv /\ KeyTypes /\ ModeInv /\ HoldInv

InputInv == SourceTypes /\ HolderTypes /\ KeyInv /\ RepeatEnds /\ SwallowsRepeatsOnly

-----------------------------------------------------------------------------
(* The maps of the mapping files.                                          *)

Names == {f.name : f \in Files}

\* All maps there can be.
Mappings == {f.mapping : f \in Files}
AllMaps ==
  {m \in [sources : Seq([pattern : SUBSET Sources, name : Names]),
          inputs : UNION {[D -> Mappings] : D \in SUBSET Names}] : AreMaps(m)}

LEMMA FilesAre ==
  ASSUME NEW f \in Files
  PROVE  /\ f.valid \in BOOLEAN /\ f.idmatcher \in SUBSET Sources
         /\ f.name \in Names /\ f.mapping \in Mappings
BY InputMapAssumption DEF Names, Mappings

LEMMA SeqOfItsElements ==
  ASSUME NEW S, NEW s \in Seq(S)
  PROVE  /\ Len(s) \in Nat /\ DOMAIN s = 1 .. Len(s)
         /\ \A i \in DOMAIN s : s[i] \in S /\ s[i] \in ToSet(s)
         /\ ToSet(s) \subseteq S
         /\ s \in Seq(ToSet(s))
<1>1. /\ Len(s) \in Nat /\ DOMAIN s = 1 .. Len(s)
      /\ \A i \in DOMAIN s : s[i] \in S
  OBVIOUS
<1>2. \A i \in DOMAIN s : s[i] \in ToSet(s)
  BY DEF ToSet
<1>3. ToSet(s) \subseteq S
  BY <1>1 DEF ToSet
<1>4. s = [i \in 1 .. Len(s) |-> s[i]]
  BY <1>1
<1>5. s \in [1 .. Len(s) -> ToSet(s)]
  BY <1>1, <1>2, <1>4
<1>6. s \in Seq(ToSet(s))
  BY <1>1, <1>5, SeqDef
<1> QED BY <1>1, <1>2, <1>3, <1>6

LEMMA AddMatcherType ==
  ASSUME NEW S, NEW list \in Seq(S), NEW pattern, NEW name
  PROVE  AddMatcher(list, pattern, name)
           \in Seq({e \in S : e.pattern # pattern} \cup {[pattern |-> pattern, name |-> name]})
<1> DEFINE K == {e \in S : e.pattern # pattern}
           f == [i \in DOMAIN list |-> IF list[i].pattern # pattern THEN <<list[i]>> ELSE <<>>]
           new == [pattern |-> pattern, name |-> name]
<1>1. \A i \in DOMAIN list : list[i] \in S
  BY SeqOfItsElements
<1>2. ASSUME NEW i \in DOMAIN list
      PROVE  f[i] \in Seq(K)
  <2>1. CASE list[i].pattern # pattern
    <3>1. list[i] \in K
      BY <1>1, <2>1
    <3> HIDE DEF K
    <3>2. <<list[i]>> \in Seq(K)
      BY <3>1
    <3> QED BY <2>1, <3>2
  <2>2. CASE list[i].pattern = pattern
    BY <2>2
  <2> QED BY <2>1, <2>2
<1>3. f = [i \in DOMAIN list |-> f[i]] /\ DOMAIN f = DOMAIN list
  OBVIOUS
<1>4. FlattenSeq(f) \in Seq(K)
  <2> HIDE DEF f, K
  <2> QED BY <1>2, <1>3, FlattenOf
<1>5. AddMatcher(list, pattern, name) = Append(FlattenSeq(f), new)
  BY DEF AddMatcher
<1> HIDE DEF f, new, K
<1>6. FlattenSeq(f) \in Seq(K \cup {new})
  BY <1>4, SeqMonotonic
<1>7. Append(FlattenSeq(f), new) \in Seq(K \cup {new})
  BY <1>6
<1> QED BY <1>5, <1>7 DEF K, new

LEMMA OneFileMore ==
  ASSUME NEW m \in AllMaps, NEW f \in Files
  PROVE  LoadMappingFile(m, f) \in AllMaps
<1> DEFINE n == LoadMappingFile(m, f)
           P == [pattern : SUBSET Sources, name : Names]
           new == [pattern |-> f.idmatcher, name |-> f.name]
           sources == AddMatcher(m.sources, f.idmatcher, f.name)
           ins == Put(m.inputs, f.name, f.mapping)
<1>1. CASE ~f.valid
  BY <1>1 DEF LoadMappingFile
<1>2. CASE f.valid
  <2>1. n = [sources |-> sources, inputs |-> ins]
    BY <1>2 DEF LoadMappingFile
  <2>2. f.idmatcher \in SUBSET Sources /\ f.name \in Names /\ f.mapping \in Mappings
    BY FilesAre
  <2>3. /\ m.sources \in Seq(P) /\ m.sources \in Seq(Named(m))
        /\ \A x \in DOMAIN m.inputs : \E g \in Files : m.inputs[x] = g.mapping
    BY DEF AllMaps, AreMaps
  <2>4. DOMAIN m.inputs \in SUBSET Names /\ m.inputs \in [DOMAIN m.inputs -> Mappings]
    BY DEF AllMaps
  <2>5. /\ DOMAIN ins = {f.name} \cup DOMAIN m.inputs
        /\ ins[f.name] = f.mapping
        /\ \A z \in DOMAIN m.inputs : z # f.name => ins[z] = m.inputs[z]
        /\ ins = [z \in {f.name} \cup DOMAIN m.inputs |->
                   IF z = f.name THEN f.mapping ELSE m.inputs[z]]
    BY DEF Put
  <2>6. sources \in Seq({e \in P : e.pattern # f.idmatcher} \cup {new})
    BY <2>3, AddMatcherType
  <2>7. sources \in Seq({e \in Named(m) : e.pattern # f.idmatcher} \cup {new})
    BY <2>3, AddMatcherType
  <2> HIDE DEF sources, ins
  <2>8. sources \in Seq(P)
    <3>1. {e \in P : e.pattern # f.idmatcher} \cup {new} \subseteq P
      BY <2>2
    <3> HIDE DEF P, new
    <3> QED BY <2>6, <3>1, SeqMonotonic
  <2>9. ins \in [DOMAIN ins -> Mappings] /\ DOMAIN ins \in SUBSET Names
    BY <2>2, <2>4, <2>5
  <2>10. \A x \in DOMAIN ins : \E g \in Files : ins[x] = g.mapping
    BY <2>3, <2>5
  <2>11. n.sources = sources /\ n.inputs = ins
    BY <2>1
  <2>12. sources \in Seq(Named(n))
    <3>1. {e \in Named(m) : e.pattern # f.idmatcher} \cup {new} \subseteq Named(n)
      BY <2>2, <2>5, <2>11 DEF Named
    <3> HIDE DEF new
    <3> QED BY <2>7, <3>1, SeqMonotonic
  <2>13. AreMaps(n)
    BY <2>10, <2>11, <2>12 DEF AreMaps
  <2>14. ins \in UNION {[D -> Mappings] : D \in SUBSET Names}
    BY <2>9
  <2>15. n \in [sources : Seq(P), inputs : UNION {[D -> Mappings] : D \in SUBSET Names}]
    <3> HIDE DEF P
    <3> QED BY <2>1, <2>8, <2>14
  <2> QED BY <2>13, <2>15 DEF AllMaps
<1> QED BY <1>1, <1>2

\* The maps after each file of all.
Loads(f, all) ==
  /\ f[0] = NoMaps
  /\ \A i \in 1 .. Len(all) : f[i] = LoadMappingFile(f[i - 1], all[i])
  /\ \A i \in 0 .. Len(all) : f[i] \in AllMaps

LEMMA NoMapsAreMaps == NoMaps \in AllMaps
<1> DEFINE P == [pattern : SUBSET Sources, name : Names]
           I == UNION {[D -> Mappings] : D \in SUBSET Names}
<1>1. NoMaps.sources = <<>> /\ NoMaps.inputs = <<>> /\ DOMAIN <<>> = {}
  BY DEF NoMaps
<1>2. <<>> \in [{} -> Mappings]
  BY <1>1
<1>3. <<>> \in I /\ <<>> \in Seq(P) /\ <<>> \in Seq(Named(NoMaps))
  BY <1>2
<1>4. AreMaps(NoMaps)
  BY <1>1, <1>3 DEF AreMaps
<1> HIDE DEF P, I
<1>5. NoMaps \in [sources : Seq(P), inputs : I]
  BY <1>3 DEF NoMaps
<1> QED BY <1>4, <1>5 DEF AllMaps, P, I

LEMMA LoadedIsLast ==
  ASSUME NEW order \in Seq(Files)
  PROVE  \E f : Loads(f, Bundled \o order) /\ Loaded(order) = f[Len(Bundled \o order)]
<1> DEFINE all == Bundled \o order
           n == Len(all)
           Right(g) == g = [i \in 0 .. n |-> IF i = 0 THEN NoMaps
                                             ELSE LoadMappingFile(g[i - 1], all[i])]
           load == CHOOSE g : Right(g)
           step == [x \in AllMaps \X (1 .. n) |-> LoadMappingFile(x[1], all[x[2]])]
<1>1. n \in Nat /\ \A i \in 1 .. n : all[i] \in Files
  <2>1. Bundled \in Seq(Files)
    BY InputMapAssumption
  <2>2. all \in Seq(Files)
    BY <2>1
  <2> HIDE DEF all
  <2> QED BY <2>2
<1> HIDE DEF all
<1>2. step \in [AllMaps \X (1 .. n) -> AllMaps]
  <2> HIDE DEF n
  <2> QED BY <1>1, OneFileMore
<1>3. PICK f : Runs(f, AllMaps, n, NoMaps, step)
  <2> HIDE DEF step, n
  <2> QED BY <1>1, <1>2, NoMapsAreMaps, RecursionExists
<1>4. Right([i \in 0 .. n |-> f[i]])
  <2> DEFINE g == [i \in 0 .. n |-> f[i]]
  <2>1. ASSUME NEW i \in 0 .. n
        PROVE  g[i] = IF i = 0 THEN NoMaps ELSE LoadMappingFile(g[i - 1], all[i])
    <3>1. CASE i = 0
      BY <1>3, <3>1 DEF Runs
    <3>2. CASE i # 0
      <4>1. i \in 1 .. n /\ i - 1 \in 0 .. n
        BY <1>1, <3>2
      <4>2. f[i] = step[<<f[i - 1], i>>] /\ f[i - 1] \in AllMaps
        <5> HIDE DEF step, n
        <5> QED BY <1>3, <4>1 DEF Runs
      <4>3. <<f[i - 1], i>> \in AllMaps \X (1 .. n)
        BY <4>1, <4>2
      <4>4. f[i] = LoadMappingFile(f[i - 1], all[i])
        BY <4>2, <4>3
      <4> QED BY <3>2, <4>1, <4>4
    <3> QED BY <3>1, <3>2
  <2>2. g = [i \in 0 .. n |-> g[i]]
    OBVIOUS
  <2> HIDE DEF g, n
  <2>3. Right(g)
    BY <2>1, <2>2
  <2> QED BY <2>3 DEF g
<1>5. Right(load)
  <2> HIDE DEF Right
  <2> QED BY <1>4
<1>6. Loaded(order) = load[n]
  BY DEF Loaded, all
<1>7. /\ load[0] = NoMaps
      /\ \A i \in 1 .. n : load[i] = LoadMappingFile(load[i - 1], all[i])
  <2> HIDE DEF load, n
  <2> QED BY <1>1, <1>5
<1>8. \A i \in 0 .. n : load[i] \in AllMaps
  <2> DEFINE T == {i \in 0 .. n : load[i] \in AllMaps}
  <2> HIDE DEF load
  <2>1. 0 \in T
    BY <1>1, <1>7, NoMapsAreMaps
  <2>2. ASSUME NEW i \in 1 .. n, i - 1 \in T
        PROVE  i \in T
    BY <1>1, <1>7, <2>2, OneFileMore
  <2>3. \A i \in 0 .. n : i \in T
    <3> HIDE DEF T, n
    <3> QED BY <1>1, <2>1, <2>2, AllTheWay
  <2> QED BY <2>3
<1> HIDE DEF load
<1>9. Loads(load, all)
  BY <1>7, <1>8 DEF Loads
<1> QED BY <1>6, <1>9 DEF all

LEMMA LoadedType ==
  ASSUME NEW order \in Seq(Files)
  PROVE  AreMaps(Loaded(order))
<1>1. PICK f : Loads(f, Bundled \o order) /\ Loaded(order) = f[Len(Bundled \o order)]
  BY LoadedIsLast
<1>2. Len(Bundled \o order) \in Nat
  BY InputMapAssumption
<1>3. f[Len(Bundled \o order)] \in AllMaps
  BY <1>1, <1>2 DEF Loads
<1> QED BY <1>1, <1>3 DEF AllMaps

-----------------------------------------------------------------------------
(* What the user's files overload.                                         *)

LEMMA OrderIsOfFiles ==
  ASSUME NEW fs \in SUBSET UserFiles, NEW order \in SetToSeqs(fs)
  PROVE  /\ order \in Seq(Files) /\ Len(order) \in Nat
         /\ \A i \in 1 .. Len(order) : order[i] \in fs
         /\ \A f \in fs : \E i \in 1 .. Len(order) : order[i] = f
<1> DEFINE n == Cardinality(fs)
<1>1. IsFiniteSet(fs)
  BY InputMapAssumption, FS_Subset
<1>2. n \in Nat /\ IsFiniteSet(1 .. n) /\ Cardinality(1 .. n) = n
  <2>1. n \in Nat
    BY <1>1, FS_CardinalityType
  <2> QED BY <2>1, FS_Interval
<1>3. order \in [1 .. n -> fs] /\ \A i, j \in 1 .. n : i # j => order[i] # order[j]
  BY DEF SetToSeqs
<1> HIDE DEF n
<1>4. order \in Injection(1 .. n, fs)
  BY <1>3 DEF Injection, IsInjective
<1>5. order \in Surjection(1 .. n, fs)
  BY <1>1, <1>2, <1>4, FS_Injection DEF n
<1>6. Len(order) = n
  BY <1>2, <1>3
<1>7. order \in Seq(fs) /\ fs \subseteq Files
  <2>1. order \in Seq(fs)
    BY <1>2, <1>3
  <2> QED BY <2>1 DEF Files
<1>8. order \in Seq(Files)
  BY <1>7, SeqMonotonic
<1> QED BY <1>2, <1>3, <1>5, <1>6, <1>8 DEF Surjection

\* Of the files us that were read last, each name has the mapping of one of
\* that name, and what goes by the pattern of one has the name of one.
Overloads(m, us) ==
  \A u \in us : u.valid =>
    /\ u.name \in DOMAIN m.inputs
    /\ \E w \in us : w.valid /\ w.name = u.name /\ m.inputs[u.name] = w.mapping
    /\ \A e \in ToSet(m.sources) :
         e.pattern = u.idmatcher => \E w \in us : w.valid /\ w.name = e.name

LEMMA OneMoreOverloads ==
  ASSUME NEW m \in AllMaps, NEW us \in SUBSET Files, NEW g \in Files, Overloads(m, us)
  PROVE  Overloads(LoadMappingFile(m, g), us \cup {g})
<1> DEFINE n == LoadMappingFile(m, g)
           vs == us \cup {g}
<1>1. CASE ~g.valid
  <2>1. n = m
    BY <1>1 DEF LoadMappingFile
  <2> QED BY <1>1, <2>1 DEF Overloads
<1>2. CASE g.valid
  <2>1. /\ n.sources = AddMatcher(m.sources, g.idmatcher, g.name)
        /\ n.inputs = Put(m.inputs, g.name, g.mapping)
    BY <1>2 DEF LoadMappingFile
  <2>2. /\ DOMAIN n.inputs = {g.name} \cup DOMAIN m.inputs
        /\ n.inputs[g.name] = g.mapping
        /\ \A x \in DOMAIN m.inputs : x # g.name => n.inputs[x] = m.inputs[x]
    BY <2>1 DEF Put
  <2>3. ASSUME NEW e \in ToSet(n.sources)
        PROVE  \/ e \in ToSet(m.sources) /\ e.pattern # g.idmatcher
               \/ e.pattern = g.idmatcher /\ e.name = g.name
    <3> DEFINE S == ToSet(m.sources)
               new == [pattern |-> g.idmatcher, name |-> g.name]
               K == {x \in S : x.pattern # g.idmatcher} \cup {new}
    <3>1. m.sources \in Seq(S)
      BY SeqOfItsElements DEF AllMaps
    <3>2. n.sources \in Seq(K)
      <4> HIDE DEF S
      <4> QED BY <2>1, <3>1, AddMatcherType
    <3>3. e \in K
      <4> HIDE DEF K
      <4> QED BY <3>2, SeqOfItsElements
    <3>4. new.pattern = g.idmatcher /\ new.name = g.name
      OBVIOUS
    <3> HIDE DEF S, new
    <3> QED BY <3>3, <3>4 DEF S
  <2> HIDE DEF n
  <2> SUFFICES ASSUME NEW u \in vs, u.valid
               PROVE  /\ u.name \in DOMAIN n.inputs
                      /\ \E w \in vs : w.valid /\ w.name = u.name /\ n.inputs[u.name] = w.mapping
                      /\ \A e \in ToSet(n.sources) :
                           e.pattern = u.idmatcher => \E w \in vs : w.valid /\ w.name = e.name
    BY DEF Overloads, n
  <2>4. u.name \in DOMAIN n.inputs
    BY <2>2 DEF Overloads
  <2>5. \E w \in vs : w.valid /\ w.name = u.name /\ n.inputs[u.name] = w.mapping
    <3>1. CASE u.name = g.name
      BY <1>2, <2>2, <3>1
    <3>2. CASE u.name # g.name
      <4>1. u \in us
        BY <3>2
      <4>2. PICK w \in us : w.valid /\ w.name = u.name /\ m.inputs[u.name] = w.mapping
        BY <4>1 DEF Overloads
      <4>3. u.name \in DOMAIN m.inputs
        BY <4>1 DEF Overloads
      <4> QED BY <2>2, <3>2, <4>2, <4>3
    <3> QED BY <3>1, <3>2
  <2>6. ASSUME NEW e \in ToSet(n.sources), e.pattern = u.idmatcher
        PROVE  \E w \in vs : w.valid /\ w.name = e.name
    <3>1. CASE e.pattern = g.idmatcher /\ e.name = g.name
      BY <1>2, <3>1
    <3>2. CASE e \in ToSet(m.sources) /\ e.pattern # g.idmatcher
      <4>1. u \in us
        BY <2>6, <3>2
      <4> QED BY <2>6, <3>2, <4>1 DEF Overloads
    <3> QED BY <2>3, <3>1, <3>2
  <2> QED BY <2>4, <2>5, <2>6
<1> QED BY <1>1, <1>2

LEMMA LoadedOverloads ==
  ASSUME NEW fs \in SUBSET UserFiles, NEW order \in SetToSeqs(fs)
  PROVE  Overloads(Loaded(order), fs)
<1>1. /\ order \in Seq(Files) /\ Len(order) \in Nat
      /\ \A i \in 1 .. Len(order) : order[i] \in fs
      /\ \A f \in fs : \E i \in 1 .. Len(order) : order[i] = f
  BY OrderIsOfFiles
<1> DEFINE b == Len(Bundled)
           all == Bundled \o order
           n == Len(all)
           Read(i) == {all[j] : j \in b + 1 .. i}
<1>2. b \in Nat /\ n = b + Len(order) /\ n \in Nat
  BY <1>1, InputMapAssumption
<1>3. \A j \in b + 1 .. n : all[j] = order[j - b] /\ all[j] \in fs /\ all[j] \in Files
  <2>1. Bundled \in Seq(Files)
    BY InputMapAssumption
  <2>2. ASSUME NEW j \in b + 1 .. n
        PROVE  all[j] = order[j - b] /\ j - b \in 1 .. Len(order)
    BY <1>1, <1>2, <2>1, <2>2
  <2>3. fs \subseteq Files
    BY DEF Files
  <2> HIDE DEF all, n, b
  <2> QED BY <1>1, <2>2, <2>3
<1>4. PICK f : Loads(f, all) /\ Loaded(order) = f[n]
  BY <1>1, LoadedIsLast
<1>5. Read(n) = fs
  <2>1. ASSUME NEW u \in fs
        PROVE  u \in Read(n)
    <3>1. PICK i \in 1 .. Len(order) : order[i] = u
      BY <1>1
    <3>2. b + i \in b + 1 .. n /\ (b + i) - b = i
      BY <1>1, <1>2
    <3>3. all[b + i] = u
      <4> HIDE DEF all, n, b
      <4> QED BY <1>3, <3>1, <3>2
    <3> HIDE DEF all, n, b
    <3> QED BY <3>2, <3>3
  <2>2. Read(n) \subseteq fs
    <3> HIDE DEF all, n, b
    <3> QED BY <1>3
  <2> HIDE DEF Read
  <2> QED BY <2>1, <2>2
<1> HIDE DEF all, n, b
<1> DEFINE T == {i \in 0 .. n : Overloads(f[i], Read(i))}
<1>6. 0 \in T
  <2>1. Read(0) = {}
    BY <1>2
  <2>2. Overloads(f[0], {})
    BY DEF Overloads
  <2>3. 0 \in 0 .. n
    BY <1>2
  <2> HIDE DEF Read
  <2>4. Overloads(f[0], Read(0))
    BY <2>1, <2>2
  <2> QED BY <2>3, <2>4
<1>7. ASSUME NEW i \in 1 .. n, i - 1 \in T
      PROVE  i \in T
  <2>1. f[i] = LoadMappingFile(f[i - 1], all[i]) /\ f[i - 1] \in AllMaps
    <3>1. i - 1 \in 0 .. n
      BY <1>2
    <3> QED BY <1>4, <3>1 DEF Loads, n
  <2>2. CASE i <= b
    <3>1. Read(i) = {}
      BY <1>2, <2>2
    <3>2. Overloads(f[i], {})
      BY DEF Overloads
    <3> HIDE DEF Read
    <3>3. Overloads(f[i], Read(i)) /\ i \in 0 .. n
      BY <1>2, <3>1, <3>2
    <3> QED BY <3>3
  <2>3. CASE i > b
    <3>1. Read(i) = Read(i - 1) \cup {all[i]}
      <4>1. b + 1 .. i = (b + 1 .. i - 1) \cup {i}
        BY <1>2, <2>3
      <4> QED BY <4>1
    <3>2. Overloads(f[i - 1], Read(i - 1))
      BY <1>7
    <3>3. all[i] \in Files
      BY <1>2, <1>3, <2>3
    <3>4. Read(i - 1) \subseteq Files
      BY <1>2, <1>3
    <3> HIDE DEF Read
    <3>5. Overloads(f[i], Read(i))
      BY <2>1, <3>1, <3>2, <3>3, <3>4, OneMoreOverloads
    <3> QED BY <1>2, <3>5
  <2> QED BY <1>2, <2>2, <2>3
<1>8. n \in T
  <2> HIDE DEF T
  <2>1. \A i \in 0 .. n : i \in T
    BY <1>2, <1>6, <1>7, AllTheWay
  <2> QED BY <1>2, <2>1
<1> HIDE DEF Read
<1> QED BY <1>4, <1>5, <1>8

(* What is matched are names of mappings, and of none for an unknown source. *)
LEMMA MatchType ==
  ASSUME NEW m, AreMaps(m), NEW source
  PROVE  /\ Match(m, source) \in Seq(DOMAIN m.inputs)
         /\ source \notin Sources => Match(m, source) = <<>>
<1> DEFINE f == [i \in DOMAIN m.sources |->
                   IF source \in m.sources[i].pattern THEN <<m.sources[i].name>> ELSE <<>>]
<1>1. m.sources \in Seq(Named(m))
  BY DEF AreMaps
<1>2. \A i \in DOMAIN m.sources : m.sources[i] \in Named(m)
  BY <1>1, SeqOfItsElements
<1>3. f = [i \in DOMAIN m.sources |-> f[i]] /\ DOMAIN f = DOMAIN m.sources
  OBVIOUS
<1>4. ASSUME NEW i \in DOMAIN m.sources
      PROVE  /\ f[i] \in Seq(DOMAIN m.inputs)
             /\ source \notin Sources => f[i] \in Seq({})
  <2>1. m.sources[i].name \in DOMAIN m.inputs /\ m.sources[i].pattern \subseteq Sources
    BY <1>2 DEF Named
  <2>2. CASE source \in m.sources[i].pattern
    <3>1. f[i] = <<m.sources[i].name>>
      BY <2>2
    <3>2. source \in Sources
      BY <2>1, <2>2
    <3> DEFINE D == DOMAIN m.inputs
               x == m.sources[i].name
    <3>3. x \in D
      BY <2>1
    <3> HIDE DEF D, x
    <3>4. <<x>> \in Seq(D)
      BY <3>3
    <3> QED BY <3>1, <3>2, <3>4 DEF D, x
  <2>3. CASE source \notin m.sources[i].pattern
    <3>1. f[i] = <<>>
      BY <2>3
    <3> HIDE DEF f
    <3>2. <<>> \in Seq(DOMAIN m.inputs) /\ <<>> \in Seq({})
      OBVIOUS
    <3> QED BY <3>1, <3>2
  <2> QED BY <2>2, <2>3
<1>5. Match(m, source) = FlattenSeq(f)
  BY DEF Match
<1> HIDE DEF f
<1>6. FlattenSeq(f) \in Seq(DOMAIN m.inputs)
  BY <1>1, <1>3, <1>4, FlattenOf
<1>7. ASSUME source \notin Sources
      PROVE  FlattenSeq(f) = <<>>
  <2>1. FlattenSeq(f) \in Seq({})
    BY <1>1, <1>3, <1>4, <1>7, FlattenOf
  <2> QED BY <2>1
<1> QED BY <1>5, <1>6, <1>7

-----------------------------------------------------------------------------
(* What a key means.                                                       *)

FileEntries == UNION {UNION {ToSet(f.mapping[k]) : k \in DOMAIN f.mapping} : f \in Files}
Direct(key) == [type |-> "string", actions |-> <<key>>]

LEMMA EntriesType ==
  ASSUME NEW m, AreMaps(m), NEW name \in DOMAIN m.inputs, NEW key
  PROVE  Entries(m, name, key) \in Seq(FileEntries)
<1>1. PICK f \in Files : m.inputs[name] = f.mapping
  BY DEF AreMaps
<1>2. CASE key \notin DOMAIN f.mapping
  BY <1>1, <1>2 DEF Entries
<1>3. CASE key \in DOMAIN f.mapping
  <2>1. f.mapping[key] \in Seq(ToSet(f.mapping[key]))
    BY <1>3, InputMapAssumption
  <2>2. ToSet(f.mapping[key]) \subseteq FileEntries
    BY <1>3 DEF FileEntries
  <2>3. f.mapping[key] \in Seq(FileEntries)
    BY <2>1, <2>2, SeqMonotonic
  <2> QED BY <1>1, <1>3, <2>3 DEF Entries
<1> QED BY <1>2, <1>3

LEMMA MeantType ==
  ASSUME AreMaps(maps), NEW source, NEW key
  PROVE  Meant(source, key) \in Seq(FileEntries \cup {Direct(key)})
<1> DEFINE S == FileEntries \cup {Direct(key)}
<1>1. CASE source = "direct"
  <2>1. Meant(source, key) = <<Direct(key)>>
    BY <1>1 DEF Meant, Direct
  <2>2. Direct(key) \in S
    OBVIOUS
  <2> HIDE DEF S
  <2>3. <<Direct(key)>> \in Seq(S)
    BY <2>2
  <2> QED BY <2>1, <2>3 DEF S
<1>2. CASE source # "direct"
  <2> DEFINE names == Match(maps, source)
             f == [i \in DOMAIN names |-> Entries(maps, names[i], key)]
  <2>1. Meant(source, key) = FlattenSeq(f)
    BY <1>2 DEF Meant
  <2>2. names \in Seq(DOMAIN maps.inputs)
    BY MatchType
  <2>3. \A i \in DOMAIN names : names[i] \in DOMAIN maps.inputs
    <3> HIDE DEF names
    <3> QED BY <2>2, SeqOfItsElements
  <2>4. \A i \in DOMAIN names : f[i] \in Seq(FileEntries)
    <3> HIDE DEF names
    <3> QED BY <2>3, EntriesType
  <2>5. f = [i \in DOMAIN names |-> f[i]] /\ DOMAIN f = DOMAIN names
    OBVIOUS
  <2> HIDE DEF f, names
  <2>6. FlattenSeq(f) \in Seq(FileEntries)
    BY <2>2, <2>4, <2>5, FlattenOf
  <2>7. FlattenSeq(f) \in Seq(S)
    BY <2>6, SeqMonotonic
  <2> QED BY <2>1, <2>7
<1> QED BY <1>1, <1>2

LEMMA JoinedType ==
  ASSUME NEW key \in AnyKey, NEW entries \in Seq(FileEntries \cup {Direct(key)}),
         NEW types \in SUBSET {"string", "short", "list"}
  PROVE  Joined(entries, types) \in Seq(AnyKey)
<1> DEFINE f == [i \in DOMAIN entries |->
                   IF entries[i].type \in types THEN entries[i].actions ELSE <<>>]
<1>1. \A i \in DOMAIN entries : entries[i] \in FileEntries \cup {Direct(key)}
  BY SeqOfItsElements
<1>2. ASSUME NEW i \in DOMAIN entries
      PROVE  f[i] \in Seq(AnyKey)
  <2>1. CASE entries[i].type \notin types
    BY <2>1
  <2>2. CASE entries[i].type \in types /\ entries[i] = Direct(key)
    <3>1. f[i] = <<key>>
      BY <2>2 DEF Direct
    <3> HIDE DEF f
    <3>2. <<key>> \in Seq(AnyKey)
      OBVIOUS
    <3> QED BY <3>1, <3>2
  <2>3. CASE entries[i].type \in types /\ entries[i] \in FileEntries
    <3>1. PICK g \in Files : \E k \in DOMAIN g.mapping : entries[i] \in ToSet(g.mapping[k])
      BY <2>3 DEF FileEntries
    <3>2. IsEntry(entries[i])
      BY <3>1, InputMapAssumption
    <3>3. entries[i].actions \in Seq(STRING)
      BY <2>3, <3>2 DEF IsEntry
    <3>4. STRING \subseteq AnyKey
      BY DEF AnyKey
    <3>5. entries[i].actions \in Seq(AnyKey)
      BY <3>3, <3>4, SeqMonotonic
    <3> QED BY <2>3, <3>5
  <2> QED BY <1>1, <2>1, <2>2, <2>3
<1>3. f = [i \in DOMAIN entries |-> f[i]] /\ DOMAIN f = DOMAIN entries
  OBVIOUS
<1>4. Joined(entries, types) = FlattenSeq(f)
  BY DEF Joined
<1> HIDE DEF f
<1>5. FlattenSeq(f) \in Seq(AnyKey)
  BY <1>2, <1>3, FlattenOf
<1> QED BY <1>4, <1>5

LEMMA MeantActions ==
  ASSUME AreMaps(maps), NEW source, NEW key \in AnyKey
  PROVE  /\ Queued(Meant(source, key)) \in Seq(AnyKey)
         /\ Repeated(Meant(source, key)) \in Seq(AnyKey)
<1>1. Meant(source, key) \in Seq(FileEntries \cup {Direct(key)})
  BY MeantType
<1> QED BY <1>1, JoinedType DEF Queued, Repeated

(* A cached match is the match.                                             *)
CacheIsTrue == \A s \in DOMAIN cache : cache[s] = Match(maps, s)

LEMMA CachedIsMeant ==
  ASSUME CacheIsTrue, NEW source, NEW key
  PROVE  /\ CachedMatch(source) = Match(maps, source)
         /\ MapToAction(source, key) = Meant(source, key)
<1>1. CachedMatch(source) = Match(maps, source)
  BY DEF CacheIsTrue, CachedMatch
<1> QED BY <1>1 DEF MapToAction, Meant

LEMMA CacheStaysTrue ==
  ASSUME AreMaps(maps), CacheIsTrue, DOMAIN cache \subseteq Sources,
         NEW source, CacheMatch(source), maps' = maps
  PROVE  CacheIsTrue' /\ DOMAIN cache' \subseteq Sources
<1>1. CASE source = "direct" \/ Match(maps, source) = <<>>
  BY <1>1 DEF CacheMatch, CacheIsTrue
<1>2. CASE ~(source = "direct" \/ Match(maps, source) = <<>>)
  <2>1. cache' = Put(cache, source, CachedMatch(source))
    BY <1>2 DEF CacheMatch
  <2>2. source \in Sources
    BY <1>2, MatchType
  <2>3. CachedMatch(source) = Match(maps, source)
    BY DEF CacheIsTrue, CachedMatch
  <2>4. /\ DOMAIN cache' = {source} \cup DOMAIN cache
        /\ \A s \in DOMAIN cache' : cache'[s] = Match(maps, s)
    BY <2>1, <2>3 DEF Put, CacheIsTrue
  <2> QED BY <2>2, <2>4 DEF CacheIsTrue
<1> QED BY <1>1, <1>2

LEMMA SwitchesType ==
  ASSUME NEW S, NEW actions \in Seq(S)
  PROVE  Switches(actions) \in Nat
<1> DEFINE D == {i \in DOMAIN actions : actions[i] = Switch}
<1>1. IsFiniteSet(DOMAIN actions)
  BY FS_Interval
<1>2. IsFiniteSet(D)
  BY <1>1, FS_Subset
<1>3. Cardinality(D) \in Nat
  <2> HIDE DEF D
  <2> QED BY <1>2, FS_CardinalityType
<1> QED BY <1>3 DEF Switches

-----------------------------------------------------------------------------
(* Switching the mode of the window.                                       *)

LEMMA TogglesFollow ==
  ASSUME NEW m \in ModeRecords
  PROVE  /\ ToggleWebMode(m) \in ModeRecords
         /\ Len(ToggleWebMode(m).switching) >= Len(m.switching)
         /\ Follows(m) => Follows(ToggleWebMode(m))
<1> DEFINE value == IF m.desktop THEN "tv" ELSE "desktop"
           new == value = "desktop"
           n == ToggleWebMode(m)
<1>1. /\ m.setting \in {"tv", "desktop"} /\ m.desktop \in BOOLEAN /\ m.cursor \in BOOLEAN
      /\ m.layout \in {"auto", "tv"} /\ m.switching \in Seq(BOOLEAN)
      /\ value \in {"tv", "desktop"} /\ new \in BOOLEAN /\ new = ~m.desktop
  BY DEF ModeRecords
<1>2. n = SetWebMode(m, value)
  BY DEF ToggleWebMode
<1>3. CASE value = m.setting
  <2>1. n = m
    <3> HIDE DEF value
    <3>1. SetWebMode(m, value) = m
      BY <1>3 DEF SetWebMode
    <3> QED BY <1>2, <3>1
  <2> QED BY <1>1, <2>1
<1>4. CASE value # m.setting /\ m.layout # "auto"
  <2>1. n = [[m EXCEPT !.setting = value] EXCEPT !.desktop = new]
    BY <1>1, <1>2, <1>4 DEF SetWebMode
  <2>2. n \in ModeRecords
    BY <1>1, <2>1 DEF ModeRecords
  <2>3. /\ n.setting = value /\ n.desktop = new /\ n.switching = m.switching
        /\ n.layout = m.layout /\ n.cursor = m.cursor
    BY <2>1 DEF ModeRecords
  <2>4. Follows(m) => Follows(n)
    <3>1. Follows(m) => m.switching = <<>>
      <4> SUFFICES ASSUME Follows(m), m.switching # <<>> PROVE FALSE
        OBVIOUS
      <4>1. m.desktop = ~(m.setting = "desktop")
        BY DEF Follows
      <4> QED BY <1>1, <1>4, <4>1
    <3> QED BY <1>1, <1>4, <2>3, <3>1 DEF Follows
  <2>5. Len(n.switching) >= Len(m.switching)
    BY <1>1, <2>3
  <2> QED BY <2>2, <2>4, <2>5
<1>5. CASE value # m.setting /\ m.layout = "auto"
  <2>1. n = [[m EXCEPT !.setting = value] EXCEPT !.switching = Append(m.switching, new)]
    BY <1>1, <1>2, <1>5 DEF SetWebMode
  <2>2. Append(m.switching, new) \in Seq(BOOLEAN)
    BY <1>1
  <2>3. n \in ModeRecords
    BY <1>1, <2>1, <2>2 DEF ModeRecords
  <2>4. /\ n.setting = value /\ n.desktop = m.desktop
        /\ n.switching = Append(m.switching, new)
        /\ n.layout = m.layout /\ n.cursor = m.cursor
    BY <2>1 DEF ModeRecords
  <2>5. Follows(m) => Follows(n)
    <3> SUFFICES ASSUME Follows(m)
                 PROVE  Follows(n)
      OBVIOUS
    <3>1. m.switching = <<>>
      <4> SUFFICES ASSUME m.switching # <<>> PROVE FALSE
        OBVIOUS
      <4>1. m.desktop = ~(m.setting = "desktop")
        BY DEF Follows
      <4> QED BY <1>1, <1>5, <4>1
    <3>2. n.switching = <<new>>
      BY <2>4, <3>1
    <3>3. Len(n.switching) = 1 /\ n.switching[1] = new /\ n.switching # <<>>
      BY <3>2
    <3>4. n.switching[1] = (n.setting = "desktop")
      BY <2>4, <3>3
    <3>5. n.desktop = ~n.switching[1]
      BY <1>1, <2>4, <3>3
    <3> HIDE DEF n, new, value
    <3> QED BY <3>3, <3>4, <3>5 DEF Follows
  <2>6. Len(n.switching) >= Len(m.switching)
    BY <1>1, <2>4
  <2> QED BY <2>3, <2>5, <2>6
<1> QED BY <1>1, <1>3, <1>4, <1>5

LEMMA ExecuteFollows ==
  ASSUME NEW m \in ModeRecords, NEW S, NEW actions \in Seq(S)
  PROVE  /\ ExecuteActions(m, actions) \in ModeRecords
         /\ Len(ExecuteActions(m, actions).switching) >= Len(m.switching)
         /\ Follows(m) => Follows(ExecuteActions(m, actions))
<1> DEFINE n == Len(actions)
           Handled(x, action) == IF action = Switch THEN ToggleWebMode(x) ELSE x
           Right(g) == g = [i \in 0 .. n |-> IF i = 0 THEN m ELSE Handled(g[i - 1], actions[i])]
           run == CHOOSE g : Right(g)
           step == [x \in ModeRecords \X (1 .. n) |-> Handled(x[1], actions[x[2]])]
<1>1. n \in Nat
  OBVIOUS
<1>2. \A x \in ModeRecords : \A action : Handled(x, action) \in ModeRecords
  BY TogglesFollow
<1>3. step \in [ModeRecords \X (1 .. n) -> ModeRecords]
  <2> HIDE DEF Handled, n
  <2> QED BY <1>2
<1>4. PICK f : Runs(f, ModeRecords, n, m, step)
  <2> HIDE DEF step, n
  <2> QED BY <1>1, <1>3, RecursionExists
<1>5. Right([i \in 0 .. n |-> f[i]])
  <2> DEFINE g == [i \in 0 .. n |-> f[i]]
  <2>1. ASSUME NEW i \in 0 .. n
        PROVE  g[i] = IF i = 0 THEN m ELSE Handled(g[i - 1], actions[i])
    <3>1. CASE i = 0
      BY <1>4, <3>1 DEF Runs
    <3>2. CASE i # 0
      <4>1. i \in 1 .. n /\ i - 1 \in 0 .. n
        BY <1>1, <3>2
      <4>2. f[i] = step[<<f[i - 1], i>>] /\ f[i - 1] \in ModeRecords
        <5> HIDE DEF step, n
        <5> QED BY <1>4, <4>1 DEF Runs
      <4>3. <<f[i - 1], i>> \in ModeRecords \X (1 .. n)
        BY <4>1, <4>2
      <4>4. f[i] = Handled(f[i - 1], actions[i])
        <5> HIDE DEF Handled, n
        <5> QED BY <4>2, <4>3
      <4> HIDE DEF Handled
      <4> QED BY <3>2, <4>1, <4>4
    <3> QED BY <3>1, <3>2
  <2>2. g = [i \in 0 .. n |-> g[i]]
    OBVIOUS
  <2> HIDE DEF g, n, Handled
  <2>3. Right(g)
    BY <2>1, <2>2
  <2> QED BY <2>3 DEF g
<1>6. Right(run)
  <2> HIDE DEF Right
  <2> QED BY <1>5
<1>7. ExecuteActions(m, actions) = run[n]
  BY DEF ExecuteActions
<1>8. /\ run[0] = m
      /\ \A i \in 1 .. n : run[i] = Handled(run[i - 1], actions[i])
  <2> HIDE DEF run, n, Handled
  <2> QED BY <1>1, <1>6
<1> DEFINE Fine(x) == /\ x \in ModeRecords /\ Len(x.switching) >= Len(m.switching)
                      /\ Follows(m) => Follows(x)
           T == {i \in 0 .. n : Fine(run[i])}
<1> HIDE DEF run
<1>9. 0 \in T
  <2>1. Len(m.switching) \in Nat
    BY DEF ModeRecords
  <2> QED BY <1>1, <1>8, <2>1
<1>10. ASSUME NEW i \in 1 .. n, i - 1 \in T
       PROVE  i \in T
  <2> DEFINE x == run[i - 1]
  <2>1. run[i] = Handled(x, actions[i]) /\ Fine(x)
    BY <1>8, <1>10
  <2>2. Len(m.switching) \in Nat /\ Len(x.switching) \in Nat
    BY <2>1 DEF ModeRecords
  <2> HIDE DEF x
  <2>3. Fine(ToggleWebMode(x))
    <3>1. ToggleWebMode(x) \in ModeRecords
      BY <2>1, TogglesFollow
    <3>2. Len(ToggleWebMode(x).switching) \in Nat
      BY <3>1 DEF ModeRecords
    <3>3. Len(ToggleWebMode(x).switching) >= Len(x.switching)
      BY <2>1, TogglesFollow
    <3>4. Follows(x) => Follows(ToggleWebMode(x))
      BY <2>1, TogglesFollow
    <3> QED BY <2>1, <2>2, <3>1, <3>2, <3>3, <3>4
  <2>4. Fine(run[i])
    <3> HIDE DEF Fine
    <3> QED BY <2>1, <2>3
  <2> HIDE DEF Fine
  <2> QED BY <1>1, <2>4
<1>11. \A i \in 0 .. n : i \in T
  <2> HIDE DEF T, n
  <2> QED BY <1>1, <1>9, <1>10, AllTheWay
<1>12. Fine(run[n])
  <2> HIDE DEF Fine, n
  <2> QED BY <1>1, <1>11
<1> HIDE DEF n
<1> QED BY <1>7, <1>12

-----------------------------------------------------------------------------
(* Joysticks and the television.                                           *)

PadTypes ==
  /\ pads.has \in [Pads -> SUBSET {"stick", "hat", "button"}]
  /\ pads.plugged \subseteq Pads /\ pads.opened \subseteq Pads
  /\ pads.stick \in [Pads -> Sticks] /\ pads.hat \in [Pads -> Hats]
  /\ pads.button \in [Pads -> BOOLEAN]

LEMMA PadsAre == SourceTypes => PadTypes
BY DEF SourceTypes, PadTypes

\* What a step of the sources tells: a release, that somebody holds a key, or
\* nothing new.
Tells ==
  /\ lost => lost'
  /\ \/ posted' = posted /\ (SourceOwes => SourceOwes' \/ lost')
     \/ \E e \in Events : posted' = Append(posted, e) /\ e.state = "KeyUp"
     \/ \E e \in Events : posted' = Append(posted, e) /\ SourceOwes'
     \/ \E e \in Events : /\ posted' = Append(posted, e) /\ e.state = "KeyPressed"
                          /\ SourceOwes => SourceOwes'

SourceKept == SourceTypes' /\ Tells

LEMMA PostedType ==
  ASSUME SourceTypes, Room, NEW source \in Pads \cup {"CEC"}, NEW key \in AnyKey,
         NEW state \in {"KeyDown", "KeyUp", "KeyPressed"}, Post(source, key, state)
  PROVE  /\ Event(source, key, state) \in Events /\ Event(source, key, state).state = state
         /\ posted' = Append(posted, Event(source, key, state))
         /\ posted' \in Seq(Events) /\ Len(posted') <= MaxQueue
<1>1. Event(source, key, state) \in Events /\ Event(source, key, state).state = state
  BY DEF Event, Events
<1>2. posted' = Append(posted, Event(source, key, state))
  BY DEF Post
<1>3. posted \in Seq(Events) /\ Len(posted) < MaxQueue /\ MaxQueue \in Nat
  BY SourcesAssumption DEF SourceTypes, Room
<1> QED BY <1>1, <1>2, <1>3

LEMMA KeysAre ==
  /\ \A d \in {"UP", "DOWN"} : AxisKey(d) \in AnyKey
  /\ \A v \in HatKeys : "KEY_HAT_" \o v \in AnyKey
  /\ \A c \in DOMAIN CecMap : CecMap[c] \in AnyKey
  /\ "KEY_HAT_CENTERED" \in AnyKey /\ "KEY_HAT_" \in AnyKey
  /\ "KEY_BUTTON_0" \in AnyKey /\ "KEY_BACK" \in AnyKey /\ "" \in AnyKey
  /\ DeckKeys \subseteq AnyKey
BY DEF AnyKey

LEMMA AxisKeeps ==
  ASSUME SourceTypes, NEW p \in Pads, NEW v \in Sticks, SdlAxis(p, v)
  PROVE  SourceKept
<1>1. PadTypes
  BY PadsAre
<1>2. pads' = [pads EXCEPT !.stick[p] = v] /\ p \in pads.plugged /\ Room
  BY DEF SdlAxis
<1>3. UNCHANGED <<inputs, lastHat, cec, upDown, lost>>
  BY DEF SdlAxis, cecVars
<1>4. /\ pads' \in [has : [Pads -> SUBSET {"stick", "hat", "button"}],
                    plugged : SUBSET Pads, opened : SUBSET Pads,
                    stick : [Pads -> Sticks], hat : [Pads -> Hats], button : [Pads -> BOOLEAN]]
  BY <1>2 DEF SourceTypes
<1>5. /\ pads'.plugged = pads.plugged /\ pads'.hat = pads.hat /\ pads'.button = pads.button
      /\ pads'.stick = [pads.stick EXCEPT ![p] = v]
  BY <1>2 DEF SourceTypes
<1>6. \A q \in Pads : pads'.stick[q] = IF q = p THEN v ELSE pads.stick[q]
  BY <1>1, <1>5 DEF PadTypes
<1>7. CASE v \in {"UP", "DOWN"} /\ axis = ""
  <2>1. Post(p, AxisKey(v), "KeyDown") /\ axis' = v
    BY <1>7 DEF SdlAxis
  <2>2. /\ Event(p, AxisKey(v), "KeyDown") \in Events
        /\ posted' = Append(posted, Event(p, AxisKey(v), "KeyDown"))
        /\ posted' \in Seq(Events) /\ Len(posted') <= MaxQueue
    BY <1>2, <1>7, <2>1, PostedType, KeysAre
  <2>3. SourceOwes'
    <3>1. p \in pads'.plugged /\ pads'.stick[p] # "CENTER" /\ axis' # ""
      BY <1>2, <1>5, <1>6, <1>7, <2>1
    <3> QED BY <3>1 DEF SourceOwes
  <2>4. SourceTypes'
    BY <1>3, <1>4, <1>7, <2>1, <2>2 DEF SourceTypes
  <2> QED BY <1>3, <2>2, <2>3, <2>4 DEF SourceKept, Tells
<1>8. CASE (v \in {"UP", "DOWN"} /\ axis \notin {"", v}) \/ (v = "CENTER" /\ axis # "")
  <2>1. Post(p, AxisKey(axis), "KeyUp") /\ axis' = ""
    BY <1>8 DEF SdlAxis
  <2>2. axis \in {"UP", "DOWN"}
    BY <1>8 DEF SourceTypes
  <2>3. /\ Event(p, AxisKey(axis), "KeyUp") \in Events
        /\ Event(p, AxisKey(axis), "KeyUp").state = "KeyUp"
        /\ posted' = Append(posted, Event(p, AxisKey(axis), "KeyUp"))
        /\ posted' \in Seq(Events) /\ Len(posted') <= MaxQueue
    BY <1>2, <2>1, <2>2, PostedType, KeysAre
  <2>4. SourceTypes'
    BY <1>3, <1>4, <2>1, <2>3 DEF SourceTypes
  <2> QED BY <1>3, <2>3, <2>4 DEF SourceKept, Tells
<1>9. CASE /\ ~(v \in {"UP", "DOWN"} /\ axis = "")
           /\ ~((v \in {"UP", "DOWN"} /\ axis \notin {"", v}) \/ (v = "CENTER" /\ axis # ""))
  <2>1. UNCHANGED <<posted, axis>>
    BY <1>9 DEF SdlAxis
  <2>2. SourceTypes'
    BY <1>3, <1>4, <2>1 DEF SourceTypes
  <2>3. SourceOwes => SourceOwes'
    <3>1. ASSUME NEW q \in pads.plugged, pads.stick[q] # "CENTER", axis # ""
          PROVE  SourceOwes'
      <4>1. q \in pads'.plugged /\ axis' # "" /\ q \in Pads
        BY <1>1, <1>5, <2>1, <3>1 DEF PadTypes
      <4>2. q = p => v # "CENTER"
        BY <1>9, <3>1
      <4>3. pads'.stick[q] # "CENTER"
        BY <1>6, <3>1, <4>1, <4>2
      <4> QED BY <4>1, <4>3 DEF SourceOwes
    <3>2. ASSUME NEW q \in pads.plugged, pads.hat[q] # "CENTERED" \/ pads.button[q]
          PROVE  SourceOwes'
      BY <1>5, <3>2 DEF SourceOwes
    <3>3. cec.held # NoCode /\ upDown => SourceOwes'
      BY <1>3 DEF SourceOwes
    <3> QED BY <3>1, <3>2, <3>3 DEF SourceOwes
  <2> QED BY <1>3, <2>1, <2>2, <2>3 DEF SourceKept, Tells
<1> QED BY <1>7, <1>8, <1>9

LEMMA HatKeeps ==
  ASSUME SourceTypes, NEW p \in Pads, NEW v \in Hats, SdlHat(p, v)
  PROVE  SourceKept
<1> DEFINE name == CASE v = "CENTERED" -> IF lastHat # "" THEN lastHat ELSE "KEY_HAT_CENTERED"
                     [] v = "other"    -> "KEY_HAT_"
                     [] OTHER          -> "KEY_HAT_" \o v
           state == IF v = "CENTERED" THEN "KeyUp" ELSE "KeyDown"
<1>1. PadTypes
  BY PadsAre
<1>2. /\ pads' = [pads EXCEPT !.hat[p] = v] /\ p \in pads.plugged /\ Room
      /\ lastHat' = name /\ Post(p, name, state)
  BY DEF SdlHat
<1>3. UNCHANGED <<inputs, axis, cec, upDown, lost>>
  BY DEF SdlHat, cecVars
<1>4. /\ pads' \in [has : [Pads -> SUBSET {"stick", "hat", "button"}],
                    plugged : SUBSET Pads, opened : SUBSET Pads,
                    stick : [Pads -> Sticks], hat : [Pads -> Hats], button : [Pads -> BOOLEAN]]
      /\ pads'.plugged = pads.plugged /\ pads'.hat = [pads.hat EXCEPT ![p] = v]
  BY <1>2 DEF SourceTypes
<1>5. name \in AnyKey
  <2>1. "KEY_HAT_CENTERED" \in AnyKey /\ "KEY_HAT_" \in AnyKey /\ lastHat \in AnyKey
    BY KeysAre DEF SourceTypes
  <2>2. CASE v = "CENTERED"
    BY <2>1, <2>2
  <2>3. CASE v = "other"
    BY <2>1, <2>3
  <2>4. CASE v \notin {"CENTERED", "other"}
    <3>1. name = "KEY_HAT_" \o v
      BY <2>4
    <3>2. v \in HatKeys
      BY <2>4 DEF Hats
    <3> HIDE DEF name
    <3> QED BY <3>1, <3>2, KeysAre
  <2> QED BY <2>2, <2>3, <2>4
<1> HIDE DEF name
<1>6. state \in {"KeyDown", "KeyUp", "KeyPressed"}
  OBVIOUS
<1>7. /\ Event(p, name, state) \in Events /\ Event(p, name, state).state = state
      /\ posted' = Append(posted, Event(p, name, state))
      /\ posted' \in Seq(Events) /\ Len(posted') <= MaxQueue
  BY <1>2, <1>5, <1>6, PostedType
<1>8. SourceTypes'
  BY <1>2, <1>3, <1>4, <1>5, <1>7 DEF SourceTypes
<1>9. v # "CENTERED" => SourceOwes'
  BY <1>1, <1>2, <1>4 DEF SourceOwes, PadTypes
<1>10. v = "CENTERED" => state = "KeyUp"
  OBVIOUS
<1> HIDE DEF state
<1> QED BY <1>3, <1>7, <1>8, <1>9, <1>10 DEF SourceKept, Tells

LEMMA ButtonKeeps ==
  ASSUME SourceTypes, NEW p \in Pads, SdlButton(p)
  PROVE  SourceKept
<1> DEFINE state == IF pads.button[p] THEN "KeyUp" ELSE "KeyDown"
<1>1. PadTypes
  BY PadsAre
<1>2. /\ pads' = [pads EXCEPT !.button[p] = ~@] /\ p \in pads.plugged /\ Room
      /\ Post(p, "KEY_BUTTON_0", state)
  BY DEF SdlButton
<1>3. UNCHANGED <<inputs, axis, lastHat, cec, upDown, lost>>
  BY DEF SdlButton, cecVars
<1>4. /\ pads'.button = [pads.button EXCEPT ![p] = ~pads.button[p]]
      /\ pads'.plugged = pads.plugged /\ pads'.has = pads.has /\ pads'.opened = pads.opened
      /\ pads'.stick = pads.stick /\ pads'.hat = pads.hat
      /\ pads' = [has |-> pads.has, plugged |-> pads.plugged, opened |-> pads.opened,
                  stick |-> pads.stick, hat |-> pads.hat, button |-> pads'.button]
  BY <1>2 DEF SourceTypes
<1>5. pads' \in [has : [Pads -> SUBSET {"stick", "hat", "button"}],
                 plugged : SUBSET Pads, opened : SUBSET Pads,
                 stick : [Pads -> Sticks], hat : [Pads -> Hats], button : [Pads -> BOOLEAN]]
  BY <1>1, <1>4 DEF PadTypes
<1>6. state \in {"KeyDown", "KeyUp", "KeyPressed"} /\ "KEY_BUTTON_0" \in AnyKey
  BY KeysAre
<1>7. ~pads.button[p] => SourceOwes'
  BY <1>1, <1>2, <1>4 DEF SourceOwes, PadTypes
<1>8. pads.button[p] => state = "KeyUp"
  OBVIOUS
<1> HIDE DEF state
<1>9. /\ Event(p, "KEY_BUTTON_0", state) \in Events
      /\ Event(p, "KEY_BUTTON_0", state).state = state
      /\ posted' = Append(posted, Event(p, "KEY_BUTTON_0", state))
      /\ posted' \in Seq(Events) /\ Len(posted') <= MaxQueue
  BY <1>2, <1>6, PostedType
<1>10. SourceTypes'
  BY <1>3, <1>5, <1>9 DEF SourceTypes
<1> QED BY <1>3, <1>7, <1>8, <1>9, <1>10 DEF SourceKept, Tells

LEMMA DeviceKeeps ==
  ASSUME SourceTypes, NEW p \in Pads, SdlDevice(p)
  PROVE  SourceKept
<1> DEFINE there == IF p \in pads.plugged THEN pads.plugged \ {p} ELSE pads.plugged \cup {p}
<1>1. PadTypes
  BY PadsAre
<1>2. /\ pads' = [pads EXCEPT !.plugged = there, !.opened = there, !.stick[p] = "CENTER",
                              !.hat[p] = "CENTERED", !.button[p] = FALSE]
      /\ axis' = IF there = {} THEN axis ELSE ""
      /\ lost' = (lost \/ axis # "" \/ (p \in pads.plugged /\ PadHeld(p)))
  BY DEF SdlDevice
<1>3. UNCHANGED <<inputs, lastHat, cec, upDown, posted>>
  BY DEF SdlDevice, cecVars
<1>4. there \subseteq Pads
  BY <1>1 DEF PadTypes
<1> HIDE DEF there
<1>5. /\ pads'.plugged = there /\ pads'.opened = there /\ pads'.has = pads.has
      /\ pads'.stick = [pads.stick EXCEPT ![p] = "CENTER"]
      /\ pads'.hat = [pads.hat EXCEPT ![p] = "CENTERED"]
      /\ pads'.button = [pads.button EXCEPT ![p] = FALSE]
      /\ pads' = [has |-> pads'.has, plugged |-> pads'.plugged, opened |-> pads'.opened,
                  stick |-> pads'.stick, hat |-> pads'.hat, button |-> pads'.button]
  BY <1>2 DEF SourceTypes
<1>6. pads' \in [has : [Pads -> SUBSET {"stick", "hat", "button"}],
                 plugged : SUBSET Pads, opened : SUBSET Pads,
                 stick : [Pads -> Sticks], hat : [Pads -> Hats], button : [Pads -> BOOLEAN]]
  <2>1. "CENTER" \in Sticks /\ "CENTERED" \in Hats
    BY DEF Sticks, Hats
  <2>2. /\ pads'.stick \in [Pads -> Sticks] /\ pads'.hat \in [Pads -> Hats]
        /\ pads'.button \in [Pads -> BOOLEAN]
    BY <1>1, <1>5, <2>1 DEF PadTypes
  <2> QED BY <1>1, <1>4, <1>5, <2>2 DEF PadTypes
<1>7. axis' \in {"", "UP", "DOWN"} /\ lost' \in BOOLEAN
  BY <1>2 DEF SourceTypes
<1>8. SourceTypes'
  BY <1>3, <1>6, <1>7 DEF SourceTypes
<1>9. ASSUME SourceOwes, ~lost'
      PROVE  SourceOwes'
  <2>1. axis = "" /\ ~(p \in pads.plugged /\ PadHeld(p))
    BY <1>2, <1>9
  <2>2. ASSUME NEW q \in pads.plugged, pads.hat[q] # "CENTERED" \/ pads.button[q]
        PROVE  SourceOwes'
    <3>1. q # p /\ q \in there /\ q \in Pads
      BY <1>1, <2>1, <2>2 DEF PadHeld, there, PadTypes
    <3>2. pads'.hat[q] = pads.hat[q] /\ pads'.button[q] = pads.button[q]
      BY <1>1, <1>5, <3>1 DEF PadTypes
    <3> QED BY <1>5, <2>2, <3>1, <3>2 DEF SourceOwes
  <2>3. cec.held # NoCode /\ upDown => SourceOwes'
    BY <1>3 DEF SourceOwes
  <2> QED BY <1>9, <2>1, <2>2, <2>3 DEF SourceOwes
<1>10. lost => lost'
  BY <1>2
<1> QED BY <1>3, <1>8, <1>9, <1>10 DEF SourceKept, Tells

LEMMA AdapterKeeps ==
  ASSUME SourceTypes, CheckAdapter \/ OpenAdapter \/ AttachAdapter \/ CecAlert
  PROVE  SourceKept
<1> DEFINE C == [attached : BOOLEAN, open : BOOLEAN, port : BOOLEAN, opening : BOOLEAN,
                 alert : BOOLEAN, held : CecKeys \cup {NoCode}, failed : BOOLEAN]
           Owed == \/ axis # "" /\ \E p \in pads.plugged : pads.stick[p] # "CENTER"
                   \/ \E p \in pads.plugged : pads.hat[p] # "CENTERED" \/ pads.button[p]
<1>1. UNCHANGED <<inputs, pads, axis, lastHat, upDown, posted>>
  BY DEF CheckAdapter, OpenAdapter, AttachAdapter, CecAlert, padVars
<1>2. cec \in C
  BY DEF SourceTypes
<1>3. cec' \in C /\ (cec'.opening => cec'.attached \/ ~cec'.open)
  <2>1. CASE CheckAdapter
    BY <1>2, <2>1 DEF CheckAdapter
  <2>2. CASE OpenAdapter
    BY <1>2, <2>2 DEF OpenAdapter
  <2>3. CASE AttachAdapter
    BY <1>2, <2>3 DEF AttachAdapter
  <2>4. CASE CecAlert
    BY <1>2, <2>4 DEF CecAlert, SourceTypes
  <2> QED BY <2>1, <2>2, <2>3, <2>4
<1>4. /\ lost' \in BOOLEAN /\ (lost => lost')
      /\ cec.held # NoCode /\ upDown => lost' \/ cec'.held = cec.held
  <2>1. CASE CheckAdapter
    BY <1>2, <2>1 DEF CheckAdapter, SourceTypes
  <2>2. CASE OpenAdapter
    BY <1>2, <2>2 DEF OpenAdapter, SourceTypes
  <2>3. CASE AttachAdapter
    BY <1>2, <2>3 DEF AttachAdapter, SourceTypes
  <2>4. CASE CecAlert
    BY <1>2, <2>4 DEF CecAlert, SourceTypes
  <2> QED BY <2>1, <2>2, <2>3, <2>4
<1> HIDE DEF C
<1>5. SourceTypes'
  BY <1>1, <1>3, <1>4 DEF SourceTypes, C
<1>6. SourceOwes => SourceOwes' \/ lost'
  BY <1>1, <1>4 DEF SourceOwes
<1> QED BY <1>1, <1>4, <1>5, <1>6 DEF SourceKept, Tells

LEMMA CecKeyKeeps ==
  ASSUME SourceTypes, NEW code \in CecKeys, CecPressed(code) \/ CecReleased(code)
  PROVE  SourceKept
<1> DEFINE C == [attached : BOOLEAN, open : BOOLEAN, port : BOOLEAN, opening : BOOLEAN,
                 alert : BOOLEAN, held : CecKeys \cup {NoCode}, failed : BOOLEAN]
<1>1. UNCHANGED <<inputs, pads, axis, lastHat, upDown>>
  BY DEF CecPressed, CecReleased, padVars
<1>2. cec \in C /\ Room
  BY DEF SourceTypes, CecPressed, CecReleased
<1>3. cec' \in C /\ (cec'.opening => cec'.attached \/ ~cec'.open)
  BY <1>2 DEF CecPressed, CecReleased, SourceTypes
<1>4. lost' \in BOOLEAN /\ (lost => lost')
  BY DEF CecPressed, CecReleased, SourceTypes
<1>5. ASSUME posted' \in Seq(Events), Len(posted') <= MaxQueue
      PROVE  SourceTypes'
  <2> HIDE DEF C
  <2> QED BY <1>1, <1>3, <1>4, <1>5 DEF SourceTypes, C
<1>6. CASE CecPressed(code)
  <2> DEFINE key == IF code = Return THEN "KEY_BACK" ELSE CecMap[code]
             state == IF upDown THEN "KeyDown" ELSE "KeyPressed"
  <2>1. cec.held = NoCode /\ cec'.held = code /\ code # NoCode /\ lost' = lost
    BY <1>2, <1>6, SourcesAssumption DEF CecPressed
  <2>2. SourceOwes => SourceOwes'
    BY <1>1, <2>1 DEF SourceOwes
  <2>3. upDown => SourceOwes'
    BY <1>1, <2>1 DEF SourceOwes
  <2>4. CASE code = Return \/ code \in DOMAIN CecMap
    <3>1. Post("CEC", key, state)
      BY <1>6, <2>4 DEF CecPressed
    <3>2. key \in AnyKey /\ state \in {"KeyDown", "KeyUp", "KeyPressed"}
      BY <2>4, KeysAre
    <3>3. ~upDown => state = "KeyPressed"
      OBVIOUS
    <3> HIDE DEF key, state
    <3>4. /\ Event("CEC", key, state) \in Events /\ Event("CEC", key, state).state = state
          /\ posted' = Append(posted, Event("CEC", key, state))
          /\ posted' \in Seq(Events) /\ Len(posted') <= MaxQueue
      BY <1>2, <3>1, <3>2, PostedType
    <3> QED BY <1>4, <1>5, <2>2, <2>3, <3>3, <3>4 DEF SourceKept, Tells
  <2>5. CASE ~(code = Return \/ code \in DOMAIN CecMap)
    <3>1. posted' = posted
      BY <1>6, <2>5 DEF CecPressed
    <3>2. SourceTypes'
      BY <1>5, <3>1 DEF SourceTypes
    <3> QED BY <1>4, <2>2, <3>1, <3>2 DEF SourceKept, Tells
  <2> QED BY <2>4, <2>5
<1>7. CASE CecReleased(code)
  <2>1. lost' = (lost \/ (upDown /\ code \notin DOMAIN CecMap))
    BY <1>7 DEF CecReleased
  <2>2. CASE upDown /\ code \in DOMAIN CecMap
    <3>1. Post("CEC", CecMap[code], "KeyUp")
      BY <1>7, <2>2 DEF CecReleased
    <3>2. CecMap[code] \in AnyKey
      BY <2>2, KeysAre
    <3>3. /\ Event("CEC", CecMap[code], "KeyUp") \in Events
          /\ Event("CEC", CecMap[code], "KeyUp").state = "KeyUp"
          /\ posted' = Append(posted, Event("CEC", CecMap[code], "KeyUp"))
          /\ posted' \in Seq(Events) /\ Len(posted') <= MaxQueue
      BY <1>2, <3>1, <3>2, PostedType
    <3> QED BY <1>4, <1>5, <3>3 DEF SourceKept, Tells
  <2>3. CASE ~(upDown /\ code \in DOMAIN CecMap)
    <3>1. posted' = posted
      BY <1>7, <2>3 DEF CecReleased
    <3>2. SourceTypes'
      BY <1>5, <3>1 DEF SourceTypes
    <3>3. SourceOwes => SourceOwes' \/ lost'
      BY <1>1, <2>1, <2>3 DEF SourceOwes
    <3> QED BY <1>4, <3>1, <3>2, <3>3 DEF SourceKept, Tells
  <2> QED BY <2>2, <2>3
<1> QED BY <1>6, <1>7

LEMMA DeckKeeps ==
  ASSUME SourceTypes, CecDeck
  PROVE  SourceKept
<1>1. PICK key \in DeckKeys : Post("CEC", key, "KeyPressed")
  BY DEF CecDeck
<1>2. key \in AnyKey
  BY SourcesAssumption, KeysAre
<1>3. /\ Event("CEC", key, "KeyPressed") \in Events
      /\ Event("CEC", key, "KeyPressed").state = "KeyPressed"
      /\ posted' = Append(posted, Event("CEC", key, "KeyPressed"))
      /\ posted' \in Seq(Events) /\ Len(posted') <= MaxQueue
  BY <1>1, <1>2, PostedType DEF CecDeck
<1>4. UNCHANGED <<inputs, pads, axis, lastHat, cec, upDown, lost>>
  BY DEF CecDeck, padVars, cecVars
<1>5. SourceTypes'
  BY <1>3, <1>4 DEF SourceTypes
<1>6. SourceOwes => SourceOwes'
  BY <1>4 DEF SourceOwes
<1> QED BY <1>3, <1>4, <1>5, <1>6 DEF SourceKept, Tells

LEMMA SourcesKeep == SourceTypes /\ SourceStep => SourceKept
BY AxisKeeps, HatKeeps, ButtonKeeps, DeviceKeeps, AdapterKeeps, CecKeyKeeps, DeckKeeps
   DEF SourceStep

-----------------------------------------------------------------------------
(* A key goes up.                                                          *)

LEMMA CursorFacts ==
  ASSUME NEW m \in ModeRecords, NEW visible \in BOOLEAN
  PROVE  /\ SetCursor(m, visible) \in ModeRecords
         /\ SetCursor(m, visible).switching = m.switching
         /\ SetCursor(m, visible).setting = m.setting
         /\ SetCursor(m, visible).desktop = m.desktop
         /\ Follows(m) => Follows(SetCursor(m, visible))
<1> DEFINE n == SetCursor(m, visible)
<1>1. n = [m EXCEPT !.cursor = visible \/ m.setting = "desktop"]
  BY DEF SetCursor
<1>2. /\ n \in ModeRecords
      /\ n.switching = m.switching /\ n.setting = m.setting /\ n.desktop = m.desktop
      /\ n.layout = m.layout /\ n.cursor = (visible \/ m.setting = "desktop")
  BY <1>1 DEF ModeRecords
<1>3. Follows(m) => Follows(n)
  <2> HIDE DEF n
  <2> QED BY <1>2 DEF Follows
<1> QED BY <1>2, <1>3

LEMMA MapsUntouched == MapInv /\ UNCHANGED mapVars => MapInv'
<1> SUFFICES ASSUME MapInv, UNCHANGED mapVars
             PROVE  MapInv'
  OBVIOUS
<1>1. UNCHANGED <<files, maps, cache, noticed, unseen>>
  BY DEF mapVars
<1>2. MapTypes'
  BY <1>1 DEF MapInv, MapTypes, AreMaps, Named
<1>3. MapsFollowFiles'
  BY <1>1 DEF MapInv, MapsFollowFiles
<1> QED BY <1>2, <1>3 DEF MapInv

LEMMA EmitType ==
  ASSUME KeyTypes, NEW by, NEW S, NEW actions \in Seq(S), Emit(by, actions)
  PROVE  offers' \in 0 .. MaxOffers
<1>1. Switches(actions) \in Nat
  BY SwitchesType
<1>2. MaxOffers \in Nat
  BY InputAssumption
<1> QED BY <1>1, <1>2 DEF Emit, KeyTypes

LEMMA RepeatCancelled ==
  ASSUME NEW r \in RepeatRecords
  PROVE  CancelAutoRepeat(r) \in RepeatRecords /\ ~CancelAutoRepeat(r).on
<1>1. <<>> \in Seq(AnyKey)
  OBVIOUS
<1> DEFINE S == Seq(AnyKey)
<1>2. r \in [on : BOOLEAN, fast : BOOLEAN, actions : S] /\ <<>> \in S
  BY <1>1 DEF RepeatRecords
<1> HIDE DEF S
<1>3. [r EXCEPT !.on = FALSE, !.actions = <<>>] \in [on : BOOLEAN, fast : BOOLEAN, actions : S]
  BY <1>2
<1>4. [r EXCEPT !.on = FALSE, !.actions = <<>>].on = FALSE
  BY <1>2
<1> QED BY <1>3, <1>4 DEF RepeatRecords, CancelAutoRepeat, S

LEMMA KeyUpKeeps ==
  ASSUME KeyInv, NEW e, KeyUp(e)
  PROVE  KeyInv' /\ HoldAnswered /\ ~repeat'.on
<1> DEFINE k == <<e.source, e.key>>
<1>1. MapInv'
  BY MapsUntouched DEF KeyInv, KeyUp
<1>2. repeat' \in RepeatRecords /\ ~repeat'.on
  BY RepeatCancelled DEF KeyInv, KeyTypes, KeyUp
<1>3. mode' = SetCursor(mode, FALSE) /\ overtaken' = overtaken
  BY DEF KeyUp
<1>4. mode' \in ModeRecords /\ ModeInv'
  <2>1. mode \in ModeRecords /\ FALSE \in BOOLEAN
    BY DEF KeyInv, KeyTypes
  <2>2. mode' \in ModeRecords /\ (Follows(mode) => Follows(mode'))
    BY <1>3, <2>1, CursorFacts
  <2>3. Follows(mode)' = Follows(mode')
    BY DEF Follows
  <2> QED BY <1>3, <2>2, <2>3 DEF KeyInv, ModeInv
<1>5. offers' \in 0 .. MaxOffers
  <2>1. CASE hold.map = NoLong
    BY <2>1 DEF KeyUp, KeyInv, KeyTypes
  <2>2. CASE hold.map # NoLong
    <3> DEFINE x == IF hold.long THEN hold.map.long ELSE hold.map.short
    <3>1. Emit("hold", <<x>>)
      BY <2>2 DEF KeyUp
    <3> HIDE DEF x
    <3>2. <<x>> \in Seq({x})
      OBVIOUS
    <3> QED BY <3>1, <3>2, EmitType DEF KeyInv
  <2> QED BY <2>1, <2>2
<1>6. hold' = NoHold /\ down' = down \ {k}
  BY DEF KeyUp
<1>7. /\ press' = [press EXCEPT !.tidy = press.tidy /\ k \in down]
      /\ press'.tidy = (press.tidy /\ k \in down) /\ DOMAIN press' = {"tidy", "asked", "long"}
  BY DEF KeyUp, KeyInv, HoldInv
<1>8. ASSUME press.tidy, k \in down
      PROVE  HeldAlone(k) /\ down' = {}
  <2>1. PICK j \in down : HeldAlone(j)
    BY <1>8 DEF KeyInv, HoldInv
  <2>2. j = k
    BY <1>8, <2>1 DEF HeldAlone
  <2> QED BY <1>6, <2>1, <2>2 DEF HeldAlone
<1>9. HoldInv'
  <2>1. DOMAIN hold' = {"map", "long"} /\ hold'.long = FALSE
    BY <1>6 DEF NoHold
  <2>2. press'.tidy \in BOOLEAN
    BY <1>7 DEF KeyInv, HoldInv
  <2>3. ~(press'.tidy /\ down' # {})
    BY <1>7, <1>8
  <2> QED BY <1>7, <2>1, <2>2, <2>3 DEF HoldInv
<1>10. HoldAnswered
  <2> SUFFICES ASSUME press.tidy, press'.tidy
               PROVE  IF press.asked = NoLong THEN sent'.by # "hold"
                      ELSE sent' = [by |-> "hold",
                                    actions |-> <<IF press.long THEN press.asked.long
                                                                ELSE press.asked.short>>]
    BY DEF HoldAnswered
  <2>1. hold.map = press.asked /\ hold.long = press.long
    BY <1>7, <1>8 DEF HeldAlone
  <2>2. CASE hold.map = NoLong
    <3>1. sent' = Silent
      BY <2>2 DEF KeyUp
    <3> QED BY <2>1, <2>2, <3>1 DEF Silent
  <2>3. CASE hold.map # NoLong
    <3>1. Emit("hold", <<IF hold.long THEN hold.map.long ELSE hold.map.short>>)
      BY <2>3 DEF KeyUp
    <3> QED BY <2>1, <2>3, <3>1 DEF Emit
  <2> QED BY <2>2, <2>3
<1>11. overtaken' \in BOOLEAN
  BY <1>3 DEF KeyInv, KeyTypes
<1> QED BY <1>1, <1>2, <1>4, <1>5, <1>9, <1>10, <1>11 DEF KeyInv, KeyTypes

-----------------------------------------------------------------------------
(* A key goes down.                                                        *)

LEMMA ModeSetKeeps ==
  ASSUME KeyTypes, ModeInv, NEW r \in RepeatRecords, NEW m \in ModeRecords, ModeSet(r, m),
         Len(m.switching) >= Len(mode.switching),
         Follows(mode) /\ ~(m.setting # mode.setting /\ mode.switching # <<>>) => Follows(m)
  PROVE  /\ repeat' \in RepeatRecords /\ (repeat'.on => r.on)
         /\ mode' \in ModeRecords /\ overtaken' \in BOOLEAN /\ ModeInv'
<1>1. mode' = m /\ repeat' = IF m.setting # mode.setting THEN CancelAutoRepeat(r) ELSE r
  BY DEF ModeSet
<1>2. repeat' \in RepeatRecords /\ (repeat'.on => r.on)
  BY <1>1, RepeatCancelled
<1>3. Len(m.switching) \in Nat /\ Len(mode.switching) \in Nat
  BY DEF KeyTypes, ModeRecords
<1>4. overtaken' = ((m.setting # mode.setting /\ mode.switching # <<>>) \/ overtaken)
  <2>1. overtaken' = (\/ m.setting # mode.setting /\ mode.switching # <<>>
                      \/ overtaken /\ ~(/\ Len(m.switching) < Len(mode.switching)
                                        /\ m.switching = <<>>
                                        /\ m.desktop = (m.setting = "desktop")))
    BY Zenon DEF ModeSet
  <2>2. ~(Len(m.switching) < Len(mode.switching))
    BY <1>3
  <2> QED BY <2>1, <2>2
<1>5. overtaken' \in BOOLEAN
  BY <1>4 DEF KeyTypes
<1>6. ASSUME ~overtaken'
      PROVE  Follows(mode)'
  <2>1. Follows(m)
    BY <1>4, <1>6 DEF ModeInv
  <2>2. Follows(mode)' = Follows(mode')
    BY DEF Follows
  <2> QED BY <1>1, <2>1, <2>2
<1> QED BY <1>1, <1>2, <1>5, <1>6 DEF ModeInv

LEMMA MapsAfterKey ==
  ASSUME MapInv, NEW source, CacheMatch(source), UNCHANGED <<files, maps, noticed, unseen>>
  PROVE  MapInv'
<1>1. CacheIsTrue' /\ DOMAIN cache' \subseteq Sources
  <2>1. AreMaps(maps) /\ CacheIsTrue /\ DOMAIN cache \subseteq Sources /\ maps' = maps
    BY DEF MapInv, MapTypes, MapsFollowFiles, CacheIsTrue
  <2> QED BY <2>1, CacheStaysTrue
<1>2. MapTypes'
  BY <1>1 DEF MapInv, MapTypes, AreMaps, Named
<1>3. MapsFollowFiles'
  BY <1>1 DEF MapInv, MapsFollowFiles, CacheIsTrue
<1> QED BY <1>2, <1>3 DEF MapInv

LEMMA KeyDownKeeps ==
  ASSUME KeyInv, NEW e, e.key \in AnyKey, KeyDown(e)
  PROVE  /\ KeyInv' /\ HoldAnswered
         /\ repeat'.on => repeat.on \/ e.state # "KeyPressed"
         /\ down' = IF e.state = "KeyDown" THEN down \cup {<<e.source, e.key>>} ELSE down
<1> DEFINE k == <<e.source, e.key>>
           entries == MapToAction(e.source, e.key)
           long == LongOf(entries)
           plain == Repeated(entries)
           starts == plain # <<>> /\ e.state # "KeyPressed"
           started == [on |-> repeat.on \/ starts, fast |-> repeat.fast /\ ~starts,
                       actions |-> plain]
           shown == SetCursor(mode, FALSE)
<1>1. MapInv /\ KeyTypes /\ ModeInv /\ HoldInv
  BY DEF KeyInv
<1>2. entries = Meant(e.source, e.key)
  <2>1. CacheIsTrue
    BY <1>1 DEF MapInv, MapsFollowFiles, CacheIsTrue
  <2> QED BY <2>1, CachedIsMeant
<1>3. Queued(entries) \in Seq(AnyKey) /\ plain \in Seq(AnyKey)
  <2>1. AreMaps(maps)
    BY <1>1 DEF MapInv, MapTypes
  <2> QED BY <1>2, <2>1, MeantActions
<1>4. /\ CacheMatch(e.source)
      /\ hold' = IF hold.map = NoLong /\ long # NoLong THEN [map |-> long, long |-> FALSE]
                                                       ELSE hold
      /\ IF Queued(entries) = <<>> \/ client
           THEN /\ IF Queued(entries) = <<>> THEN sent' = Silent /\ UNCHANGED offers
                                             ELSE Emit("press", Queued(entries))
                /\ ModeSet(started, shown)
           ELSE /\ sent' = Silent /\ UNCHANGED offers
                /\ ModeSet(started, ExecuteActions(shown, Queued(entries)))
      /\ Noted(e, long)
      /\ UNCHANGED <<files, maps, noticed, unseen>>
  BY DEF KeyDown
<1> HIDE DEF entries
<1>5. MapInv'
  BY <1>1, <1>4, MapsAfterKey
<1>6. started \in RepeatRecords /\ (started.on => repeat.on \/ e.state # "KeyPressed")
  <2>1. repeat.on \in BOOLEAN /\ repeat.fast \in BOOLEAN
    BY <1>1 DEF KeyTypes, RepeatRecords
  <2> HIDE DEF plain
  <2> QED BY <1>3, <2>1 DEF RepeatRecords
<1> HIDE DEF started, long
<1>7. /\ shown \in ModeRecords /\ shown.switching = mode.switching
      /\ shown.setting = mode.setting /\ (Follows(mode) => Follows(shown))
  <2>1. mode \in ModeRecords /\ FALSE \in BOOLEAN
    BY <1>1 DEF KeyTypes
  <2> QED BY <2>1, CursorFacts
<1>8. Len(mode.switching) \in Nat
  BY <1>1 DEF KeyTypes, ModeRecords
<1> HIDE DEF shown
<1>9. PICK m \in ModeRecords : /\ ModeSet(started, m)
                               /\ Len(m.switching) >= Len(mode.switching)
                               /\ Follows(mode) => Follows(m)
  <2>1. CASE Queued(entries) = <<>> \/ client
    <3>1. ModeSet(started, shown)
      BY <1>4, <2>1
    <3> QED BY <1>7, <1>8, <3>1
  <2>2. CASE ~(Queued(entries) = <<>> \/ client)
    <3> DEFINE m == ExecuteActions(shown, Queued(entries))
    <3>1. ModeSet(started, m)
      BY <1>4, <2>2
    <3>2. /\ m \in ModeRecords /\ Len(m.switching) >= Len(shown.switching)
          /\ Follows(shown) => Follows(m)
      BY <1>3, <1>7, ExecuteFollows
    <3> HIDE DEF m
    <3> QED BY <1>7, <3>1, <3>2
  <2> QED BY <2>1, <2>2
<1>10. /\ repeat' \in RepeatRecords /\ (repeat'.on => started.on)
       /\ mode' \in ModeRecords /\ overtaken' \in BOOLEAN /\ ModeInv'
  BY <1>1, <1>6, <1>9, ModeSetKeeps
<1>11. offers' \in 0 .. MaxOffers
  <2>1. CASE Queued(entries) = <<>> \/ ~client
    BY <1>1, <1>4, <2>1 DEF KeyTypes
  <2>2. CASE ~(Queued(entries) = <<>> \/ ~client)
    <3>1. Emit("press", Queued(entries))
      BY <1>4, <2>2
    <3> QED BY <1>1, <1>3, <3>1, EmitType
  <2> QED BY <2>1, <2>2
<1>12. /\ down' = IF e.state = "KeyDown" THEN down \cup {k} ELSE down
       /\ press' = IF e.state = "KeyPressed" THEN [press EXCEPT !.tidy = FALSE]
                   ELSE IF k \in down THEN press
                   ELSE [tidy |-> down = {} /\ hold.map = NoLong, asked |-> long, long |-> FALSE]
  BY <1>4 DEF Noted
<1>13. /\ DOMAIN hold' = {"map", "long"} /\ hold'.long \in BOOLEAN
       /\ hold'.long => hold'.map # NoLong
  BY <1>1, <1>4 DEF HoldInv
<1>14. DOMAIN press' = {"tidy", "asked", "long"} /\ press'.tidy \in BOOLEAN
  BY <1>1, <1>12 DEF HoldInv
<1>15. ASSUME press'.tidy, down' # {}
       PROVE  \E j \in down' : HeldAlone(j)'
  <2>1. e.state # "KeyPressed"
    BY <1>1, <1>12, <1>15 DEF HoldInv
  <2>2. \A j : Meant(j[1], j[2])' = Meant(j[1], j[2])
    BY <1>4 DEF Meant, Match, Entries
  <2>3. CASE k \in down
    <3>1. press' = press /\ press.tidy
      BY <1>12, <1>15, <2>1, <2>3
    <3>2. PICK j \in down : HeldAlone(j)
      BY <1>1, <2>3, <3>1 DEF HoldInv
    <3>3. j = k /\ down = {k}
      BY <2>3, <3>2 DEF HeldAlone
    <3>4. press.asked = long
      BY <1>2, <3>2, <3>3 DEF HeldAlone, long
    <3>5. hold' = hold
      BY <1>4, <3>2, <3>4 DEF HeldAlone
    <3>6. down' = {k}
      BY <1>12, <3>3
    <3>7. HeldAlone(k)'
      BY <2>2, <3>1, <3>2, <3>3, <3>5, <3>6 DEF HeldAlone
    <3> QED BY <3>6, <3>7
  <2>4. CASE k \notin down
    <3>1. press' = [tidy |-> down = {} /\ hold.map = NoLong, asked |-> long, long |-> FALSE]
      BY <1>12, <2>1, <2>4
    <3>2. down = {} /\ hold.map = NoLong /\ press'.asked = long /\ press'.long = FALSE
      BY <1>15, <3>1
    <3>3. down' = {k}
      BY <1>12, <1>15, <3>2
    <3>4. hold.long = FALSE
      BY <1>1, <3>2 DEF HoldInv
    <3>5. hold'.map = long /\ hold'.long = FALSE
      BY <1>4, <3>2, <3>4
    <3>6. press'.asked = LongOf(Meant(k[1], k[2]))
      BY <1>2, <3>2 DEF long
    <3>7. HeldAlone(k)'
      BY <2>2, <3>2, <3>3, <3>5, <3>6 DEF HeldAlone
    <3> QED BY <3>3, <3>7
  <2> QED BY <2>3, <2>4
<1>16. HoldInv'
  BY <1>13, <1>14, <1>15 DEF HoldInv
<1>17. HoldAnswered
  <2>1. down # {} => down' # {}
    BY <1>12
  <2> QED BY <2>1 DEF HoldAnswered
<1>18. KeyInv'
  BY <1>5, <1>10, <1>11, <1>16 DEF KeyInv, KeyTypes
<1> QED BY <1>6, <1>10, <1>12, <1>17, <1>18

-----------------------------------------------------------------------------
(* Steps that are about the keys of the main thread.                       *)

LEMMA RemapKeeps ==
  ASSUME KeyInv, NEW e, e.key \in AnyKey, RemapInput(e)
  PROVE  /\ KeyInv' /\ HoldAnswered
         /\ e.state = "KeyUp" => ~repeat'.on
         /\ e.state = "KeyDown" => down' = down \cup {<<e.source, e.key>>}
         /\ e.state = "KeyPressed" => down' = down /\ (repeat'.on => repeat.on)
<1>1. CASE e.state = "KeyUp"
  BY <1>1, KeyUpKeeps DEF RemapInput
<1>2. CASE e.state # "KeyUp"
  <2>1. KeyDown(e)
    BY <1>2 DEF RemapInput
  <2> QED BY <1>2, <2>1, KeyDownKeeps
<1> QED BY <1>1, <1>2

LEMMA KeysUntouched ==
  ASSUME KeyInv, UNCHANGED <<mapVars, hold, down, press>>, KeyTypes', ModeInv'
  PROVE  KeyInv' /\ HoldAnswered
<1>1. MapInv'
  BY MapsUntouched DEF KeyInv
<1>2. UNCHANGED <<maps, hold, down, press>>
  BY DEF mapVars
<1>3. HoldInv'
  <2>1. \A j : Meant(j[1], j[2])' = Meant(j[1], j[2])
    BY <1>2 DEF Meant, Match, Entries
  <2>2. ASSUME NEW j, HeldAlone(j)
        PROVE  HeldAlone(j)'
    <3>1. Meant(j[1], j[2])' = Meant(j[1], j[2])
      BY <2>1
    <3> QED BY <1>2, <2>2, <3>1 DEF HeldAlone
  <2> QED BY <1>2, <2>2 DEF KeyInv, HoldInv
<1>4. HoldAnswered
  BY <1>2 DEF HoldAnswered
<1> QED BY <1>1, <1>3, <1>4 DEF KeyInv

LEMMA NothingKeeps ==
  ASSUME KeyInv, UNCHANGED <<mapVars, repeat, hold, offers, mode, down, press, overtaken>>
  PROVE  KeyInv' /\ HoldAnswered
<1>1. KeyTypes'
  BY DEF KeyInv, KeyTypes
<1>2. ModeInv'
  BY DEF KeyInv, ModeInv, Follows
<1> QED BY <1>1, <1>2, KeysUntouched

LEMMA CursorKeeps ==
  ASSUME KeyInv, NEW visible \in BOOLEAN, mode' = SetCursor(mode, visible),
         UNCHANGED <<mapVars, repeat, hold, offers, down, press, overtaken>>
  PROVE  KeyInv' /\ HoldAnswered
<1>1. mode' \in ModeRecords /\ (Follows(mode) => Follows(mode'))
  BY CursorFacts DEF KeyInv, KeyTypes
<1>2. Follows(mode)' = Follows(mode')
  BY DEF Follows
<1>3. KeyTypes'
  BY <1>1 DEF KeyInv, KeyTypes
<1>4. ModeInv'
  BY <1>1, <1>2 DEF KeyInv, ModeInv
<1> QED BY <1>3, <1>4, KeysUntouched

(* The promise of a release when nothing happens in the workers.            *)
LEMMA HolderRepeat ==
  ASSUME RepeatEnds, UNCHANGED <<pads, axis, cec, upDown, posted>>,
         ~lost' => ~lost \/ (~repeat'.on /\ NoDownPosted),
         repeat'.on /\ ~lost' => HolderOwes' \/ (repeat.on /\ (HolderOwes => HolderOwes'))
  PROVE  RepeatEnds'
<1>1. SourceOwes' = SourceOwes /\ ReleasePosted' = ReleasePosted
  BY DEF SourceOwes, ReleasePosted
<1>2. CASE lost'
  BY <1>2 DEF RepeatEnds
<1>3. CASE ~lost' /\ ~repeat'.on /\ NoDownPosted
  BY <1>3 DEF RepeatEnds, NoDownPosted
<1>4. CASE ~lost' /\ ~lost
  <2>1. repeat'.on => (SourceOwes \/ HolderOwes \/ ReleasePosted)'
    BY <1>1, <1>4 DEF RepeatEnds
  <2>2. \A i \in DOMAIN posted' :
          posted'[i].state = "KeyDown" =>
            SourceOwes' \/ \E j \in DOMAIN posted' : j > i /\ posted'[j].state = "KeyUp"
    BY <1>1, <1>4 DEF RepeatEnds
  <2> QED BY <2>1, <2>2 DEF RepeatEnds
<1> QED BY <1>2, <1>3, <1>4

LEMMA DeliverKeeps ==
  ASSUME InputInv, Deliver
  PROVE  InputInv' /\ HoldAnswered
<1> DEFINE e == Head(posted)
<1>1. /\ posted # <<>> /\ posted' = Tail(posted) /\ RemapInput(e)
      /\ lost' = StillLost(lost)
      /\ UNCHANGED <<inputs, pads, axis, lastHat, cec, upDown>>
      /\ UNCHANGED <<setup, keyDown, held, client, missed>>
  BY DEF Deliver, padVars, cecVars
<1>2. posted \in Seq(Events) /\ Len(posted) <= MaxQueue /\ MaxQueue \in Nat
  BY SourcesAssumption DEF InputInv, SourceTypes
<1>3. /\ e = posted[1] /\ e \in Events
      /\ posted' \in Seq(Events) /\ Len(posted') = Len(posted) - 1 /\ Len(posted) \in Nat
      /\ DOMAIN posted = 1 .. Len(posted) /\ DOMAIN posted' = 1 .. Len(posted) - 1
      /\ \A i \in DOMAIN posted' : posted'[i] = posted[i + 1]
  BY <1>1, <1>2
<1>4. e.key \in AnyKey /\ e.state \in {"KeyDown", "KeyUp", "KeyPressed"}
  BY <1>3 DEF Events
<1> HIDE DEF e
<1>5. /\ KeyInv' /\ HoldAnswered
      /\ e.state = "KeyUp" => ~repeat'.on
      /\ e.state = "KeyPressed" => down' = down /\ (repeat'.on => repeat.on)
  BY <1>1, <1>4, RemapKeeps DEF InputInv
<1>6. lost' \in BOOLEAN
  BY <1>1 DEF StillLost, InputInv, SourceTypes
<1>7. SourceTypes'
  <2>1. posted' \in Seq(Events) /\ Len(posted') <= MaxQueue
    BY <1>2, <1>3
  <2>2. UNCHANGED <<inputs, pads, axis, lastHat, cec, upDown>>
    BY <1>1
  <2> QED BY <1>6, <2>1, <2>2 DEF InputInv, SourceTypes
<1>8. HolderTypes' /\ SwallowsRepeatsOnly'
  BY <1>1 DEF InputInv, HolderTypes, SwallowsRepeatsOnly
<1>9. SourceOwes' = SourceOwes
  BY <1>1 DEF SourceOwes
<1>10. RepeatEnds'
  <2>1. CASE lost'
    BY <2>1 DEF RepeatEnds
  <2>2. CASE ~lost' /\ lost
    <3>1. ~repeat'.on /\ NoDownPosted
      BY <1>1, <2>2 DEF StillLost
    <3> QED BY <3>1 DEF RepeatEnds, NoDownPosted
  <2>3. CASE ~lost' /\ ~lost
    <3>1. /\ repeat.on => SourceOwes \/ HolderOwes \/ ReleasePosted
          /\ \A i \in DOMAIN posted :
               posted[i].state = "KeyDown" =>
                 SourceOwes \/ \E j \in DOMAIN posted : j > i /\ posted[j].state = "KeyUp"
      BY <2>3 DEF InputInv, RepeatEnds
    <3>2. ASSUME NEW j \in DOMAIN posted, j > 1, posted[j].state = "KeyUp"
          PROVE  j - 1 \in DOMAIN posted' /\ posted'[j - 1].state = "KeyUp"
      <4>1. j - 1 \in DOMAIN posted' /\ (j - 1) + 1 = j
        BY <1>3, <3>2
      <4> QED BY <1>3, <3>2, <4>1
    <3>3. ASSUME NEW i \in DOMAIN posted', posted'[i].state = "KeyDown"
          PROVE  SourceOwes' \/ \E j \in DOMAIN posted' : j > i /\ posted'[j].state = "KeyUp"
      <4>1. i + 1 \in DOMAIN posted /\ posted[i + 1].state = "KeyDown"
        BY <1>3, <3>3
      <4>2. CASE SourceOwes
        BY <1>9, <4>2
      <4>3. CASE ~SourceOwes
        <5>1. PICK j \in DOMAIN posted : j > i + 1 /\ posted[j].state = "KeyUp"
          BY <3>1, <4>1, <4>3
        <5>2. j > 1 /\ j - 1 > i
          BY <1>3, <5>1
        <5> QED BY <3>2, <5>1, <5>2
      <4> QED BY <4>2, <4>3
    <3>4. ASSUME repeat'.on
          PROVE  (SourceOwes \/ HolderOwes \/ ReleasePosted)'
      <4>1. CASE e.state = "KeyDown"
        <5>1. SourceOwes \/ \E j \in DOMAIN posted : j > 1 /\ posted[j].state = "KeyUp"
          <6>1. 1 \in DOMAIN posted
            BY <1>1, <1>2, <1>3
          <6> QED BY <1>3, <3>1, <4>1, <6>1
        <5> QED BY <1>9, <3>2, <5>1 DEF ReleasePosted
      <4>2. CASE e.state = "KeyPressed"
        <5>1. SourceOwes \/ HolderOwes \/ ReleasePosted
          BY <1>5, <3>1, <3>4, <4>2
        <5>2. HolderOwes => HolderOwes'
          BY <1>1, <1>5, <4>2 DEF HolderOwes
        <5>3. ASSUME ReleasePosted
              PROVE  ReleasePosted'
          <6>1. PICK j \in DOMAIN posted : posted[j].state = "KeyUp"
            BY <5>3 DEF ReleasePosted
          <6>2. j > 1
            BY <1>3, <4>2, <6>1
          <6> QED BY <3>2, <6>1, <6>2 DEF ReleasePosted
        <5> QED BY <1>9, <5>1, <5>2, <5>3
      <4>3. CASE e.state = "KeyUp"
        BY <1>5, <3>4, <4>3
      <4> QED BY <1>4, <4>1, <4>2, <4>3
    <3> QED BY <3>3, <3>4 DEF RepeatEnds
  <2> QED BY <1>6, <2>1, <2>2, <2>3
<1> QED BY <1>5, <1>7, <1>8, <1>10 DEF InputInv

-----------------------------------------------------------------------------
(* The keyboard.                                                           *)

LEMMA QuietSources ==
  ASSUME SourceTypes, UNCHANGED <<inputs, pads, axis, lastHat, cec, upDown, posted>>,
         lost' \in BOOLEAN
  PROVE  SourceTypes'
BY DEF SourceTypes

LEMMA FilterKeeps ==
  ASSUME KeyInv, keyDown \in BOOLEAN, NEW k \in KbKeys, NEW flagged \in BOOLEAN,
         FilterPress(k, flagged)
  PROVE  /\ KeyInv' /\ HoldAnswered
         /\ repeat'.on => <<"Keyboard", k>> \in down' \/ (repeat.on /\ down' = down)
         /\ keyDown' \in BOOLEAN /\ (keyDown' => keyDown \/ k \in TextKeys)
<1> DEFINE e == Event("Keyboard", k, "KeyDown")
<1>1. /\ e.key \in AnyKey /\ e.state = "KeyDown" /\ e.source = "Keyboard" /\ e.key = k
  BY DEF Event, AnyKey
<1> HIDE DEF e
<1>2. keyDown' \in BOOLEAN /\ (keyDown' => keyDown \/ k \in TextKeys)
  <2>1. CASE mode.desktop
    BY <2>1 DEF FilterPress
  <2>2. CASE ~mode.desktop
    <3>1. keyDown' = (keyDown \/ k \in TextKeys)
      BY <2>2 DEF FilterPress
    <3> QED BY <3>1
  <2> QED BY <2>1, <2>2
<1>3. \/ RemapInput(e)
      \/ Nothing
      \/ /\ mode' = SetCursor(mode, FALSE) /\ sent' = Silent
         /\ UNCHANGED <<mapVars, repeat, hold, offers, down, press, overtaken>>
  BY DEF FilterPress, e
<1>4. CASE RemapInput(e)
  <2>1. KeyInv' /\ HoldAnswered /\ down' = down \cup {<<"Keyboard", k>>}
    BY <1>1, <1>4, RemapKeeps
  <2> QED BY <1>2, <2>1
<1>5. CASE Nothing
  <2>1. KeyInv' /\ HoldAnswered
    BY <1>5, NothingKeeps DEF Nothing
  <2> QED BY <1>2, <1>5, <2>1 DEF Nothing
<1>6. CASE /\ mode' = SetCursor(mode, FALSE) /\ sent' = Silent
           /\ UNCHANGED <<mapVars, repeat, hold, offers, down, press, overtaken>>
  <2>1. KeyInv' /\ HoldAnswered
    BY <1>6, CursorKeeps
  <2> QED BY <1>2, <1>6, <2>1
<1> QED BY <1>3, <1>4, <1>5, <1>6

LEMMA KbDownKeeps ==
  ASSUME InputInv, NEW k \in KbKeys, NEW flagged \in BOOLEAN,
         KbPress(k) \/ KbRepeat(k, flagged)
  PROVE  InputInv' /\ HoldAnswered
<1>1. /\ UNCHANGED <<inputs, pads, axis, lastHat, cec, upDown, posted, setup, client, missed>>
      /\ lost' = StillLost(lost)
      /\ \E b \in BOOLEAN : FilterPress(k, b)
  <2>1. FALSE \in BOOLEAN
    OBVIOUS
  <2> QED BY <2>1 DEF KbPress, KbRepeat, Quietly, padVars, cecVars
<1>2. held'.kb = held.kb \cup {k} /\ held'.net = held.net /\ DOMAIN held' = {"kb", "net"}
  <2>1. DOMAIN held = {"kb", "net"}
    BY DEF InputInv, HolderTypes
  <2>2. CASE KbPress(k)
    <3>1. held' = [held EXCEPT !.kb = held.kb \cup {k}]
      BY <2>2 DEF KbPress
    <3> QED BY <2>1, <3>1
  <2>3. CASE KbRepeat(k, flagged)
    <3>1. held' = held /\ k \in held.kb
      BY <2>3 DEF KbRepeat
    <3> QED BY <2>1, <3>1
  <2> QED BY <2>2, <2>3
<1>3. /\ KeyInv' /\ HoldAnswered
      /\ repeat'.on => <<"Keyboard", k>> \in down' \/ (repeat.on /\ down' = down)
      /\ keyDown' \in BOOLEAN /\ (keyDown' => keyDown \/ k \in TextKeys)
  BY <1>1, FilterKeeps DEF InputInv, HolderTypes
<1>4. lost' \in BOOLEAN
  BY <1>1 DEF StillLost, InputInv, SourceTypes
<1>5. SourceTypes'
  BY <1>1, <1>4, QuietSources DEF InputInv
<1>6. HolderTypes'
  BY <1>1, <1>2, <1>3 DEF InputInv, HolderTypes
<1>7. SwallowsRepeatsOnly'
  BY <1>1, <1>2, <1>3 DEF InputInv, SwallowsRepeatsOnly
<1>8. RepeatEnds'
  <2>1. ~lost' => ~lost \/ (~repeat'.on /\ NoDownPosted)
    BY <1>1 DEF StillLost
  <2>2. repeat'.on => HolderOwes' \/ (repeat.on /\ (HolderOwes => HolderOwes'))
    BY <1>2, <1>3 DEF HolderOwes
  <2> QED BY <1>1, <2>1, <2>2, HolderRepeat DEF InputInv
<1> QED BY <1>3, <1>5, <1>6, <1>7, <1>8 DEF InputInv

LEMMA KbReleaseKeeps ==
  ASSUME InputInv, NEW k \in KbKeys, NEW given \in BOOLEAN, KbRelease(k, given)
  PROVE  InputInv' /\ HoldAnswered
<1> DEFINE e == Event("Keyboard", k, "KeyUp")
           told == given /\ (mode.desktop => k \in WhiteListed)
<1>1. /\ UNCHANGED <<inputs, pads, axis, lastHat, cec, upDown, posted, setup, client>>
      /\ held' = [held EXCEPT !.kb = held.kb \ {k}]
      /\ IF told THEN RemapInput(e) /\ lost' = StillLost(lost)
                 ELSE Nothing /\ lost' = (lost \/ <<"Keyboard", k>> \in down)
      /\ IF given /\ ~mode.desktop
           THEN keyDown' = FALSE /\ missed' = FALSE
           ELSE missed' = (missed \/ (keyDown /\ k \in TextKeys)) /\ UNCHANGED keyDown
  BY DEF KbRelease, Quietly, padVars, cecVars
<1> HIDE DEF told
<1>2. held'.kb = held.kb \ {k} /\ held'.net = held.net /\ DOMAIN held' = {"kb", "net"}
  BY <1>1 DEF InputInv, HolderTypes
<1>3. e.key \in AnyKey /\ e.state = "KeyUp"
  BY DEF Event, AnyKey
<1> HIDE DEF e
<1>4. KeyInv' /\ HoldAnswered
  <2>1. CASE told
    BY <1>1, <1>3, <2>1, RemapKeeps DEF InputInv
  <2>2. CASE ~told
    BY <1>1, <2>2, NothingKeeps DEF InputInv, Nothing
  <2> QED BY <2>1, <2>2
<1>5. lost' \in BOOLEAN
  BY <1>1 DEF StillLost, InputInv, SourceTypes
<1>6. SourceTypes'
  BY <1>1, <1>5, QuietSources DEF InputInv
<1>7. HolderTypes'
  <2>1. keyDown' \in BOOLEAN /\ missed' \in BOOLEAN
    BY <1>1 DEF InputInv, HolderTypes
  <2> QED BY <1>1, <1>2, <2>1 DEF InputInv, HolderTypes
<1>8. SwallowsRepeatsOnly'
  <2>1. CASE given /\ ~mode.desktop
    BY <1>1, <2>1 DEF SwallowsRepeatsOnly
  <2>2. CASE ~(given /\ ~mode.desktop)
    BY <1>1, <1>2, <2>2 DEF InputInv, SwallowsRepeatsOnly
  <2> QED BY <2>1, <2>2
<1>9. RepeatEnds'
  <2>1. CASE told
    <3>1. ~repeat'.on /\ lost' = StillLost(lost)
      BY <1>1, <1>3, <2>1, RemapKeeps DEF InputInv
    <3>2. ~lost' => ~lost \/ (~repeat'.on /\ NoDownPosted)
      BY <3>1 DEF StillLost
    <3> QED BY <1>1, <3>1, <3>2, HolderRepeat DEF InputInv
  <2>2. CASE ~told
    <3>1. repeat' = repeat /\ down' = down /\ lost' = (lost \/ <<"Keyboard", k>> \in down)
      BY <1>1, <2>2 DEF Nothing
    <3>2. ~lost' => (HolderOwes => HolderOwes')
      BY <1>2, <3>1 DEF HolderOwes
    <3> QED BY <1>1, <3>1, <3>2, HolderRepeat DEF InputInv
  <2> QED BY <2>1, <2>2
<1> QED BY <1>4, <1>6, <1>7, <1>8, <1>9 DEF InputInv

LEMMA ShortcutKeeps ==
  ASSUME InputInv, NEW k \in KbKeys, KbShortcutOverride(k)
  PROVE  InputInv' /\ HoldAnswered
<1> DEFINE e == Event("Keyboard", k, "KeyUp")
<1>1. /\ UNCHANGED <<inputs, pads, axis, lastHat, cec, upDown, posted, setup, client,
                     keyDown, held, missed>>
      /\ RemapInput(e) /\ lost' = StillLost(lost)
  BY DEF KbShortcutOverride, Quietly, padVars, cecVars
<1>2. e.key \in AnyKey /\ e.state = "KeyUp"
  BY DEF Event, AnyKey
<1> HIDE DEF e
<1>3. KeyInv' /\ HoldAnswered /\ ~repeat'.on
  BY <1>1, <1>2, RemapKeeps DEF InputInv
<1>4. SourceTypes'
  <2>1. lost' \in BOOLEAN
    BY <1>1 DEF StillLost, InputInv, SourceTypes
  <2> QED BY <1>1, <2>1, QuietSources DEF InputInv
<1>5. HolderTypes' /\ SwallowsRepeatsOnly'
  BY <1>1 DEF InputInv, HolderTypes, SwallowsRepeatsOnly
<1>6. RepeatEnds'
  <2>1. ~lost' => ~lost \/ (~repeat'.on /\ NoDownPosted)
    BY <1>1 DEF StillLost
  <2> QED BY <1>1, <1>3, <2>1, HolderRepeat DEF InputInv
<1> QED BY <1>3, <1>4, <1>5, <1>6 DEF InputInv

-----------------------------------------------------------------------------
(* Remote controls of the network.                                         *)

LEMMA NetKeyKeeps ==
  ASSUME InputInv, NEW k \in NetKeys, NetDown(k) \/ NetUp(k) \/ NetPressed(k)
  PROVE  InputInv' /\ HoldAnswered
<1>1. PICK state \in {"KeyDown", "KeyUp", "KeyPressed"} :
        /\ RemapInput(Event("net", k, state))
        /\ state = "KeyDown"    => held' = [held EXCEPT !.net = held.net \cup {k}]
        /\ state = "KeyUp"      => held' = [held EXCEPT !.net = held.net \ {k}]
        /\ state = "KeyPressed" => held' = held
  BY DEF NetDown, NetUp, NetPressed
<1> DEFINE e == Event("net", k, state)
<1>2. /\ UNCHANGED <<inputs, pads, axis, lastHat, cec, upDown, posted, setup, client,
                     keyDown, missed>>
      /\ lost' = StillLost(lost)
  BY DEF NetDown, NetUp, NetPressed, Quietly, padVars, cecVars
<1>3. e.key \in AnyKey /\ e.state = state /\ e.source = "net" /\ e.key = k
  BY DEF Event, AnyKey
<1> HIDE DEF e
<1>4. /\ held'.kb = held.kb /\ DOMAIN held' = {"kb", "net"}
      /\ held'.net \subseteq NetKeys
      /\ state = "KeyDown" => held'.net = held.net \cup {k}
      /\ state = "KeyPressed" => held'.net = held.net
  BY <1>1 DEF InputInv, HolderTypes
<1>5. /\ KeyInv' /\ HoldAnswered
      /\ state = "KeyUp" => ~repeat'.on
      /\ state = "KeyDown" => down' = down \cup {<<"net", k>>}
      /\ state = "KeyPressed" => down' = down /\ (repeat'.on => repeat.on)
  <2>1. RemapInput(e)
    BY <1>1 DEF e
  <2> QED BY <1>3, <2>1, RemapKeeps DEF InputInv
<1>6. SourceTypes'
  <2>1. lost' \in BOOLEAN
    BY <1>2 DEF StillLost, InputInv, SourceTypes
  <2> QED BY <1>2, <2>1, QuietSources DEF InputInv
<1>7. HolderTypes' /\ SwallowsRepeatsOnly'
  BY <1>2, <1>4 DEF InputInv, HolderTypes, SwallowsRepeatsOnly
<1>8. RepeatEnds'
  <2>1. ~lost' => ~lost \/ (~repeat'.on /\ NoDownPosted)
    BY <1>2 DEF StillLost
  <2>2. repeat'.on => HolderOwes' \/ (repeat.on /\ (HolderOwes => HolderOwes'))
    <3>1. CASE state = "KeyDown"
      BY <1>4, <1>5, <3>1 DEF HolderOwes
    <3>2. CASE state = "KeyPressed"
      BY <1>4, <1>5, <3>2 DEF HolderOwes
    <3>3. CASE state = "KeyUp"
      BY <1>5, <3>3
    <3> QED BY <3>1, <3>2, <3>3
  <2> QED BY <1>2, <2>1, <2>2, HolderRepeat DEF InputInv
<1> QED BY <1>5, <1>6, <1>7, <1>8 DEF InputInv

LEMMA NetGoneKeeps ==
  ASSUME InputInv, NetGone
  PROVE  InputInv' /\ HoldAnswered
<1>1. /\ UNCHANGED <<inputs, pads, axis, lastHat, cec, upDown, posted, setup, client,
                     keyDown, missed, repeat, down>>
      /\ held' = [held EXCEPT !.net = {}]
      /\ lost' = (lost \/ \E k \in held.net : <<"net", k>> \in down)
  BY DEF NetGone, Nothing, Quietly, padVars, cecVars
<1>2. held'.kb = held.kb /\ held'.net = {} /\ DOMAIN held' = {"kb", "net"}
  BY <1>1 DEF InputInv, HolderTypes
<1>3. KeyInv' /\ HoldAnswered
  BY NothingKeeps DEF InputInv, NetGone, Nothing
<1>4. SourceTypes'
  <2>1. lost' \in BOOLEAN
    BY <1>1 DEF InputInv, SourceTypes
  <2> QED BY <1>1, <2>1, QuietSources DEF InputInv
<1>5. HolderTypes' /\ SwallowsRepeatsOnly'
  BY <1>1, <1>2 DEF InputInv, HolderTypes, SwallowsRepeatsOnly
<1>6. RepeatEnds'
  <2>1. ~lost' => (HolderOwes => HolderOwes')
    BY <1>1, <1>2 DEF HolderOwes
  <2> QED BY <1>1, <2>1, HolderRepeat DEF InputInv
<1> QED BY <1>3, <1>4, <1>5, <1>6 DEF InputInv

-----------------------------------------------------------------------------
(* Steps of the workers.                                                   *)

LEMMA WorkersKeep ==
  ASSUME InputInv, SourceStep, Apart
  PROVE  InputInv' /\ HoldAnswered
<1>1. SourceTypes' /\ Tells
  BY SourcesKeep DEF InputInv, SourceKept
<1>2. UNCHANGED <<mapVars, setup, repeat, hold, keyDown, held, client, offers, mode,
                  down, press, missed, overtaken>>
  BY DEF Apart
<1>3. KeyInv' /\ HoldAnswered
  BY <1>2, NothingKeeps DEF InputInv
<1>4. HolderTypes' /\ SwallowsRepeatsOnly'
  BY <1>2 DEF InputInv, HolderTypes, SwallowsRepeatsOnly
<1>5. HolderOwes' = HolderOwes
  BY <1>2 DEF HolderOwes
<1>6. posted \in Seq(Events)
  BY DEF InputInv, SourceTypes
<1>7. ASSUME ~lost'
      PROVE  /\ repeat'.on => SourceOwes' \/ HolderOwes' \/ ReleasePosted'
             /\ \A i \in DOMAIN posted' :
                  posted'[i].state = "KeyDown" =>
                    SourceOwes' \/ \E j \in DOMAIN posted' : j > i /\ posted'[j].state = "KeyUp"
  <2>1. /\ repeat.on => SourceOwes \/ HolderOwes \/ ReleasePosted
        /\ \A i \in DOMAIN posted :
             posted[i].state = "KeyDown" =>
               SourceOwes \/ \E j \in DOMAIN posted : j > i /\ posted[j].state = "KeyUp"
    BY <1>1, <1>7 DEF Tells, InputInv, RepeatEnds
  <2>2. CASE posted' = posted /\ (SourceOwes => SourceOwes' \/ lost')
    <3>1. (SourceOwes => SourceOwes') /\ ReleasePosted' = ReleasePosted
      BY <1>7, <2>2 DEF ReleasePosted
    <3> QED BY <1>2, <1>5, <2>1, <2>2, <3>1
  <2>3. ASSUME NEW e \in Events, posted' = Append(posted, e)
        PROVE  /\ DOMAIN posted = 1 .. Len(posted) /\ Len(posted) \in Nat
               /\ DOMAIN posted' = 1 .. Len(posted) + 1
               /\ \A i \in DOMAIN posted : i \in DOMAIN posted' /\ posted'[i] = posted[i]
               /\ posted'[Len(posted) + 1] = e
    BY <1>6, <2>3
  <2>4. CASE \E e \in Events : posted' = Append(posted, e) /\ e.state = "KeyUp"
    <3>1. PICK e \in Events : posted' = Append(posted, e) /\ e.state = "KeyUp"
      BY <2>4
    <3> DEFINE n == Len(posted) + 1
    <3>2. /\ n \in DOMAIN posted' /\ posted'[n].state = "KeyUp"
          /\ \A i \in DOMAIN posted' : i = n \/ n > i
      BY <2>3, <3>1
    <3> HIDE DEF n
    <3>3. ReleasePosted'
      BY <3>2 DEF ReleasePosted
    <3> QED BY <3>2, <3>3
  <2>5. CASE \E e \in Events : posted' = Append(posted, e) /\ SourceOwes'
    BY <2>5
  <2>6. CASE \E e \in Events : /\ posted' = Append(posted, e) /\ e.state = "KeyPressed"
                               /\ SourceOwes => SourceOwes'
    <3>1. PICK e \in Events : /\ posted' = Append(posted, e) /\ e.state = "KeyPressed"
                              /\ SourceOwes => SourceOwes'
      BY <2>6
    <3>2. \A i \in DOMAIN posted : i \in DOMAIN posted' /\ posted'[i] = posted[i]
      BY <2>3, <3>1
    <3>3. \A i \in DOMAIN posted' : i \in DOMAIN posted \/ posted'[i].state = "KeyPressed"
      BY <2>3, <3>1
    <3>4. ReleasePosted => ReleasePosted'
      BY <3>2 DEF ReleasePosted
    <3>5. ASSUME NEW i \in DOMAIN posted', posted'[i].state = "KeyDown", ~SourceOwes'
          PROVE  \E j \in DOMAIN posted' : j > i /\ posted'[j].state = "KeyUp"
      <4>1. i \in DOMAIN posted /\ posted[i].state = "KeyDown" /\ ~SourceOwes
        BY <3>1, <3>2, <3>3, <3>5
      <4>2. PICK j \in DOMAIN posted : j > i /\ posted[j].state = "KeyUp"
        BY <2>1, <4>1
      <4> QED BY <3>2, <4>2
    <3> QED BY <1>2, <1>5, <2>1, <3>1, <3>4, <3>5
  <2> QED BY <1>1, <2>2, <2>4, <2>5, <2>6 DEF Tells
<1>8. RepeatEnds'
  BY <1>7 DEF RepeatEnds
<1> QED BY <1>1, <1>3, <1>4, <1>8 DEF InputInv

-----------------------------------------------------------------------------
(* Timers, the mode of the window, and the web client.                     *)

LEMMA OnlyModeKeeps ==
  ASSUME InputInv, OnlyMode, KeyTypes', ModeInv', repeat'.on => repeat.on
  PROVE  InputInv' /\ HoldAnswered
<1>1. /\ UNCHANGED <<inputs, pads, axis, lastHat, cec, upDown, posted, lost>>
      /\ UNCHANGED <<setup, keyDown, held, client, missed>>
      /\ UNCHANGED <<mapVars, hold, down, press>>
  BY DEF OnlyMode, sourceVars
<1>2. KeyInv' /\ HoldAnswered
  BY <1>1, KeysUntouched DEF InputInv
<1>3. SourceTypes'
  BY <1>1, QuietSources DEF InputInv, SourceTypes
<1>4. HolderTypes' /\ SwallowsRepeatsOnly'
  BY <1>1 DEF InputInv, HolderTypes, SwallowsRepeatsOnly
<1>5. HolderOwes' = HolderOwes
  BY <1>1 DEF HolderOwes
<1>6. RepeatEnds'
  BY <1>1, <1>5, HolderRepeat DEF InputInv
<1> QED BY <1>2, <1>3, <1>4, <1>6 DEF InputInv

LEMMA AutoRepeatKeeps ==
  ASSUME InputInv, AutoRepeat
  PROVE  InputInv' /\ HoldAnswered
<1>1. KeyTypes /\ ModeInv
  BY DEF InputInv, KeyInv
<1>2. repeat' \in RepeatRecords /\ repeat'.on = repeat.on
  <2>1. repeat \in RepeatRecords /\ repeat' = [repeat EXCEPT !.fast = TRUE]
    BY <1>1 DEF KeyTypes, AutoRepeat
  <2> QED BY <2>1 DEF RepeatRecords
<1>3. offers' \in 0 .. MaxOffers
  <2>1. CASE repeat.actions # <<>>
    <3>1. Emit("repeat", repeat.actions) /\ repeat.actions \in Seq(AnyKey)
      BY <1>1, <2>1 DEF AutoRepeat, KeyTypes, RepeatRecords
    <3> QED BY <1>1, <3>1, EmitType
  <2>2. CASE repeat.actions = <<>>
    BY <1>1, <2>2 DEF AutoRepeat, KeyTypes
  <2> QED BY <2>1, <2>2
<1>4. UNCHANGED <<mode, overtaken>> /\ OnlyMode
  BY DEF AutoRepeat
<1>5. KeyTypes' /\ ModeInv'
  BY <1>1, <1>2, <1>3, <1>4 DEF KeyTypes, ModeInv, Follows
<1> QED BY <1>2, <1>4, <1>5, OnlyModeKeeps

LEMMA CancelKeeps ==
  ASSUME InputInv, CancelFromOutside
  PROVE  InputInv' /\ HoldAnswered
<1>1. /\ UNCHANGED <<inputs, pads, axis, lastHat, cec, upDown, posted>>
      /\ UNCHANGED <<setup, keyDown, held, client, missed>>
      /\ UNCHANGED <<mapVars, hold, down, press>>
      /\ UNCHANGED <<offers, mode, overtaken>>
      /\ lost' = StillLost(lost) /\ repeat' = CancelAutoRepeat(repeat)
  BY DEF CancelFromOutside, padVars, cecVars
<1>2. KeyTypes /\ ModeInv
  BY DEF InputInv, KeyInv
<1>3. repeat' \in RepeatRecords /\ ~repeat'.on
  BY <1>1, <1>2, RepeatCancelled DEF KeyTypes
<1>4. KeyTypes' /\ ModeInv'
  BY <1>1, <1>2, <1>3 DEF KeyTypes, ModeInv, Follows
<1>5. KeyInv' /\ HoldAnswered
  BY <1>1, <1>4, KeysUntouched DEF InputInv
<1>6. SourceTypes'
  <2>1. lost' \in BOOLEAN
    BY <1>1 DEF StillLost, InputInv, SourceTypes
  <2> QED BY <1>1, <2>1, QuietSources DEF InputInv
<1>7. HolderTypes' /\ SwallowsRepeatsOnly'
  BY <1>1 DEF InputInv, HolderTypes, SwallowsRepeatsOnly
<1>8. RepeatEnds'
  <2>1. ~lost' => ~lost \/ (~repeat'.on /\ NoDownPosted)
    BY <1>1 DEF StillLost
  <2> QED BY <1>1, <1>3, <2>1, HolderRepeat DEF InputInv
<1> QED BY <1>5, <1>6, <1>7, <1>8 DEF InputInv

LEMMA TimeKeeps ==
  ASSUME InputInv, TimePasses
  PROVE  InputInv' /\ HoldAnswered
<1>1. /\ UNCHANGED <<inputs, pads, axis, lastHat, cec, upDown, posted, lost>>
      /\ UNCHANGED <<setup, keyDown, held, client, missed>>
      /\ UNCHANGED <<mapVars, repeat, offers, mode, down, overtaken>>
  BY DEF TimePasses, sourceVars
<1>2. UNCHANGED <<files, maps, cache, noticed, unseen>>
  BY <1>1 DEF mapVars
<1>3. MapInv'
  BY <1>1, MapsUntouched DEF InputInv, KeyInv
<1>4. KeyTypes' /\ ModeInv'
  BY <1>1 DEF InputInv, KeyInv, KeyTypes, ModeInv, Follows
<1>5. HoldInv
  BY DEF InputInv, KeyInv
<1>6. /\ hold.map # NoLong
      /\ hold'.long = TRUE /\ hold'.map = hold.map /\ DOMAIN hold' = {"map", "long"}
      /\ press'.long = TRUE /\ press'.tidy = press.tidy /\ press'.asked = press.asked
      /\ DOMAIN press' = {"tidy", "asked", "long"}
  BY <1>5 DEF TimePasses, HoldInv
<1>7. HoldInv'
  <2>1. \A j : Meant(j[1], j[2])' = Meant(j[1], j[2])
    BY <1>2 DEF Meant, Match, Entries
  <2>2. ASSUME NEW j, HeldAlone(j)
        PROVE  HeldAlone(j)'
    <3>1. Meant(j[1], j[2])' = Meant(j[1], j[2])
      BY <2>1
    <3> QED BY <1>1, <1>6, <2>2, <3>1 DEF HeldAlone
  <2> QED BY <1>1, <1>5, <1>6, <2>2 DEF HoldInv
<1>8. HoldAnswered
  BY <1>1 DEF HoldAnswered
<1>9. SourceTypes'
  BY <1>1, QuietSources DEF InputInv, SourceTypes
<1>10. HolderTypes' /\ SwallowsRepeatsOnly'
  BY <1>1 DEF InputInv, HolderTypes, SwallowsRepeatsOnly
<1>11. HolderOwes' = HolderOwes
  BY <1>1 DEF HolderOwes
<1>12. RepeatEnds'
  BY <1>1, <1>11, HolderRepeat DEF InputInv
<1> QED BY <1>3, <1>4, <1>7, <1>8, <1>9, <1>10, <1>12 DEF InputInv, KeyInv

LEMMA SetsFollow ==
  ASSUME NEW m \in ModeRecords, NEW value \in {"tv", "desktop"}, value # m.setting
  PROVE  /\ SetWebMode(m, value) \in ModeRecords
         /\ Len(SetWebMode(m, value).switching) >= Len(m.switching)
         /\ Follows(m) /\ m.switching = <<>> => Follows(SetWebMode(m, value))
<1> DEFINE new == value = "desktop"
           n == SetWebMode(m, value)
<1>1. /\ m.setting \in {"tv", "desktop"} /\ m.desktop \in BOOLEAN /\ m.cursor \in BOOLEAN
      /\ m.layout \in {"auto", "tv"} /\ m.switching \in Seq(BOOLEAN) /\ new \in BOOLEAN
      /\ Len(m.switching) \in Nat
  BY DEF ModeRecords
<1>2. (m.setting = "desktop") = ~new
  BY <1>1
<1>3. Follows(m) /\ m.switching = <<>> => m.desktop = ~new
  BY <1>2 DEF Follows
<1>4. CASE new = m.desktop
  <2>1. n = [m EXCEPT !.setting = value]
    BY <1>4 DEF SetWebMode
  <2>2. n \in ModeRecords /\ n.switching = m.switching
    BY <2>1 DEF ModeRecords
  <2> QED BY <1>1, <1>3, <1>4, <2>2
<1>5. CASE new # m.desktop /\ m.layout # "auto"
  <2>1. n = [[m EXCEPT !.setting = value] EXCEPT !.desktop = new]
    BY <1>5 DEF SetWebMode
  <2>2. /\ n \in ModeRecords
        /\ n.setting = value /\ n.desktop = new /\ n.switching = m.switching
        /\ n.layout = m.layout
    BY <1>1, <2>1 DEF ModeRecords
  <2>3. m.switching = <<>> => Follows(n)
    <3>1. Len(<<>>) = 0
      OBVIOUS
    <3> HIDE DEF n
    <3> QED BY <1>5, <2>2, <3>1 DEF Follows
  <2> QED BY <1>1, <2>2, <2>3
<1>6. CASE new # m.desktop /\ m.layout = "auto"
  <2>1. n = [[m EXCEPT !.setting = value] EXCEPT !.switching = Append(m.switching, new)]
    BY <1>6 DEF SetWebMode
  <2>2. Append(m.switching, new) \in Seq(BOOLEAN)
    BY <1>1
  <2>3. n \in ModeRecords
    BY <2>1, <2>2 DEF ModeRecords
  <2>4. /\ n.setting = value /\ n.desktop = m.desktop /\ n.switching = Append(m.switching, new)
    BY <2>1 DEF ModeRecords
  <2>5. m.switching = <<>> => Follows(n)
    <3> SUFFICES ASSUME m.switching = <<>> PROVE Follows(n)
      OBVIOUS
    <3>1. n.switching = <<new>>
      BY <2>4
    <3>2. Len(n.switching) = 1 /\ n.switching[1] = new /\ n.switching # <<>>
      BY <3>1
    <3>3. n.switching[1] = (n.setting = "desktop")
      BY <2>4, <3>2
    <3>4. n.desktop = ~n.switching[1]
      BY <1>1, <1>6, <2>4, <3>2
    <3> HIDE DEF n, new
    <3> QED BY <3>2, <3>3, <3>4 DEF Follows
  <2>6. Len(n.switching) >= Len(m.switching)
    BY <1>1, <2>4
  <2> QED BY <2>3, <2>5, <2>6
<1> QED BY <1>4, <1>5, <1>6

LEMMA UserSetsKeeps ==
  ASSUME InputInv, NEW value \in {"tv", "desktop"}, UserSetsMode(value)
  PROVE  InputInv' /\ HoldAnswered
<1> DEFINE m == SetWebMode(mode, value)
<1>1. /\ ModeSet(repeat, m) /\ OnlyMode /\ UNCHANGED offers /\ value # mode.setting
  BY DEF UserSetsMode
<1>2. KeyTypes /\ ModeInv /\ mode \in ModeRecords /\ repeat \in RepeatRecords
  BY DEF InputInv, KeyInv, KeyTypes
<1>3. /\ m \in ModeRecords /\ Len(m.switching) >= Len(mode.switching)
      /\ Follows(mode) /\ mode.switching = <<>> => Follows(m)
  BY <1>1, <1>2, SetsFollow
<1>4. m.setting # mode.setting
  <2>1. m.setting = value
    BY <1>1, <1>2 DEF SetWebMode, ModeRecords
  <2> QED BY <1>1, <2>1
<1> HIDE DEF m
<1>5. /\ repeat' \in RepeatRecords /\ (repeat'.on => repeat.on)
      /\ mode' \in ModeRecords /\ overtaken' \in BOOLEAN /\ ModeInv'
  BY <1>1, <1>2, <1>3, <1>4, ModeSetKeeps
<1>6. KeyTypes'
  BY <1>1, <1>2, <1>5 DEF KeyTypes
<1> QED BY <1>1, <1>5, <1>6, OnlyModeKeeps

LEMMA ClientKeeps ==
  ASSUME InputInv, ClientRuns
  PROVE  InputInv' /\ HoldAnswered
<1> DEFINE m == ToggleWebMode(mode)
<1>1. /\ ModeSet(repeat, m) /\ OnlyMode /\ offers > 0 /\ offers' = offers - 1
  BY DEF ClientRuns
<1>2. KeyTypes /\ ModeInv /\ mode \in ModeRecords /\ repeat \in RepeatRecords
  BY DEF InputInv, KeyInv, KeyTypes
<1>3. /\ m \in ModeRecords /\ Len(m.switching) >= Len(mode.switching)
      /\ Follows(mode) => Follows(m)
  BY <1>2, TogglesFollow
<1> HIDE DEF m
<1>4. /\ repeat' \in RepeatRecords /\ (repeat'.on => repeat.on)
      /\ mode' \in ModeRecords /\ overtaken' \in BOOLEAN /\ ModeInv'
  BY <1>1, <1>2, <1>3, ModeSetKeeps
<1>5. offers' \in 0 .. MaxOffers
  BY <1>1, <1>2, InputAssumption DEF KeyTypes
<1>6. KeyTypes'
  BY <1>4, <1>5 DEF KeyTypes
<1> QED BY <1>1, <1>4, <1>6, OnlyModeKeeps

LEMMA FireKeeps ==
  ASSUME InputInv, FireSwitch
  PROVE  InputInv' /\ HoldAnswered
<1> DEFINE n == [mode EXCEPT !.desktop = Head(mode.switching), !.switching = Tail(mode.switching)]
           m == IF n.desktop THEN SetCursor(n, TRUE) ELSE n
<1>1. ModeSet(repeat, m) /\ OnlyMode /\ UNCHANGED offers /\ mode.switching # <<>>
  BY DEF FireSwitch
<1>2. KeyTypes /\ ModeInv /\ mode \in ModeRecords /\ repeat \in RepeatRecords
  BY DEF InputInv, KeyInv, KeyTypes
<1>3. /\ mode.switching \in Seq(BOOLEAN) /\ Len(mode.switching) \in Nat \ {0}
      /\ Head(mode.switching) \in BOOLEAN /\ Head(mode.switching) = mode.switching[1]
      /\ Tail(mode.switching) \in Seq(BOOLEAN)
      /\ Len(Tail(mode.switching)) = Len(mode.switching) - 1
  BY <1>1, <1>2 DEF ModeRecords
<1>4. /\ n \in ModeRecords
      /\ n.desktop = Head(mode.switching) /\ n.switching = Tail(mode.switching)
      /\ n.setting = mode.setting /\ n.layout = mode.layout
  BY <1>2, <1>3 DEF ModeRecords
<1> HIDE DEF n
<1>5. /\ m \in ModeRecords /\ m.desktop = mode.switching[1] /\ m.switching = Tail(mode.switching)
      /\ m.setting = mode.setting /\ (m.desktop => m.cursor)
  <2>1. CASE n.desktop
    <3>1. m = SetCursor(n, TRUE) /\ TRUE \in BOOLEAN
      BY <2>1
    <3>2. m.cursor
      BY <1>4, <3>1 DEF SetCursor, ModeRecords
    <3> QED BY <1>3, <1>4, <3>1, <3>2, CursorFacts
  <2>2. CASE ~n.desktop
    BY <1>3, <1>4, <2>2
  <2> QED BY <2>1, <2>2
<1> HIDE DEF m
<1>6. mode' = m /\ repeat' = repeat
  BY <1>1, <1>5 DEF ModeSet
<1>7. overtaken' = (overtaken /\ ~(m.switching = <<>> /\ m.desktop = (m.setting = "desktop")))
  <2>1. overtaken' = (\/ m.setting # mode.setting /\ mode.switching # <<>>
                      \/ overtaken /\ ~(/\ Len(m.switching) < Len(mode.switching)
                                        /\ m.switching = <<>>
                                        /\ m.desktop = (m.setting = "desktop")))
    BY <1>1, Zenon DEF ModeSet
  <2>2. Len(m.switching) < Len(mode.switching)
    BY <1>3, <1>5
  <2> QED BY <1>5, <2>1, <2>2
<1>8. ASSUME m.switching = <<>>, m.desktop = (m.setting = "desktop")
      PROVE  Follows(m)
  <2>1. Len(m.switching) <= 1
    BY <1>8
  <2>2. m.desktop /\ m.layout = "auto" => m.cursor
    BY <1>5
  <2> QED BY <1>8, <2>1, <2>2 DEF Follows
<1>9. ASSUME ~overtaken'
      PROVE  Follows(m)
  <2>1. CASE overtaken
    BY <1>7, <1>8, <1>9, <2>1
  <2>2. CASE ~overtaken
    <3>1. mode.switching[1] = (mode.setting = "desktop")
      BY <1>1, <1>2, <2>2 DEF ModeInv, Follows
    <3>2. m.switching = <<>>
      <4> DEFINE q == mode.switching
      <4>1. Len(q) <= 1
        BY <1>2, <2>2 DEF ModeInv, Follows
      <4>2. q \in Seq(BOOLEAN) /\ Len(q) \in Nat \ {0}
        BY <1>3
      <4> HIDE DEF q
      <4>3. Tail(q) = <<>>
        BY <4>1, <4>2
      <4> QED BY <1>5, <4>3 DEF q
    <3> QED BY <1>5, <1>8, <3>1, <3>2
  <2> QED BY <2>1, <2>2
<1>10. ModeInv'
  <2>1. Follows(mode)' = Follows(mode')
    BY DEF Follows
  <2> QED BY <1>6, <1>9, <2>1 DEF ModeInv
<1>11. KeyTypes'
  <2>1. overtaken' \in BOOLEAN
    BY <1>2, <1>7 DEF KeyTypes
  <2> QED BY <1>1, <1>2, <1>5, <1>6, <2>1 DEF KeyTypes
<1> QED BY <1>1, <1>6, <1>10, <1>11, OnlyModeKeeps

LEMMA MouseKeeps ==
  ASSUME InputInv, Mouse
  PROVE  InputInv' /\ HoldAnswered
<1>1. /\ \E visible \in BOOLEAN : mode' = SetCursor(mode, visible)
      /\ OnlyMode /\ UNCHANGED <<repeat, offers, overtaken>>
  <2>1. TRUE \in BOOLEAN /\ FALSE \in BOOLEAN
    OBVIOUS
  <2> QED BY <2>1 DEF Mouse
<1>2. KeyInv'
  BY <1>1, CursorKeeps DEF InputInv, OnlyMode
<1> QED BY <1>1, <1>2, OnlyModeKeeps DEF KeyInv

LEMMA HelloKeeps ==
  ASSUME InputInv, Hello
  PROVE  InputInv' /\ HoldAnswered
<1>1. /\ UNCHANGED <<inputs, pads, axis, lastHat, cec, upDown, posted, lost>>
      /\ UNCHANGED <<setup, keyDown, held, missed>> /\ client' = TRUE
      /\ UNCHANGED <<mapVars, repeat, hold, offers, mode, down, press, overtaken>>
  BY DEF Hello, Nothing, sourceVars
<1>2. KeyInv' /\ HoldAnswered
  BY <1>1, NothingKeeps DEF InputInv
<1>3. SourceTypes'
  BY <1>1, QuietSources DEF InputInv, SourceTypes
<1>4. HolderTypes' /\ SwallowsRepeatsOnly'
  BY <1>1 DEF InputInv, HolderTypes, SwallowsRepeatsOnly
<1>5. HolderOwes' = HolderOwes
  BY <1>1 DEF HolderOwes
<1>6. RepeatEnds'
  BY <1>1, <1>5, HolderRepeat DEF InputInv
<1> QED BY <1>2, <1>3, <1>4, <1>6 DEF InputInv

-----------------------------------------------------------------------------
(* The files of mappings change.                                           *)

LEMMA FilesKeep ==
  ASSUME InputInv, FilesStep
  PROVE  InputInv' /\ HoldAnswered
<1>1. /\ UNCHANGED <<inputs, pads, axis, lastHat, cec, upDown, posted, lost>>
      /\ UNCHANGED <<setup, keyDown, held, client, missed>>
      /\ UNCHANGED <<repeat, hold, offers, mode, down, overtaken>>
      /\ press' = [press EXCEPT !.tidy = press.tidy /\ maps' = maps]
      /\ ChangeFiles \/ EditFile \/ LoadMappings
  BY DEF FilesStep, sourceVars
<1>2. MapTypes /\ HoldInv /\ MapsFollowFiles
  BY DEF InputInv, KeyInv, MapInv
<1>3. files' \subseteq UserFiles
  <2>1. files \subseteq UserFiles
    BY <1>2 DEF MapTypes
  <2>2. \A fs \in Changes : fs \subseteq UserFiles
    BY <2>1 DEF Changes
  <2>3. CASE ChangeFiles
    BY <2>2, <2>3 DEF ChangeFiles
  <2>4. CASE EditFile
    BY <2>1, <2>4 DEF EditFile
  <2>5. CASE LoadMappings
    BY <2>1, <2>2, <2>5 DEF LoadMappings
  <2> QED BY <1>1, <2>3, <2>4, <2>5
<1>4. MapInv'
  <2>1. CASE ChangeFiles
    <3>1. UNCHANGED <<maps, cache, unseen>> /\ noticed' = TRUE
      BY <2>1 DEF ChangeFiles
    <3>2. MapTypes' /\ MapsFollowFiles'
      BY <1>2, <1>3, <3>1 DEF MapTypes, AreMaps, Named, MapsFollowFiles, Match
    <3> QED BY <3>2 DEF MapInv
  <2>2. CASE EditFile
    <3>1. UNCHANGED <<maps, cache, noticed>> /\ unseen' = TRUE
      BY <2>2 DEF EditFile
    <3>2. MapTypes' /\ MapsFollowFiles'
      BY <1>2, <1>3, <3>1 DEF MapTypes, AreMaps, Named, MapsFollowFiles, Match
    <3> QED BY <3>2 DEF MapInv
  <2>3. CASE LoadMappings
    <3>1. /\ \E order \in SetToSeqs(files) : maps' = Loaded(order)
          /\ cache' = <<>> /\ noticed' = FALSE /\ unseen' = (files' # files)
      BY <2>3 DEF LoadMappings
    <3>2. DOMAIN cache' = {}
      BY <3>1
    <3>3. AreMaps(maps)'
      <4>1. PICK order \in SetToSeqs(files) : maps' = Loaded(order)
        BY <3>1
      <4>2. order \in Seq(Files)
        BY <1>2, OrderIsOfFiles DEF MapTypes
      <4>3. AreMaps(maps')
        BY <4>1, <4>2, LoadedType
      <4> QED BY <4>3 DEF AreMaps, Named
    <3>4. MapTypes'
      BY <1>3, <3>1, <3>2, <3>3 DEF MapTypes
    <3>5. ~unseen' => \E order \in SetToSeqs(files') : maps' = Loaded(order)
      BY <3>1
    <3>6. MapsFollowFiles'
      BY <3>2, <3>5 DEF MapsFollowFiles
    <3> QED BY <3>4, <3>6 DEF MapInv
  <2> QED BY <1>1, <2>1, <2>2, <2>3
<1>5. KeyTypes' /\ ModeInv'
  BY <1>1 DEF InputInv, KeyInv, KeyTypes, ModeInv, Follows
<1>6. /\ press'.tidy = (press.tidy /\ maps' = maps) /\ DOMAIN press' = {"tidy", "asked", "long"}
      /\ press'.asked = press.asked /\ press'.long = press.long
  BY <1>1, <1>2 DEF HoldInv
<1>7. HoldInv'
  <2>1. ASSUME press'.tidy, down' # {}
        PROVE  \E k \in down' : HeldAlone(k)'
    <3>1. press.tidy /\ maps' = maps
      BY <1>6, <2>1
    <3>2. PICK k \in down : HeldAlone(k)
      BY <1>1, <1>2, <2>1, <3>1 DEF HoldInv
    <3>3. Meant(k[1], k[2])' = Meant(k[1], k[2])
      BY <3>1 DEF Meant, Match, Entries
    <3>4. HeldAlone(k)'
      BY <1>1, <1>6, <3>2, <3>3 DEF HeldAlone
    <3> QED BY <1>1, <3>4
  <2>2. press'.tidy \in BOOLEAN
    BY <1>2, <1>6 DEF HoldInv
  <2> QED BY <1>1, <1>2, <1>6, <2>1, <2>2 DEF HoldInv
<1>8. HoldAnswered
  BY <1>1 DEF HoldAnswered
<1>9. SourceTypes'
  BY <1>1, QuietSources DEF InputInv, SourceTypes
<1>10. HolderTypes' /\ SwallowsRepeatsOnly'
  BY <1>1 DEF InputInv, HolderTypes, SwallowsRepeatsOnly
<1>11. HolderOwes' = HolderOwes
  BY <1>1 DEF HolderOwes
<1>12. RepeatEnds'
  BY <1>1, <1>11, HolderRepeat DEF InputInv
<1> QED BY <1>4, <1>5, <1>7, <1>8, <1>9, <1>10, <1>12 DEF InputInv, KeyInv

-----------------------------------------------------------------------------
(* The whole.                                                              *)

LEMMA InputInit == Init => InputInv
<1> SUFFICES ASSUME Init
             PROVE  InputInv
  OBVIOUS
<1>1. PICK s \in Setups :
        /\ InitSources(s.inputs, s.has, s.upDown)
        /\ setup = s
        /\ mode = [setting |-> s.setting, desktop |-> s.setting = "desktop",
                   switching |-> <<>>, layout |-> s.layout, cursor |-> TRUE]
  BY DEF Init
<1>2. /\ s.inputs \subseteq {"net", "sdl", "cec"} /\ s.layout \in {"auto", "tv"}
      /\ s.setting \in {"tv", "desktop"} /\ s.upDown \in BOOLEAN
      /\ s.has \in [Pads -> SUBSET {"stick", "hat", "button"}]
  BY InputAssumption
<1>3. posted = <<>> /\ axis = "" /\ cec.held = NoCode /\ ~repeat.on /\ down = {}
  BY <1>1 DEF Init, InitSources
<1>4. SourceTypes
  <2>1. pads \in [has : [Pads -> SUBSET {"stick", "hat", "button"}],
                  plugged : SUBSET Pads, opened : SUBSET Pads,
                  stick : [Pads -> Sticks], hat : [Pads -> Hats], button : [Pads -> BOOLEAN]]
    BY <1>1, <1>2 DEF InitSources, Sticks, Hats
  <2>2. /\ cec \in [attached : BOOLEAN, open : BOOLEAN, port : BOOLEAN, opening : BOOLEAN,
                    alert : BOOLEAN, held : CecKeys \cup {NoCode}, failed : BOOLEAN]
        /\ ~cec.opening
    BY <1>1 DEF InitSources
  <2>3. posted \in Seq(Events) /\ Len(posted) <= MaxQueue
    <3>1. posted = <<>>
      BY <1>3
    <3>2. Len(posted) = 0 /\ posted \in Seq(Events)
      BY <3>1
    <3> QED BY <3>2, SourcesAssumption
  <2>4. inputs = s.inputs /\ upDown = s.upDown /\ lost = FALSE /\ lastHat = ""
    BY <1>1 DEF InitSources
  <2> QED BY <1>2, <1>3, <2>1, <2>2, <2>3, <2>4 DEF SourceTypes, AnyKey
<1>5. HolderTypes /\ SwallowsRepeatsOnly
  BY <1>1 DEF Init, HolderTypes, SwallowsRepeatsOnly
<1>6. MapInv
  <2>1. /\ files \subseteq UserFiles /\ cache = <<>> /\ noticed = FALSE /\ unseen = FALSE
        /\ \E order \in SetToSeqs(files) : maps = Loaded(order)
    BY DEF Init, InitMap
  <2>2. DOMAIN cache = {}
    BY <2>1
  <2>3. AreMaps(maps)
    <3>1. PICK order \in SetToSeqs(files) : maps = Loaded(order)
      BY <2>1
    <3>2. order \in Seq(Files)
      BY <2>1, OrderIsOfFiles
    <3> QED BY <3>1, <3>2, LoadedType
  <2> QED BY <2>1, <2>2, <2>3 DEF MapInv, MapTypes, MapsFollowFiles
<1>7. KeyTypes
  <2> DEFINE S == Seq(AnyKey)
             B == Seq(BOOLEAN)
  <2>1. <<>> \in S /\ <<>> \in B
    OBVIOUS
  <2> HIDE DEF S, B
  <2>2. repeat \in [on : BOOLEAN, fast : BOOLEAN, actions : S]
    BY <2>1 DEF Init
  <2>3. mode \in [setting : {"tv", "desktop"}, desktop : BOOLEAN, switching : B,
                  layout : {"auto", "tv"}, cursor : BOOLEAN]
    BY <1>1, <1>2, <2>1
  <2>4. offers \in 0 .. MaxOffers /\ overtaken \in BOOLEAN
    <3>1. offers = 0 /\ overtaken = FALSE
      BY DEF Init
    <3>2. MaxOffers \in Nat
      BY InputAssumption
    <3>3. 0 \in 0 .. MaxOffers
      BY <3>2
    <3> QED BY <3>1, <3>3
  <2> QED BY <2>2, <2>3, <2>4 DEF KeyTypes, RepeatRecords, ModeRecords, S, B
<1>8. ModeInv
  <2>1. /\ mode.switching = <<>> /\ mode.desktop = (mode.setting = "desktop")
        /\ mode.cursor = TRUE
    BY <1>1
  <2>2. Len(mode.switching) <= 1
    BY <2>1
  <2> QED BY <2>1, <2>2 DEF ModeInv, Follows
<1>9. HoldInv
  BY <1>3 DEF Init, HoldInv, NoHold
<1>10. RepeatEnds
  <2>1. posted = <<>>
    BY <1>3
  <2>2. DOMAIN posted = {}
    BY <2>1
  <2> QED BY <1>3, <2>2 DEF RepeatEnds
<1> QED BY <1>4, <1>5, <1>6, <1>7, <1>8, <1>9, <1>10 DEF InputInv, KeyInv

LEMMA InputStutters ==
  ASSUME InputInv, UNCHANGED vars
  PROVE  InputInv'
<1>1. /\ UNCHANGED <<inputs, pads, axis, lastHat, cec, upDown, posted, lost>>
      /\ UNCHANGED <<setup, keyDown, held, client, missed>>
      /\ UNCHANGED <<mapVars, repeat, hold, offers, mode, down, press, overtaken>>
  BY DEF vars, sourceVars, inputVars
<1>2. KeyInv'
  BY <1>1, NothingKeeps DEF InputInv
<1>3. SourceTypes'
  BY <1>1, QuietSources DEF InputInv, SourceTypes
<1>4. HolderTypes' /\ SwallowsRepeatsOnly'
  BY <1>1 DEF InputInv, HolderTypes, SwallowsRepeatsOnly
<1>5. HolderOwes' = HolderOwes
  BY <1>1 DEF HolderOwes
<1>6. RepeatEnds'
  BY <1>1, <1>5, HolderRepeat DEF InputInv
<1> QED BY <1>2, <1>3, <1>4, <1>6 DEF InputInv

LEMMA InputNext == InputInv /\ [Next]_vars => InputInv' /\ (HoldAnswered \/ UNCHANGED vars)
<1> SUFFICES ASSUME InputInv, [Next]_vars
             PROVE  InputInv' /\ (HoldAnswered \/ UNCHANGED vars)
  OBVIOUS
<1>1. CASE UNCHANGED vars
  BY <1>1, InputStutters
<1>2. CASE SourceStep /\ Apart
  BY <1>2, WorkersKeep
<1>3. CASE Deliver
  BY <1>3, DeliverKeeps
<1>4. ASSUME NEW k \in KbKeys,
             \/ KbPress(k)
             \/ \E b \in BOOLEAN : KbRepeat(k, b) \/ KbRelease(k, b)
             \/ KbShortcutOverride(k)
      PROVE  InputInv' /\ HoldAnswered
  <2>1. FALSE \in BOOLEAN
    OBVIOUS
  <2> QED BY <1>4, <2>1, KbDownKeeps, KbReleaseKeeps, ShortcutKeeps
<1>5. ASSUME NEW k \in NetKeys, NetDown(k) \/ NetUp(k) \/ NetPressed(k)
      PROVE  InputInv' /\ HoldAnswered
  BY <1>5, NetKeyKeeps
<1>6. CASE NetGone
  BY <1>6, NetGoneKeeps
<1>7. CASE AutoRepeat \/ CancelFromOutside \/ TimePasses
  BY <1>7, AutoRepeatKeeps, CancelKeeps, TimeKeeps
<1>8. CASE \E value \in {"tv", "desktop"} : UserSetsMode(value)
  BY <1>8, UserSetsKeeps
<1>9. CASE ClientRuns \/ FireSwitch \/ Hello \/ Mouse
  BY <1>9, ClientKeeps, FireKeeps, HelloKeeps, MouseKeeps
<1>10. CASE FilesStep
  BY <1>10, FilesKeep
<1> QED BY <1>1, <1>2, <1>3, <1>4, <1>5, <1>6, <1>7, <1>8, <1>9, <1>10 DEF Next

LEMMA PressedIsHeld == InputInv => NothingStaysPressed
<1> SUFFICES ASSUME InputInv
             PROVE  NothingStaysPressed
  OBVIOUS
<1>1. TypeOK
  BY DEF InputInv, SourceTypes, HolderTypes, KeyInv, MapInv, MapTypes, KeyTypes, HoldInv,
         ModeRecords, RepeatRecords, TypeOK
<1>2. NoGhostRepeat
  <2> SUFFICES ASSUME ~SourceHeld, held.kb = {}, held.net = {}, posted = <<>>, ~lost
               PROVE  ~repeat.on
    BY DEF NoGhostRepeat
  <2>1. ~SourceOwes
    BY DEF SourceOwes, SourceHeld, PadHeld
  <2>2. ~HolderOwes /\ ~ReleasePosted
    BY DEF HolderOwes, ReleasePosted
  <2> QED BY <2>1, <2>2 DEF InputInv, RepeatEnds
<1> QED BY <1>1, <1>2 DEF InputInv, NothingStaysPressed

LEMMA FilesAreFollowed == InputInv => FollowsFilesAndSettings
<1> SUFFICES ASSUME InputInv
             PROVE  FollowsFilesAndSettings
  OBVIOUS
<1>1. ModeFollowsSetting
  BY DEF InputInv, KeyInv, ModeInv, Follows, ModeFollowsSetting
<1>2. MapsFollowFiles /\ files \in SUBSET UserFiles
  BY DEF InputInv, KeyInv, MapInv, MapTypes
<1>3. UserOverloads
  <2> SUFFICES ASSUME ~noticed, ~unseen, NEW b \in ToSet(Bundled), NEW u \in files, u.valid,
                      u.name = b.name \/ u.idmatcher = b.idmatcher,
                      NEW e \in ToSet(maps.sources), e.pattern = b.idmatcher, e.name = b.name
               PROVE  \E w \in files : w.valid /\ w.name = b.name
                                       /\ maps.inputs[b.name] = w.mapping
    BY DEF UserOverloads
  <2>1. PICK order \in SetToSeqs(files) : maps = Loaded(order)
    BY <1>2 DEF MapsFollowFiles
  <2>2. Overloads(maps, files)
    BY <1>2, <2>1, LoadedOverloads
  <2>3. PICK v \in files : v.valid /\ v.name = b.name
    <3>1. CASE u.name = b.name
      BY <3>1
    <3>2. CASE u.idmatcher = b.idmatcher
      BY <2>2, <3>2 DEF Overloads
    <3> QED BY <3>1, <3>2
  <2> QED BY <2>2, <2>3 DEF Overloads
<1> QED BY <1>1, <1>2, <1>3 DEF FollowsFilesAndSettings

(* An auto-repeat goes on only while somebody will end it, by a release    *)
(* that is still to be told, and the filter of the keyboard takes a key to *)
(* be held only if it is (InputComponent.cpp:65-74, 160-222,               *)
(* EventFilter.cpp:132-145).                                               *)
THEOREM NothingPressedLeft == Spec => []NothingStaysPressed
<1>1. Init => InputInv
  BY InputInit
<1>2. InputInv /\ [Next]_vars => InputInv'
  BY InputNext
<1>3. InputInv => NothingStaysPressed
  BY PressedIsHeld
<1> QED BY <1>1, <1>2, <1>3, PTL DEF Spec

(* The window is in the mode of its setting, what a key means is what the  *)
(* files say, and the user's files overload those of the program, whatever *)
(* the number of files and in whatever order all of them change            *)
(* (KonvergoWindow.cpp:393-425, InputMapping.cpp:30-152).                  *)
THEOREM FilesAndSettingsFollowed == Spec => []FollowsFilesAndSettings
<1>1. Init => InputInv
  BY InputInit
<1>2. InputInv /\ [Next]_vars => InputInv'
  BY InputNext
<1>3. InputInv => FollowsFilesAndSettings
  BY FilesAreFollowed
<1> QED BY <1>1, <1>2, <1>3, PTL DEF Spec

(* A key held alone and let go is answered by the action that its length   *)
(* asks for, as the pending long press is that of the key                  *)
(* (InputComponent.cpp:168-182, 203-209).                                  *)
THEOREM HoldsAreAnswered == Spec => HoldIsAnswered
<1>1. Init => InputInv
  BY InputInit
<1>2. InputInv /\ [Next]_vars => InputInv' /\ [HoldAnswered]_vars
  BY InputNext
<1> QED BY <1>1, <1>2, PTL DEF Spec, HoldIsAnswered

-----------------------------------------------------------------------------
(* Settings: the inductive invariant.                                       *)

(* What is read of section s from file x.                                   *)
ReadSection(x, s) ==
  LET before == IF s \in Described THEN Defaults(s) ELSE Empty
      given  == IF s \in DOMAIN x.sections THEN Overlaid(before, x.sections[s]) ELSE before
  IN  IF s = "main" /\ Migrates(x) THEN SetOne("main", given, "webMode", "tv") ELSE given

(* A start reads from file x what the sections m of file f are.             *)
Agrees(f, x, m) ==
  /\ IsRead(x)
  /\ \A s \in Described \cup NewSections :
       FileOf(s) = f =>
         /\ s \in DOMAIN m <=> s \in Described \/ s \in DOMAIN x.sections
         /\ s \in DOMAIN m => LastingOf(m[s]) = LastingOf(ReadSection(x, s))

Whole(m) ==
  /\ Sections(m) /\ Described \subseteq DOMAIN m
  /\ \A s \in Described : Keys(s) \subseteq DOMAIN m[s]

FilesInv ==
  /\ DOMAIN disk = ConfFiles /\ DOMAIN broken = ConfFiles
  /\ \A f \in ConfFiles : IsFile(disk[f]) /\ IsFile(broken[f]) /\ HoldsOwn(f, disk[f])
  /\ unmoved \subseteq ConfFiles
  /\ phase # "off" => \A f \in ConfFiles : disk[f] = NoFile \/ IsRead(disk[f]) \/ f \in unmoved
  /\ NoOldStorage => ~Migrates(disk["storage"])

OldestInv ==
  /\ oldest \in {None, first} /\ first \in {"legacy", "current"} /\ saved \in BOOLEAN
  /\ phase # "off" => oldest # None
  /\ oldest = None => first = IF disk["conf"] = NoFile THEN "current" ELSE "legacy"

SavedInv ==
  /\ Whole(mem) /\ faulty \subseteq ConfFiles
  /\ NoOldStorage /\ Alive => \A f \in ConfFiles \ faulty : Agrees(f, disk[f], mem)

ShownInv ==
  /\ hidden \subseteq Pairs
  /\ ListenersFollow /\ HiddenFollowsType /\ ViewIsCurrent
  /\ \E roles \in SUBSET {"plexpass", "ninja", "employee"} : options = Channels(roles)

SettingsInv ==
  /\ phase \in {"off", "starting", "fatal", "running"}
  /\ FilesInv /\ OldestInv /\ SavedInv /\ ShownInv

-----------------------------------------------------------------------------
(* What the functions of Settings do.                                       *)

LEMMA SectionFacts ==
  /\ "main" \in Described /\ "audio" \in Described /\ "webclient" \in Described
  /\ FileOf("main") = "conf"
  /\ \A s : FileOf(s) \in ConfFiles /\ (s \notin Described => FileOf(s) = "storage" /\ Keys(s) = {})
  /\ \A s \in NewSections : s \notin Described
  /\ \A s : DOMAIN Defaults(s) = Keys(s)
  /\ "conf" \in ConfFiles /\ "storage" \in ConfFiles
  /\ Version \in Nat /\ Version # 0
BY SettingsAssumption, DescriptionAssumption
   DEF Described, FileOf, IsStorage, Keys, Defaults, ConfFiles

LEMMA FreshIsWhole == Whole(Fresh) /\ DOMAIN Fresh = Described /\ \A s \in Described : Fresh[s] = Defaults(s)
<1>1. DOMAIN Fresh = Described /\ \A s \in Described : Fresh[s] = Defaults(s)
  BY DEF Fresh
<1>2. \A s \in Described : DOMAIN Fresh[s] = Keys(s)
  BY <1>1, SectionFacts
<1> QED BY <1>1, <1>2 DEF Whole, Sections

LEMMA EmptyIsEmpty == DOMAIN Empty = {}
BY DEF Empty

(* What is laid over all keys of a section is what lasts.                   *)
LEMMA OverlaidLasts ==
  ASSUME NEW old, NEW c, DOMAIN old \subseteq DOMAIN c
  PROVE  LastingOf(Overlaid(old, c)) = LastingOf(c)
<1>1. DOMAIN Overlaid(old, c) = DOMAIN old \cup (DOMAIN c \ {"index"})
  BY DEF Overlaid
<1>2. DOMAIN Overlaid(old, c) \ {"index"} = DOMAIN c \ {"index"}
  BY <1>1
<1>3. \A k \in DOMAIN c \ {"index"} : Overlaid(old, c)[k] = c[k]
  BY DEF Overlaid
<1> QED BY <1>2, <1>3 DEF LastingOf

LEMMA SavedFacts ==
  ASSUME NEW f \in ConfFiles, NEW m, Whole(m)
  PROVE  LET x == Saved(f, m)
         IN  /\ IsRead(x) /\ ~Migrates(x) /\ IsFile(x) /\ x # NoFile
             /\ HoldsOwn(f, x) /\ Agrees(f, x, m)
<1> DEFINE own == {t \in DOMAIN m : FileOf(t) = f}
           c   == [s \in own |-> m[s]]
           x   == Saved(f, m)
<1>1. x.kind = "json" /\ x.version = Version /\ x.sections = c
  BY DEF Saved, File
<1> HIDE DEF x
<1>2. IsRead(x) /\ ~Migrates(x) /\ VersionOf(x) = Version
  BY <1>1, SectionFacts DEF IsRead, Migrates, VersionOf
<1>3. DOMAIN c = own /\ \A s \in own : c[s] = m[s]
  OBVIOUS
<1> HIDE DEF c
<1>4. own \subseteq Described \cup NewSections /\ \A s \in own : DOMAIN m[s] \subseteq Keys(s) \cup NewKeys
  BY DEF Whole, Sections
<1>5. IsFile(x)
  BY <1>1, <1>3, <1>4, SectionFacts DEF IsFile
<1>6. x # NoFile
  BY <1>1 DEF NoFile
<1>7. HoldsOwn(f, x)
  BY <1>1, <1>3, <1>4 DEF HoldsOwn
<1>8. ASSUME NEW s \in Described \cup NewSections, FileOf(s) = f
      PROVE  /\ s \in DOMAIN m <=> s \in Described \/ s \in DOMAIN x.sections
             /\ s \in DOMAIN m => LastingOf(m[s]) = LastingOf(ReadSection(x, s))
  <2>1. s \in DOMAIN m <=> s \in Described \/ s \in DOMAIN x.sections
    BY <1>1, <1>3, <1>8 DEF Whole
  <2>2. ASSUME s \in DOMAIN m
        PROVE  LastingOf(m[s]) = LastingOf(ReadSection(x, s))
    <3> DEFINE before == IF s \in Described THEN Defaults(s) ELSE Empty
    <3>1. s \in DOMAIN x.sections /\ x.sections[s] = m[s]
      BY <1>1, <1>3, <1>8, <2>2
    <3>2. DOMAIN before \subseteq DOMAIN m[s]
      BY <2>2, SectionFacts, EmptyIsEmpty DEF Whole
    <3>3. ReadSection(x, s) = Overlaid(before, m[s])
      BY <1>2, <3>1 DEF ReadSection
    <3> HIDE DEF before
    <3> QED BY <3>2, <3>3, OverlaidLasts
  <2> QED BY <2>1, <2>2
<1>9. Agrees(f, x, m)
  BY <1>2, <1>8 DEF Agrees
<1> QED BY <1>2, <1>5, <1>6, <1>7, <1>9 DEF x

-----------------------------------------------------------------------------
(* Loading.                                                                 *)

Shape(st) ==
  /\ DOMAIN st = {"disk", "broken", "mem", "faulty"}
  /\ DOMAIN st.disk = ConfFiles /\ DOMAIN st.broken = ConfFiles

(* loadConf() of file f makes n of the state st.                            *)
LoadsTo(f, st, ok, move, n) ==
  /\ Shape(n)
  /\ \A g \in ConfFiles : g # f => n.disk[g] = st.disk[g] /\ n.broken[g] = st.broken[g]
  /\ IsRead(st.disk[f]) =>
       /\ n.disk[f] = st.disk[f] /\ n.broken[f] = st.broken[f] /\ n.faulty = st.faulty
       /\ LET merged == Merge(f, st.mem, st.disk[f].sections)
          IN  n.mem = IF Migrates(st.disk[f])
                      THEN [merged EXCEPT !["main"] = SetOne("main", merged["main"], "webMode", "tv")]
                      ELSE merged
  /\ ~IsRead(st.disk[f]) =>
       /\ n.mem = st.mem
       /\ n.broken[f] \in {st.disk[f], st.broken[f], NoFile}
       /\ move = "moved" => n.broken[f] = st.disk[f]
       /\ n.disk[f] = IF ok THEN Saved(f, st.mem)
                      ELSE IF move = "moved" THEN NoFile ELSE st.disk[f]
       /\ n.faulty = IF ok THEN st.faulty \ {f} ELSE st.faulty \cup {f}

LEMMA LoadConfIs ==
  ASSUME NEW f \in ConfFiles, NEW st, Shape(st), NEW ok \in BOOLEAN, NEW move \in Moves
  PROVE  LoadsTo(f, st, ok, move, LoadConf(f, st, ok, move))
<1> DEFINE n == LoadConf(f, st, ok, move)
<1> SUFFICES LoadsTo(f, st, ok, move, n)
  OBVIOUS
<1> DEFINE merged == Merge(f, st.mem, st.disk[f].sections)
           whole  == [merged EXCEPT !["main"] = SetOne("main", merged["main"], "webMode", "tv")]
<1>1. CASE Migrates(st.disk[f])
  <2>1. IsRead(st.disk[f])
    BY <1>1 DEF IsRead
  <2>2. n = [st EXCEPT !.mem = whole]
    BY <1>1 DEF LoadConf
  <2> HIDE DEF whole, n
  <2>3. /\ Shape(n) /\ n.mem = whole
        /\ n.disk = st.disk /\ n.broken = st.broken /\ n.faulty = st.faulty
    BY <2>2 DEF Shape
  <2> QED BY <1>1, <2>1, <2>3 DEF whole, LoadsTo
<1>2. CASE ~Migrates(st.disk[f]) /\ IsRead(st.disk[f])
  <2>2. n = [st EXCEPT !.mem = merged]
    BY <1>2 DEF LoadConf
  <2> HIDE DEF merged, n
  <2>3. /\ Shape(n) /\ n.mem = merged
        /\ n.disk = st.disk /\ n.broken = st.broken /\ n.faulty = st.faulty
    BY <2>2 DEF Shape
  <2> QED BY <1>2, <2>3 DEF merged, LoadsTo
<1>3. CASE ~IsRead(st.disk[f])
  <2> DEFINE v == MovedAway(f, st, move)
             s == Saved(f, st.mem)
  <2>1. /\ Shape(v) /\ v.mem = st.mem /\ v.faulty = st.faulty
        /\ v.disk[f] = IF move = "moved" THEN NoFile ELSE st.disk[f]
        /\ v.broken[f] \in {st.disk[f], st.broken[f], NoFile}
        /\ move = "moved" => v.broken[f] = st.disk[f]
        /\ \A g \in ConfFiles : g # f => v.disk[g] = st.disk[g] /\ v.broken[g] = st.broken[g]
    <3>1. CASE move = "moved"
      <4>1. v = [st EXCEPT !.broken[f] = st.disk[f], !.disk[f] = NoFile]
        BY <3>1 DEF MovedAway
      <4> HIDE DEF v
      <4> QED BY <3>1, <4>1 DEF Shape
    <3>2. CASE move = "kept"
      <4>1. v = st
        BY <3>2 DEF MovedAway
      <4> HIDE DEF v
      <4> QED BY <3>2, <4>1 DEF Shape
    <3>3. CASE move = "removed"
      <4>1. v = [st EXCEPT !.broken[f] = NoFile]
        BY <3>3 DEF MovedAway
      <4> HIDE DEF v
      <4> QED BY <3>3, <4>1 DEF Shape
    <3> QED BY <3>1, <3>2, <3>3 DEF Moves
  <2>2. n = Save(f, st.mem, v, ok)
    BY <1>3 DEF LoadConf, IsRead
  <2> HIDE DEF v, n
  <2>3. CASE ok
    <3>1. n = [v EXCEPT !.disk[f] = s, !.faulty = @ \ {f}]
      BY <2>2, <2>3 DEF Save
    <3> HIDE DEF s
    <3>2. /\ Shape(n) /\ n.mem = v.mem /\ n.broken = v.broken /\ n.faulty = v.faulty \ {f}
          /\ n.disk[f] = s /\ \A g \in ConfFiles : g # f => n.disk[g] = v.disk[g]
      BY <2>1, <3>1 DEF Shape
    <3> QED BY <1>3, <2>1, <2>3, <3>2 DEF s, LoadsTo
  <2>4. CASE ~ok
    <3>1. n = [v EXCEPT !.faulty = @ \cup {f}]
      BY <2>2, <2>4 DEF Save
    <3>2. /\ Shape(n) /\ n.mem = v.mem /\ n.broken = v.broken /\ n.faulty = v.faulty \cup {f}
          /\ n.disk = v.disk
      BY <2>1, <3>1 DEF Shape
    <3> QED BY <1>3, <2>1, <2>4, <3>2 DEF LoadsTo
  <2> QED BY <2>3, <2>4
<1> QED BY <1>1, <1>2, <1>3

(* What a file is loaded into: its sections have their defaults.            *)
Ready(f, st) ==
  /\ Shape(st) /\ Whole(st.mem) /\ DOMAIN st.mem = Described
  /\ \A s \in Described : FileOf(s) = f => st.mem[s] = Defaults(s)
  /\ st.faulty \subseteq ConfFiles
  /\ \A g \in ConfFiles : IsFile(st.disk[g]) /\ IsFile(st.broken[g]) /\ HoldsOwn(g, st.disk[g])

LEMMA MergeFacts ==
  ASSUME NEW f \in ConfFiles, NEW m, NEW x, IsRead(x), HoldsOwn(f, x),
         Whole(m), DOMAIN m = Described, \A s \in Described : FileOf(s) = f => m[s] = Defaults(s)
  PROVE  LET n == Merge(f, m, x.sections)
         IN  /\ Whole(n)
             /\ \A s : s \in DOMAIN n <=>
                         s \in Described \/ (f = "storage" /\ s \in DOMAIN x.sections)
             /\ \A s \in Described : FileOf(s) # f => n[s] = m[s]
             /\ \A s \in DOMAIN n :
                  FileOf(s) = f =>
                    n[s] = LET before == IF s \in Described THEN Defaults(s) ELSE Empty
                           IN  IF s \in DOMAIN x.sections THEN Overlaid(before, x.sections[s]) ELSE before
<1> DEFINE c == x.sections
           wanted == {s \in DOMAIN c : s \in DOMAIN m \/ f = "storage"}
           before(s) == IF s \in DOMAIN m THEN m[s] ELSE Empty
           n == Merge(f, m, c)
<1>1. DOMAIN n = Described \cup wanted
  BY DEF Merge
<1>2. \A s \in DOMAIN n : n[s] = IF s \in wanted THEN Overlaid(before(s), c[s]) ELSE m[s]
  BY DEF Merge
<1> HIDE DEF n
<1>3. \A s \in wanted : FileOf(s) = f
  BY SectionFacts DEF HoldsOwn
<1>4. \A s \in wanted : s \in Described \cup NewSections
  BY DEF HoldsOwn
<1>5. \A s \in wanted : DOMAIN c[s] \subseteq Keys(s) \cup NewKeys
  BY <1>4 DEF HoldsOwn
<1>6. \A s \in wanted : DOMAIN Overlaid(before(s), c[s]) = DOMAIN before(s) \cup (DOMAIN c[s] \ {"index"})
  BY DEF Overlaid
<1>7. \A s \in wanted : DOMAIN before(s) = IF s \in Described THEN DOMAIN m[s] ELSE {}
  BY EmptyIsEmpty
<1> HIDE DEF before
<1>8. Whole(n)
  <2>1. DOMAIN n \subseteq Described \cup NewSections /\ Described \subseteq DOMAIN n
    BY <1>1, <1>4
  <2>2. ASSUME NEW s \in DOMAIN n
        PROVE  DOMAIN n[s] \subseteq Keys(s) \cup NewKeys
    <3>1. CASE s \in wanted
      BY <1>2, <1>5, <1>6, <1>7, <3>1 DEF Whole, Sections
    <3>2. CASE s \notin wanted
      BY <1>1, <1>2, <3>2 DEF Whole, Sections
    <3> QED BY <3>1, <3>2
  <2>3. ASSUME NEW s \in Described
        PROVE  Keys(s) \subseteq DOMAIN n[s]
    <3>1. CASE s \in wanted
      BY <1>1, <1>2, <1>6, <1>7, <3>1 DEF Whole
    <3>2. CASE s \notin wanted
      BY <1>1, <1>2, <3>2 DEF Whole
    <3> QED BY <3>1, <3>2
  <2> QED BY <2>1, <2>2, <2>3 DEF Whole, Sections
<1>9. \A s : s \in DOMAIN n <=> s \in Described \/ (f = "storage" /\ s \in DOMAIN c)
  BY <1>1
<1>10. \A s \in Described : FileOf(s) # f => n[s] = m[s]
  BY <1>1, <1>2, <1>3
<1>11. ASSUME NEW s \in DOMAIN n, FileOf(s) = f
       PROVE  n[s] = LET b == IF s \in Described THEN Defaults(s) ELSE Empty
                     IN  IF s \in DOMAIN c THEN Overlaid(b, c[s]) ELSE b
  <2>1. before(s) = IF s \in Described THEN Defaults(s) ELSE Empty
    BY <1>11 DEF before
  <2>2. s \in wanted <=> s \in DOMAIN c
    BY <1>1, <1>11, SectionFacts
  <2>3. s \notin wanted => s \in Described
    BY <1>1
  <2> QED BY <1>2, <1>11, <2>1, <2>2, <2>3
<1> QED BY <1>8, <1>9, <1>10, <1>11 DEF n

(* What setValue() makes of a section.                                      *)
LEMMA SetOneFacts ==
  ASSUME NEW s, NEW old, NEW k, NEW v, Keys(s) \subseteq DOMAIN old
  PROVE  /\ Keys(s) \subseteq DOMAIN SetOne(s, old, k, v)
         /\ DOMAIN SetOne(s, old, k, v) \subseteq DOMAIN old \cup {k}
<1> DEFINE map == [j \in DOMAIN old \cup {k} |-> IF j = k THEN v ELSE old[j]]
<1>1. DOMAIN SetAll(s, old, map) = Keys(s) \cup DOMAIN map
  BY DEF SetAll
<1>2. DOMAIN map = DOMAIN old \cup {k}
  OBVIOUS
<1>3. SetOne(s, old, k, v) = IF k = "index" THEN old ELSE SetAll(s, old, map)
  BY DEF SetOne
<1> HIDE DEF map
<1> QED BY <1>1, <1>2, <1>3

(* What is known of it then.                                                *)
LoadedOne(f, st, ok, move, n) ==
  /\ Shape(n) /\ Whole(n.mem) /\ n.faulty \subseteq ConfFiles
  /\ f = "conf" => DOMAIN n.mem = Described
  /\ \A g \in ConfFiles : IsFile(n.disk[g]) /\ IsFile(n.broken[g]) /\ HoldsOwn(g, n.disk[g])
  /\ \A g \in ConfFiles : g # f => /\ n.disk[g] = st.disk[g] /\ n.broken[g] = st.broken[g]
                                   /\ g \in n.faulty <=> g \in st.faulty
  /\ IsRead(st.disk[f]) => n.disk[f] = st.disk[f]
  /\ IsRead(st.disk[f]) \/ ok => f \notin n.faulty \/ f \in st.faulty
  /\ n.disk[f] = NoFile \/ IsRead(n.disk[f]) \/ (move # "moved" /\ n.disk[f] = st.disk[f])
  /\ n.disk[f] # st.disk[f] => n.broken[f] = st.disk[f] \/ move # "moved"
  /\ Migrates(n.disk[f]) => Migrates(st.disk[f])
  /\ f = "storage" /\ ~Migrates(st.disk[f]) =>
       \A s \in Described : FileOf(s) # f => n.mem[s] = st.mem[s]
  /\ f = "conf" => \A s \in Described : FileOf(s) # f => n.mem[s] = st.mem[s]
  /\ f \notin n.faulty => Agrees(f, n.disk[f], n.mem)

LEMMA LoadConfFacts ==
  ASSUME NEW f \in ConfFiles, NEW st, Ready(f, st), NEW ok \in BOOLEAN, NEW move \in Moves
  PROVE  LoadedOne(f, st, ok, move, LoadConf(f, st, ok, move))
<1> DEFINE n == LoadConf(f, st, ok, move)
<1> SUFFICES LoadedOne(f, st, ok, move, n)
  OBVIOUS
<1> DEFINE x == st.disk[f]
<1>0. LoadsTo(f, st, ok, move, n)
  <2>1. Shape(st)
    BY DEF Ready
  <2> QED BY <2>1, LoadConfIs
<1> HIDE DEF n
<1>1. /\ Shape(n)
      /\ \A g \in ConfFiles : g # f => n.disk[g] = st.disk[g] /\ n.broken[g] = st.broken[g]
  BY <1>0 DEF LoadsTo
<1>2. CASE IsRead(x)
  <2> DEFINE m == Merge(f, st.mem, x.sections)
  <2>1. /\ n.disk[f] = x /\ n.broken[f] = st.broken[f] /\ n.faulty = st.faulty
        /\ n.mem = IF Migrates(x) THEN [m EXCEPT !["main"] = SetOne("main", m["main"], "webMode", "tv")] ELSE m
    BY <1>0, <1>2 DEF LoadsTo
  <2>2. /\ Whole(m)
        /\ \A s : s \in DOMAIN m <=> s \in Described \/ (f = "storage" /\ s \in DOMAIN x.sections)
        /\ \A s \in Described : FileOf(s) # f => m[s] = st.mem[s]
        /\ \A s \in DOMAIN m :
             FileOf(s) = f =>
               m[s] = LET before == IF s \in Described THEN Defaults(s) ELSE Empty
                      IN  IF s \in DOMAIN x.sections THEN Overlaid(before, x.sections[s]) ELSE before
    BY <1>2, MergeFacts DEF Ready
  <2> DEFINE one == SetOne("main", m["main"], "webMode", "tv")
  <2>3. /\ DOMAIN n.mem = DOMAIN m
        /\ n.mem["main"] = IF Migrates(x) THEN one ELSE m["main"]
        /\ \A s \in DOMAIN m : s # "main" => n.mem[s] = m[s]
    <3>1. "main" \in DOMAIN m
      BY <2>2, SectionFacts
    <3> HIDE DEF m, one
    <3> QED BY <2>1, <3>1 DEF one
  <2>4. Keys("main") \subseteq DOMAIN one /\ DOMAIN one \subseteq Keys("main") \cup NewKeys
    <3>1. /\ Keys("main") \subseteq DOMAIN m["main"] /\ DOMAIN m["main"] \subseteq Keys("main") \cup NewKeys
          /\ "webMode" \in Keys("main")
      BY <2>2, SectionFacts, DescriptionAssumption DEF Whole, Sections
    <3> HIDE DEF m
    <3> QED BY <3>1, SetOneFacts
  <2> HIDE DEF m, one
  <2>5. Whole(n.mem)
    BY <2>2, <2>3, <2>4 DEF Whole, Sections
  <2>6. Agrees(f, x, n.mem)
    <3>1. ASSUME NEW s \in Described \cup NewSections, FileOf(s) = f
          PROVE  /\ s \in DOMAIN n.mem <=> s \in Described \/ s \in DOMAIN x.sections
                 /\ s \in DOMAIN n.mem => n.mem[s] = ReadSection(x, s)
      <4>1. s \in DOMAIN n.mem <=> s \in Described \/ s \in DOMAIN x.sections
        BY <2>2, <2>3, <3>1, SectionFacts
      <4>2. ASSUME s \in DOMAIN n.mem
            PROVE  n.mem[s] = ReadSection(x, s)
        <5>1. m[s] = LET before == IF s \in Described THEN Defaults(s) ELSE Empty
                     IN  IF s \in DOMAIN x.sections THEN Overlaid(before, x.sections[s]) ELSE before
          BY <2>2, <2>3, <3>1, <4>2
        <5>2. CASE s = "main" /\ Migrates(x)
          BY <2>3, <5>1, <5>2 DEF ReadSection, one
        <5>3. CASE ~(s = "main" /\ Migrates(x))
          BY <2>3, <4>2, <5>1, <5>3 DEF ReadSection
        <5> QED BY <5>2, <5>3
      <4> QED BY <4>1, <4>2
    <3> QED BY <1>2, <3>1 DEF Agrees
  <2>7. f = "conf" => DOMAIN n.mem = Described
    BY <2>2, <2>3
  <2>8. f = "conf" \/ ~Migrates(x) => \A s \in Described : FileOf(s) # f => n.mem[s] = st.mem[s]
    BY <2>2, <2>3, SectionFacts
  <2>9. \A g \in ConfFiles : IsFile(n.disk[g]) /\ IsFile(n.broken[g]) /\ HoldsOwn(g, n.disk[g])
    BY <1>1, <2>1 DEF Ready
  <2>10. n.faulty \subseteq ConfFiles
    BY <2>1 DEF Ready
  <2> QED BY <1>1, <1>2, <2>1, <2>5, <2>6, <2>7, <2>8, <2>9, <2>10 DEF LoadedOne
<1>3. CASE ~IsRead(x)
  <2>1. /\ n.mem = st.mem
        /\ n.broken[f] \in {x, st.broken[f], NoFile}
        /\ move = "moved" => n.broken[f] = x
        /\ n.disk[f] = IF ok THEN Saved(f, st.mem) ELSE IF move = "moved" THEN NoFile ELSE x
        /\ n.faulty = IF ok THEN st.faulty \ {f} ELSE st.faulty \cup {f}
    BY <1>0, <1>3 DEF LoadsTo
  <2>2. ~IsRead(NoFile) /\ ~Migrates(NoFile) /\ IsFile(NoFile) /\ HoldsOwn(f, NoFile)
    BY SectionFacts DEF IsRead, Migrates, VersionOf, NoFile, IsFile, HoldsOwn
  <2>3. LET y == Saved(f, st.mem)
        IN  /\ IsRead(y) /\ ~Migrates(y) /\ IsFile(y) /\ HoldsOwn(f, y) /\ Agrees(f, y, st.mem)
    BY SavedFacts DEF Ready
  <2>4. \A g \in ConfFiles : IsFile(n.disk[g]) /\ IsFile(n.broken[g]) /\ HoldsOwn(g, n.disk[g])
    BY <1>1, <2>1, <2>2, <2>3 DEF Ready
  <2>5. /\ Whole(st.mem) /\ DOMAIN st.mem = Described /\ st.faulty \subseteq ConfFiles
    BY DEF Ready
  <2>6. n.faulty \subseteq ConfFiles
    BY <2>1, <2>5
  <2>7. f \notin n.faulty => Agrees(f, n.disk[f], n.mem)
    BY <2>1, <2>3
  <2>8. /\ ~Migrates(n.disk[f])
        /\ n.disk[f] = NoFile \/ IsRead(n.disk[f]) \/ (move # "moved" /\ n.disk[f] = x)
    BY <1>3, <2>1, <2>2, <2>3 DEF IsRead
  <2>9. ok => f \notin n.faulty
    BY <2>1
  <2>10. \A g \in ConfFiles : g # f => (g \in n.faulty <=> g \in st.faulty)
    BY <2>1
  <2> QED BY <1>1, <1>3, <2>1, <2>4, <2>5, <2>6, <2>7, <2>8, <2>9, <2>10 DEF LoadedOne
<1> QED BY <1>2, <1>3

LEMMA AgreesWithSame ==
  ASSUME NEW f, NEW x, NEW m, NEW n, Agrees(f, x, m),
         \A s \in Described \cup NewSections :
           FileOf(s) = f => /\ s \in DOMAIN m <=> s \in DOMAIN n
                            /\ s \in DOMAIN m => m[s] = n[s]
  PROVE  Agrees(f, x, n)
BY DEF Agrees

(* load() makes n of the files d.                                           *)
LoadedAll(d, ok, moves, n) ==
  /\ DOMAIN n.disk = ConfFiles /\ DOMAIN n.broken = ConfFiles
  /\ Whole(n.mem) /\ n.faulty \subseteq ConfFiles
  /\ ok => n.faulty = {}
  /\ \A f \in ConfFiles :
       /\ IsFile(n.disk[f]) /\ IsFile(n.broken[f]) /\ HoldsOwn(f, n.disk[f])
       /\ n.disk[f] = NoFile \/ IsRead(n.disk[f]) \/ (moves[f] # "moved" /\ n.disk[f] = d[f])
       /\ IsRead(d[f]) => n.disk[f] = d[f]
       /\ n.disk[f] # d[f] => n.broken[f] = d[f] \/ moves[f] # "moved"
       /\ Migrates(n.disk[f]) => Migrates(d[f])
       /\ ~Migrates(d["storage"]) /\ f \notin n.faulty => Agrees(f, n.disk[f], n.mem)

LEMMA LoadFacts ==
  ASSUME NEW d, NEW b, DOMAIN d = ConfFiles, DOMAIN b = ConfFiles, NEW ok \in BOOLEAN,
         NEW moves \in [ConfFiles -> Moves],
         \A f \in ConfFiles : IsFile(d[f]) /\ IsFile(b[f]) /\ HoldsOwn(f, d[f])
  PROVE  LoadedAll(d, ok, moves,
                   Load([disk |-> d, broken |-> b, mem |-> Fresh, faulty |-> {}], ok, moves))
<1> DEFINE st == [disk |-> d, broken |-> b, mem |-> Fresh, faulty |-> {}]
           u  == LoadConf("conf", st, ok, moves["conf"])
           n  == LoadConf("storage", u, ok, moves["storage"])
<1>0. moves["conf"] \in Moves /\ moves["storage"] \in Moves
  BY SectionFacts
<1>1. /\ Shape(st) /\ st.disk = d /\ st.broken = b /\ st.mem = Fresh /\ st.faulty = {}
  BY DEF Shape
<1> HIDE DEF st
<1>2. Ready("conf", st)
  BY <1>1, FreshIsWhole DEF Ready
<1>3. LoadedOne("conf", st, ok, moves["conf"], u)
  BY <1>0, <1>2, LoadConfFacts, SectionFacts
<1> HIDE DEF u
<1>4. ConfFiles = {"conf", "storage"} /\ "conf" # "storage"
  BY DEF ConfFiles
<1>5. /\ Shape(u) /\ Whole(u.mem) /\ DOMAIN u.mem = Described /\ u.faulty \subseteq ConfFiles
      /\ \A g \in ConfFiles : IsFile(u.disk[g]) /\ IsFile(u.broken[g]) /\ HoldsOwn(g, u.disk[g])
      /\ u.disk["storage"] = d["storage"] /\ u.broken["storage"] = b["storage"]
      /\ "storage" \notin u.faulty
      /\ IsRead(d["conf"]) => u.disk["conf"] = d["conf"]
      /\ ok => "conf" \notin u.faulty
      /\ u.disk["conf"] = NoFile \/ IsRead(u.disk["conf"])
           \/ (moves["conf"] # "moved" /\ u.disk["conf"] = d["conf"])
      /\ u.disk["conf"] # d["conf"] => u.broken["conf"] = d["conf"] \/ moves["conf"] # "moved"
      /\ Migrates(u.disk["conf"]) => Migrates(d["conf"])
      /\ \A s \in Described : FileOf(s) # "conf" => u.mem[s] = Fresh[s]
      /\ "conf" \notin u.faulty => Agrees("conf", u.disk["conf"], u.mem)
  BY <1>1, <1>3, <1>4 DEF LoadedOne
<1>6. Ready("storage", u)
  <2>1. \A s \in Described : FileOf(s) = "storage" => u.mem[s] = Defaults(s)
    BY <1>4, <1>5, FreshIsWhole
  <2> QED BY <1>5, <2>1 DEF Ready
<1>7. LoadedOne("storage", u, ok, moves["storage"], n)
  BY <1>0, <1>6, LoadConfFacts, SectionFacts
<1>8. Load(st, ok, moves) = n
  BY DEF Load, u
<1> HIDE DEF n
<1>9. /\ Shape(n) /\ Whole(n.mem) /\ n.faulty \subseteq ConfFiles
      /\ \A g \in ConfFiles : IsFile(n.disk[g]) /\ IsFile(n.broken[g]) /\ HoldsOwn(g, n.disk[g])
      /\ n.disk["conf"] = u.disk["conf"] /\ n.broken["conf"] = u.broken["conf"]
      /\ "conf" \in n.faulty <=> "conf" \in u.faulty
      /\ IsRead(d["storage"]) => n.disk["storage"] = d["storage"]
      /\ ok => "storage" \notin n.faulty
      /\ n.disk["storage"] = NoFile \/ IsRead(n.disk["storage"])
           \/ (moves["storage"] # "moved" /\ n.disk["storage"] = d["storage"])
      /\ n.disk["storage"] # d["storage"] => n.broken["storage"] = d["storage"] \/ moves["storage"] # "moved"
      /\ Migrates(n.disk["storage"]) => Migrates(d["storage"])
      /\ ~Migrates(d["storage"]) => \A s \in Described : FileOf(s) # "storage" => n.mem[s] = u.mem[s]
      /\ "storage" \notin n.faulty => Agrees("storage", n.disk["storage"], n.mem)
  BY <1>4, <1>5, <1>7 DEF LoadedOne
<1>10. ASSUME ~Migrates(d["storage"]), "conf" \notin n.faulty
       PROVE  Agrees("conf", n.disk["conf"], n.mem)
  <2>1. \A s \in Described \cup NewSections :
          FileOf(s) = "conf" => /\ s \in DOMAIN u.mem <=> s \in DOMAIN n.mem
                                /\ s \in DOMAIN u.mem => u.mem[s] = n.mem[s]
    BY <1>4, <1>5, <1>9, <1>10, SectionFacts DEF Whole
  <2> QED BY <1>5, <1>9, <1>10, <2>1, AgreesWithSame
<1>11. LoadedAll(d, ok, moves, n)
  <2>1. DOMAIN n.disk = ConfFiles /\ DOMAIN n.broken = ConfFiles
    BY <1>9 DEF Shape
  <2>2. ok => n.faulty = {}
    BY <1>4, <1>5, <1>9
  <2>3. ASSUME NEW f \in ConfFiles
        PROVE  /\ n.disk[f] = NoFile \/ IsRead(n.disk[f]) \/ (moves[f] # "moved" /\ n.disk[f] = d[f])
               /\ IsRead(d[f]) => n.disk[f] = d[f]
               /\ n.disk[f] # d[f] => n.broken[f] = d[f] \/ moves[f] # "moved"
               /\ Migrates(n.disk[f]) => Migrates(d[f])
               /\ ~Migrates(d["storage"]) /\ f \notin n.faulty => Agrees(f, n.disk[f], n.mem)
    <3>1. CASE f = "conf"
      BY <1>5, <1>9, <1>10, <3>1
    <3>2. CASE f = "storage"
      BY <1>9, <3>2
    <3> QED BY <1>4, <3>1, <3>2
  <2> QED BY <1>9, <2>1, <2>2, <2>3 DEF LoadedAll
<1> QED BY <1>8, <1>11 DEF st

(* Two memories that agree with the files are the same to the next start.   *)
LEMMA ReloadsTheSame ==
  ASSUME NEW d, DOMAIN d = ConfFiles, \A f \in ConfFiles : IsFile(d[f]) /\ HoldsOwn(f, d[f]),
         ~Migrates(d["storage"]),
         NEW m, Whole(m), \A f \in ConfFiles : Agrees(f, d[f], m)
  PROVE  Lasting(Reloaded(d)) = Lasting(m)
<1> DEFINE moves == [f \in ConfFiles |-> "moved"]
           n == Load([disk |-> d, broken |-> d, mem |-> Fresh, faulty |-> {}], TRUE, moves)
           r == Reloaded(d)
<1>1. LoadedAll(d, TRUE, moves, n)
  <2>1. moves \in [ConfFiles -> Moves]
    BY DEF Moves
  <2> HIDE DEF moves
  <2> QED BY <2>1, LoadFacts
<1>2. r = n.mem
  BY DEF Reloaded
<1> HIDE DEF n, r, moves
<1>3. \A f \in ConfFiles : IsRead(d[f])
  BY DEF Agrees
<1>4. Whole(r) /\ \A f \in ConfFiles : Agrees(f, d[f], r)
  BY <1>1, <1>2, <1>3 DEF LoadedAll
<1>5. ASSUME NEW s \in Described \cup NewSections
      PROVE  /\ s \in DOMAIN m <=> s \in DOMAIN r
             /\ s \in DOMAIN m => LastingOf(m[s]) = LastingOf(r[s])
  <2>1. PICK f \in ConfFiles : FileOf(s) = f
    BY SectionFacts
  <2>2. Agrees(f, d[f], r) /\ Agrees(f, d[f], m)
    BY <1>4
  <2> QED BY <2>1, <2>2 DEF Agrees
<1>6. DOMAIN m = DOMAIN r
  <2>1. DOMAIN m \subseteq Described \cup NewSections
    BY DEF Whole, Sections
  <2>2. DOMAIN r \subseteq Described \cup NewSections
    BY <1>4 DEF Whole, Sections
  <2> QED BY <1>5, <2>1, <2>2
<1>7. \A s \in DOMAIN m : LastingOf(m[s]) = LastingOf(r[s])
  BY <1>5 DEF Whole, Sections
<1>8. [s \in DOMAIN m |-> LastingOf(m[s])] = [s \in DOMAIN r |-> LastingOf(r[s])]
  BY <1>6, <1>7
<1> QED BY <1>8 DEF Lasting, r

-----------------------------------------------------------------------------
(* What is shown.                                                           *)

LEMMA InAudioFacts ==
  ASSUME NEW K
  PROVE  /\ \A s, k : <<s, k>> \in InAudio(K) <=> s = "audio" /\ k \in K
         /\ \A p \in InAudio(K) : p = <<"audio", p[2]>> /\ p[2] \in K
BY DEF InAudio

LEMMA PassthroughFacts ==
  /\ Passthrough \subseteq Keys("audio") /\ PassthroughSpdif \subseteq Passthrough
  /\ "channels" \notin Passthrough
<1>1. "channels" \notin PassthroughSpdif
  BY DEF PassthroughSpdif
<1>2. "channels" \notin {"passthrough.eac3", "passthrough.dts-hd", "passthrough.truehd"}
  OBVIOUS
<1>3. PassthroughSpdif \subseteq Keys("audio")
  BY DEF PassthroughSpdif
<1> QED BY <1>1, <1>2, <1>3 DEF Passthrough

AudioPairs == InAudio(Passthrough \cup {"channels"})

(* The audio settings h show what the type asks for.                        *)
ShowsType(type, h) ==
  LET hid == AudioPairs \cap h
  IN  /\ type = "basic" => hid = InAudio(Passthrough)
      /\ type = "hdmi"  => hid = {}
      /\ type = "spdif" => hid = InAudio((Passthrough \ PassthroughSpdif) \cup {"channels"})

LEMMA HiddenByTypeFacts ==
  ASSUME NEW h, h \subseteq Pairs, NEW type
  PROVE  /\ HiddenByType(type, h) \subseteq Pairs
         /\ ShowsType(type, HiddenByType(type, h))
         /\ \A s, k : s # "audio" => (<<s, k>> \in HiddenByType(type, h) <=> <<s, k>> \in h)
<1> DEFINE C == {"channels"}
           P == Passthrough
           S == PassthroughSpdif
           g == HiddenByType(type, h)
           shown == h \ InAudio(C)
<1>1. /\ type = "basic" => g = shown \cup InAudio(P)
      /\ type = "hdmi"  => g = shown \ InAudio(P)
      /\ type = "spdif" => g = ((shown \cup InAudio(P)) \ InAudio(S)) \cup InAudio(C)
      /\ type \notin {"basic", "hdmi", "spdif"} => g = shown
  BY DEF HiddenByType
<1>2. S \subseteq P /\ "channels" \notin P /\ P \cup C \subseteq Keys("audio")
  BY PassthroughFacts, DescriptionAssumption
<1> HIDE DEF g, P, S, C
<1>3. \A K : K \subseteq Keys("audio") => InAudio(K) \subseteq Pairs
  <2> SUFFICES ASSUME NEW K, K \subseteq Keys("audio"), NEW p \in InAudio(K)
               PROVE  p \in Pairs
    OBVIOUS
  <2>1. p = <<"audio", p[2]>> /\ p[2] \in Keys("audio")
    BY InAudioFacts
  <2>2. "audio" \in Described
    BY SectionFacts
  <2>3. p[2] \in UNION {Keys(t) : t \in Described}
    BY <2>1, <2>2
  <2>4. p \in Described \X UNION {Keys(t) : t \in Described} /\ p[1] = "audio"
    BY <2>1, <2>2, <2>3
  <2> QED BY <2>1, <2>4 DEF Pairs
<1>4. InAudio(P) \subseteq Pairs /\ InAudio(C) \subseteq Pairs
  BY <1>2, <1>3
<1>5. g \subseteq Pairs
  BY <1>1, <1>4
<1>6. ASSUME NEW s, NEW k, s # "audio"
      PROVE  <<s, k>> \in g <=> <<s, k>> \in h
  <2>1. <<s, k>> \notin InAudio(P) /\ <<s, k>> \notin InAudio(S) /\ <<s, k>> \notin InAudio(C)
    BY <1>6, InAudioFacts
  <2> QED BY <1>1, <2>1
<1>7. InAudio(P) \cap InAudio(C) = {}
  BY <1>2, InAudioFacts DEF C
<1>8. InAudio(P \cup C) = InAudio(P) \cup InAudio(C)
  BY DEF InAudio
<1>9. InAudio((P \ S) \cup C) = (InAudio(P) \ InAudio(S)) \cup InAudio(C)
  BY DEF InAudio
<1>10. InAudio(S) \subseteq InAudio(P)
  BY <1>2 DEF InAudio
<1>11. /\ type = "basic" => InAudio(P \cup C) \cap g = InAudio(P)
       /\ type = "hdmi"  => InAudio(P \cup C) \cap g = {}
       /\ type = "spdif" => InAudio(P \cup C) \cap g = InAudio((P \ S) \cup C)
  BY <1>1, <1>7, <1>8, <1>9, <1>10
<1> QED BY <1>5, <1>6, <1>11 DEF ShowsType, AudioPairs, g, P, S, C

LEMMA TypeIsFollowed ==
  HiddenFollowsType <=> (Alive => ShowsType(mem["audio"]["devicetype"], hidden))
BY DEF HiddenFollowsType, ShowsType, AudioPairs

LEMMA SameDescriptions ==
  ASSUME NEW s, NEW h, NEW g, NEW o
  PROVE  /\ (\A k : <<s, k>> \in h <=> <<s, k>> \in g) => Descriptions(s, h, o) = Descriptions(s, g, o)
         /\ \A q : s # "main" => Descriptions(s, h, o) = Descriptions(s, h, q)
<1>1. ASSUME \A k : <<s, k>> \in h <=> <<s, k>> \in g
      PROVE  Descriptions(s, h, o) = Descriptions(s, g, o)
  <2> DEFINE Of(x) == {q \in Keys(s) : <<s, q>> \notin x /\ OnPlatform(Value(s, q).platforms)}
  <2>1. Of(h) = Of(g)
    BY <1>1
  <2>2. \A x : Descriptions(s, x, o) = [k \in Of(x) |-> Possible(s, k, o)]
    BY DEF Descriptions
  <2> HIDE DEF Of
  <2> QED BY <2>1, <2>2
<1>2. ASSUME NEW q, s # "main"
      PROVE  Descriptions(s, h, o) = Descriptions(s, h, q)
  <2>1. \A k : Possible(s, k, o) = Possible(s, k, q)
    BY <1>2 DEF Possible
  <2> DEFINE D == {k \in Keys(s) : <<s, k>> \notin h /\ OnPlatform(Value(s, k).platforms)}
  <2>2. Descriptions(s, h, o) = [k \in D |-> Possible(s, k, o)]
        /\ Descriptions(s, h, q) = [k \in D |-> Possible(s, k, q)]
    BY DEF Descriptions
  <2> HIDE DEF D
  <2> QED BY <2>1, <2>2
<1> QED BY <1>1, <1>2

(* One section of a view.                                                   *)
Redrawn(v, s, d) == [v EXCEPT ![s] = d]

LEMMA ViewChanges ==
  ASSUME NEW h, NEW o, NEW g, NEW q, NEW s,
         \A t : t # s => Descriptions(t, h, o) = Descriptions(t, g, q)
  PROVE  /\ Redrawn(AllDescriptions(h, o), s, Descriptions(s, g, q)) = AllDescriptions(g, q)
         /\ Descriptions(s, h, o) = Descriptions(s, g, q) => AllDescriptions(h, o) = AllDescriptions(g, q)
<1> DEFINE D == {t \in Described : ~Section(t).hidden /\ OnPlatform(Section(t).platforms)}
<1>1. /\ AllDescriptions(h, o) = [t \in D |-> Descriptions(t, h, o)]
      /\ AllDescriptions(g, q) = [t \in D |-> Descriptions(t, g, q)]
  BY DEF AllDescriptions
<1> HIDE DEF D
<1>2. [[t \in D |-> Descriptions(t, h, o)] EXCEPT ![s] = Descriptions(s, g, q)]
        = [t \in D |-> Descriptions(t, g, q)]
  OBVIOUS
<1>3. Redrawn([t \in D |-> Descriptions(t, h, o)], s, Descriptions(s, g, q))
        = [t \in D |-> Descriptions(t, g, q)]
  BY <1>2 DEF Redrawn
<1> QED BY <1>1, <1>3

LEMMA TellShows ==
  ASSUME NEW m, Whole(m), Whole(mem), Alive, ShownInv, mem' = m, Tell(m), options' = options
  PROVE  ShownInv'
<1> DEFINE told == {s \in Described : Updated(s, mem[s], m[s]) # {}}
<1>1. /\ seen' = [s \in Described |-> IF s \in told THEN [k \in Keys(s) |-> m[s][k]] ELSE seen[s]]
      /\ hidden' = IF "audio" \in told THEN HiddenByType(m["audio"]["devicetype"], hidden) ELSE hidden
      /\ view' = IF view # None
                    /\ Descriptions("audio", hidden', options) # Descriptions("audio", hidden, options)
                 THEN Redrawn(view, "audio", Descriptions("audio", hidden', options))
                 ELSE view
  BY DEF Tell, Redrawn
<1>2. \A s \in Described : s \notin told => \A k \in Keys(s) : m[s][k] = mem[s][k]
  BY DEF Updated, Whole
<1> HIDE DEF told
<1>3. ListenersFollow'
  <2> SUFFICES ASSUME NEW s \in Described, NEW k \in Keys(s)
               PROVE  seen'[s][k] = m[s][k]
    BY DEF ListenersFollow
  <2>1. CASE s \in told
    BY <1>1, <2>1
  <2>2. CASE s \notin told
    <3>1. seen[s][k] = mem[s][k]
      BY DEF ShownInv, ListenersFollow
    <3> QED BY <1>1, <1>2, <2>2, <3>1
  <2> QED BY <2>1, <2>2
<1>4. hidden \subseteq Pairs /\ ShowsType(mem["audio"]["devicetype"], hidden)
  BY TypeIsFollowed DEF ShownInv
<1>5. hidden' \subseteq Pairs /\ ShowsType(m["audio"]["devicetype"], hidden')
  <2>1. CASE "audio" \in told
    BY <1>1, <1>4, <2>1, HiddenByTypeFacts
  <2>2. CASE "audio" \notin told
    <3>1. m["audio"]["devicetype"] = mem["audio"]["devicetype"]
      BY <1>2, <2>2, SectionFacts, DescriptionAssumption
    <3> QED BY <1>1, <1>4, <2>2, <3>1
  <2> QED BY <2>1, <2>2
<1>6. HiddenFollowsType'
  BY <1>5 DEF HiddenFollowsType, ShowsType, AudioPairs
<1>7. \A s, k : s # "audio" => (<<s, k>> \in hidden <=> <<s, k>> \in hidden')
  BY <1>1, <1>4, HiddenByTypeFacts
<1>8. ViewIsCurrent'
  <2> SUFFICES ASSUME view' # None PROVE view' = AllDescriptions(hidden', options')
    BY DEF ViewIsCurrent
  <2>1. \A t : t # "audio" => Descriptions(t, hidden, options) = Descriptions(t, hidden', options)
    BY <1>7, SameDescriptions
  <2>2. /\ Redrawn(AllDescriptions(hidden, options), "audio", Descriptions("audio", hidden', options))
             = AllDescriptions(hidden', options)
        /\ Descriptions("audio", hidden, options) = Descriptions("audio", hidden', options)
             => AllDescriptions(hidden, options) = AllDescriptions(hidden', options)
    <3> DEFINE g == hidden'
    <3>1. \A t : t # "audio" => Descriptions(t, hidden, options) = Descriptions(t, g, options)
      BY <2>1
    <3> HIDE DEF g
    <3>2. /\ Redrawn(AllDescriptions(hidden, options), "audio", Descriptions("audio", g, options))
               = AllDescriptions(g, options)
          /\ Descriptions("audio", hidden, options) = Descriptions("audio", g, options)
               => AllDescriptions(hidden, options) = AllDescriptions(g, options)
      BY <3>1, ViewChanges
    <3> QED BY <3>2 DEF g
  <2>3. view # None => view = AllDescriptions(hidden, options)
    BY DEF ShownInv, ViewIsCurrent
  <2>4. CASE view = None
    BY <1>1, <2>4
  <2>5. CASE view # None
    BY <1>1, <2>2, <2>3, <2>5
  <2> QED BY <2>4, <2>5
<1>9. \E roles \in SUBSET {"plexpass", "ninja", "employee"} : options' = Channels(roles)
  BY DEF ShownInv
<1> QED BY <1>3, <1>5, <1>6, <1>8, <1>9 DEF ShownInv

-----------------------------------------------------------------------------
(* The actions.                                                             *)

(* What an action has to show.                                              *)
Keeps == SettingsInv' /\ OldConfigMovesAway

LEMMA ChangeKeeps ==
  ASSUME SettingsInv, Alive, phase' \in {"starting", "running"},
         NEW m, Whole(m), DOMAIN mem \subseteq DOMAIN m,
         NEW S, \A s \in DOMAIN m : (\A t \in S : FileOf(t) # FileOf(s)) => s \in DOMAIN mem /\ m[s] = mem[s],
         NEW ok \in BOOLEAN, Change(m, S, ok)
  PROVE  Keeps
<1> DEFINE F == {FileOf(s) : s \in S}
<1>1. /\ mem' = m /\ Tell(m) /\ SaveSections(S, m, ok)
      /\ broken' = broken /\ saved' = saved /\ oldest' = oldest /\ options' = options /\ first' = first
      /\ unmoved' = unmoved
  BY DEF Change
<1>2. phase # "off" /\ oldest # None
  BY DEF Alive, SettingsInv, OldestInv
<1>3. /\ disk' = [f \in ConfFiles |-> IF ok /\ f \in F THEN Saved(f, m) ELSE disk[f]]
      /\ faulty' = IF ok THEN faulty \ F ELSE faulty \cup F
  BY <1>1, <1>2 DEF SaveSections
<1>4. F \subseteq ConfFiles
  BY SectionFacts
<1>5. \A s \in DOMAIN m : FileOf(s) \notin F => s \in DOMAIN mem /\ m[s] = mem[s]
  OBVIOUS
<1> HIDE DEF F
<1>6. ShownInv'
  BY <1>1, TellShows DEF SettingsInv, SavedInv
<1>7. \A f \in ConfFiles : /\ IsRead(Saved(f, m)) /\ ~Migrates(Saved(f, m)) /\ IsFile(Saved(f, m))
                           /\ HoldsOwn(f, Saved(f, m)) /\ Agrees(f, Saved(f, m), m)
  BY SavedFacts
<1>8. FilesInv'
  <2>1. DOMAIN disk' = ConfFiles /\ \A f \in ConfFiles : disk'[f] = Saved(f, m) \/ disk'[f] = disk[f]
    BY <1>3
  <2> QED BY <1>1, <1>2, <1>7, <2>1, SectionFacts DEF SettingsInv, FilesInv
<1>9. OldestInv'
  BY <1>1, <1>2 DEF SettingsInv, OldestInv
<1>10. SavedInv'
  <2>1. faulty' \subseteq ConfFiles
    BY <1>3, <1>4 DEF SettingsInv, SavedInv
  <2>2. ASSUME NoOldStorage, NEW f \in ConfFiles \ faulty'
        PROVE  Agrees(f, disk'[f], m)
    <3>1. CASE f \in F
      BY <1>3, <1>7, <2>2, <3>1
    <3>2. CASE f \notin F
      <4>1. f \notin faulty /\ disk'[f] = disk[f]
        BY <1>3, <2>2, <3>2
      <4>2. Agrees(f, disk[f], mem)
        BY <2>2, <4>1 DEF SettingsInv, SavedInv
      <4>3. \A s \in Described \cup NewSections :
              FileOf(s) = f => /\ s \in DOMAIN mem <=> s \in DOMAIN m
                               /\ s \in DOMAIN mem => mem[s] = m[s]
        BY <1>5, <3>2
      <4> QED BY <4>1, <4>2, <4>3, AgreesWithSame
    <3> QED BY <3>1, <3>2
  <2> QED BY <1>1, <2>1, <2>2 DEF SavedInv, NoOldStorage
<1>11. OldConfigMovesAway
  BY <1>1, <1>2 DEF SettingsInv, FilesInv, OldConfigMovesAway
<1> QED BY <1>6, <1>8, <1>9, <1>10, <1>11 DEF SettingsInv, Keeps

(* One section becomes c.                                                   *)
LEMMA WithKeeps ==
  ASSUME SettingsInv, Alive, phase' \in {"starting", "running"},
         NEW s \in Described \cup NewSections, NEW c,
         Keys(s) \subseteq DOMAIN c, DOMAIN c \subseteq Keys(s) \cup NewKeys,
         NEW S, s \in S \/ (s \in DOMAIN mem /\ c = mem[s]),
         NEW ok \in BOOLEAN, Change(With(s, c), S, ok)
  PROVE  Keeps
<1> DEFINE m == With(s, c)
<1>1. DOMAIN m = DOMAIN mem \cup {s} /\ \A t \in DOMAIN m : m[t] = IF t = s THEN c ELSE mem[t]
  BY DEF With
<1> HIDE DEF m
<1>2. Whole(mem)
  BY DEF SettingsInv, SavedInv
<1>3. Whole(m)
  BY <1>1, <1>2 DEF Whole, Sections
<1>4. \A r \in DOMAIN m : (\A t \in S : FileOf(t) # FileOf(r)) => r \in DOMAIN mem /\ m[r] = mem[r]
  BY <1>1
<1>5. Change(m, S, ok)
  BY DEF m
<1>6. DOMAIN mem \subseteq DOMAIN m
  BY <1>1
<1> QED BY <1>3, <1>4, <1>5, <1>6, ChangeKeeps

LEMMA MemFacts ==
  ASSUME SettingsInv
  PROVE  /\ DOMAIN mem \subseteq Described \cup NewSections /\ Described \subseteq DOMAIN mem
         /\ \A s \in DOMAIN mem : Keys(s) \subseteq DOMAIN mem[s] /\ DOMAIN mem[s] \subseteq Keys(s) \cup NewKeys
         /\ \A s \in Described \cup NewSections :
              Keys(s) \subseteq DOMAIN Content(s) /\ DOMAIN Content(s) \subseteq Keys(s) \cup NewKeys
<1>1. /\ DOMAIN mem \subseteq Described \cup NewSections /\ Described \subseteq DOMAIN mem
      /\ \A s \in Described : Keys(s) \subseteq DOMAIN mem[s]
      /\ \A s \in DOMAIN mem : DOMAIN mem[s] \subseteq Keys(s) \cup NewKeys
  BY DEF SettingsInv, SavedInv, Whole, Sections
<1>2. \A s \in DOMAIN mem : Keys(s) \subseteq DOMAIN mem[s]
  BY <1>1, SectionFacts
<1>3. ASSUME NEW s \in Described \cup NewSections
      PROVE  Keys(s) \subseteq DOMAIN Content(s) /\ DOMAIN Content(s) \subseteq Keys(s) \cup NewKeys
  <2>1. CASE s \in DOMAIN mem
    BY <1>1, <1>2, <2>1 DEF Content
  <2>2. CASE s \notin DOMAIN mem
    <3>1. Content(s) = Empty /\ Keys(s) = {}
      BY <1>1, <2>2, SectionFacts DEF Content
    <3> QED BY <3>1, EmptyIsEmpty
  <2> QED BY <2>1, <2>2
<1> QED BY <1>1, <1>2, <1>3

LEMMA SetAllFacts ==
  ASSUME NEW s, NEW old, NEW map
  PROVE  DOMAIN SetAll(s, old, map) = Keys(s) \cup DOMAIN map
BY DEF SetAll

LEMMA SetValueKeeps ==
  ASSUME SettingsInv, NEW s \in Described \cup NewSections, NEW k \in Keys(s) \cup NewKeys, NEW v,
         NEW ok \in BOOLEAN, phase = "running", phase' = phase, SetValue(s, k, v, ok)
  PROVE  Keeps
<1> DEFINE c == SetOne(s, mem[s], k, v)
<1>1. s \in DOMAIN mem /\ Change(With(s, c), {s}, ok)
  BY DEF SetValue
<1>2. Keys(s) \subseteq DOMAIN mem[s] /\ DOMAIN mem[s] \subseteq Keys(s) \cup NewKeys
  BY <1>1, MemFacts
<1>3. Keys(s) \subseteq DOMAIN c /\ DOMAIN c \subseteq Keys(s) \cup NewKeys
  BY <1>2, SetOneFacts
<1>4. Alive /\ phase' \in {"starting", "running"}
  BY DEF Alive
<1> HIDE DEF c
<1> QED BY <1>1, <1>3, <1>4, WithKeeps

LEMMA SetValuesKeeps ==
  ASSUME SettingsInv, NEW s \in Described \cup NewSections, NEW map, DOMAIN map \subseteq Keys(s) \cup NewKeys,
         NEW ok \in BOOLEAN, phase = "running", phase' = phase, SetValues(s, map, ok)
  PROVE  Keeps
<1> DEFINE c == SetAll(s, Content(s), map)
<1>1. Change(With(s, c), {s}, ok)
  BY DEF SetValues
<1>2. Keys(s) \subseteq DOMAIN c /\ DOMAIN c \subseteq Keys(s) \cup NewKeys
  BY SetAllFacts
<1>3. Alive /\ phase' \in {"starting", "running"}
  BY DEF Alive
<1> HIDE DEF c
<1> QED BY <1>1, <1>2, <1>3, WithKeeps

LEMMA ResetSectionKeeps ==
  ASSUME SettingsInv, NEW s \in DOMAIN mem,
         NEW ok \in BOOLEAN, phase = "running", phase' = phase, ResetSection(s, ok)
  PROVE  Keeps
<1> DEFINE c == ResetAllOf(s, Content(s))
<1>1. Change(With(s, c), {s}, ok)
  BY DEF ResetSection
<1>2. s \in Described \cup NewSections
  BY MemFacts
<1>3. DOMAIN c = DOMAIN Content(s) \cap Keys(s)
  BY DEF ResetAllOf
<1>4. Keys(s) \subseteq DOMAIN c /\ DOMAIN c \subseteq Keys(s) \cup NewKeys
  BY <1>2, <1>3, MemFacts
<1>5. Alive /\ phase' \in {"starting", "running"}
  BY DEF Alive
<1> HIDE DEF c
<1> QED BY <1>1, <1>2, <1>4, <1>5, WithKeeps

LEMMA RemoveKeyKeeps ==
  ASSUME SettingsInv, NEW k, NEW ok \in BOOLEAN, phase = "running", phase' = phase, RemoveKey(k, ok)
  PROVE  Keeps
<1> DEFINE old == mem["webclient"]
           c == ResetOne("webclient", old, k)
<1>1. Change(With("webclient", c), {"webclient"}, ok) /\ "webclient" \in Described
  BY SectionFacts DEF RemoveKey
<1>2. Keys("webclient") \subseteq DOMAIN old /\ DOMAIN old \subseteq Keys("webclient") \cup NewKeys
  BY <1>1, MemFacts
<1> HIDE DEF old
<1>3. Keys("webclient") \subseteq DOMAIN c /\ DOMAIN c \subseteq DOMAIN old
  <2>1. CASE k \in DOMAIN old /\ k \in Keys("webclient")
    <3>1. c = [old EXCEPT ![k] = Defaults("webclient")[k]]
      BY <2>1 DEF ResetOne
    <3>2. DOMAIN c = DOMAIN old
      BY <3>1
    <3> QED BY <1>2, <3>2
  <2>2. CASE ~(k \in DOMAIN old /\ k \in Keys("webclient"))
    <3>1. c = [j \in DOMAIN old \ {k} |-> old[j]]
      BY <2>2 DEF ResetOne
    <3>2. DOMAIN c = DOMAIN old \ {k}
      BY <3>1
    <3> QED BY <1>2, <2>2, <3>2
  <2> QED BY <2>1, <2>2
<1>4. DOMAIN c \subseteq Keys("webclient") \cup NewKeys
  BY <1>2, <1>3
<1>5. Alive /\ phase' \in {"starting", "running"}
  BY DEF Alive
<1> HIDE DEF c
<1> QED BY <1>1, <1>3, <1>4, <1>5, WithKeeps

LEMMA ResetToDefaultAllKeeps ==
  ASSUME SettingsInv, NEW ok \in BOOLEAN, phase = "running", phase' = phase, ResetToDefaultAll(ok)
  PROVE  Keeps
<1> DEFINE m == [s \in DOMAIN mem |-> ResetAllOf(s, mem[s])]
<1>1. Change(m, DOMAIN mem, ok)
  BY DEF ResetToDefaultAll
<1>2. DOMAIN m = DOMAIN mem /\ \A s \in DOMAIN mem : DOMAIN m[s] = DOMAIN mem[s] \cap Keys(s)
  BY DEF ResetAllOf
<1> HIDE DEF m
<1>3. Whole(m)
  BY <1>2, MemFacts DEF Whole, Sections
<1>4. \A s \in DOMAIN m : (\A t \in DOMAIN mem : FileOf(t) # FileOf(s)) => s \in DOMAIN mem /\ m[s] = mem[s]
  BY <1>2
<1>5. Alive /\ phase' \in {"starting", "running"} /\ DOMAIN mem \subseteq DOMAIN m
  BY <1>2 DEF Alive
<1> QED BY <1>1, <1>3, <1>4, <1>5, ChangeKeeps

LEMMA CycleSettingKeeps ==
  ASSUME SettingsInv, NEW s, NEW k, NEW ok \in BOOLEAN, phase = "running", phase' = phase,
         CycleSetting(s, k, ok)
  PROVE  Keeps
<1>1. s \in Described /\ k \in DOMAIN mem[s] /\ \E v : SetValue(s, k, v, ok)
  BY DEF CycleSetting
<1>2. k \in Keys(s) \cup NewKeys
  BY <1>1, MemFacts
<1> QED BY <1>1, <1>2, SetValueKeeps

(* A step that changes neither files nor sections.                          *)
LEMMA NothingIsKept ==
  ASSUME SettingsInv, phase' \in {"starting", "fatal", "running"}, phase # "off", Alive' => Alive,
         UNCHANGED <<stored, mem, hidden, options, seen, view, faulty, unmoved>>
  PROVE  Keeps
<1>1. /\ disk' = disk /\ broken' = broken /\ saved' = saved /\ oldest' = oldest /\ first' = first
      /\ mem' = mem /\ hidden' = hidden /\ options' = options /\ seen' = seen /\ view' = view
      /\ faulty' = faulty /\ unmoved' = unmoved
  BY DEF stored
<1>2. FilesInv'
  BY <1>1 DEF SettingsInv, FilesInv
<1>3. OldestInv'
  BY <1>1 DEF SettingsInv, OldestInv
<1>4. SavedInv'
  BY <1>1 DEF SettingsInv, SavedInv
<1>5. ListenersFollow' /\ ViewIsCurrent'
  BY <1>1 DEF SettingsInv, ShownInv, ListenersFollow, ViewIsCurrent
<1>6. HiddenFollowsType'
  BY <1>1 DEF SettingsInv, ShownInv, HiddenFollowsType
<1>7. ShownInv'
  BY <1>1, <1>5, <1>6 DEF SettingsInv, ShownInv
<1>8. OldConfigMovesAway
  BY <1>1 DEF OldConfigMovesAway
<1> QED BY <1>2, <1>3, <1>4, <1>7, <1>8 DEF SettingsInv, Keeps

LEMMA CommandLineKeeps ==
  ASSUME SettingsInv, NEW args \in CommandLines, NEW ok \in BOOLEAN, CommandLine(args, ok)
  PROVE  Keeps
<1> DEFINE values == CommandLineValues(args)
           given == {values[i][1] : i \in DOMAIN values}
           At(k) == {i \in DOMAIN values : values[i][1] = k}
           map == [k \in DOMAIN mem["main"] \cup given |->
                     IF At(k) # {} THEN values[Max(At(k))][2] ELSE mem["main"][k]]
           c == SetAll("main", mem["main"], map)
<1>1. /\ phase = "starting" /\ phase' = "running"
      /\ IF values = <<>> THEN UNCHANGED <<stored, mem, hidden, options, seen, view, faulty, unmoved>>
                         ELSE Change(With("main", c), {"main"}, ok)
  BY DEF CommandLine
<1>2. DOMAIN map = DOMAIN mem["main"] \cup given
  OBVIOUS
<1>3. given \subseteq Keys("main")
  <2>1. \A i \in DOMAIN values : values[i] \in ToSet(values)
    BY DEF ToSet
  <2>2. \A v \in ToSet(values) : v[1] \in Keys("main")
    BY ChangesAssumption
  <2> HIDE DEF values
  <2> QED BY <2>1, <2>2
<1>4. "main" \in Described /\ Keys("main") \subseteq DOMAIN mem["main"]
      /\ DOMAIN mem["main"] \subseteq Keys("main") \cup NewKeys
  BY MemFacts, SectionFacts
<1>5. DOMAIN c = Keys("main") \cup DOMAIN map
  <2> HIDE DEF map
  <2> QED BY SetAllFacts
<1>6. Keys("main") \subseteq DOMAIN c /\ DOMAIN c \subseteq Keys("main") \cup NewKeys
  <2> HIDE DEF map, c, given
  <2> QED BY <1>2, <1>3, <1>4, <1>5
<1>7. Alive /\ phase' \in {"starting", "running"}
  BY <1>1 DEF Alive
<1> HIDE DEF c, values
<1>8. CASE values = <<>>
  BY <1>1, <1>7, <1>8, NothingIsKept DEF Alive
<1>9. CASE values # <<>>
  BY <1>1, <1>4, <1>6, <1>7, <1>9, WithKeeps
<1> QED BY <1>8, <1>9

LEMMA SettingDescriptionsKeeps ==
  ASSUME SettingsInv, phase = "running", phase' = phase, SettingDescriptions
  PROVE  Keeps
<1>1. /\ disk' = disk /\ broken' = broken /\ saved' = saved /\ oldest' = oldest /\ first' = first
      /\ mem' = mem /\ hidden' = hidden /\ options' = options /\ seen' = seen
      /\ unmoved' = unmoved /\ faulty' = faulty /\ view' = AllDescriptions(hidden, options)
  BY DEF SettingDescriptions, stored
<1>2. FilesInv'
  BY <1>1 DEF SettingsInv, FilesInv
<1>3. OldestInv'
  BY <1>1 DEF SettingsInv, OldestInv
<1>4. SavedInv'
  BY <1>1 DEF SettingsInv, SavedInv, Alive
<1>5. ListenersFollow'
  BY <1>1 DEF SettingsInv, ShownInv, ListenersFollow, Alive
<1>6. HiddenFollowsType'
  BY <1>1 DEF SettingsInv, ShownInv, HiddenFollowsType, Alive
<1>7. ViewIsCurrent'
  BY <1>1 DEF ViewIsCurrent
<1>8. ShownInv'
  BY <1>1, <1>5, <1>6, <1>7 DEF SettingsInv, ShownInv
<1>9. OldConfigMovesAway
  BY <1>1 DEF OldConfigMovesAway
<1> QED BY <1>2, <1>3, <1>4, <1>8, <1>9 DEF SettingsInv, Keeps

(* The roles that give a channel.                                           *)
LEMMA ChannelsOfRoles ==
  ASSUME NEW roles
  PROVE  \E r \in SUBSET {"plexpass", "ninja", "employee"} : Channels(roles) = Channels(r)
<1> DEFINE r == roles \cap {"plexpass", "ninja", "employee"}
<1>1. /\ "plexpass" \in roles <=> "plexpass" \in r
      /\ "ninja" \in roles <=> "ninja" \in r
      /\ "employee" \in roles <=> "employee" \in r
      /\ r \in SUBSET {"plexpass", "ninja", "employee"}
  OBVIOUS
<1> HIDE DEF r
<1>2. Channels(roles) = Channels(r)
  BY <1>1 DEF Channels
<1> QED BY <1>1, <1>2

LEMMA SetUserRoleListKeeps ==
  ASSUME SettingsInv, phase = "running", phase' = phase, NEW roles, SetUserRoleList(roles)
  PROVE  Keeps
<1>1. /\ disk' = disk /\ broken' = broken /\ saved' = saved /\ oldest' = oldest /\ first' = first
      /\ mem' = mem /\ hidden' = hidden /\ seen' = seen
      /\ unmoved' = unmoved /\ faulty' = faulty /\ options' = Channels(roles)
      /\ view' = IF view = None THEN None
                 ELSE Redrawn(view, "main", Descriptions("main", hidden, options'))
  BY DEF SetUserRoleList, stored, Redrawn
<1>2. FilesInv'
  BY <1>1 DEF SettingsInv, FilesInv
<1>3. OldestInv'
  BY <1>1 DEF SettingsInv, OldestInv
<1>4. SavedInv'
  BY <1>1 DEF SettingsInv, SavedInv, Alive
<1>5. ListenersFollow'
  BY <1>1 DEF SettingsInv, ShownInv, ListenersFollow, Alive
<1>6. HiddenFollowsType'
  BY <1>1 DEF SettingsInv, ShownInv, HiddenFollowsType, Alive
<1>7. ViewIsCurrent'
  <2> DEFINE q == options'
  <2>1. \A t : t # "main" => Descriptions(t, hidden, options) = Descriptions(t, hidden, q)
    BY SameDescriptions
  <2> HIDE DEF q
  <2>2. Redrawn(AllDescriptions(hidden, options), "main", Descriptions("main", hidden, q))
          = AllDescriptions(hidden, q)
    BY <2>1, ViewChanges
  <2>3. view # None => view = AllDescriptions(hidden, options)
    BY DEF SettingsInv, ShownInv, ViewIsCurrent
  <2>4. view' # None => view' = AllDescriptions(hidden, q)
    BY <1>1, <2>2, <2>3 DEF q
  <2> QED BY <1>1, <2>4 DEF ViewIsCurrent, q
<1>8. \E r \in SUBSET {"plexpass", "ninja", "employee"} : options' = Channels(r)
  BY <1>1, ChannelsOfRoles
<1>9. ShownInv'
  BY <1>1, <1>5, <1>6, <1>7, <1>8 DEF SettingsInv, ShownInv
<1>10. OldConfigMovesAway
  BY <1>1 DEF OldConfigMovesAway
<1> QED BY <1>2, <1>3, <1>4, <1>9, <1>10 DEF SettingsInv, Keeps

LEMMA StartKeeps ==
  ASSUME SettingsInv, NEW ok \in BOOLEAN, NEW moves \in [ConfFiles -> Moves], Start(ok, moves)
  PROVE  Keeps
<1> DEFINE n == Load([disk |-> disk, broken |-> broken, mem |-> Fresh, faulty |-> {}], ok, moves)
<1>1. /\ phase = "off" /\ phase' = "starting"
      /\ oldest' = SetupVersion(oldest, disk["conf"])
      /\ disk' = n.disk /\ broken' = n.broken /\ mem' = n.mem /\ faulty' = n.faulty
      /\ hidden' = HiddenByType(n.mem["audio"]["devicetype"], HiddenAtFirst)
      /\ options' = Channels({}) /\ view' = None
      /\ seen' = [s \in Described |-> [k \in Keys(s) |-> n.mem[s][k]]]
      /\ unmoved' = {f \in ConfFiles :
                       disk[f] # NoFile /\ ~IsRead(disk[f]) /\ moves[f] # "moved"}
      /\ saved' = saved /\ first' = first
  BY DEF Start
<1>2. LoadedAll(disk, ok, moves, n)
  BY LoadFacts DEF SettingsInv, FilesInv
<1> HIDE DEF n
<1>3. FilesInv'
  <2>1. DOMAIN disk' = ConfFiles /\ DOMAIN broken' = ConfFiles
    BY <1>1, <1>2 DEF LoadedAll
  <2>2. \A f \in ConfFiles : /\ IsFile(disk'[f]) /\ IsFile(broken'[f]) /\ HoldsOwn(f, disk'[f])
                             /\ disk'[f] = NoFile \/ IsRead(disk'[f]) \/ f \in unmoved'
    BY <1>1, <1>2 DEF LoadedAll
  <2>3. NoOldStorage => ~Migrates(disk'["storage"])
    BY <1>1, <1>2, SectionFacts DEF LoadedAll, SettingsInv, FilesInv
  <2> QED BY <1>1, <2>1, <2>2, <2>3 DEF FilesInv
<1>4. OldestInv'
  <2>1. None \notin {"legacy", "current"}
    BY SettingsAssumption
  <2> QED BY <1>1, <2>1 DEF SettingsInv, OldestInv, SetupVersion
<1>5. SavedInv'
  <2>1. Whole(mem)' /\ faulty' \subseteq ConfFiles
    BY <1>1, <1>2 DEF LoadedAll, Whole, Sections
  <2>2. NoOldStorage => \A f \in ConfFiles \ faulty' : Agrees(f, disk'[f], mem')
    BY <1>1, <1>2 DEF LoadedAll, SettingsInv, FilesInv
  <2> QED BY <2>1, <2>2 DEF SavedInv
<1>6. hidden' \subseteq Pairs /\ ShowsType(mem'["audio"]["devicetype"], hidden')
  BY <1>1, HiddenByTypeFacts DEF HiddenAtFirst
<1>7. ListenersFollow' /\ ViewIsCurrent'
  BY <1>1 DEF ListenersFollow, ViewIsCurrent
<1>8. HiddenFollowsType'
  BY <1>6 DEF HiddenFollowsType, ShowsType, AudioPairs
<1>9. ShownInv'
  BY <1>1, <1>6, <1>7, <1>8 DEF ShownInv
<1>10. OldConfigMovesAway
  BY <1>1, <1>2 DEF LoadedAll, OldConfigMovesAway
<1> QED BY <1>1, <1>3, <1>4, <1>5, <1>9, <1>10 DEF SettingsInv, Keeps

(* The program that does not run has nothing to show.                       *)
LEMMA OffShows ==
  ASSUME Off
  PROVE  /\ ShownInv' /\ Whole(mem') /\ faulty' = {} /\ unmoved' = {} /\ phase' = "off"
<1>1. /\ phase' = "off" /\ mem' = Fresh /\ hidden' = HiddenAtFirst /\ options' = Channels({})
      /\ seen' = Fresh /\ view' = None /\ faulty' = {} /\ unmoved' = {}
  BY DEF Off
<1>2. ListenersFollow' /\ HiddenFollowsType' /\ ViewIsCurrent'
  BY <1>1 DEF ListenersFollow, HiddenFollowsType, ViewIsCurrent, Alive
<1>3. hidden' \subseteq Pairs
  BY <1>1 DEF HiddenAtFirst
<1> QED BY <1>1, <1>2, <1>3, FreshIsWhole DEF ShownInv

(* The end of a run, with the files as they are.                            *)
LEMMA EndKeeps ==
  ASSUME SettingsInv, phase # "off", Off, UNCHANGED stored
  PROVE  Keeps
<1>1. disk' = disk /\ broken' = broken /\ saved' = saved /\ oldest' = oldest /\ first' = first
  BY DEF stored
<1>2. ShownInv' /\ Whole(mem') /\ faulty' = {} /\ unmoved' = {} /\ phase' = "off"
  BY OffShows
<1>3. FilesInv'
  BY <1>1, <1>2 DEF SettingsInv, FilesInv
<1>4. OldestInv'
  BY <1>1, <1>2 DEF SettingsInv, OldestInv
<1>5. SavedInv'
  BY <1>2 DEF SavedInv, Alive
<1>6. OldConfigMovesAway
  BY <1>1 DEF OldConfigMovesAway
<1> QED BY <1>2, <1>3, <1>4, <1>5, <1>6 DEF SettingsInv, Keeps

LEMMA ResetKeeps ==
  ASSUME SettingsInv, ResetAndSaveOldConfiguration
  PROVE  Keeps
<1>1. /\ phase = "fatal" /\ Off /\ broken' = broken /\ oldest' = oldest /\ first' = first
      /\ \/ saved' = TRUE /\ ~saved /\ disk' = [disk EXCEPT !["conf"] = NoFile]
         \/ saved' = saved /\ disk' = disk
  BY DEF ResetAndSaveOldConfiguration
<1>2. ShownInv' /\ Whole(mem') /\ faulty' = {} /\ unmoved' = {} /\ phase' = "off"
  BY <1>1, OffShows
<1>3. DOMAIN disk = ConfFiles /\ "conf" \in ConfFiles /\ ConfFiles = {"conf", "storage"}
  BY SectionFacts DEF SettingsInv, FilesInv, ConfFiles
<1>4. DOMAIN disk' = ConfFiles /\ disk'["storage"] = disk["storage"]
      /\ (disk'["conf"] = disk["conf"] \/ (disk'["conf"] = NoFile /\ ~saved /\ saved'))
  <2>1. CASE saved' = TRUE /\ ~saved /\ disk' = [disk EXCEPT !["conf"] = NoFile]
    BY <1>3, <2>1
  <2>2. CASE disk' = disk
    BY <1>3, <2>2
  <2> QED BY <1>1, <2>1, <2>2
<1>5. IsFile(NoFile) /\ HoldsOwn("conf", NoFile)
  BY SectionFacts DEF IsRead, Migrates, VersionOf, NoFile, IsFile, HoldsOwn
<1>6. FilesInv'
  BY <1>1, <1>2, <1>3, <1>4, <1>5 DEF SettingsInv, FilesInv
<1>7. OldestInv'
  BY <1>1, <1>2 DEF SettingsInv, OldestInv
<1>8. SavedInv'
  BY <1>2 DEF SavedInv, Alive
<1>9. OldConfigMovesAway
  BY <1>3, <1>4 DEF OldConfigMovesAway
<1> QED BY <1>2, <1>6, <1>7, <1>8, <1>9 DEF SettingsInv, Keeps

LEMMA FatalKeeps ==
  ASSUME SettingsInv, Fatal
  PROVE  Keeps
<1>1. /\ phase = "starting" /\ phase' = "fatal"
      /\ UNCHANGED <<stored, mem, hidden, options, seen, view, faulty, unmoved>>
  BY DEF Fatal
<1> QED BY <1>1, NothingIsKept DEF Alive

LEMMA SettingsBegin == SettingsInit => SettingsInv
<1> SUFFICES ASSUME SettingsInit PROVE SettingsInv
  OBVIOUS
<1>1. /\ phase = "off" /\ saved = FALSE /\ broken = [f \in ConfFiles |-> NoFile]
      /\ mem = Fresh /\ hidden = HiddenAtFirst /\ options = Channels({})
      /\ seen = Fresh /\ view = None /\ faulty = {} /\ unmoved = {}
  BY DEF SettingsInit
<1>2. PICK i \in Installs :
        /\ disk = i.disk /\ oldest = i.oldest
        /\ first = IF i.oldest # None THEN i.oldest
                   ELSE IF i.disk["conf"] = NoFile THEN "current" ELSE "legacy"
  BY DEF SettingsInit
<1>3. /\ i.oldest \in {None, "legacy", "current"} /\ DOMAIN disk = ConfFiles
      /\ \A f \in ConfFiles : IsFile(disk[f]) /\ HoldsOwn(f, disk[f])
  BY <1>2, InstallAssumption
<1>4. FilesInv
  <2>1. DOMAIN broken = ConfFiles /\ \A f \in ConfFiles : IsFile(broken[f])
    BY <1>1 DEF IsFile
  <2>2. NoOldStorage => ~Migrates(disk["storage"])
    BY <1>2 DEF NoOldStorage
  <2> QED BY <1>1, <1>3, <2>1, <2>2 DEF FilesInv
<1>5. OldestInv
  BY <1>1, <1>2, <1>3 DEF OldestInv
<1>6. SavedInv
  BY <1>1, FreshIsWhole DEF SavedInv, Alive
<1>7. ListenersFollow /\ HiddenFollowsType /\ ViewIsCurrent
  BY <1>1 DEF ListenersFollow, HiddenFollowsType, ViewIsCurrent, Alive
<1>8. ShownInv
  BY <1>1, <1>7 DEF ShownInv, HiddenAtFirst
<1> QED BY <1>1, <1>4, <1>5, <1>6, <1>8 DEF SettingsInv

LEMMA SettingsStep == SettingsInv /\ [SettingsNext]_settingsVars => SettingsInv' /\ [OldConfigMovesAway]_settingsVars
<1> SUFFICES ASSUME SettingsInv, [SettingsNext]_settingsVars
             PROVE  SettingsInv' /\ [OldConfigMovesAway]_settingsVars
  OBVIOUS
<1>1. CASE SettingsNext
  <2>1. Outcomes \subseteq BOOLEAN
    BY DEF Outcomes
  <2>2. ASSUME NEW ok \in Outcomes, NEW moves \in [ConfFiles -> Moves], Start(ok, moves) PROVE Keeps
    BY <2>1, <2>2, StartKeeps
  <2>3. ASSUME NEW ok \in Outcomes, NEW args \in CommandLines, CommandLine(args, ok) PROVE Keeps
    BY <2>1, <2>3, CommandLineKeeps
  <2>4. ASSUME NEW ok \in Outcomes, NEW i \in Inputs, Running(SetValue(i[1], i[2], i[3], ok)) PROVE Keeps
    <3>1. i[1] \in Described \cup NewSections /\ i[2] \in Keys(i[1]) \cup NewKeys
      BY ChangesAssumption
    <3> QED BY <2>1, <2>4, <3>1, SetValueKeeps DEF Running
  <2>5. ASSUME NEW ok \in Outcomes, NEW s \in NewSections, NEW K \in SUBSET NewKeys,
               Running(SetValues(s, [k \in K |-> NewValue], ok))
        PROVE  Keeps
    <3> DEFINE map == [k \in K |-> NewValue]
    <3>1. DOMAIN map \subseteq Keys(s) \cup NewKeys
      OBVIOUS
    <3> HIDE DEF map
    <3>2. phase = "running" /\ SetValues(s, map, ok) /\ phase' = phase
      BY <2>5 DEF Running, map
    <3> QED BY <2>1, <3>1, <3>2, SetValuesKeeps
  <2>6. ASSUME NEW ok \in Outcomes, NEW i \in Inputs, Running(SetValues(i[1], [k \in {i[2]} |-> i[3]], ok))
        PROVE  Keeps
    <3> DEFINE map == [k \in {i[2]} |-> i[3]]
    <3>1. i[1] \in Described \cup NewSections /\ DOMAIN map \subseteq Keys(i[1]) \cup NewKeys
      BY ChangesAssumption
    <3> HIDE DEF map
    <3>2. phase = "running" /\ SetValues(i[1], map, ok) /\ phase' = phase
      BY <2>6 DEF Running, map
    <3> QED BY <2>1, <3>1, <3>2, SetValuesKeeps
  <2>7. ASSUME NEW ok \in Outcomes, NEW s \in DOMAIN mem, Running(ResetSection(s, ok)) PROVE Keeps
    BY <2>1, <2>7, ResetSectionKeeps DEF Running
  <2>8. ASSUME NEW ok \in Outcomes, NEW k \in NewKeys, Running(RemoveKey(k, ok)) PROVE Keeps
    BY <2>1, <2>8, RemoveKeyKeeps DEF Running
  <2>9. ASSUME NEW ok \in Outcomes, NEW c \in Cycled, Running(CycleSetting(c[1], c[2], ok)) PROVE Keeps
    BY <2>1, <2>9, CycleSettingKeeps DEF Running
  <2>10. ASSUME NEW ok \in Outcomes, Running(ResetToDefaultAll(ok)) PROVE Keeps
    BY <2>1, <2>10, ResetToDefaultAllKeeps DEF Running
  <2>11. ASSUME Running(SettingDescriptions) PROVE Keeps
    BY <2>11, SettingDescriptionsKeeps DEF Running
  <2>12. ASSUME NEW roles \in RoleSets, Running(SetUserRoleList(roles)) PROVE Keeps
    BY <2>12, SetUserRoleListKeeps DEF Running
  <2>13. ASSUME Stop \/ Abort PROVE Keeps
    BY <2>13, EndKeeps DEF Stop, Abort
  <2>14. ASSUME Fatal PROVE Keeps
    BY <2>14, FatalKeeps
  <2>15. ASSUME ResetAndSaveOldConfiguration PROVE Keeps
    BY <2>15, ResetKeeps
  <2>16. Keeps
    BY <1>1, <2>2, <2>3, <2>4, <2>5, <2>6, <2>7, <2>8, <2>9, <2>10, <2>11, <2>12, <2>13, <2>14, <2>15
       DEF SettingsNext
  <2> QED BY <2>16 DEF Keeps
<1>2. CASE UNCHANGED settingsVars
  <2>1. /\ phase' = phase /\ disk' = disk /\ broken' = broken /\ saved' = saved /\ oldest' = oldest
        /\ mem' = mem /\ hidden' = hidden /\ options' = options /\ seen' = seen /\ view' = view
        /\ faulty' = faulty /\ first' = first /\ unmoved' = unmoved
    BY <1>2 DEF settingsVars
  <2>2. FilesInv' /\ OldestInv'
    BY <2>1 DEF SettingsInv, FilesInv, OldestInv
  <2>3. SavedInv'
    BY <2>1 DEF SettingsInv, SavedInv, Alive
  <2>4. ListenersFollow' /\ ViewIsCurrent'
    BY <2>1 DEF SettingsInv, ShownInv, ListenersFollow, ViewIsCurrent, Alive
  <2>5. HiddenFollowsType'
    BY <2>1 DEF SettingsInv, ShownInv, HiddenFollowsType, Alive
  <2>6. ShownInv'
    BY <2>1, <2>4, <2>5 DEF SettingsInv, ShownInv
  <2> QED BY <1>2, <2>1, <2>2, <2>3, <2>6 DEF SettingsInv
<1> QED BY <1>1, <1>2

-----------------------------------------------------------------------------
(* The choices of a value.                                                  *)

Distinct(values) ==
  Len(values) \in Nat /\ DOMAIN values = 1 .. Len(values) /\ IsInjective(values)

LEMMA JoinedChoices ==
  ASSUME NEW a \in Seq(Nat), NEW b \in Seq(Nat), Distinct(a), Distinct(b), ToSet(a) \cap ToSet(b) = {}
  PROVE  /\ a \o b \in Seq(Nat) /\ Distinct(a \o b) /\ ToSet(a \o b) \subseteq ToSet(a) \cup ToSet(b)
<1> DEFINE n == Len(a)
           m == Len(b)
           c == a \o b
<1>1. n \in Nat /\ m \in Nat /\ DOMAIN a = 1 .. n /\ DOMAIN b = 1 .. m
  BY DEF Distinct
<1>2. c \in Seq(Nat) /\ Len(c) = n + m
      /\ \A i \in 1 .. n + m : c[i] = IF i <= n THEN a[i] ELSE b[i - n]
  BY ConcatProperties
<1>3. DOMAIN c = 1 .. n + m
  <2> HIDE DEF c
  <2> QED BY <1>2, LenProperties
<1> HIDE DEF c, n, m
<1>4. ASSUME NEW i \in 1 .. n + m
      PROVE  \/ i \in 1 .. n /\ c[i] = a[i] /\ c[i] \in ToSet(a)
             \/ i \in n + 1 .. n + m /\ i - n \in 1 .. m /\ c[i] = b[i - n] /\ c[i] \in ToSet(b)
  <2>1. CASE i <= n
    BY <1>1, <1>2, <2>1 DEF ToSet
  <2>2. CASE ~(i <= n)
    <3>1. i \in n + 1 .. n + m /\ i - n \in 1 .. m
      BY <1>1, <2>2
    <3> QED BY <1>1, <1>2, <2>2, <3>1 DEF ToSet
  <2> QED BY <2>1, <2>2
<1>5. ASSUME NEW i \in 1 .. n + m, NEW j \in 1 .. n + m, c[i] = c[j]
      PROVE  i = j
  <2>1. CASE c[i] \in ToSet(a)
    <3>1. i \in 1 .. n /\ j \in 1 .. n /\ a[i] = a[j]
      BY <1>4, <1>5, <2>1
    <3> QED BY <1>1, <3>1 DEF Distinct, IsInjective
  <2>2. CASE c[i] \in ToSet(b)
    <3>1. i - n \in 1 .. m /\ j - n \in 1 .. m /\ b[i - n] = b[j - n]
      BY <1>4, <1>5, <2>2
    <3>2. i - n = j - n
      BY <1>1, <3>1 DEF Distinct, IsInjective
    <3>3. i \in Int /\ j \in Int /\ n \in Int
      BY <1>1
    <3> QED BY <3>2, <3>3
  <2> QED BY <1>4, <2>1, <2>2
<1>6. Distinct(c)
  <2>1. n + m \in Nat
    BY <1>1
  <2> QED BY <1>2, <1>3, <1>5, <2>1 DEF Distinct, IsInjective
<1>7. ToSet(c) \subseteq ToSet(a) \cup ToSet(b)
  <2>1. ASSUME NEW x \in ToSet(c) PROVE x \in ToSet(a) \cup ToSet(b)
    <3>1. PICK i \in DOMAIN c : x = c[i]
      BY DEF ToSet
    <3> QED BY <1>3, <1>4, <3>1
  <2> QED BY <2>1
<1> QED BY <1>2, <1>6, <1>7 DEF c

LEMMA OneOrNone ==
  ASSUME NEW x \in Nat, NEW s \in {<<>>, <<x>>}
  PROVE  s \in Seq(Nat) /\ Distinct(s) /\ ToSet(s) \subseteq {x}
<1>1. CASE s = <<>>
  BY <1>1 DEF Distinct, IsInjective, ToSet
<1>2. CASE s = <<x>>
  <2>1. s \in Seq(Nat) /\ Len(s) = 1 /\ DOMAIN s = 1 .. 1 /\ s[1] = x
    BY <1>2
  <2>2. \A i \in 1 .. 1 : i = 1
    OBVIOUS
  <2> QED BY <2>1, <2>2 DEF Distinct, IsInjective, ToSet
<1> QED BY <1>1, <1>2

LEMMA ChannelsAreChoices == ASSUME NEW roles PROVE Distinct(Channels(roles))
<1> DEFINE a == <<0>>
           b == IF "plexpass" \in roles THEN <<8>> ELSE <<>>
           c == IF "ninja" \in roles THEN <<4>> ELSE <<>>
           d == IF "employee" \in roles THEN <<2>> ELSE <<>>
<1>1. a \in {<<>>, <<0>>} /\ b \in {<<>>, <<8>>} /\ c \in {<<>>, <<4>>} /\ d \in {<<>>, <<2>>}
  OBVIOUS
<1>2. Channels(roles) = ((a \o b) \o c) \o d
  BY DEF Channels
<1> HIDE DEF a, b, c, d
<1>3. a \in Seq(Nat) /\ Distinct(a) /\ ToSet(a) \subseteq {0}
  BY <1>1, OneOrNone
<1>4. b \in Seq(Nat) /\ Distinct(b) /\ ToSet(b) \subseteq {8}
  BY <1>1, OneOrNone
<1>5. c \in Seq(Nat) /\ Distinct(c) /\ ToSet(c) \subseteq {4}
  BY <1>1, OneOrNone
<1>6. d \in Seq(Nat) /\ Distinct(d) /\ ToSet(d) \subseteq {2}
  BY <1>1, OneOrNone
<1>7. a \o b \in Seq(Nat) /\ Distinct(a \o b) /\ ToSet(a \o b) \subseteq {0, 8}
  <2>1. ToSet(a) \cap ToSet(b) = {}
    BY <1>3, <1>4
  <2>2. a \o b \in Seq(Nat) /\ Distinct(a \o b) /\ ToSet(a \o b) \subseteq ToSet(a) \cup ToSet(b)
    BY <1>3, <1>4, <2>1, JoinedChoices
  <2> QED BY <1>3, <1>4, <2>2
<1> DEFINE ab == a \o b
<1> HIDE DEF ab
<1>8. ab \o c \in Seq(Nat) /\ Distinct(ab \o c) /\ ToSet(ab \o c) \subseteq {0, 4, 8}
  <2>1. ab \in Seq(Nat) /\ Distinct(ab) /\ ToSet(ab) \subseteq {0, 8}
    BY <1>7 DEF ab
  <2>2. ToSet(ab) \cap ToSet(c) = {}
    BY <1>5, <2>1
  <2>3. ab \o c \in Seq(Nat) /\ Distinct(ab \o c) /\ ToSet(ab \o c) \subseteq ToSet(ab) \cup ToSet(c)
    BY <1>5, <2>1, <2>2, JoinedChoices
  <2> QED BY <1>5, <2>1, <2>3
<1> DEFINE abc == ab \o c
<1> HIDE DEF abc
<1>9. Distinct(abc \o d)
  <2>1. abc \in Seq(Nat) /\ Distinct(abc) /\ ToSet(abc) \subseteq {0, 4, 8}
    BY <1>8 DEF abc
  <2>2. ToSet(abc) \cap ToSet(d) = {}
    <3>1. ASSUME NEW x \in ToSet(abc) PROVE x \notin ToSet(d)
      <4>1. x = 0 \/ x = 4 \/ x = 8
        BY <2>1
      <4>2. x # 2
        BY <4>1
      <4> QED BY <1>6, <4>2
    <3> QED BY <3>1
  <2> QED BY <1>6, <2>1, <2>2, JoinedChoices
<1> QED BY <1>2, <1>9 DEF abc, ab

(* cycleSettingCommand() goes to the choice after, or to the first.         *)
LEMMA NextOfChoices ==
  ASSUME NEW values, Distinct(values), NEW n, n = Len(values), n # 0
  PROVE  /\ \A j \in 1 .. n : NextValue(values, values[j]) = values[IF j = n THEN 1 ELSE j + 1]
         /\ \A v : v \notin ToSet(values) => NextValue(values, v) = values[1]
<1>1. n \in Nat /\ n >= 1 /\ DOMAIN values = 1 .. n /\ IsInjective(values)
  BY DEF Distinct
<1>2. ASSUME NEW j \in 1 .. n
      PROVE  NextValue(values, values[j]) = values[IF j = n THEN 1 ELSE j + 1]
  <2> DEFINE at == {i \in DOMAIN values : values[i] = values[j]}
             next == IF at = {} THEN 1 ELSE Min(at) + 1
  <2>1. at = {j}
    BY <1>1 DEF IsInjective
  <2>2. Min({j}) = j
    <3>1. j \in Int /\ \A y \in {j} : j <= y
      BY <1>1
    <3>2. \A x \in {j} : x = j
      OBVIOUS
    <3> QED BY <3>1, <3>2 DEF Min
  <2>3. next = j + 1
    <3> HIDE DEF at
    <3> QED BY <2>1, <2>2
  <2>4. NextValue(values, values[j]) = values[IF next > n THEN 1 ELSE next]
    BY DEF NextValue
  <2> HIDE DEF next
  <2>5. (next > n) <=> (j = n)
    BY <1>1, <2>3
  <2> QED BY <2>3, <2>4, <2>5
<1>3. ASSUME NEW v, v \notin ToSet(values)
      PROVE  NextValue(values, v) = values[1]
  <2> DEFINE at == {i \in DOMAIN values : values[i] = v}
             next == IF at = {} THEN 1 ELSE Min(at) + 1
  <2>1. at = {}
    BY <1>3 DEF ToSet
  <2>2. next = 1
    <3> HIDE DEF at
    <3> QED BY <2>1
  <2>3. NextValue(values, v) = values[IF next > n THEN 1 ELSE next]
    BY DEF NextValue
  <2> HIDE DEF next
  <2> QED BY <1>1, <2>2, <2>3
<1> QED BY <1>2, <1>3

LEMMA AllAreVisited ==
  ASSUME NEW values, Distinct(values), NEW w
  PROVE  Visited(values, w) = ToSet(values)
<1> DEFINE n == Len(values)
           Right(g) == g = [i \in 0 .. n |-> IF i = 0 THEN w ELSE NextValue(values, g[i - 1])]
           nth == CHOOSE g : Right(g)
<1>1. n \in Nat /\ DOMAIN values = 1 .. n
  BY DEF Distinct
<1>2. Visited(values, w) = {nth[i] : i \in 1 .. n}
  BY DEF Visited
<1>3. ToSet(values) = {values[j] : j \in 1 .. n}
  BY <1>1 DEF ToSet
<1> HIDE DEF n
<1>4. CASE n = 0
  <2> HIDE DEF nth
  <2> QED BY <1>2, <1>3, <1>4
<1>5. CASE n # 0
  <2>1. /\ \A j \in 1 .. n : NextValue(values, values[j]) = values[IF j = n THEN 1 ELSE j + 1]
        /\ \A v : v \notin ToSet(values) => NextValue(values, v) = values[1]
    BY <1>5, NextOfChoices DEF n
  <2>2. \E a \in 0 .. n : IF a = 0 THEN w \notin ToSet(values) ELSE w = values[a]
    BY <1>1, <1>3
  <2>3. PICK a \in 0 .. n : IF a = 0 THEN w \notin ToSet(values) ELSE w = values[a]
    BY <2>2
  <2> DEFINE Place(i) == IF a + i <= n THEN a + i ELSE a + i - n
             g == [i \in 0 .. n |-> IF i = 0 THEN w ELSE values[Place(i)]]
  <2>4. ASSUME NEW i \in 1 .. n
        PROVE  Place(i) \in 1 .. n
    BY <1>1
  <2>5. ASSUME NEW i \in 1 .. n
        PROVE  NextValue(values, g[i - 1]) = values[Place(i)]
    <3>1. CASE i = 1
      <4>1. g[i - 1] = w
        BY <1>1, <3>1
      <4> HIDE DEF g
      <4>2. CASE a = 0
        <5>1. Place(i) = 1
          BY <1>1, <1>5, <3>1, <4>2
        <5> HIDE DEF Place
        <5> QED BY <2>1, <2>3, <4>1, <4>2, <5>1
      <4>3. CASE a # 0
        <5>1. a \in 1 .. n /\ Place(i) = IF a = n THEN 1 ELSE a + 1
          BY <1>1, <3>1, <4>3
        <5> HIDE DEF Place
        <5> QED BY <2>1, <2>3, <4>1, <4>3, <5>1
      <4> QED BY <4>2, <4>3
    <3>2. CASE i # 1
      <4>1. i - 1 \in 1 .. n /\ i - 1 \in 0 .. n /\ i - 1 # 0
        BY <1>1, <3>2
      <4>2. Place(i - 1) \in 1 .. n
        BY <1>1, <4>1
      <4>3. g[i - 1] = values[Place(i - 1)]
        <5> HIDE DEF Place
        <5> QED BY <4>1
      <4>4. Place(i) = IF Place(i - 1) = n THEN 1 ELSE Place(i - 1) + 1
        BY <1>1, <3>2
      <4> HIDE DEF Place, g
      <4> QED BY <2>1, <4>2, <4>3, <4>4
    <3> QED BY <3>1, <3>2
  <2>6. Right(g)
    <3>1. \A i \in 0 .. n : i # 0 => i \in 1 .. n
      BY <1>1
    <3>2. \A i \in 0 .. n : g[i] = IF i = 0 THEN w ELSE NextValue(values, g[i - 1])
      <4>1. \A i \in 0 .. n : g[i] = IF i = 0 THEN w ELSE values[Place(i)]
        OBVIOUS
      <4> HIDE DEF g, Place
      <4> QED BY <2>5, <3>1, <4>1
    <3>3. g = [i \in 0 .. n |-> g[i]]
      OBVIOUS
    <3> HIDE DEF g
    <3> QED BY <3>2, <3>3
  <2>7. Right(nth)
    <3> HIDE DEF Right, g
    <3> QED BY <2>6
  <2>8. nth[0] = w /\ \A i \in 1 .. n : nth[i] = NextValue(values, nth[i - 1])
    <3> HIDE DEF nth, g
    <3> QED BY <1>1, <2>7
  <2>9. \A i \in 0 .. n : nth[i] = g[i]
    <3> DEFINE T == {i \in 0 .. n : nth[i] = g[i]}
    <3>1. g[0] = w /\ \A i \in 1 .. n : g[i] = NextValue(values, g[i - 1])
      <4>1. g[0] = w /\ \A i \in 1 .. n : g[i] = values[Place(i)]
        <5> HIDE DEF Place
        <5> QED BY <1>1
      <4> HIDE DEF g, Place
      <4> QED BY <2>5, <4>1
    <3> HIDE DEF nth, g
    <3>2. 0 \in T
      BY <1>1, <2>8, <3>1
    <3>3. \A i \in 1 .. n : i - 1 \in T => i \in T
      BY <1>1, <2>8, <3>1
    <3>4. \A i \in 0 .. n : i \in T
      <4> HIDE DEF T
      <4> QED BY <1>1, <3>2, <3>3, AllTheWay
    <3> QED BY <3>4
  <2>10. \A i \in 1 .. n : nth[i] = values[Place(i)]
    <3>1. \A i \in 1 .. n : g[i] = values[Place(i)] /\ i \in 0 .. n
      <4> HIDE DEF Place
      <4> QED BY <1>1
    <3> HIDE DEF nth, g, Place
    <3> QED BY <2>9, <3>1
  <2>11. ASSUME NEW j \in 1 .. n
         PROVE  \E i \in 1 .. n : Place(i) = j
    <3>1. CASE j > a
      <4>1. j - a \in 1 .. n /\ Place(j - a) = j
        BY <1>1, <3>1
      <4> QED BY <4>1
    <3>2. CASE ~(j > a)
      <4>1. j - a + n \in 1 .. n /\ Place(j - a + n) = j
        BY <1>1, <3>2
      <4> QED BY <4>1
    <3> QED BY <3>1, <3>2
  <2> HIDE DEF nth, g, Place
  <2> QED BY <1>2, <1>3, <2>4, <2>10, <2>11
<1> QED BY <1>4, <1>5

LEMMA CyclesVisitAll == SettingsInv => CycleVisitsAll
<1> SUFFICES ASSUME SettingsInv, NEW s \in Described, NEW k \in Keys(s), NEW w
             PROVE  Visited(Possible(s, k, options), w) = ToSet(Possible(s, k, options))
  BY DEF CycleVisitsAll
<1>1. Distinct(options)
  BY ChannelsAreChoices DEF SettingsInv, ShownInv
<1>2. Distinct(PossibleValues(Value(s, k)))
  BY DescriptionAssumption DEF Distinct
<1>3. Distinct(Possible(s, k, options))
  BY <1>1, <1>2 DEF Possible
<1> QED BY <1>3, AllAreVisited

LEMMA SettingsShow == SettingsInv => StoredIsRight /\ ShownIsCurrent
<1> SUFFICES ASSUME SettingsInv PROVE StoredIsRight /\ ShownIsCurrent
  OBVIOUS
<1>1. SettingsTypes
  BY DEF SettingsInv, FilesInv, OldestInv, SavedInv, ShownInv, Whole, SettingsTypes
<1>2. SavedIsCurrent
  <2> SUFFICES ASSUME NoOldStorage, Alive, faulty = {}
               PROVE  Lasting(Reloaded(disk)) = Lasting(mem)
    BY DEF SavedIsCurrent
  <2>1. /\ DOMAIN disk = ConfFiles /\ \A f \in ConfFiles : IsFile(disk[f]) /\ HoldsOwn(f, disk[f])
        /\ ~Migrates(disk["storage"])
    BY DEF SettingsInv, FilesInv
  <2>2. Whole(mem) /\ \A f \in ConfFiles : Agrees(f, disk[f], mem)
    BY DEF SettingsInv, SavedInv
  <2> QED BY <2>1, <2>2, ReloadsTheSame
<1>3. OldestIsRight
  BY DEF SettingsInv, OldestInv, OldestIsRight
<1>4. ListenersFollow /\ HiddenFollowsType /\ ViewIsCurrent
  BY DEF SettingsInv, ShownInv
<1> QED BY <1>1, <1>2, <1>3, <1>4, CyclesVisitAll DEF StoredIsRight, ShownIsCurrent

LEMMA SettingsInvAlways == SettingsSpec => []SettingsInv
<1>1. SettingsInit => SettingsInv
  BY SettingsBegin
<1>2. SettingsInv /\ [SettingsNext]_settingsVars => SettingsInv'
  BY SettingsStep
<1> QED BY <1>1, <1>2, PTL DEF SettingsSpec

(* Whatever is set, removed, reset or refused, over any number of starts,  *)
(* ends and migrations: the next start reads what the program has now      *)
(* (SettingsComponent.cpp:215-322).                                        *)
THEOREM StoredStaysRight == SettingsSpec => []StoredIsRight
BY SettingsInvAlways, SettingsShow, PTL

(* The listeners of the program and the web client have the values and     *)
(* choices that there are, for any description                             *)
(* (SettingsSection.cpp:25-64, AudioSettingsController.cpp:26-53), and the *)
(* command that steps through the choices reaches each of them.            *)
THEOREM ShownStaysCurrent == SettingsSpec => []ShownIsCurrent
BY SettingsInvAlways, SettingsShow, PTL

(* A file that this program cannot read is overwritten only with a backup, *)
(* or in the run that tried to make one and could not: the results of the  *)
(* remove and the rename are ignored (SettingsComponent.cpp:230-239,       *)
(* 740-744).                                                               *)
THEOREM OldConfigStays == SettingsSpec => OldConfigIsKept
<1>1. SettingsInv /\ [SettingsNext]_settingsVars => [OldConfigMovesAway]_settingsVars
  BY SettingsStep
<1> QED BY SettingsInvAlways, <1>1, PTL DEF SettingsSpec, OldConfigIsKept
=============================================================================
