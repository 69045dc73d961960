------------------------------ MODULE CodecProofs ------------------------------
(***************************************************************************)
(* Proofs about CodecFetcher, for any codecs, files, loaders, device ids,  *)
(* and any archive of EasyAudioEncoder.                                    *)
(***************************************************************************)
EXTENDS CodecFetcher, SequenceTheorems, FiniteSetTheorems, TLAPS

-----------------------------------------------------------------------------
(* Induction, with a set in place of the predicate.                        *)

(* Of the intervals that end in S one contains no other.                   *)
LEMMA LeastOfSet ==
  ASSUME NEW S, S \subseteq Nat, S # {}
  PROVE  \E m \in S : \A k \in 0 .. m - 1 : k \notin S
<1> DEFINE Upto(x) == 0 .. x
           R == StrictSubsetOrdering(Nat)
           T == {Upto(x) : x \in S}
<1>1. IsWellFoundedOn(R, FiniteSubsetsOf(Nat))
  BY FS_StrictSubsetOrderingWellFounded
<1>2. ASSUME NEW x \in S
      PROVE  Upto(x) \in FiniteSubsetsOf(Nat)
  <2>1. x \in Int
    OBVIOUS
  <2>2. IsFiniteSet(0 .. x)
    BY <2>1, FS_Interval
  <2>3. 0 .. x \subseteq Nat
    BY <2>1
  <2> QED BY <2>2, <2>3 DEF FiniteSubsetsOf
<1>3. T \subseteq FiniteSubsetsOf(Nat) /\ T # {}
  BY <1>2
<1> HIDE DEF R
<1>4. PICK A \in T : \A B \in T : <<B, A>> \notin R
  <2> HIDE DEF T
  <2> QED BY <1>1, <1>3, WFMin
<1>5. PICK m \in S : A = Upto(m)
  OBVIOUS
<1>6. ASSUME NEW y \in S, y < m
      PROVE  FALSE
  <2>1. <<Upto(y), Upto(m)>> \notin R
    BY <1>4, <1>5
  <2>2. Upto(y) \subseteq Upto(m) /\ m \in Upto(m) /\ m \notin Upto(y)
    BY <1>6
  <2>3. Upto(y) \subseteq Nat /\ Upto(m) \subseteq Nat
    OBVIOUS
  <2> HIDE DEF Upto
  <2> QED BY <2>1, <2>2, <2>3 DEF R, StrictSubsetOrdering
<1> QED BY <1>6

LEMMA InductionOverSet ==
  ASSUME NEW S, 0 \in S, \A n \in Nat : n \in S => n + 1 \in S
  PROVE  Nat \subseteq S
<1> DEFINE T == Nat \ S
<1> SUFFICES ASSUME T # {} PROVE FALSE
  OBVIOUS
<1>1. PICK m \in T : \A k \in 0 .. m - 1 : k \notin T
  <2>1. T \subseteq Nat
    OBVIOUS
  <2> HIDE DEF T
  <2> QED BY <2>1, LeastOfSet
<1>2. m # 0 /\ m \in Nat
  OBVIOUS
<1>3. m - 1 \in Nat /\ m - 1 \in 0 .. m - 1
  BY <1>2
<1>4. m - 1 \in S
  BY <1>1, <1>3
<1>5. (m - 1) + 1 \in S
  BY <1>3, <1>4
<1> QED BY <1>2, <1>5

-----------------------------------------------------------------------------
(* What installCodecs() puts into the queue.                               *)

(* The queue q after the driver c.                                         *)
After(have, stuck, q, c) == IF CodecNeedsDownload(have, q, c, stuck) THEN Append(q, c) ELSE q

(* The queues after each of the first n drivers of the list.               *)
Queues(f, have, list, stuck, n) ==
  f = [i \in 0 .. n |-> IF i = 0 THEN <<>> ELSE After(have, stuck, f[i - 1], list[i])]

LEMMA QueuesExist ==
  ASSUME NEW have, NEW list, NEW stuck, NEW n \in Nat
  PROVE  \E f : Queues(f, have, list, stuck, n)
<1> DEFINE S == {m \in Nat : \E f : Queues(f, have, list, stuck, m)}
<1>1. 0 \in S
  <2> DEFINE g == [i \in 0 .. 0 |-> <<>>]
  <2>1. Queues(g, have, list, stuck, 0)
    BY DEF Queues
  <2> QED BY <2>1
<1>2. ASSUME NEW m \in Nat, m \in S
      PROVE  m + 1 \in S
  <2> PICK f : Queues(f, have, list, stuck, m)
    BY <1>2
  <2> DEFINE g == [i \in 0 .. m + 1 |-> IF i <= m THEN f[i] ELSE After(have, stuck, f[m], list[i])]
  <2>1. ASSUME NEW i \in 0 .. m + 1, i # 0
        PROVE  g[i] = After(have, stuck, g[i - 1], list[i])
    <3>1. i - 1 \in 0 .. m /\ i - 1 \in 0 .. m + 1
      BY <2>1
    <3>2. g[i - 1] = f[i - 1]
      BY <3>1
    <3>3. CASE i <= m
      <4>1. g[i] = f[i] /\ i \in 0 .. m
        BY <3>3
      <4>2. f[i] = After(have, stuck, f[i - 1], list[i])
        BY <2>1, <4>1 DEF Queues
      <4> QED BY <3>2, <4>1, <4>2
    <3>4. CASE i = m + 1
      <4>1. i - 1 = m /\ ~(i <= m)
        BY <3>4
      <4> QED BY <3>2, <4>1
    <3> QED BY <3>3, <3>4
  <2>2. g[0] = <<>>
    <3>1. g[0] = f[0] /\ 0 \in 0 .. m
      OBVIOUS
    <3> QED BY <3>1 DEF Queues
  <2>3. g = [i \in 0 .. m + 1 |-> g[i]]
    OBVIOUS
  <2> HIDE DEF g
  <2>4. Queues(g, have, list, stuck, m + 1)
    BY <2>1, <2>2, <2>3 DEF Queues
  <2> QED BY <2>4
<1> HIDE DEF S
<1>3. Nat \subseteq S
  BY <1>1, <1>2, InductionOverSet
<1> QED BY <1>3 DEF S

LEMMA EnqueuedIsLast ==
  ASSUME NEW have, NEW list, NEW stuck, Len(list) \in Nat
  PROVE  \E f : /\ Queues(f, have, list, stuck, Len(list))
                /\ Enqueued(have, list, stuck) = f[Len(list)]
<1> DEFINE Right(f) == f = [n \in 0 .. Len(list) |->
                             IF n = 0 THEN <<>>
                             ELSE IF CodecNeedsDownload(have, f[n - 1], list[n], stuck)
                                  THEN Append(f[n - 1], list[n])
                                  ELSE f[n - 1]]
           queue == CHOOSE f : Right(f)
<1>1. \E f : Right(f)
  <2> PICK f : Queues(f, have, list, stuck, Len(list))
    BY QueuesExist
  <2>1. Right(f)
    BY DEF Queues, After
  <2> QED BY <2>1
<1>2. Right(queue)
  <2> HIDE DEF Right
  <2> QED BY <1>1
<1>3. Enqueued(have, list, stuck) = queue[Len(list)]
  BY DEF Enqueued
<1>4. Queues(queue, have, list, stuck, Len(list))
  <2> HIDE DEF queue
  <2> QED BY <1>2 DEF Queues, After
<1> QED BY <1>3, <1>4

LEMMA SeqFacts ==
  ASSUME NEW S, NEW s \in Seq(S)
  PROVE  /\ Len(s) \in Nat /\ DOMAIN s = 1 .. Len(s)
         /\ \A i \in DOMAIN s : s[i] \in S
         /\ ToSet(s) \subseteq S
BY LenProperties, ElementOfSeq DEF ToSet

LEMMA AppendFacts ==
  ASSUME NEW S, NEW q \in Seq(S), NEW c \in S
  PROVE  /\ Append(q, c) \in Seq(S)
         /\ ToSet(Append(q, c)) = ToSet(q) \cup {c}
         /\ IsInjective(q) /\ c \notin ToSet(q) => IsInjective(Append(q, c))
<1>1. /\ Append(q, c) \in Seq(S)
      /\ Len(q) \in Nat /\ DOMAIN q = 1 .. Len(q)
      /\ DOMAIN Append(q, c) = 1 .. Len(q) + 1
      /\ \A i \in 1 .. Len(q) : Append(q, c)[i] = q[i]
      /\ Append(q, c)[Len(q) + 1] = c
  OBVIOUS
<1> DEFINE a == Append(q, c)
<1> HIDE DEF a
<1>2. ToSet(a) = ToSet(q) \cup {c}
  <2>1. ASSUME NEW x \in ToSet(a)
        PROVE  x \in ToSet(q) \cup {c}
    BY <1>1, <2>1 DEF ToSet, a
  <2>2. ASSUME NEW x \in ToSet(q)
        PROVE  x \in ToSet(a)
    BY <1>1, <2>2 DEF ToSet, a
  <2>3. c \in ToSet(a)
    BY <1>1 DEF ToSet, a
  <2> QED BY <2>1, <2>2, <2>3
<1>3. ASSUME IsInjective(q), c \notin ToSet(q)
      PROVE  IsInjective(a)
  <2> SUFFICES ASSUME NEW i \in DOMAIN a, NEW j \in DOMAIN a, a[i] = a[j]
               PROVE  i = j
    BY DEF IsInjective
  <2>1. CASE i \in DOMAIN q /\ j \in DOMAIN q
    BY <1>1, <1>3, <2>1 DEF IsInjective, a
  <2>2. CASE i \in DOMAIN q /\ j \notin DOMAIN q
    <3>1. j = Len(q) + 1
      BY <1>1, <2>2 DEF a
    <3>2. a[i] = q[i] /\ a[j] = c
      BY <1>1, <2>2, <3>1 DEF a
    <3> QED BY <1>3, <2>2, <3>2 DEF ToSet
  <2>3. CASE i \notin DOMAIN q /\ j \in DOMAIN q
    <3>1. i = Len(q) + 1
      BY <1>1, <2>3 DEF a
    <3>2. a[j] = q[j] /\ a[i] = c
      BY <1>1, <2>3, <3>1 DEF a
    <3> QED BY <1>3, <2>3, <3>2 DEF ToSet
  <2>4. CASE i \notin DOMAIN q /\ j \notin DOMAIN q
    BY <1>1, <2>4 DEF a
  <2> QED BY <2>1, <2>2, <2>3, <2>4
<1> QED BY <1>1, <1>2, <1>3 DEF a

(* A queue without repetitions of codecs that are not present; of the first *)
(* n drivers it has those that can be fetched.                              *)
QueueOf(q, have, list, stuck, n) ==
  /\ q \in Seq(Codecs) /\ IsInjective(q)
  /\ ToSet(q) \cap have = {}
  /\ \A i \in 1 .. n :
       list[i] \in Codecs \ have => list[i] \in ToSet(q) \cup (disk \cap stuck)

LEMMA EnqueuedFacts ==
  ASSUME NEW have, NEW list, NEW stuck, Len(list) \in Nat
  PROVE  QueueOf(Enqueued(have, list, stuck), have, list, stuck, Len(list))
<1> PICK f : /\ Queues(f, have, list, stuck, Len(list))
             /\ Enqueued(have, list, stuck) = f[Len(list)]
  BY EnqueuedIsLast
<1> DEFINE Good(n) == n <= Len(list) => QueueOf(f[n], have, list, stuck, n)
           S == {n \in Nat : Good(n)}
<1>1. 0 \in S
  <2>1. f[0] = <<>>
    BY DEF Queues
  <2>2. <<>> \in Seq(Codecs) /\ IsInjective(<<>>) /\ ToSet(<<>>) = {}
    BY DEF IsInjective, ToSet
  <2>3. QueueOf(<<>>, have, list, stuck, 0)
    BY <2>2 DEF QueueOf
  <2> QED BY <2>1, <2>3
<1>2. ASSUME NEW n \in Nat, n \in S
      PROVE  n + 1 \in S
  <2> SUFFICES ASSUME n + 1 <= Len(list)
               PROVE  QueueOf(f[n + 1], have, list, stuck, n + 1)
    BY DEF S
  <2> DEFINE q == f[n]
             c == list[n + 1]
  <2>1. QueueOf(q, have, list, stuck, n)
    BY <1>2
  <2>2. f[n + 1] = After(have, stuck, q, c)
    <3>1. n + 1 \in 0 .. Len(list) /\ n + 1 # 0 /\ (n + 1) - 1 = n
      OBVIOUS
    <3> QED BY <3>1 DEF Queues
  <2>3. \A i \in 1 .. n + 1 : i \in 1 .. n \/ list[i] = c
    OBVIOUS
  <2> HIDE DEF q, c
  <2>4. CASE CodecNeedsDownload(have, q, c, stuck)
    <3>1. c \in Codecs /\ c \notin have /\ c \notin ToSet(q)
      BY <2>4 DEF CodecNeedsDownload
    <3>2. /\ Append(q, c) \in Seq(Codecs) /\ IsInjective(Append(q, c))
          /\ ToSet(Append(q, c)) = ToSet(q) \cup {c}
      BY <2>1, <3>1, AppendFacts DEF QueueOf
    <3>3. f[n + 1] = Append(q, c)
      BY <2>2, <2>4 DEF After
    <3> QED BY <2>1, <2>3, <3>1, <3>2, <3>3 DEF QueueOf
  <2>5. CASE ~CodecNeedsDownload(have, q, c, stuck)
    <3>1. c \in Codecs \ have => c \in ToSet(q) \cup (disk \cap stuck)
      BY <2>5 DEF CodecNeedsDownload
    <3>2. f[n + 1] = q
      BY <2>2, <2>5 DEF After
    <3> QED BY <2>1, <2>3, <3>1, <3>2 DEF QueueOf
  <2> QED BY <2>4, <2>5
<1>3. Nat \subseteq S
  <2> HIDE DEF S
  <2> QED BY <1>1, <1>2, InductionOverSet
<1>4. Good(Len(list))
  BY <1>3
<1> QED BY <1>4

-----------------------------------------------------------------------------
(* The lists of drivers: they are finite.                                  *)

LEMMA DriversAreFinite == IsFiniteSet(Codecs) /\ IsFiniteSet(EaeDrivers)
<1>1. ASSUME NEW S, NEW s \in Seq(S), NEW T, T \subseteq {s[i].driver : i \in DOMAIN s}
      PROVE  IsFiniteSet(T)
  <2> DEFINE D == DOMAIN s
             f == [i \in D |-> s[i].driver]
             R == {s[i].driver : i \in D}
  <2>1. IsFiniteSet(D)
    BY SeqFacts, FS_Interval
  <2>2. f \in Surjection(D, R)
    BY DEF Surjection
  <2>3. IsFiniteSet(R)
    <3> HIDE DEF f, R, D
    <3> QED BY <2>1, <2>2, FS_Surjection
  <2> QED BY <1>1, <2>3, FS_Subset
<1>2. Codecs \subseteq {Manifest[i].driver : i \in DOMAIN Manifest}
  BY DEF Codecs, ToSet
<1>3. EaeDrivers \subseteq {Builtin[i].driver : i \in DOMAIN Builtin}
  BY DEF EaeDrivers, ToSet
<1> QED BY <1>1, <1>2, <1>3, ChoiceAssumption

LEMMA SetToSeqFacts ==
  ASSUME NEW S, IsFiniteSet(S)
  PROVE  Len(SetToSeq(S)) \in Nat /\ \A x \in S : \E i \in 1 .. Len(SetToSeq(S)) : SetToSeq(S)[i] = x
<1> DEFINE n == Cardinality(S)
           s == SetToSeq(S)
<1>1. n \in Nat /\ IsFiniteSet(1 .. n) /\ Cardinality(1 .. n) = n
  <2>1. n \in Nat
    BY FS_CardinalityType
  <2> QED BY <2>1, FS_Interval
<1>2. PICK f : f \in Bijection(1 .. n, S)
  BY FS_CardinalityType DEF ExistsBijection
<1>3. f \in [1 .. n -> S] /\ IsInjective(f)
  BY <1>2 DEF Bijection, Injection, IsInjective
<1>4. s \in [1 .. n -> S] /\ IsInjective(s)
  BY <1>3 DEF SetToSeq
<1> HIDE DEF s, n
<1>5. s \in Injection(1 .. n, S)
  BY <1>4 DEF Injection, IsInjective
<1>6. s \in Surjection(1 .. n, S)
  BY <1>1, <1>5, FS_Injection DEF n
<1>7. Len(s) = n
  BY <1>1, <1>4
<1> QED BY <1>1, <1>6, <1>7 DEF Surjection, s

LEMMA RequiredIsList ==
  ASSUME NEW loaded \in SUBSET Codecs, NEW list \in Required[loaded]
  PROVE  Len(list) \in Nat
<1> DEFINE Asked(file, ac3, useVideo) ==
             DetermineRequiredCodecs(CachedCodecList(loaded),
                                     PlaybackStreams(file.tracks, file.server), ac3, useVideo)
           Names(required) == [i \in DOMAIN required |->
                                 IF required[i] = <<>> THEN None ELSE required[i][1].codec.driver]
<1>1. PICK file \in Files, ac3 \in BOOLEAN, useVideo \in BOOLEAN :
        list = Names(Asked(file, ac3, useVideo))
  BY DEF Required
<1> DEFINE streams == PlaybackStreams(file.tracks, file.server)
<1>2. PICK n \in Nat : DOMAIN streams = 1 .. n
  <2>1. file.tracks \in Seq(StreamInfo) /\ file.server \in Seq(StreamInfo)
    BY CodecsAssumption
  <2>2. /\ Len(file.tracks) \in Nat /\ DOMAIN file.tracks = 1 .. Len(file.tracks)
        /\ Len(file.server) \in Nat /\ DOMAIN file.server = 1 .. Len(file.server)
    BY <2>1, SeqFacts
  <2>3. DOMAIN streams = DOMAIN file.tracks \/ DOMAIN streams = DOMAIN file.server
    BY DEF PlaybackStreams
  <2> QED BY <2>2, <2>3
<1> HIDE DEF streams
<1>3. PICK m \in Nat : DOMAIN Asked(file, ac3, useVideo) = 1 .. m
  <2> DEFINE Coded(s) == s.kind \in {"video", "audio"} /\ s.codec # ""
             decoders == [i \in DOMAIN streams |->
                            IF Coded(streams[i])
                            THEN SelectBestDecoder(CachedCodecList(loaded), streams[i], useVideo)
                            ELSE <<>>]
             encoder == IF ac3 /\ \E s \in ToSet(streams) : Coded(s)
                        THEN <<Ac3Encoder(CachedCodecList(loaded))>> ELSE <<>>
  <2>1. Asked(file, ac3, useVideo) = decoders \o encoder
    BY DEF DetermineRequiredCodecs, streams
  <2>2. Len(decoders) = n
    BY <1>2
  <2>3. Len(encoder) \in {0, 1}
    OBVIOUS
  <2> HIDE DEF decoders, encoder, Asked
  <2>4. DOMAIN (decoders \o encoder) = 1 .. n + Len(encoder)
    BY <2>2, <2>3
  <2>5. n + Len(encoder) \in Nat
    BY <2>3
  <2> QED BY <2>1, <2>4, <2>5
<1>4. DOMAIN list = 1 .. m
  BY <1>1, <1>3
<1> QED BY <1>4

-----------------------------------------------------------------------------
(* The choice of codecs.                                                   *)

LEMMA SmallestOfPlaces ==
  ASSUME NEW S, S \subseteq Nat, S # {}
  PROVE  Min(S) \in S
<1>1. PICK m \in S : \A k \in 0 .. m - 1 : k \notin S
  BY LeastOfSet
<1>2. ASSUME NEW y \in S
      PROVE  m <= y
  <2>1. m \in Nat /\ y \in Nat
    OBVIOUS
  <2> QED BY <1>1, <2>1
<1> QED BY <1>1, <1>2 DEF Min

LEMMA LargestOfPlaces ==
  ASSUME NEW N \in Nat, NEW S, S \subseteq 0 .. N, S # {}
  PROVE  Max(S) \in S
<1> DEFINE T == {N - x : x \in S}
<1>1. T \subseteq Nat /\ T # {}
  <2>1. \A x \in S : N - x \in Nat
    OBVIOUS
  <2>2. T \subseteq Nat
    BY <2>1
  <2>3. PICK x : x \in S
    OBVIOUS
  <2>4. N - x \in T
    BY <2>3
  <2> QED BY <2>2, <2>4
<1>2. PICK m \in T : \A k \in 0 .. m - 1 : k \notin T
  <2> HIDE DEF T
  <2> QED BY <1>1, LeastOfSet
<1>3. PICK x \in S : m = N - x
  BY <1>2
<1>4. ASSUME NEW y \in S
      PROVE  y <= x
  <2>1. N - y \in T
    OBVIOUS
  <2> HIDE DEF T
  <2>2. x \in Nat /\ y \in Nat /\ x <= N /\ y <= N
    <3>1. x \in 0 .. N
      BY <1>3
    <3>2. y \in 0 .. N
      BY <1>4
    <3> QED BY <3>1, <3>2
  <2>3. N - y \notin 0 .. m - 1
    BY <1>2, <2>1
  <2>4. ~(N - y < N - x)
    BY <1>3, <2>2, <2>3
  <2> QED BY <2>2, <2>4
<1> QED BY <1>4 DEF Max

(* What is in the list, and that only what is no system codec can be       *)
(* missing.                                                                *)
LEMMA ListFacts ==
  ASSUME NEW loaded
  PROVE  LET list == CachedCodecList(loaded)
         IN  /\ DOMAIN list \subseteq 0 .. Len(Manifest) + Len(Builtin)
             /\ Len(Manifest) + Len(Builtin) \in Nat
             /\ \A i \in DOMAIN list :
                  /\ list[i].codec \in ToSet(Manifest) \cup ToSet(Builtin)
                  /\ ~list[i].present => ~IsSystemCodec(list[i].codec)
<1> DEFINE all    == Manifest \o Builtin
           known  == {i \in DOMAIN Manifest : ~IsSystemCodec(Manifest[i])}
           others == {i \in DOMAIN all \ DOMAIN Manifest : ~\E k \in known : SameCodec(all[k], all[i])}
           There(d) == \E b \in ToSet(Builtin) : SameCodec(b, d)
           list == [i \in known \cup others |->
                      [codec   |-> all[i],
                       present |-> i \in others \/ all[i].driver \in loaded \/ There(all[i])]]
<1>1. CachedCodecList(loaded) = list
  BY DEF CachedCodecList
<1>2. Manifest \in Seq(Drivers) /\ Builtin \in Seq(Drivers)
  BY ChoiceAssumption
<1>3. /\ Len(Manifest) \in Nat /\ DOMAIN Manifest = 1 .. Len(Manifest)
      /\ Len(Builtin) \in Nat /\ DOMAIN Builtin = 1 .. Len(Builtin)
  BY <1>2, SeqFacts
<1>4. /\ DOMAIN all = 1 .. Len(Manifest) + Len(Builtin)
      /\ \A i \in DOMAIN Manifest : all[i] = Manifest[i]
      /\ \A i \in DOMAIN all \ DOMAIN Manifest :
           i - Len(Manifest) \in DOMAIN Builtin /\ all[i] = Builtin[i - Len(Manifest)]
  BY <1>2, <1>3, ConcatProperties
<1> HIDE DEF all
<1>5. \A i \in known : i \in DOMAIN Manifest /\ all[i] \in ToSet(Manifest) /\ ~IsSystemCodec(all[i])
  BY <1>4 DEF ToSet
<1>6. \A i \in others : i \in DOMAIN all /\ all[i] \in ToSet(Builtin)
  BY <1>4 DEF ToSet
<1>7. known \cup others \subseteq 0 .. Len(Manifest) + Len(Builtin) /\ Len(Manifest) + Len(Builtin) \in Nat
  BY <1>3, <1>4, <1>5, <1>6
<1> HIDE DEF known, others, There
<1>8. DOMAIN list = known \cup others
  OBVIOUS
<1>9. ASSUME NEW i \in known \cup others
      PROVE  /\ list[i].codec = all[i]
             /\ list[i].present = (i \in others \/ all[i].driver \in loaded \/ There(all[i]))
  OBVIOUS
<1> HIDE DEF list
<1>10. ASSUME NEW i \in DOMAIN list
       PROVE  /\ list[i].codec \in ToSet(Manifest) \cup ToSet(Builtin)
              /\ ~list[i].present => ~IsSystemCodec(list[i].codec)
  <2>1. i \in known \/ i \in others
    BY <1>8
  <2>2. list[i].codec = all[i] /\ (i \in others => list[i].present)
    BY <1>8, <1>9
  <2> QED BY <1>5, <1>6, <2>1, <2>2
<1> QED BY <1>1, <1>7, <1>8, <1>10

(* What the white lists say of an entry.                                   *)
LEMMA ListedFacts ==
  ASSUME NEW loaded, NEW i \in DOMAIN CachedCodecList(loaded), NEW useVideo,
         Whitelisted(CachedCodecList(loaded)[i].codec, useVideo)
  PROVE  LET d == CachedCodecList(loaded)[i].codec
         IN  d.type = "Decoder" /\ d.system # "eae" /\ d.system # ""
<1> DEFINE d == CachedCodecList(loaded)[i].codec
<1>1. d \in ToSet(Manifest) \cup ToSet(Builtin)
  BY ListFacts
<1> HIDE DEF d
<1>2. d.listed # ""
  BY DEF Whitelisted, d
<1>3. d.type = "Decoder" /\ d.system # "eae" /\ d.system # ""
  BY <1>1, <1>2, WhiteListAssumption
<1> QED BY <1>3 DEF d

LEMMA ScoreFacts ==
  ASSUME NEW e, NEW s, NEW useVideo
  PROVE  /\ Score(e, s, useVideo) \in {-1, 1, 2, 5, 10, 15}
         /\ ~IsSystemCodec(e.codec) => Score(e, s, useVideo) = IF e.present THEN 15 ELSE 5
         /\ IsSystemCodec(e.codec) /\ ~Whitelisted(e.codec, useVideo) => Score(e, s, useVideo) <= 2
         /\ /\ IsSystemCodec(e.codec) /\ e.codec.system # "eae"
            /\ Whitelisted(e.codec, useVideo) /\ ~BeyondLimits(e.codec, s)
            => Score(e, s, useVideo) = 10
BY DEF Score

(* selectBestDecoder() finds nothing, or one that no other beats.           *)
LEMMA BestDecoder ==
  ASSUME NEW loaded, NEW s, NEW useVideo,
         NEW best, best = SelectBestDecoder(CachedCodecList(loaded), s, useVideo), best # <<>>
  PROVE  LET list == CachedCodecList(loaded)
             places == CodecsByFormat(list, "Decoder", s.codec)
         IN  \E i \in places : /\ best = <<list[i]>>
                               /\ \A j \in places : Score(list[j], s, useVideo) <= Score(list[i], s, useVideo)
<1> DEFINE list == CachedCodecList(loaded)
           places == CodecsByFormat(list, "Decoder", s.codec)
           P(i) == Score(list[i], s, useVideo)
           usable == {i \in places : P(i) >= 0}
           heads == {i \in usable : \A j \in usable : P(j) <= P(i)}
<1>1. places \subseteq Nat
  BY ListFacts DEF CodecsByFormat
<1>2. best = IF heads = {} THEN <<>> ELSE <<list[Min(heads)]>>
  BY DEF SelectBestDecoder
<1> DEFINE i == Min(heads)
<1>3. heads # {} /\ best = <<list[i]>>
  BY <1>2
<1>4. i \in heads
  <2>1. heads \subseteq Nat
    BY <1>1
  <2> HIDE DEF heads
  <2> QED BY <1>3, <2>1, SmallestOfPlaces
<1> HIDE DEF i, list, places
<1>5. \A j \in places : P(j) \in {-1, 1, 2, 5, 10, 15}
  BY ScoreFacts
<1> HIDE DEF P
<1>6. i \in places /\ P(i) >= 0 /\ \A j \in places : P(j) >= 0 => P(j) <= P(i)
  BY <1>4
<1>7. \A j \in places : P(j) <= P(i)
  BY <1>5, <1>6
<1> QED BY <1>3, <1>6, <1>7 DEF P, list, places

LEMMA DoubtfulIsLast ==
  ASSUME NEW loaded \in SUBSET Codecs
  PROVE  LastResort[loaded]
<1> DEFINE list == CachedCodecList(loaded)
<1> SUFFICES ASSUME NEW file \in Files, NEW useVideo \in BOOLEAN,
                    NEW s \in ToSet(PlaybackStreams(file.tracks, file.server)),
                    SelectBestDecoder(list, s, useVideo) # <<>>,
                    IsSystemCodec(SelectBestDecoder(list, s, useVideo)[1].codec),
                    ~Whitelisted(SelectBestDecoder(list, s, useVideo)[1].codec, useVideo),
                    NEW i \in CodecsByFormat(list, "Decoder", s.codec)
             PROVE  /\ IsSystemCodec(list[i].codec)
                    /\ Whitelisted(list[i].codec, useVideo) => BeyondLimits(list[i].codec, s)
  BY DEF LastResort
<1> DEFINE best == SelectBestDecoder(list, s, useVideo)
           places == CodecsByFormat(list, "Decoder", s.codec)
<1>1. PICK k \in places : /\ best = <<list[k]>>
                          /\ \A j \in places : Score(list[j], s, useVideo) <= Score(list[k], s, useVideo)
  BY BestDecoder
<1>2. i \in DOMAIN list
  BY DEF CodecsByFormat
<1>3. IsSystemCodec(list[k].codec) /\ ~Whitelisted(list[k].codec, useVideo)
  BY <1>1
<1>4. Score(list[i], s, useVideo) <= Score(list[k], s, useVideo)
  BY <1>1
<1>5. Score(list[k], s, useVideo) <= 2 /\ Score(list[k], s, useVideo) \in Int /\ Score(list[i], s, useVideo) \in Int
  <2>1. Score(list[k], s, useVideo) \in {-1, 1, 2, 5, 10, 15} /\ Score(list[i], s, useVideo) \in {-1, 1, 2, 5, 10, 15}
    BY ScoreFacts
  <2> QED BY <1>3, <2>1, ScoreFacts
<1>6. Score(list[i], s, useVideo) <= 2
  BY <1>4, <1>5
<1>7. IsSystemCodec(list[i].codec)
  <2> SUFFICES ASSUME ~IsSystemCodec(list[i].codec) PROVE FALSE
    OBVIOUS
  <2>1. Score(list[i], s, useVideo) = IF list[i].present THEN 15 ELSE 5
    BY ScoreFacts
  <2> QED BY <1>6, <2>1
<1>8. ASSUME Whitelisted(list[i].codec, useVideo), ~BeyondLimits(list[i].codec, s)
      PROVE  FALSE
  <2>1. list[i].codec.system # "eae"
    BY <1>2, <1>8, ListedFacts
  <2>2. Score(list[i], s, useVideo) = 10
    BY <1>7, <1>8, <2>1, ScoreFacts
  <2> QED BY <1>6, <2>2
<1> QED BY <1>7, <1>8

(* The decoder for a stream is missing only if no suitable one is there.   *)
LEMMA DecoderIsNeeded ==
  ASSUME NEW loaded, NEW s, NEW useVideo, NEW e,
         e \in ToSet(SelectBestDecoder(CachedCodecList(loaded), s, useVideo)), ~e.present
  PROVE  LET list == CachedCodecList(loaded)
         IN  \A i \in CodecsByFormat(list, e.codec.type, e.codec.format) :
               /\ list[i].present
               /\ IsSystemCodec(list[i].codec) => Whitelisted(list[i].codec, useVideo)
               => BeyondLimits(list[i].codec, s)
<1> DEFINE list == CachedCodecList(loaded)
           best == SelectBestDecoder(list, s, useVideo)
           places == CodecsByFormat(list, "Decoder", s.codec)
<1>1. best # <<>>
  BY DEF ToSet
<1>2. PICK k \in places : /\ best = <<list[k]>>
                          /\ \A j \in places : Score(list[j], s, useVideo) <= Score(list[k], s, useVideo)
  BY <1>1, BestDecoder
<1>3. e = list[k]
  <2> HIDE DEF best, list
  <2> QED BY <1>2 DEF ToSet, best, list
<1>4. k \in DOMAIN list /\ e.codec.type = "Decoder" /\ e.codec.format = s.codec
  BY <1>2, <1>3 DEF CodecsByFormat
<1>5. ~IsSystemCodec(list[k].codec)
  BY <1>3, <1>4, ListFacts
<1>6. Score(list[k], s, useVideo) = 5
  <2>1. Score(list[k], s, useVideo) = IF list[k].present THEN 15 ELSE 5
    BY <1>5, ScoreFacts
  <2> QED BY <1>3, <2>1
<1>7. ASSUME NEW i \in places, list[i].present,
             IsSystemCodec(list[i].codec) => Whitelisted(list[i].codec, useVideo),
             ~BeyondLimits(list[i].codec, s)
      PROVE  FALSE
  <2>1. Score(list[i], s, useVideo) <= 5
    BY <1>2, <1>6, <1>7
  <2>2. CASE ~IsSystemCodec(list[i].codec)
    <3>1. Score(list[i], s, useVideo) = 15
      BY <1>7, <2>2, ScoreFacts
    <3> QED BY <2>1, <3>1
  <2>3. CASE IsSystemCodec(list[i].codec)
    <3>1. i \in DOMAIN list
      BY <1>7 DEF CodecsByFormat
    <3>2. list[i].codec.system # "eae"
      BY <1>7, <2>3, <3>1, ListedFacts
    <3>3. Score(list[i], s, useVideo) = 10
      BY <1>7, <2>3, <3>2, ScoreFacts
    <3> QED BY <2>1, <3>3
  <2> QED BY <2>2, <2>3
<1>8. CodecsByFormat(list, e.codec.type, e.codec.format) = places
  BY <1>4
<1> HIDE DEF list, places
<1>9. \A i \in CodecsByFormat(list, e.codec.type, e.codec.format) :
               /\ list[i].present
               /\ IsSystemCodec(list[i].codec) => Whitelisted(list[i].codec, useVideo)
               => BeyondLimits(list[i].codec, s)
  BY <1>7, <1>8
<1> QED BY <1>9 DEF list

(* The encoder is missing only if no suitable one is there.                *)
LEMMA EncoderIsNeeded ==
  ASSUME NEW loaded, NEW useVideo, NEW e, e \in ToSet(Ac3Encoder(CachedCodecList(loaded))), ~e.present
  PROVE  LET list == CachedCodecList(loaded)
         IN  \A i \in CodecsByFormat(list, e.codec.type, e.codec.format) :
               ~(/\ list[i].present
                 /\ IsSystemCodec(list[i].codec) => Whitelisted(list[i].codec, useVideo))
<1> DEFINE list == CachedCodecList(loaded)
           encoders == CodecsByFormat(list, "Encoder", "ac3")
           Listed(d) == ~IsSystemCodec(d) \/ d.listed = "audio"
           usable   == {i \in encoders : list[i].present /\ Listed(list[i].codec)}
           external == {i \in encoders : list[i].codec.external}
           choice == IF usable # {} THEN <<list[Min(usable)]>>
                     ELSE IF external # {} THEN <<list[Max(external)]>> ELSE <<>>
<1>1. e \in ToSet(choice)
  BY DEF Ac3Encoder
<1>2. encoders \subseteq Nat
  BY ListFacts DEF CodecsByFormat
<1>3. usable = {}
  <2> SUFFICES ASSUME usable # {} PROVE FALSE
    OBVIOUS
  <2>1. usable \subseteq Nat
    BY <1>2
  <2>2. Min(usable) \in usable
    <3> HIDE DEF usable
    <3> QED BY <2>1, SmallestOfPlaces
  <2>3. e = list[Min(usable)]
    <3> HIDE DEF usable, list
    <3> QED BY <1>1 DEF ToSet
  <2> HIDE DEF list
  <2> QED BY <2>2, <2>3
<1>4. external # {} /\ e = list[Max(external)]
  <2> HIDE DEF usable, list, external
  <2> QED BY <1>1, <1>3 DEF ToSet
<1>5. Max(external) \in external
  <2>1. external \subseteq 0 .. Len(Manifest) + Len(Builtin) /\ Len(Manifest) + Len(Builtin) \in Nat
    BY ListFacts DEF CodecsByFormat
  <2> HIDE DEF external
  <2> QED BY <1>4, <2>1, LargestOfPlaces
<1>6. e.codec.type = "Encoder" /\ e.codec.format = "ac3"
  <2> HIDE DEF list
  <2> QED BY <1>4, <1>5 DEF CodecsByFormat
<1>7. ASSUME NEW i \in encoders, list[i].present,
             IsSystemCodec(list[i].codec) => Whitelisted(list[i].codec, useVideo)
      PROVE  FALSE
  <2>1. i \in DOMAIN list /\ list[i].codec.type = "Encoder"
    BY <1>7 DEF CodecsByFormat
  <2>2. ~Whitelisted(list[i].codec, useVideo)
    <3> SUFFICES ASSUME Whitelisted(list[i].codec, useVideo) PROVE FALSE
      OBVIOUS
    <3>1. list[i].codec.type = "Decoder"
      BY <2>1, ListedFacts
    <3> QED BY <2>1, <3>1
  <2>3. i \in usable
    BY <1>7, <2>2
  <2> QED BY <1>3, <2>3
<1>8. CodecsByFormat(list, e.codec.type, e.codec.format) = encoders
  BY <1>6
<1> HIDE DEF list, encoders
<1>9. \A i \in CodecsByFormat(list, e.codec.type, e.codec.format) :
        ~(/\ list[i].present
          /\ IsSystemCodec(list[i].codec) => Whitelisted(list[i].codec, useVideo))
  BY <1>7, <1>8
<1> QED BY <1>9 DEF list

LEMMA StreamsAreList ==
  ASSUME NEW file \in Files
  PROVE  \E n \in Nat : DOMAIN PlaybackStreams(file.tracks, file.server) = 1 .. n
<1>1. file.tracks \in Seq(StreamInfo) /\ file.server \in Seq(StreamInfo)
  BY CodecsAssumption
<1>2. /\ Len(file.tracks) \in Nat /\ DOMAIN file.tracks = 1 .. Len(file.tracks)
      /\ Len(file.server) \in Nat /\ DOMAIN file.server = 1 .. Len(file.server)
  BY <1>1, SeqFacts
<1>3. \/ DOMAIN PlaybackStreams(file.tracks, file.server) = DOMAIN file.tracks
      \/ DOMAIN PlaybackStreams(file.tracks, file.server) = DOMAIN file.server
  BY DEF PlaybackStreams
<1> QED BY <1>2, <1>3

(* What is required is a decoder for a stream, or the encoder.             *)
LEMMA RequiredIsChosen ==
  ASSUME NEW list, NEW streams, NEW m \in Nat, DOMAIN streams = 1 .. m,
         NEW ac3, NEW useVideo,
         NEW n \in DOMAIN DetermineRequiredCodecs(list, streams, ac3, useVideo),
         NEW e \in ToSet(DetermineRequiredCodecs(list, streams, ac3, useVideo)[n])
  PROVE  \/ n \in DOMAIN streams /\ e \in ToSet(SelectBestDecoder(list, streams[n], useVideo))
         \/ e \in ToSet(Ac3Encoder(list))
<1> DEFINE Coded(s) == s.kind \in {"video", "audio"} /\ s.codec # ""
           decoders == [i \in DOMAIN streams |->
                          IF Coded(streams[i]) THEN SelectBestDecoder(list, streams[i], useVideo) ELSE <<>>]
           encoder == IF ac3 /\ \E s \in ToSet(streams) : Coded(s) THEN <<Ac3Encoder(list)>> ELSE <<>>
           V == {decoders[i] : i \in DOMAIN streams} \cup {Ac3Encoder(list)}
<1>1. DetermineRequiredCodecs(list, streams, ac3, useVideo) = decoders \o encoder
  BY DEF DetermineRequiredCodecs
<1>2. decoders \in Seq(V) /\ Len(decoders) = m /\ DOMAIN decoders = 1 .. m
  <2> HIDE DEF Coded
  <2>1. decoders \in [1 .. m -> V]
    OBVIOUS
  <2>2. DOMAIN decoders = 1 .. m
    OBVIOUS
  <2> HIDE DEF decoders, V
  <2> QED BY <2>1, <2>2
<1>3. encoder \in Seq(V) /\ \A i \in 1 .. Len(encoder) : encoder[i] = Ac3Encoder(list)
  <2> HIDE DEF Coded
  <2>1. encoder = <<>> \/ encoder = <<Ac3Encoder(list)>>
    OBVIOUS
  <2>2. Ac3Encoder(list) \in V
    OBVIOUS
  <2> DEFINE x == Ac3Encoder(list)
  <2> HIDE DEF encoder, V, x
  <2>3. CASE encoder = <<>>
    <3>1. encoder \in Seq(V)
      BY <2>3
    <3>2. Len(encoder) = 0
      BY <2>3
    <3> QED BY <3>1, <3>2
  <2>4. CASE encoder = <<x>>
    <3>1. x \in V
      BY <2>2 DEF x
    <3>2. <<x>> \in Seq(V) /\ Len(<<x>>) = 1 /\ <<x>>[1] = x
      BY <3>1
    <3>3. \A i \in 1 .. 1 : i = 1
      OBVIOUS
    <3>4. \A i \in 1 .. Len(encoder) : encoder[i] = x
      BY <2>4, <3>2, <3>3
    <3> QED BY <2>4, <3>2, <3>4 DEF x
  <2> QED BY <2>1, <2>3, <2>4 DEF x
<1>4. \A i \in DOMAIN streams : decoders[i] \in {SelectBestDecoder(list, streams[i], useVideo), <<>>}
  <2> HIDE DEF Coded
  <2> QED OBVIOUS
<1> HIDE DEF decoders, encoder, V
<1>5. /\ Len(encoder) \in Nat
      /\ DOMAIN (decoders \o encoder) = 1 .. m + Len(encoder)
      /\ \A i \in 1 .. m + Len(encoder) :
           (decoders \o encoder)[i] = IF i <= m THEN decoders[i] ELSE encoder[i - m]
  <2>1. Len(encoder) \in Nat
    BY <1>3, SeqFacts
  <2>2. /\ decoders \o encoder \in Seq(V)
        /\ Len(decoders \o encoder) = m + Len(encoder)
        /\ \A i \in 1 .. m + Len(encoder) :
             (decoders \o encoder)[i] = IF i <= m THEN decoders[i] ELSE encoder[i - m]
    BY <1>2, <1>3, ConcatProperties
  <2>3. DOMAIN (decoders \o encoder) = 1 .. m + Len(encoder)
    BY <2>2, SeqFacts
  <2> QED BY <2>1, <2>2, <2>3
<1>6. n \in 1 .. m + Len(encoder) /\ e \in ToSet((decoders \o encoder)[n])
  BY <1>1, <1>5
<1>7. CASE n <= m
  <2>1. n \in DOMAIN streams /\ (decoders \o encoder)[n] = decoders[n]
    BY <1>5, <1>6, <1>7
  <2>2. e \in ToSet(SelectBestDecoder(list, streams[n], useVideo)) \/ e \in ToSet(<<>>)
    BY <1>4, <1>6, <2>1
  <2>3. ToSet(<<>>) = {}
    BY DEF ToSet
  <2> QED BY <2>1, <2>2, <2>3
<1>8. CASE ~(n <= m)
  <2>1. n - m \in 1 .. Len(encoder) /\ (decoders \o encoder)[n] = encoder[n - m]
    BY <1>5, <1>6, <1>8
  <2> QED BY <1>3, <1>6, <2>1
<1> QED BY <1>7, <1>8

LEMMA NothingInVain ==
  ASSUME NEW loaded \in SUBSET Codecs
  PROVE  Needed[loaded]
<1> DEFINE list == CachedCodecList(loaded)
           Suits(x, useVideo) == x.present /\ (IsSystemCodec(x.codec) => Whitelisted(x.codec, useVideo))
<1> SUFFICES ASSUME NEW file \in Files, NEW useVideo \in BOOLEAN, NEW ac3 \in BOOLEAN,
                    NEW n \in DOMAIN DetermineRequiredCodecs(list, PlaybackStreams(file.tracks, file.server),
                                                             ac3, useVideo),
                    NEW e \in ToSet(DetermineRequiredCodecs(list, PlaybackStreams(file.tracks, file.server),
                                                            ac3, useVideo)[n]),
                    ~e.present,
                    NEW i \in CodecsByFormat(list, e.codec.type, e.codec.format),
                    Suits(list[i], useVideo)
             PROVE  /\ n \in DOMAIN PlaybackStreams(file.tracks, file.server)
                    /\ BeyondLimits(list[i].codec, PlaybackStreams(file.tracks, file.server)[n])
  BY DEF Needed
<1> DEFINE streams == PlaybackStreams(file.tracks, file.server)
<1>1. PICK m \in Nat : DOMAIN streams = 1 .. m
  BY StreamsAreList
<1>2. \/ n \in DOMAIN streams /\ e \in ToSet(SelectBestDecoder(list, streams[n], useVideo))
      \/ e \in ToSet(Ac3Encoder(list))
  <2> HIDE DEF list, streams
  <2> QED BY <1>1, RequiredIsChosen DEF streams
<1>3. e \notin ToSet(Ac3Encoder(list))
  BY EncoderIsNeeded
<1>4. BeyondLimits(list[i].codec, streams[n])
  BY <1>2, <1>3, DecoderIsNeeded
<1> QED BY <1>2, <1>3, <1>4

-----------------------------------------------------------------------------
(* The inductive invariant.                                                *)

(* What a fetcher still has to answer.                                     *)
LeftOf(r) == (ToSet(r.queue) \cup {r.item} \cup {i \in {Eae} : r.fetchEae}) \ {None}

SoundFetcher(r) ==
  /\ r \in Fetcher
  /\ r.waits <=> r.request # "none"
  /\ r.waits <=> r.item # None
  /\ ~r.waits => r = NewFetcher
  /\ IsInjective(r.queue) /\ r.item \notin ToSet(r.queue)
  /\ r.fetchEae => r.item # Eae

SystemTypes ==
  /\ running \in BOOLEAN /\ eaeRuns \in BOOLEAN /\ oldEae \in BOOLEAN
  /\ disk \subseteq Codecs /\ old \subseteq Codecs /\ present \subseteq Codecs
  /\ eaeDir \subseteq ToSet(EaeFiles)
  /\ idFile \in Ids \cup {None} /\ id \in Ids \cup {None}

FetchersSound ==
  /\ DOMAIN fetch = Fetchers /\ fetch = [f \in Fetchers |-> fetch[f]]
  /\ \A f \in Fetchers : SoundFetcher(fetch[f])

(* A program that does not run fetches nothing.                            *)
OffIsIdle == ~running => \A f \in Fetchers : fetch[f] = NewFetcher

CodecInv == SystemTypes /\ FetchersSound /\ ListFollowsDisk /\ IdIsStored /\ OffIsIdle

LEMMA CodecInvShows == CodecInv => FetchersAreSound
<1> SUFFICES ASSUME CodecInv PROVE FetchersAreSound
  OBVIOUS
<1>1. fetch \in [Fetchers -> Fetcher]
  BY DEF CodecInv, FetchersSound, SoundFetcher
<1>2. TypeOK
  BY <1>1 DEF CodecInv, SystemTypes, FetchersSound, SoundFetcher, TypeOK
<1>3. NoItemTwice
  BY DEF CodecInv, FetchersSound, SoundFetcher, NoItemTwice
<1> QED BY <1>2, <1>3 DEF CodecInv, FetchersAreSound

LEMMA ChoiceShows == CodecInv => ChoiceIsSound
BY DoubtfulIsLast, NothingInVain
   DEF CodecInv, SystemTypes, ChoiceIsSound, UnlistedIsLastResort, NothingNeedless

LEMMA NothingIsNoItem == None \notin Items /\ Eae \notin Codecs /\ Codecs \subseteq Items
BY CodecsAssumption DEF Items

LEMMA NewFetcherIsSound ==
  SoundFetcher(NewFetcher) /\ LeftOf(NewFetcher) = {} /\ ~NewFetcher.waits
<1>1. <<>> \in Seq(Codecs) /\ IsInjective(<<>>) /\ ToSet(<<>>) = {}
  BY DEF IsInjective, ToSet
<1>2. NewFetcher \in Fetcher
  BY <1>1 DEF NewFetcher, Fetcher
<1>3. /\ NewFetcher.waits = FALSE /\ NewFetcher.request = "none" /\ NewFetcher.item = None
      /\ NewFetcher.queue = <<>> /\ NewFetcher.fetchEae = FALSE
  BY DEF NewFetcher
<1> QED BY <1>1, <1>2, <1>3 DEF SoundFetcher, LeftOf

(* A fetcher that has nothing under way at the moment.                     *)
Between(r) ==
  /\ r \in Fetcher /\ r.waits /\ r.item = None /\ r.request = "none"
  /\ IsInjective(r.queue)

(* startNext() goes on with what is left, and ends if nothing is.          *)
Continues(r, n) ==
  /\ SoundFetcher(n) /\ LeftOf(n) = LeftOf(r)
  /\ n.waits <=> LeftOf(r) # {}

LEMMA RequestContinues ==
  ASSUME NEW r, Between(r), NEW i \in Items, NEW queue \in Seq(Codecs), NEW eae \in BOOLEAN,
         NEW n, n = Request([r EXCEPT !.queue = queue, !.fetchEae = eae], i),
         IsInjective(queue), i \notin ToSet(queue), eae => i # Eae,
         ToSet(queue) \cup {i} \cup {x \in {Eae} : eae}
           = ToSet(r.queue) \cup {x \in {Eae} : r.fetchEae}
  PROVE  Continues(r, n)
<1>1. n \in Fetcher
  BY DEF Between, Request, Fetcher
<1>2. /\ n.waits = r.waits /\ n.item = i /\ n.request = "info"
      /\ n.queue = queue /\ n.fetchEae = eae
  BY DEF Between, Request, Fetcher
<1>3. SoundFetcher(n)
  BY <1>1, <1>2, NothingIsNoItem DEF SoundFetcher, Between
<1>4. LeftOf(n) = LeftOf(r) /\ i \in LeftOf(n)
  BY <1>2, NothingIsNoItem DEF LeftOf, Between
<1> QED BY <1>2, <1>3, <1>4 DEF Continues, Between

LEMMA HeadAndTail ==
  ASSUME NEW S, NEW q \in Seq(S), q # <<>>, IsInjective(q)
  PROVE  /\ Tail(q) \in Seq(S) /\ IsInjective(Tail(q))
         /\ Head(q) \in S /\ Head(q) \notin ToSet(Tail(q))
         /\ ToSet(Tail(q)) \cup {Head(q)} = ToSet(q)
<1> DEFINE t == Tail(q)
<1>1. /\ t \in Seq(S) /\ Len(q) \in Nat \ {0} /\ DOMAIN q = 1 .. Len(q)
      /\ DOMAIN t = 1 .. Len(q) - 1 /\ \A i \in 1 .. Len(q) - 1 : t[i] = q[i + 1]
      /\ Head(q) = q[1] /\ q[1] \in S
  OBVIOUS
<1> HIDE DEF t
<1>2. ASSUME NEW i \in DOMAIN t, NEW j \in DOMAIN t, t[i] = t[j]
      PROVE  i = j
  <2>1. i + 1 \in DOMAIN q /\ j + 1 \in DOMAIN q /\ t[i] = q[i + 1] /\ t[j] = q[j + 1]
    BY <1>1
  <2>2. i + 1 = j + 1
    BY <1>2, <2>1 DEF IsInjective
  <2> QED BY <1>1, <2>2
<1>3. ASSUME NEW i \in DOMAIN t, t[i] = Head(q)
      PROVE  FALSE
  <2>1. i + 1 \in DOMAIN q /\ 1 \in DOMAIN q /\ t[i] = q[i + 1]
    BY <1>1
  <2>2. i + 1 = 1
    BY <1>1, <1>3, <2>1 DEF IsInjective
  <2> QED BY <1>1, <2>2
<1>4. ASSUME NEW x \in ToSet(q)
      PROVE  x \in ToSet(t) \cup {Head(q)}
  <2> PICK i \in DOMAIN q : q[i] = x
    BY DEF ToSet
  <2>1. i = 1 \/ (i - 1 \in DOMAIN t /\ t[i - 1] = q[i])
    BY <1>1
  <2> QED BY <1>1, <2>1 DEF ToSet
<1>5. ASSUME NEW x \in ToSet(t) \cup {Head(q)}
      PROVE  x \in ToSet(q)
  <2>1. CASE x = Head(q)
    BY <1>1, <2>1 DEF ToSet
  <2>2. CASE x \in ToSet(t)
    <3> PICK i \in DOMAIN t : t[i] = x
      BY <2>2 DEF ToSet
    <3>1. i + 1 \in DOMAIN q /\ q[i + 1] = x
      BY <1>1
    <3> QED BY <3>1 DEF ToSet
  <2> QED BY <1>5, <2>1, <2>2
<1> QED BY <1>1, <1>2, <1>3, <1>4, <1>5 DEF IsInjective, ToSet, t

LEMMA StartNextContinues ==
  ASSUME FetchersSound, NEW f \in Fetchers, NEW r, Between(r), StartNext(f, r)
  PROVE  \E n : fetch' = [fetch EXCEPT ![f] = n] /\ Continues(r, n)
<1>0. r.queue \in Seq(Codecs) /\ r.fetchEae \in BOOLEAN /\ ToSet(r.queue) \subseteq Codecs
  BY SeqFacts DEF Between, Fetcher
<1>1. CASE r.fetchEae
  <2> DEFINE n == Request([r EXCEPT !.fetchEae = FALSE], Eae)
  <2>1. fetch' = [fetch EXCEPT ![f] = n]
    BY <1>1 DEF StartNext
  <2>2. n = Request([r EXCEPT !.queue = r.queue, !.fetchEae = FALSE], Eae)
    BY DEF Between, Fetcher, Request
  <2>3. Eae \in Items /\ Eae \notin ToSet(r.queue)
    BY <1>0, NothingIsNoItem DEF Items
  <2>4. ToSet(r.queue) \cup {Eae} \cup {x \in {Eae} : FALSE}
          = ToSet(r.queue) \cup {x \in {Eae} : r.fetchEae}
    BY <1>1
  <2> HIDE DEF n
  <2>5. Continues(r, n)
    BY <1>0, <2>2, <2>3, <2>4, RequestContinues DEF Between
  <2> QED BY <2>1, <2>5
<1>2. CASE ~r.fetchEae /\ r.queue # <<>>
  <2> DEFINE n == Request([r EXCEPT !.queue = Tail(@)], Head(r.queue))
  <2>1. fetch' = [fetch EXCEPT ![f] = n]
    BY <1>2 DEF StartNext
  <2>2. n = Request([r EXCEPT !.queue = Tail(r.queue), !.fetchEae = FALSE], Head(r.queue))
    BY <1>2 DEF Between, Fetcher, Request
  <2>3. /\ Tail(r.queue) \in Seq(Codecs) /\ IsInjective(Tail(r.queue))
        /\ Head(r.queue) \in Codecs /\ Head(r.queue) \notin ToSet(Tail(r.queue))
        /\ ToSet(Tail(r.queue)) \cup {Head(r.queue)} = ToSet(r.queue)
    BY <1>0, <1>2, HeadAndTail DEF Between
  <2>4. Head(r.queue) \in Items
    BY <2>3, NothingIsNoItem
  <2>5. ToSet(Tail(r.queue)) \cup {Head(r.queue)} \cup {x \in {Eae} : FALSE}
          = ToSet(r.queue) \cup {x \in {Eae} : r.fetchEae}
    BY <1>2, <2>3
  <2> HIDE DEF n
  <2>6. Continues(r, n)
    BY <2>2, <2>3, <2>4, <2>5, RequestContinues
  <2> QED BY <2>1, <2>6
<1>3. CASE ~r.fetchEae /\ r.queue = <<>>
  <2>1. fetch' = [fetch EXCEPT ![f] = NewFetcher]
    BY <1>3 DEF StartNext
  <2>2. LeftOf(r) = {}
    BY <1>3 DEF LeftOf, ToSet, Between
  <2> QED BY <2>1, <2>2, NewFetcherIsSound DEF Continues
<1> QED BY <1>0, <1>1, <1>2, <1>3

-----------------------------------------------------------------------------
(* Each step keeps the invariant.                                          *)

LEMMA CodecInit == Init => CodecInv
<1> SUFFICES ASSUME Init PROVE CodecInv
  OBVIOUS
<1>1. FetchersSound
  BY NewFetcherIsSound DEF Init, FetchersSound
<1> QED BY <1>1 DEF Init, CodecInv, SystemTypes, ListFollowsDisk, IdIsStored, OffIsIdle

(* Of the state only fetcher f has changed, and it is sound.               *)
LEMMA OneFetcherChanged ==
  ASSUME FetchersSound, NEW f \in Fetchers, NEW n, SoundFetcher(n),
         fetch' = [fetch EXCEPT ![f] = n]
  PROVE  FetchersSound' /\ fetch'[f] = n /\ \A g \in Fetchers \ {f} : fetch'[g] = fetch[g]
<1>1. fetch'[f] = n /\ \A g \in Fetchers \ {f} : fetch'[g] = fetch[g]
  BY DEF FetchersSound
<1>2. \A g \in Fetchers : SoundFetcher(fetch'[g])
  BY <1>1 DEF FetchersSound
<1>3. DOMAIN fetch' = Fetchers /\ fetch' = [g \in Fetchers |-> fetch'[g]]
  BY DEF FetchersSound
<1> QED BY <1>1, <1>2, <1>3 DEF FetchersSound, SoundFetcher

LEMMA StartNextTypes ==
  ASSUME NEW f, NEW r, StartNext(f, r), eaeRuns \in BOOLEAN
  PROVE  eaeRuns' \in BOOLEAN
BY DEF StartNext, StartEae, EaeIsPresent

(* A fetcher as installCodecs() has filled it.                             *)
Filled(queue, needed, eae) ==
  [NewFetcher EXCEPT !.waits = TRUE, !.queue = queue, !.eaeNeeded = needed, !.fetchEae = eae]

LEMMA FilledFacts ==
  ASSUME NEW queue \in Seq(Codecs), NEW needed \in BOOLEAN, NEW eae \in BOOLEAN
  PROVE  LET r == Filled(queue, needed, eae)
         IN  /\ r \in Fetcher /\ r.waits /\ r.queue = queue /\ r.fetchEae = eae
             /\ r.item = None /\ r.request = "none"
<1>1. NewFetcher \in Fetcher /\ NewFetcher.item = None /\ NewFetcher.request = "none"
  BY NewFetcherIsSound DEF SoundFetcher
<1> QED BY <1>1 DEF Fetcher, Filled

(* installCodecs() for an idle fetcher: what libmpv can load is untouched,  *)
(* and what can be fetched is asked for, or is on the disk.                 *)
LEMMA InstallContinues ==
  ASSUME FetchersSound, SystemTypes, NEW f \in Fetchers, NEW list, Len(list) \in Nat,
         InstallCodecs(f, list, Loadable(disk))
  PROVE  /\ \E n, S : /\ fetch' = [fetch EXCEPT ![f] = n]
                      /\ SoundFetcher(n) /\ LeftOf(n) = S /\ S \subseteq Items
                      /\ n.waits <=> S # {}
                      /\ \A i \in 1 .. Len(list) :
                           list[i] \in Codecs \ Loadable(disk) => list[i] \in S \cup disk'
         /\ disk' \subseteq disk /\ Loadable(disk') = Loadable(disk)
         /\ eaeRuns' \in BOOLEAN
<1> DEFINE needed == ToSet(list) \cap EaeDrivers # {}
<1> PICK stuck \in {{}, Codecs} :
      LET q == Enqueued(Loadable(disk), list, stuck)
      IN  /\ disk' = disk \ ToSet(q)
          /\ StartNext(f, [NewFetcher EXCEPT !.waits = TRUE, !.queue = q, !.eaeNeeded = needed,
                                             !.fetchEae = needed /\ ~EaeIsPresent(eaeDir)])
  BY DEF InstallCodecs
<1> DEFINE q == Enqueued(Loadable(disk), list, stuck)
           eae == needed /\ ~EaeIsPresent(eaeDir)
           r == Filled(q, needed, eae)
<1>1. QueueOf(q, Loadable(disk), list, stuck, Len(list))
  BY EnqueuedFacts
<1>2. needed \in BOOLEAN /\ eae \in BOOLEAN
  BY DEF EaeIsPresent
<1>3. q \in Seq(Codecs) /\ ToSet(q) \subseteq Codecs
  BY <1>1, SeqFacts DEF QueueOf
<1> HIDE DEF q, needed
<1>4. /\ r \in Fetcher /\ r.waits /\ r.queue = q /\ r.fetchEae = eae
      /\ r.item = None /\ r.request = "none"
  <2> HIDE DEF eae
  <2> QED BY <1>2, <1>3, FilledFacts
<1>5. Between(r)
  BY <1>1, <1>2, <1>3, <1>4 DEF Between, Fetcher, QueueOf
<1>6. ToSet(q) \subseteq LeftOf(r) /\ LeftOf(r) \subseteq Items
  BY <1>3, <1>4, NothingIsNoItem DEF LeftOf, Items
<1>7. StartNext(f, r) /\ disk' = disk \ ToSet(q)
  BY DEF q, needed, Filled
<1> HIDE DEF r
<1>8. PICK n : fetch' = [fetch EXCEPT ![f] = n] /\ Continues(r, n)
  BY <1>5, <1>7, StartNextContinues
<1>9. disk' \subseteq disk /\ Loadable(disk') = Loadable(disk)
  BY <1>1, <1>7 DEF QueueOf, Loadable
<1>10. \A i \in 1 .. Len(list) :
         list[i] \in Codecs \ Loadable(disk) => list[i] \in LeftOf(r) \cup disk'
  BY <1>1, <1>6, <1>7 DEF QueueOf
<1>11. eaeRuns' \in BOOLEAN
  BY <1>7, StartNextTypes DEF SystemTypes
<1> QED BY <1>6, <1>8, <1>9, <1>10, <1>11 DEF Continues

LEMMA OutdatedIsList ==
  ASSUME SystemTypes
  PROVE  /\ Len(SetToSeq(Outdated)) \in Nat
         /\ \A c \in Outdated :
              \E i \in 1 .. Len(SetToSeq(Outdated)) : SetToSeq(Outdated)[i] = c
<1>1. Outdated \subseteq Codecs \cup EaeDrivers
  BY CodecsAssumption DEF Outdated, SystemTypes
<1>2. IsFiniteSet(Codecs \cup EaeDrivers)
  BY DriversAreFinite, FS_Union
<1>3. IsFiniteSet(Outdated)
  BY <1>1, <1>2, FS_Subset
<1> QED BY <1>3, SetToSeqFacts

-----------------------------------------------------------------------------
(* How the state of the fetchers maps to CodecWait.                        *)

LEMMA LeftIs == Left = [f \in Fetchers |-> LeftOf(fetch[f])]
BY DEF Left, LeftOf

LEMMA MappedChange ==
  ASSUME FetchersSound, NEW f \in Fetchers, NEW n, SoundFetcher(n),
         fetch' = [fetch EXCEPT ![f] = n]
  PROVE  /\ Left' = [Left EXCEPT ![f] = LeftOf(n)]
         /\ Waiting' = IF n.waits THEN Waiting \cup {f} ELSE Waiting \ {f}
         /\ Left[f] = LeftOf(fetch[f])
<1>1. fetch'[f] = n /\ \A g \in Fetchers \ {f} : fetch'[g] = fetch[g]
  BY OneFetcherChanged
<1>2. Left' = [g \in Fetchers |-> LeftOf(fetch'[g])]
  BY DEF Left, LeftOf
<1>3. Left' = [Left EXCEPT ![f] = LeftOf(n)]
  BY <1>1, <1>2, LeftIs
<1>4. Waiting' = {g \in Fetchers : fetch'[g].waits}
  BY DEF Waiting
<1>5. Waiting' = IF n.waits THEN Waiting \cup {f} ELSE Waiting \ {f}
  BY <1>1, <1>4 DEF Waiting
<1> QED BY <1>3, <1>5, LeftIs

(* The steps of CodecWait, and a stutter.                                  *)
Mapped == [W!Next]_<<running, Waiting, Left>>

LEMMA Stutters ==
  ASSUME UNCHANGED <<running, fetch>>
  PROVE  Mapped
BY DEF Mapped, Waiting, Left

(* The step is in the order of KeepsOrder.                                 *)
InOrder == ReadsOldVersion /\ StartsEaeFirst

Kept == CodecInv' /\ Mapped /\ InOrder

LEMMA UpdateFetcherIsOne ==
  UpdateFetcher \in Fetchers /\ UpdateFetcher \notin Loaders /\ Loaders \subseteq Fetchers
BY CodecsAssumption DEF Fetchers

-----------------------------------------------------------------------------
(* The answer to a request.                                                *)

(* Fetcher f has its answer and goes on with r.                            *)
LEMMA AnswerContinues ==
  ASSUME FetchersSound, SystemTypes, NEW f \in Fetchers, fetch[f].request # "none", running' = running,
         NEW r, r = [fetch[f] EXCEPT !.item = None, !.request = "none"],
         StartNext(f, r)
  PROVE  /\ FetchersSound' /\ Mapped /\ eaeRuns' \in BOOLEAN
         /\ \A g \in Loaders : fetch[g].waits /\ fetch[g].eaeNeeded /\ ~fetch'[g].waits
                                 => eaeRuns' \/ ~EaeIsPresent(eaeDir')
<1> DEFINE s == fetch[f]
<1>1. SoundFetcher(s) /\ s \in Fetcher /\ s.waits /\ s.item # None
  BY DEF FetchersSound, SoundFetcher
<1>2. /\ r \in Fetcher /\ r.waits /\ r.item = None /\ r.request = "none"
      /\ r.queue = s.queue /\ r.fetchEae = s.fetchEae /\ r.eaeNeeded = s.eaeNeeded
  BY <1>1 DEF Fetcher
<1>3. Between(r)
  BY <1>1, <1>2 DEF Between, SoundFetcher
<1>4. LeftOf(r) = LeftOf(s) \ {s.item} /\ s.item \in LeftOf(s)
  BY <1>1, <1>2 DEF LeftOf, SoundFetcher
<1> HIDE DEF s
<1>5. PICK n : fetch' = [fetch EXCEPT ![f] = n] /\ Continues(r, n)
  BY <1>3, StartNextContinues
<1>6. SoundFetcher(n) /\ LeftOf(n) = LeftOf(s) \ {s.item} /\ (n.waits <=> LeftOf(s) # {s.item})
  BY <1>4, <1>5 DEF Continues
<1>7. /\ Left' = [Left EXCEPT ![f] = LeftOf(n)]
      /\ Waiting' = IF n.waits THEN Waiting \cup {f} ELSE Waiting \ {f}
      /\ Left[f] = LeftOf(s)
  BY <1>5, <1>6, MappedChange DEF s
<1>8. f \in Waiting
  BY <1>1 DEF Waiting, s
<1>9. W!Answer(f)
  <2>1. Left' = [Left EXCEPT ![f] = Left[f] \ {s.item}]
    BY <1>6, <1>7
  <2>2. Waiting' = IF Left[f] = {s.item} THEN Waiting \ {f} ELSE Waiting
    BY <1>6, <1>7, <1>8
  <2>3. s.item \in Left[f]
    BY <1>4, <1>7
  <2>4. UNCHANGED running
    OBVIOUS
  <2> QED BY <2>1, <2>2, <2>3, <2>4 DEF W!Answer
<1>10. Mapped
  BY <1>9 DEF Mapped, W!Next
<1>11. FetchersSound' /\ fetch'[f] = n /\ \A g \in Fetchers \ {f} : fetch'[g] = fetch[g]
  BY <1>5, <1>6, OneFetcherChanged
<1>12. eaeRuns' \in BOOLEAN
  BY StartNextTypes DEF SystemTypes
<1>13. ASSUME f \in Loaders, r.eaeNeeded, ~n.waits
       PROVE  eaeRuns' \/ ~EaeIsPresent(eaeDir')
  <2>1. LeftOf(r) = {}
    BY <1>5, <1>13 DEF Continues
  <2>2. r.queue \in Seq(Codecs) /\ r.fetchEae \in BOOLEAN
    BY <1>2 DEF Fetcher
  <2>3. ~r.fetchEae
    BY <2>1, <2>2, NothingIsNoItem DEF LeftOf, Items
  <2>4. ToSet(r.queue) = {}
    BY <2>1, <2>2, SeqFacts, NothingIsNoItem DEF LeftOf
  <2>5. r.queue = <<>>
    <3>1. r.queue # <<>> => 1 \in DOMAIN r.queue
      BY <2>2
    <3> QED BY <2>4, <3>1 DEF ToSet
  <2>6. f # UpdateFetcher
    BY <1>13, UpdateFetcherIsOne
  <2>7. StartEae(eaeDir')
    BY <1>13, <2>3, <2>5, <2>6 DEF StartNext
  <2> QED BY <2>7 DEF StartEae
<1>14. \A g \in Loaders : fetch[g].waits /\ fetch[g].eaeNeeded /\ ~fetch'[g].waits
                            => eaeRuns' \/ ~EaeIsPresent(eaeDir')
  BY <1>2, <1>11, <1>13, UpdateFetcherIsOne DEF s
<1> QED BY <1>10, <1>11, <1>12, <1>14

(* A usable reply starts the download of the same item.                    *)
LEMMA DownloadBegins ==
  ASSUME FetchersSound, NEW f \in Fetchers, fetch[f].request = "info", running' = running,
         fetch' = [fetch EXCEPT ![f].request = "data"]
  PROVE  FetchersSound' /\ Mapped /\ fetch'[f].waits
         /\ \A g \in Fetchers \ {f} : fetch'[g] = fetch[g]
<1> DEFINE s == fetch[f]
           n == [s EXCEPT !.request = "data"]
<1>1. SoundFetcher(s) /\ s \in Fetcher /\ s.waits
  BY DEF FetchersSound, SoundFetcher
<1>2. /\ n \in Fetcher /\ n.waits = s.waits /\ n.item = s.item /\ n.request = "data"
      /\ n.queue = s.queue /\ n.fetchEae = s.fetchEae
  BY <1>1 DEF Fetcher
<1>3. fetch' = [fetch EXCEPT ![f] = n]
  OBVIOUS
<1> HIDE DEF n
<1>4. SoundFetcher(n) /\ n.waits /\ LeftOf(n) = LeftOf(s)
  BY <1>1, <1>2 DEF SoundFetcher, LeftOf
<1>5. FetchersSound' /\ fetch'[f] = n /\ \A g \in Fetchers \ {f} : fetch'[g] = fetch[g]
  BY <1>3, <1>4, OneFetcherChanged
<1> HIDE DEF s
<1>6. /\ Left' = [Left EXCEPT ![f] = LeftOf(n)] /\ Left[f] = LeftOf(s)
      /\ Waiting' = IF n.waits THEN Waiting \cup {f} ELSE Waiting \ {f}
  BY <1>3, <1>4, MappedChange DEF s
<1>7. Left' = Left
  BY <1>4, <1>6 DEF Left
<1>8. Waiting' = Waiting
  BY <1>1, <1>4, <1>6 DEF Waiting, s
<1> QED BY <1>4, <1>5, <1>7, <1>8 DEF Mapped, s

LEMMA InfoDoneKeeps ==
  ASSUME CodecInv, NEW f \in Fetchers, InfoDone(f)
  PROVE  Kept
<1>1. UNCHANGED <<running, disk, old, eaeDir, oldEae, present, idFile, id>>
  BY DEF InfoDone
<1>2. running
  BY NewFetcherIsSound DEF CodecInv, OffIsIdle, InfoDone, NewFetcher
<1>3. /\ FetchersSound' /\ Mapped /\ eaeRuns' \in BOOLEAN
      /\ \A g \in Loaders : fetch[g].waits /\ fetch[g].eaeNeeded /\ ~fetch'[g].waits
                              => eaeRuns' \/ ~EaeIsPresent(eaeDir')
  <2>1. CASE fetch' = [fetch EXCEPT ![f].request = "data"] /\ UNCHANGED eaeRuns
    <3>1. FetchersSound' /\ Mapped /\ fetch'[f].waits
          /\ \A g \in Fetchers \ {f} : fetch'[g] = fetch[g]
      BY <1>1, <2>1, DownloadBegins DEF InfoDone, CodecInv
    <3> QED BY <2>1, <3>1, UpdateFetcherIsOne DEF CodecInv, SystemTypes
  <2>2. CASE StartNext(f, [fetch[f] EXCEPT !.item = None, !.request = "none"])
    BY <1>1, <2>2, AnswerContinues DEF InfoDone, CodecInv
  <2> QED BY <2>1, <2>2 DEF InfoDone
<1>4. InOrder
  BY <1>1, <1>3 DEF InOrder, ReadsOldVersion, StartsEaeFirst
<1>5. SystemTypes' /\ ListFollowsDisk' /\ IdIsStored' /\ OffIsIdle'
  BY <1>1, <1>2, <1>3 DEF CodecInv, SystemTypes, ListFollowsDisk, IdIsStored, OffIsIdle
<1> QED BY <1>3, <1>4, <1>5 DEF Kept, CodecInv

LEMMA ExtractedFiles ==
  ASSUME SystemTypes, ExtractZip
  PROVE  eaeDir' \subseteq ToSet(EaeFiles)
<1> PICK n \in 0 .. Len(EaeFiles) : eaeDir' = eaeDir \cup ToSet(SubSeq(EaeFiles, 1, n))
  BY DEF ExtractZip
<1>1. EaeFiles \in Seq(ToSet(EaeFiles)) /\ Len(EaeFiles) \in Nat
  BY CodecsAssumption, SeqFacts
<1>2. ToSet(SubSeq(EaeFiles, 1, n)) \subseteq ToSet(EaeFiles)
  <2>1. /\ DOMAIN SubSeq(EaeFiles, 1, n) = 1 .. n
        /\ \A i \in 1 .. n : SubSeq(EaeFiles, 1, n)[i] = EaeFiles[i] /\ i \in DOMAIN EaeFiles
    BY <1>1
  <2> QED BY <2>1 DEF ToSet
<1> QED BY <1>2 DEF SystemTypes

LEMMA DataDoneKeeps ==
  ASSUME CodecInv, NEW f \in Fetchers, DataDone(f)
  PROVE  Kept
<1> DEFINE i == fetch[f].item
<1>1. UNCHANGED <<running, old, oldEae, idFile, id>>
  BY DEF DataDone
<1>2. running
  BY NewFetcherIsSound DEF CodecInv, OffIsIdle, DataDone, NewFetcher
<1>3. fetch[f].request # "none" /\ i \in Items
  <2>1. SoundFetcher(fetch[f])
    BY DEF CodecInv, FetchersSound
  <2> QED BY <2>1 DEF DataDone, SoundFetcher, Fetcher
<1>4. /\ FetchersSound' /\ Mapped /\ eaeRuns' \in BOOLEAN
      /\ \A g \in Loaders : fetch[g].waits /\ fetch[g].eaeNeeded /\ ~fetch'[g].waits
                              => eaeRuns' \/ ~EaeIsPresent(eaeDir')
  BY <1>1, <1>3, AnswerContinues DEF DataDone, CodecInv
<1>5. /\ disk' \subseteq Codecs /\ present' \subseteq Codecs /\ eaeDir' \subseteq ToSet(EaeFiles)
      /\ present' = Loadable(disk')
  <2>1. present = Loadable(disk)
    BY <1>2 DEF CodecInv, ListFollowsDisk
  <2>2. CASE UNCHANGED <<disk, present, eaeDir>>
    BY <2>1, <2>2 DEF CodecInv, SystemTypes
  <2>3. CASE i = Eae /\ ExtractZip /\ UNCHANGED <<disk, present>>
    BY <2>1, <2>3, ExtractedFiles DEF CodecInv, SystemTypes
  <2>4. CASE i # Eae /\ disk' = disk \cup {i} /\ present' = Loadable(disk') /\ UNCHANGED eaeDir
    BY <1>3, <2>4 DEF CodecInv, SystemTypes, Items, Loadable
  <2> QED BY <2>2, <2>3, <2>4 DEF DataDone, ProcessCodecDownloadDone
<1>6. InOrder
  BY <1>1, <1>4 DEF InOrder, ReadsOldVersion, StartsEaeFirst
<1>7. SystemTypes' /\ ListFollowsDisk' /\ IdIsStored' /\ OffIsIdle'
  BY <1>1, <1>2, <1>4, <1>5
     DEF CodecInv, SystemTypes, ListFollowsDisk, IdIsStored, OffIsIdle
<1> QED BY <1>4, <1>6, <1>7 DEF Kept, CodecInv

-----------------------------------------------------------------------------
(* The calls that begin and end the work.                                  *)

(* A fetcher that was idle and is given nothing has not changed.           *)
LEMMA NothingToFetch ==
  ASSUME FetchersSound, NEW f \in Fetchers, ~fetch[f].waits,
         NEW n, SoundFetcher(n), ~n.waits, fetch' = [fetch EXCEPT ![f] = n]
  PROVE  UNCHANGED fetch
<1>1. fetch[f] = n
  BY DEF FetchersSound, SoundFetcher
<1> QED BY <1>1 DEF FetchersSound

LEMMA LoadKeeps ==
  ASSUME CodecInv, NEW f \in Loaders, Load(f)
  PROVE  Kept
<1>1. /\ running /\ ~fetch[f].waits /\ present' = Loadable(disk)
      /\ UNCHANGED <<running, old, eaeDir, oldEae, idFile, id>>
  BY DEF Load
<1>2. f \in Fetchers
  BY UpdateFetcherIsOne
<1> PICK list \in Required[present'] : InstallCodecs(f, list, Loadable(disk))
  BY DEF Load
<1>3. present' \in SUBSET Codecs
  BY <1>1 DEF CodecInv, SystemTypes, Loadable
<1>4. Len(list) \in Nat
  BY <1>3, RequiredIsList
<1>5. /\ \E n, S : /\ fetch' = [fetch EXCEPT ![f] = n]
                   /\ SoundFetcher(n) /\ LeftOf(n) = S /\ S \subseteq Items
                   /\ n.waits <=> S # {}
      /\ disk' \subseteq disk /\ Loadable(disk') = Loadable(disk)
      /\ eaeRuns' \in BOOLEAN
  BY <1>2, <1>4, InstallContinues DEF CodecInv
<1>6. PICK n, S : /\ fetch' = [fetch EXCEPT ![f] = n]
                  /\ SoundFetcher(n) /\ LeftOf(n) = S /\ S \subseteq Items
                  /\ n.waits <=> S # {}
  BY <1>5
<1>7. FetchersSound' /\ \A g \in Fetchers \ {f} : fetch'[g] = fetch[g]
  BY <1>2, <1>6, OneFetcherChanged DEF CodecInv
<1>8. Mapped
  <2>1. CASE S = {}
    <3>1. UNCHANGED fetch
      BY <1>1, <1>2, <1>6, <2>1, NothingToFetch DEF CodecInv
    <3> QED BY <1>1, <3>1, Stutters
  <2>2. CASE S # {}
    <3>1. Left' = [Left EXCEPT ![f] = S] /\ Waiting' = Waiting \cup {f}
      BY <1>2, <1>6, <2>2, MappedChange DEF CodecInv
    <3>2. f \notin Waiting
      BY <1>1 DEF Waiting
    <3>3. W!Begin(f)
      BY <1>1, <1>6, <2>2, <3>1, <3>2 DEF W!Begin
    <3> QED BY <1>2, <3>3 DEF Mapped, W!Next
  <2> QED BY <2>1, <2>2
<1>9. InOrder
  BY <1>1, <1>7, UpdateFetcherIsOne DEF InOrder, ReadsOldVersion, StartsEaeFirst
<1>10. SystemTypes' /\ ListFollowsDisk' /\ IdIsStored' /\ OffIsIdle'
  BY <1>1, <1>3, <1>5 DEF CodecInv, SystemTypes, ListFollowsDisk, IdIsStored, OffIsIdle
<1> QED BY <1>7, <1>8, <1>9, <1>10 DEF Kept, CodecInv

LEMMA NobodyWaits ==
  ASSUME CodecInv, ~running
  PROVE  Waiting = {} /\ Left = [f \in Fetchers |-> {}] /\ \A f \in Fetchers : ~fetch[f].waits
<1>1. \A f \in Fetchers : fetch[f] = NewFetcher
  BY DEF CodecInv, OffIsIdle
<1> QED BY <1>1, NewFetcherIsSound, LeftIs DEF Waiting

LEMMA DeviceIdIsStored ==
  ASSUME SystemTypes, LoadDeviceId
  PROVE  id' = idFile' /\ id' \in Ids \cup {None}
BY DEF SystemTypes, LoadDeviceId

(* updateCodecs() with the program's start: what the older version had is  *)
(* present, on the disk or asked for.                                      *)
LEMMA UpdateBegins ==
  ASSUME CodecInv, ~running, running', UpdateCodecs
  PROVE  /\ FetchersSound' /\ Mapped /\ eaeRuns' \in BOOLEAN
         /\ disk' \subseteq disk /\ Loadable(disk') = Loadable(disk)
         /\ \A c \in old : \/ c \in Loadable(disk) \/ c \in disk'
                           \/ c \in ToSet(fetch'[UpdateFetcher].queue)
                           \/ c = fetch'[UpdateFetcher].item
<1>1. Waiting = {} /\ Left = [f \in Fetchers |-> {}] /\ \A f \in Fetchers : ~fetch[f].waits
  BY NobodyWaits
<1>2. \A c \in old : c \in Codecs /\ (c \in Loadable(disk) \/ c \in Outdated)
  BY DEF CodecInv, SystemTypes, Outdated
<1>3. CASE Outdated = {}
  <2>1. UNCHANGED <<disk, fetch, eaeRuns>>
    BY <1>3 DEF UpdateCodecs
  <2>2. UNCHANGED <<Waiting, Left>>
    BY <2>1 DEF Waiting, Left
  <2>3. Mapped
    BY <2>2 DEF Mapped, W!Next, W!Start
  <2>4. FetchersSound'
    BY <2>1 DEF CodecInv, FetchersSound, SoundFetcher
  <2> QED BY <1>2, <1>3, <2>1, <2>3, <2>4 DEF CodecInv, SystemTypes, Loadable
<1>4. CASE Outdated # {}
  <2> DEFINE f == UpdateFetcher
             list == SetToSeq(Outdated)
  <2>1. InstallCodecs(f, list, Loadable(disk))
    BY <1>4 DEF UpdateCodecs
  <2>2. /\ Len(list) \in Nat
        /\ \A c \in Outdated : \E i \in 1 .. Len(list) : list[i] = c
    BY OutdatedIsList DEF CodecInv
  <2> HIDE DEF list
  <2>3. /\ \E n, S : /\ fetch' = [fetch EXCEPT ![f] = n]
                     /\ SoundFetcher(n) /\ LeftOf(n) = S /\ S \subseteq Items
                     /\ n.waits <=> S # {}
                     /\ \A i \in 1 .. Len(list) :
                          list[i] \in Codecs \ Loadable(disk) => list[i] \in S \cup disk'
        /\ disk' \subseteq disk /\ Loadable(disk') = Loadable(disk)
        /\ eaeRuns' \in BOOLEAN
    BY <2>1, <2>2, UpdateFetcherIsOne, InstallContinues DEF CodecInv
  <2>4. PICK n, S : /\ fetch' = [fetch EXCEPT ![f] = n]
                    /\ SoundFetcher(n) /\ LeftOf(n) = S /\ S \subseteq Items
                    /\ n.waits <=> S # {}
                    /\ \A i \in 1 .. Len(list) :
                         list[i] \in Codecs \ Loadable(disk) => list[i] \in S \cup disk'
    BY <2>3
  <2>5. FetchersSound' /\ fetch'[f] = n
    BY <2>4, UpdateFetcherIsOne, OneFetcherChanged DEF CodecInv
  <2>6. Mapped
    <3>1. CASE S = {}
      <4>1. UNCHANGED fetch
        BY <1>1, <2>4, <3>1, UpdateFetcherIsOne, NothingToFetch DEF CodecInv
      <4>2. UNCHANGED <<Waiting, Left>>
        BY <4>1 DEF Waiting, Left
      <4> QED BY <4>2 DEF Mapped, W!Next, W!Start
    <3>2. CASE S # {}
      <4>1. Left' = [Left EXCEPT ![f] = S] /\ Waiting' = {f}
        BY <1>1, <2>4, <3>2, UpdateFetcherIsOne, MappedChange DEF CodecInv
      <4>2. W!Start
        BY <2>4, <3>2, <4>1, UpdateFetcherIsOne DEF W!Start
      <4> QED BY <4>2 DEF Mapped, W!Next
    <3> QED BY <3>1, <3>2
  <2>7. ASSUME NEW c \in old, c \notin Loadable(disk)
        PROVE  c \in disk' \/ c \in ToSet(n.queue) \/ c = n.item
    <3>1. c \in Outdated /\ c \in Codecs
      BY <1>2, <2>7
    <3>2. c \in S \cup disk'
      BY <2>2, <2>4, <2>7, <3>1
    <3>3. c # Eae
      BY <3>1, NothingIsNoItem
    <3> QED BY <2>4, <3>2, <3>3 DEF LeftOf
  <2> QED BY <2>3, <2>5, <2>6, <2>7
<1> QED BY <1>3, <1>4

LEMMA StartKeeps ==
  ASSUME CodecInv, Start
  PROVE  Kept
<1>1. ~running /\ UNCHANGED eaeDir /\ id' = idFile' /\ id' \in Ids \cup {None}
  BY DeviceIdIsStored DEF Start, CodecInv
<1>2. \A f \in Fetchers : ~fetch[f].waits
  BY <1>1, NobodyWaits
<1>3. CASE id' = None
  <2>1. UNCHANGED <<running, disk, old, oldEae, present, fetch, eaeRuns>>
    BY <1>3 DEF Start
  <2>2. Mapped /\ InOrder
    BY <2>1, Stutters DEF InOrder, ReadsOldVersion, StartsEaeFirst
  <2>3. SystemTypes' /\ ListFollowsDisk' /\ IdIsStored'
    BY <1>1, <2>1 DEF CodecInv, SystemTypes, ListFollowsDisk, IdIsStored
  <2>4. FetchersSound' /\ OffIsIdle'
    BY <2>1 DEF CodecInv, FetchersSound, SoundFetcher, OffIsIdle
  <2> QED BY <2>2, <2>3, <2>4 DEF Kept, CodecInv
<1>4. CASE id' # None
  <2>1. running' /\ present' = Loadable(disk) /\ old' = {} /\ oldEae' = FALSE /\ UpdateCodecs
    BY <1>4 DEF Start, DeleteOldCodecs
  <2>2. running' = TRUE
    BY <1>4 DEF Start
  <2>3. /\ FetchersSound' /\ Mapped /\ eaeRuns' \in BOOLEAN
        /\ disk' \subseteq disk /\ Loadable(disk') = Loadable(disk)
        /\ \A c \in old : \/ c \in Loadable(disk) \/ c \in disk'
                          \/ c \in ToSet(fetch'[UpdateFetcher].queue)
                          \/ c = fetch'[UpdateFetcher].item
    BY <1>1, <2>1, UpdateBegins
  <2>4. InOrder
    BY <1>2, <2>1, <2>3, UpdateFetcherIsOne DEF InOrder, ReadsOldVersion, StartsEaeFirst
  <2>5. SystemTypes'
    BY <1>1, <2>1, <2>2, <2>3 DEF CodecInv, SystemTypes, Loadable
  <2>6. ListFollowsDisk' /\ IdIsStored' /\ OffIsIdle'
    BY <1>1, <1>4, <2>1, <2>3 DEF ListFollowsDisk, IdIsStored, OffIsIdle
  <2> QED BY <2>3, <2>4, <2>5, <2>6 DEF Kept, CodecInv
<1> QED BY <1>3, <1>4

LEMMA StopKeeps ==
  ASSUME CodecInv, Stop
  PROVE  Kept
<1>1. /\ running /\ running' = FALSE /\ present' = {} /\ eaeRuns' = FALSE /\ id' = None
      /\ fetch' = [f \in Fetchers |-> NewFetcher]
      /\ UNCHANGED <<disk, old, eaeDir, oldEae, idFile>>
  BY DEF Stop, files
<1>2. FetchersSound' /\ OffIsIdle'
  BY <1>1, NewFetcherIsSound DEF FetchersSound, OffIsIdle
<1>3. SystemTypes' /\ ListFollowsDisk' /\ IdIsStored'
  BY <1>1 DEF CodecInv, SystemTypes, ListFollowsDisk, IdIsStored
<1>4. Waiting' = {} /\ Left' = [f \in Fetchers |-> {}]
  <2>1. Left' = [f \in Fetchers |-> LeftOf(fetch'[f])]
    BY DEF Left, LeftOf
  <2> QED BY <1>1, <2>1, NewFetcherIsSound DEF Waiting
<1>5. Mapped
  BY <1>1, <1>4 DEF Mapped, W!Next, W!Stop, W!Idle
<1>6. InOrder
  BY <1>1 DEF InOrder, ReadsOldVersion, StartsEaeFirst
<1> QED BY <1>2, <1>3, <1>5, <1>6 DEF Kept, CodecInv

LEMMA UpgradeKeeps ==
  ASSUME CodecInv, Upgrade
  PROVE  Kept
<1>1. /\ ~running /\ old' = old \cup disk /\ disk' = {}
      /\ UNCHANGED <<running, present, fetch, eaeRuns, idFile, id>>
  BY DEF Upgrade
<1>2. eaeDir' \subseteq ToSet(EaeFiles) /\ oldEae' \in BOOLEAN
  BY DEF Upgrade, CodecInv, SystemTypes
<1>3. FetchersSound' /\ OffIsIdle'
  BY <1>1 DEF CodecInv, FetchersSound, SoundFetcher, OffIsIdle
<1>4. SystemTypes' /\ ListFollowsDisk' /\ IdIsStored'
  BY <1>1, <1>2 DEF CodecInv, SystemTypes, ListFollowsDisk, IdIsStored
<1>5. Mapped /\ InOrder
  BY <1>1, Stutters DEF InOrder, ReadsOldVersion, StartsEaeFirst
<1> QED BY <1>3, <1>4, <1>5 DEF Kept, CodecInv

LEMMA EaeDiesKeeps ==
  ASSUME CodecInv, EaeDies
  PROVE  Kept
<1>1. /\ eaeRuns' = FALSE
      /\ UNCHANGED <<running, disk, old, eaeDir, oldEae, present, fetch, idFile, id>>
  BY DEF EaeDies, files
<1>2. FetchersSound' /\ OffIsIdle'
  BY <1>1 DEF CodecInv, FetchersSound, SoundFetcher, OffIsIdle
<1>3. SystemTypes' /\ ListFollowsDisk' /\ IdIsStored'
  BY <1>1 DEF CodecInv, SystemTypes, ListFollowsDisk, IdIsStored, Loadable
<1>4. Mapped /\ InOrder
  BY <1>1, Stutters DEF InOrder, ReadsOldVersion, StartsEaeFirst
<1> QED BY <1>2, <1>3, <1>4 DEF Kept, CodecInv

LEMMA StutterKeeps ==
  ASSUME CodecInv, UNCHANGED vars
  PROVE  Kept
<1>1. UNCHANGED <<running, disk, old, eaeDir, oldEae, present, fetch, eaeRuns, idFile, id>>
  BY DEF vars
<1>2. FetchersSound' /\ OffIsIdle'
  BY <1>1 DEF CodecInv, FetchersSound, SoundFetcher, OffIsIdle
<1>3. SystemTypes' /\ ListFollowsDisk' /\ IdIsStored'
  BY <1>1 DEF CodecInv, SystemTypes, ListFollowsDisk, IdIsStored, Loadable
<1>4. Mapped /\ InOrder
  BY <1>1, Stutters DEF InOrder, ReadsOldVersion, StartsEaeFirst
<1> QED BY <1>2, <1>3, <1>4 DEF Kept, CodecInv

LEMMA CodecNext == CodecInv /\ [Next]_vars => Kept
<1> SUFFICES ASSUME CodecInv, [Next]_vars PROVE Kept
  OBVIOUS
<1>1. CASE Start
  BY <1>1, StartKeeps
<1>2. CASE Stop
  BY <1>2, StopKeeps
<1>3. CASE Upgrade
  BY <1>3, UpgradeKeeps
<1>4. CASE EaeDies
  BY <1>4, EaeDiesKeeps
<1>5. CASE \E f \in Loaders : Load(f)
  BY <1>5, LoadKeeps
<1>6. CASE \E f \in Fetchers : InfoDone(f)
  BY <1>6, InfoDoneKeeps
<1>7. CASE \E f \in Fetchers : DataDone(f)
  BY <1>7, DataDoneKeeps
<1>8. CASE UNCHANGED vars
  BY <1>8, StutterKeeps
<1> QED BY <1>1, <1>2, <1>3, <1>4, <1>5, <1>6, <1>7, <1>8 DEF Next

LEMMA CodecInvAlways == Spec => []CodecInv
<1>1. CodecInv /\ [Next]_vars => CodecInv'
  BY CodecNext DEF Kept
<1> QED BY CodecInit, <1>1, PTL DEF Spec

-----------------------------------------------------------------------------
(* The results.                                                            *)

(* However the fetchers' steps interleave, fail or are cut short, over any *)
(* number of starts and upgrades: each fetcher is in a state that goes on, *)
(* no item is queued twice, the list of codecs that decoders are chosen    *)
(* from is what libmpv can load of the files, and the device id is the one *)
(* that is stored (CodecsComponent.cpp:653, 1045).                         *)
THEOREM FetchersStaySound == Spec => []FetchersAreSound
BY CodecInvAlways, CodecInvShows, PTL

(* The directories of older versions go only after their codecs were asked *)
(* for, and a fetcher reports done only after the EAE process was started. *)
THEOREM OrderIsKept == Spec => KeepsOrder
<1>1. CodecInv /\ [Next]_vars => ReadsOldVersion /\ StartsEaeFirst
  BY CodecNext DEF Kept, InOrder
<1>2. Spec => OldVersionIsRead
  BY CodecInvAlways, <1>1, PTL DEF Spec, OldVersionIsRead
<1>3. Spec => EaeRunsBeforeDone
  BY CodecInvAlways, <1>1, PTL DEF Spec, EaeRunsBeforeDone
<1> QED BY <1>2, <1>3 DEF KeepsOrder

(* The fetchers implement CodecWait: an item that a fetcher was given is   *)
(* answered once, and the fetcher reports done with the last answer, never *)
(* before (CodecsComponent.h:106).                                         *)
THEOREM FetchersImplementWait == Spec => W!Safety
<1>1. Init => W!Init
  <2> SUFFICES ASSUME Init PROVE W!Init
    OBVIOUS
  <2>1. CodecInv /\ ~running
    BY CodecInit DEF Init
  <2> QED BY <2>1, NobodyWaits DEF W!Init, W!Idle
<1>2. CodecInv /\ [Next]_vars => [W!Next]_<<running, Waiting, Left>>
  BY CodecNext DEF Kept, Mapped
<1> QED BY CodecInvAlways, <1>1, <1>2, PTL DEF Spec, W!Safety, W!vars

(* For any manifest, codecs of the system and files, whatever has been     *)
(* stored: a decoder that the white lists or its limits speak against is   *)
(* chosen only if there is no other, and nothing is downloaded that a      *)
(* present codec makes needless (CodecsComponent.cpp:1193, 1282).          *)
THEOREM ChoicesAreSound == Spec => []ChoiceIsSound
BY CodecInvAlways, ChoiceShows, PTL
==============================================================================
