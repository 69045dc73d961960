------------------------------ MODULE InputMap ------------------------------
(***************************************************************************)
(* What a key means (src/input/InputMapping.cpp, CachedRegexMatcher.cpp):  *)
(* the mapping files of the program, those of the user, the order in which *)
(* they overload each other, the cache of matched sources, and the watch   *)
(* on the user's directory.  A pattern for sources is the set of sources   *)
(* it matches; the patterns for keys are matched already, so that a        *)
(* mapping gives each key its entries, in the order of the patterns.       *)
(***************************************************************************)
EXTENDS Naturals, Sequences, SequencesExt, FiniteSets

CONSTANTS
  Bundled,    \* the files of the program, in the order they are read
  UserFiles,  \* the files that the user may have
  Sources     \* the names of the inputs

(* What a key can be mapped to: actions that are queued at once, or one    *)
(* for a short and one for a long press.                                   *)
IsEntry(e) ==
  IF e.type = "long" THEN e.actions \in [short : STRING, long : STRING]
    ELSE e.type \in {"string", "short", "list"} /\ e.actions \in Seq(STRING)

(* A file is a record of its path, of whether it can be parsed, has the    *)
(* three elements and a pattern for sources that compiles (valid), of its  *)
(* name and idmatcher, and of its mapping, a function from keys to         *)
(* sequences of entries.                                                   *)
Files == ToSet(Bundled) \cup UserFiles

ASSUME InputMapAssumption ==
  /\ Bundled \in Seq(Files)
  /\ IsFiniteSet(UserFiles)
  /\ \A f \in Files : /\ f.valid \in BOOLEAN
                      /\ f.idmatcher \in SUBSET Sources
                      /\ \A k \in DOMAIN f.mapping :
                           /\ f.mapping[k] # <<>>
                           /\ f.mapping[k] \in Seq(ToSet(f.mapping[k]))
                           /\ \A e \in ToSet(f.mapping[k]) : IsEntry(e)
  /\ "direct" \notin Sources

VARIABLES
  files,   \* the user's files on the disk
  maps,    \* m_sourceMatcher's list (sources) and m_inputMatcher (inputs)
  cache,   \* m_sourceMatcher's m_matcherCache
  noticed, \* whether a dirChange() is posted
  unseen   \* history: the files have changed and no dirChange() tells it

mapVars == <<files, maps, cache, noticed, unseen>>

NoMaps == [sources |-> <<>>, inputs |-> <<>>]

(* QMap::insert(), QHash::insert().                                        *)
Put(map, key, value) == [k \in {key} \cup DOMAIN map |-> IF k = key THEN value ELSE map[k]]

(* CachedRegexMatcher::addMatcher() of a matcher that does not allow       *)
(* multiple patterns.                                                      *)
AddMatcher(list, pattern, name) ==
  Append(FlattenSeq([i \in DOMAIN list |->
                       IF list[i].pattern # pattern THEN <<list[i]>> ELSE <<>>]),
         [pattern |-> pattern, name |-> name])

(* loadMappingFile() and what loadMappingDirectory() does with its result. *)
LoadMappingFile(m, f) ==
  IF ~f.valid THEN m
    ELSE [sources |-> AddMatcher(m.sources, f.idmatcher, f.name),
          inputs  |-> Put(m.inputs, f.name, f.mapping)]

(* Both directories, the user's in the order of the directory.             *)
Loaded(order) ==
  LET all == Bundled \o order
      load[i \in 0 .. Len(all)] ==
        IF i = 0 THEN NoMaps ELSE LoadMappingFile(load[i - 1], all[i])
  IN  load[Len(all)]

(* The names whose pattern matches the source, in the order of the list.   *)
Match(m, source) ==
  FlattenSeq([i \in DOMAIN m.sources |->
                IF source \in m.sources[i].pattern THEN <<m.sources[i].name>> ELSE <<>>])

CachedMatch(source) == IF source \in DOMAIN cache THEN cache[source] ELSE Match(maps, source)

Entries(m, name, key) == IF key \in DOMAIN m.inputs[name] THEN m.inputs[name][key] ELSE <<>>

(* mapToAction(): the key itself, or the entries of every matching name.   *)
MapToAction(source, key) ==
  IF source = "direct" THEN <<[type |-> "string", actions |-> <<key>>]>>
    ELSE LET names == CachedMatch(source)
         IN  FlattenSeq([i \in DOMAIN names |-> Entries(maps, names[i], key)])

(* What mapToAction() leaves in the cache: matches only, never their lack. *)
CacheMatch(source) ==
  cache' = IF source = "direct" \/ Match(maps, source) = <<>> THEN cache
             ELSE Put(cache, source, CachedMatch(source))

InitMap ==
  /\ \E fs \in SUBSET UserFiles :
       /\ \A f, g \in fs : f.path = g.path => f = g
       /\ files = fs
       /\ \E order \in SetToSeqs(fs) : maps = Loaded(order)
  /\ cache = <<>>
  /\ noticed = FALSE
  /\ unseen = FALSE

(* The directories that one more call of the user makes of this one: a     *)
(* file more or less, which the watcher of the directory tells.            *)
Changes ==
  {files \cup {f} : f \in {g \in UserFiles : \A h \in files : h.path # g.path}}
    \cup {files \ {f} : f \in files}

ChangeFiles ==
  /\ files' \in Changes
  /\ noticed' = TRUE
  /\ UNCHANGED <<maps, cache, unseen>>

(* A file gets other contents: the directory is watched, not its files.    *)
EditFile ==
  /\ \E f \in files, g \in UserFiles \ files :
       /\ f.path = g.path
       /\ files' = (files \ {f}) \cup {g}
  /\ unseen' = TRUE
  /\ UNCHANGED <<maps, cache, noticed>>

(* Plausible slip: loadMappings() forgets the list and not the cache.      *)
LoadMappingsCached ==
  /\ noticed
  /\ \E order \in SetToSeqs(files) : maps' = Loaded(order)
  /\ cache' = cache
  /\ noticed' = FALSE
  /\ files' \in {files} \cup Changes
  /\ unseen' = (files' # files)

(* dirChange(), loadMappings(): what the user changes after the files are  *)
(* read is not noticed, as the directory is watched again at the end only. *)
LoadMappings ==
  /\ noticed
  /\ \E order \in SetToSeqs(files) : maps' = Loaded(order)
  /\ cache' = <<>>
  /\ noticed' = FALSE
  /\ files' \in {files} \cup Changes
  /\ unseen' = (files' # files)

-----------------------------------------------------------------------------
(* What is matched is what the files say: unless a change is on its way or *)
(* was made where nobody watches, the maps are those of the files on the   *)
(* disk, and the cached sources are those of the maps (InputMapping.cpp:   *)
(* 30-52).                                                                 *)
MapsFollowFiles ==
  /\ ~noticed /\ ~unseen => \E order \in SetToSeqs(files) : maps = Loaded(order)
  /\ \A s \in DOMAIN cache : cache[s] = Match(maps, s)

(* "They will now overload the built-in ones" (InputMapping.cpp:42-43):    *)
(* what goes by the name and the pattern of a file of the program is a     *)
(* file of the user's, once one of his has that name or that pattern.      *)
UserOverloads ==
  ~noticed /\ ~unseen =>
    \A b \in ToSet(Bundled), u \in files :
      u.valid /\ (u.name = b.name \/ u.idmatcher = b.idmatcher) =>
        \A e \in ToSet(maps.sources) :
          e.pattern = b.idmatcher /\ e.name = b.name =>
            \E w \in files : w.valid /\ w.name = b.name /\ maps.inputs[b.name] = w.mapping
=============================================================================
