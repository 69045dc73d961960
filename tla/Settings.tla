------------------------------ MODULE Settings ------------------------------
(***************************************************************************)
(* The settings (src/settings/): the sections described in a resource and  *)
(* those that the web client makes, their two files, the migration and the *)
(* backup of what an older or a newer program left, the listeners in the   *)
(* program, and the copy that the web client has of the descriptions.  The *)
(* program starts, fails, stops, crashes and is started again; the disk    *)
(* takes or refuses all that one handler writes.  Texts, order indexes and *)
(* input types are left out.                                               *)
(***************************************************************************)
EXTENDS Integers, Sequences, SequencesExt, FiniteSets

CONSTANTS
  Description,  \* the resource: sections with their values
  Platform,     \* the platform of this build
  Version,      \* the settings version of this build
  Installs,     \* what an earlier program may have left
  NewSections,  \* sections that only the web client knows
  NewKeys,      \* keys without a description
  NewValue,     \* the value they get
  Inputs,       \* <<section, key, value>>: what users and the web client set
  Cycled,       \* <<section, key>>: what users cycle through
  CommandLines, \* sequences of options given at a start
  RoleSets,     \* the roles that a user may have
  None          \* an invalid QVariant; nothing

Platforms  == {"osx", "linux", "oe_x86", "oe_rpi", "windows"}
ConfFiles  == {"conf", "storage"}
NoFile     == [kind |-> "none"]
Garbage    == [kind |-> "garbage"]
File(v, c) == [kind |-> "json", version |-> v, sections |-> c]

ASSUME SettingsAssumption ==
  /\ Platform \in Platforms /\ Version \in Nat \ {0}
  /\ {"main", "audio", "webclient"} \subseteq {d.section : d \in ToSet(Description)}
  /\ NewSections \cap {d.section : d \in ToSet(Description)} = {}
  /\ None \notin {"legacy", "current"}

VARIABLES
  phase,    \* "off", "starting", "fatal" (the error message) or "running"
  disk,     \* the two files
  broken,   \* their backups, *.broken
  saved,    \* whether there is a plexmediaplayer.conf.old
  oldest,   \* oldestPreviousVersion in QSettings
  mem,      \* m_sections: the values of every section
  hidden,   \* the described values whose flag m_hidden is set
  options,  \* the possible values of main.updateChannel
  seen,     \* the values as the listeners of valuesUpdated last read them
  view,     \* the web client's copy of the descriptions
  faulty,   \* files whose last write failed
  first,    \* history: what the first start should note in QSettings
  unmoved   \* history: files that the last start could not move away

settingsVars == <<phase, disk, broken, saved, oldest, mem, hidden, options, seen, view, faulty, first,
                  unmoved>>
stored == <<disk, broken, saved, oldest, first>>

-----------------------------------------------------------------------------
(* The description.  A condition on platforms is a record with the kind    *)
(* "only", "except" or "any" and the names in the resource.                *)

PlatformFromString(n) ==
  CASE n \in Platforms -> {n}
    [] n = "oe"        -> {"oe_x86", "oe_rpi"}
    [] n = "any"       -> Platforms
    [] OTHER           -> {}

PlatformMask(o) ==
  LET named == UNION {PlatformFromString(n) : n \in o.names}
  IN  CASE o.kind = "only"   -> named
        [] o.kind = "except" -> Platforms \ named
        [] OTHER             -> Platforms

OnPlatform(o) == Platform \in PlatformMask(o)

(* The default: the first one for this platform when there is a list.      *)
DefaultOf(v) ==
  LET fitting == SelectSeq(v.defaults, OnPlatform)
  IN  IF fitting = <<>> THEN None ELSE Head(fitting).value

PossibleValues(v) ==
  LET fitting == SelectSeq(v.possible, OnPlatform)
  IN  [i \in 1..Len(fitting) |-> fitting[i].value]

Described == {d.section : d \in ToSet(Description)}
Section(s) == CHOOSE d \in ToSet(Description) : d.section = s
Keys(s)    == IF s \in Described THEN {v.key : v \in ToSet(Section(s).values)} ELSE {}
Value(s, k) == CHOOSE v \in ToSet(Section(s).values) : v.key = k

Defaults(s)  == [k \in Keys(s) |-> DefaultOf(Value(s, k))]
IsStorage(s) == s \in Described => Section(s).storage
FileOf(s)    == IF IsStorage(s) THEN "storage" ELSE "conf"
Fresh        == [s \in Described |-> Defaults(s)]
Pairs        == {p \in Described \X UNION {Keys(t) : t \in Described} : p[2] \in Keys(p[1])}
HiddenAtFirst == {p \in Pairs : Value(p[1], p[2]).hidden}

(* setUserRoleList(): the channels that the roles give.                    *)
Channels(roles) ==
  <<0>> \o (IF "plexpass" \in roles THEN <<8>> ELSE <<>>)
        \o (IF "ninja" \in roles THEN <<4>> ELSE <<>>)
        \o (IF "employee" \in roles THEN <<2>> ELSE <<>>)

(* possibleValues(): o is what updatePossibleValues() gave updateChannel.  *)
Possible(s, k, o) ==
  IF k \notin Keys(s) THEN <<>>
  ELSE IF s = "main" /\ k = "updateChannel" THEN o ELSE PossibleValues(Value(s, k))

(* descriptions(): what the web client is told of section s.               *)
Descriptions(s, h, o) ==
  [k \in {q \in Keys(s) : <<s, q>> \notin h /\ OnPlatform(Value(s, q).platforms)} |->
     Possible(s, k, o)]

AllDescriptions(h, o) ==
  [s \in {t \in Described : ~Section(t).hidden /\ OnPlatform(Section(t).platforms)} |->
     Descriptions(s, h, o)]

-----------------------------------------------------------------------------
(* A section: a function from its keys to their values.                    *)

Empty == [k \in {} |-> None]

(* SettingsSection::setValues(): what the map leaves out is removed, or    *)
(* gets its default when it is described.                                  *)
SetAll(s, old, map) ==
  [k \in Keys(s) \cup DOMAIN map |-> IF k \in DOMAIN map THEN map[k] ELSE Defaults(s)[k]]

(* SettingsSection::setValue().                                            *)
SetOne(s, old, k, v) ==
  IF k = "index" THEN old
  ELSE SetAll(s, old, [j \in DOMAIN old \cup {k} |-> IF j = k THEN v ELSE old[j]])

(* resetValueNoNotify(): a described value gets its default, another one   *)
(* is deleted.                                                             *)
ResetOne(s, old, k) ==
  IF k \in DOMAIN old /\ k \in Keys(s) THEN [old EXCEPT ![k] = Defaults(s)[k]]
  ELSE [j \in DOMAIN old \ {k} |-> old[j]]

(* resetValues().                                                          *)
ResetAllOf(s, old) == [k \in DOMAIN old \cap Keys(s) |-> Defaults(s)[k]]

(* updatedValues: what was set or reset; a removed value is not in it.     *)
Updated(s, old, new) == {k \in DOMAIN new : k \notin DOMAIN old \/ old[k] # new[k]}

PassthroughSpdif == Keys("audio") \cap {"passthrough.ac3", "passthrough.dts"}
Passthrough ==
  PassthroughSpdif \cup (Keys("audio") \cap {"passthrough.eac3", "passthrough.dts-hd",
                                            "passthrough.truehd"})

InAudio(K) == {<<"audio", k>> : k \in K}

(* AudioSettingsController::valuesUpdated().                               *)
HiddenByType(type, h) ==
  LET shown == h \ InAudio({"channels"})
  IN  CASE type = "basic" -> shown \cup InAudio(Passthrough)
        [] type = "hdmi"  -> shown \ InAudio(Passthrough)
        [] type = "spdif" -> ((shown \cup InAudio(Passthrough)) \ InAudio(PassthroughSpdif))
                               \cup InAudio({"channels"})
        [] OTHER          -> shown

-----------------------------------------------------------------------------
(* The files.                                                              *)

(* What saveSettings() and saveStorage() write of the sections m.          *)
Saved(f, m) == File(Version, [s \in {t \in DOMAIN m : FileOf(t) = f} |-> m[s]])

(* loadConf() of the sections c into the sections m: unknown ones are made *)
(* for the storage file and left out for the other; setValue() for each.   *)
Overlaid(old, c) ==
  [k \in DOMAIN old \cup (DOMAIN c \ {"index"}) |->
     IF k \in DOMAIN c \ {"index"} THEN c[k] ELSE old[k]]

Merge(f, m, c) ==
  LET wanted == {s \in DOMAIN c : s \in DOMAIN m \/ f = "storage"}
      before(s) == IF s \in DOMAIN m THEN m[s] ELSE Empty
  IN  [s \in DOMAIN m \cup wanted |-> IF s \in wanted THEN Overlaid(before(s), c[s]) ELSE m[s]]

VersionOf(file) == IF file.kind = "json" THEN file.version ELSE 0
Migrates(file)  == VersionOf(file) = 3 /\ Version = 4
IsRead(file)    == VersionOf(file) = Version \/ Migrates(file)

(* What is known of a file: its version, and in one that is read only what *)
(* that version wrote to it.                                               *)
IsFile(x) ==
  \/ x \in {NoFile, Garbage}
  \/ /\ x.kind = "json" /\ x.version \in Nat \ {0}
     /\ x.version = Version => DOMAIN x.sections \subseteq Described \cup NewSections

HoldsOwn(f, x) ==
  IsRead(x) =>
    \A s \in DOMAIN x.sections :
      /\ (f = "conf" /\ s \notin Described) \/ FileOf(s) = f
      /\ f = "storage" => s \in Described \cup NewSections
      /\ s \in Described \cup NewSections => DOMAIN x.sections[s] \subseteq Keys(s) \cup NewKeys

(* The section main is not in the storage file, the audio section has what *)
(* its controller goes by, and no value has the same choice twice.         *)
ASSUME DescriptionAssumption ==
  /\ ~IsStorage("main") /\ "webMode" \in Keys("main")
  /\ {"devicetype", "channels"} \subseteq Keys("audio")
  /\ \A s \in Described : \A k \in Keys(s) :
       LET values == PossibleValues(Value(s, k))
       IN  Len(values) \in Nat /\ DOMAIN values = 1..Len(values) /\ IsInjective(values)

ASSUME InstallAssumption ==
  \A i \in Installs :
    /\ i.oldest \in {None, "legacy", "current"} /\ DOMAIN i.disk = ConfFiles
    /\ \A f \in ConfFiles : IsFile(i.disk[f]) /\ HoldsOwn(f, i.disk[f])

(* QFile::remove() of the backup of before and QFile::rename(), of which    *)
(* the results are ignored: both do what they should, or the file stays    *)
(* where it is, with that backup ("kept") or without it ("removed").       *)
Moves == {"moved", "kept", "removed"}

(* Plausible slip: the backup is removed after the rename.                 *)
MovedAwayThenRemoved(f, st, move) ==
  CASE move = "moved"   -> [st EXCEPT !.broken[f] = NoFile, !.disk[f] = NoFile]
    [] move = "kept"    -> st
    [] move = "removed" -> [st EXCEPT !.broken[f] = NoFile]

MovedAway(f, st, move) ==
  CASE move = "moved"   -> [st EXCEPT !.broken[f] = st.disk[f], !.disk[f] = NoFile]
    [] move = "kept"    -> st
    [] move = "removed" -> [st EXCEPT !.broken[f] = NoFile]

(* writeFile() with the sections m: QSaveFile writes all or nothing.       *)
Save(f, m, st, ok) ==
  IF ok THEN [st EXCEPT !.disk[f] = Saved(f, m), !.faulty = @ \ {f}]
        ELSE [st EXCEPT !.faulty = @ \cup {f}]

(* loadConf(): a file of version 3 is migrated, any other file that is not *)
(* of this version should become the backup, and the defaults are written. *)
LoadConf(f, st, ok, move) ==
  LET file   == st.disk[f]
      merged == Merge(f, st.mem, file.sections)
  IN  IF Migrates(file) THEN
        [st EXCEPT !.mem = [merged EXCEPT !["main"] = SetOne("main", @, "webMode", "tv")]]
      ELSE IF IsRead(file) THEN [st EXCEPT !.mem = merged]
      ELSE Save(f, st.mem, MovedAway(f, st, move), ok)

(* load().                                                                 *)
Load(st, ok, moves) ==
  LoadConf("storage", LoadConf("conf", st, ok, moves["conf"]), ok, moves["storage"])

(* The sections that a start would have, with no fault.                    *)
Reloaded(d) ==
  Load([disk |-> d, broken |-> d, mem |-> Fresh, faulty |-> {}], TRUE,
       [f \in ConfFiles |-> "moved"]).mem

SetupVersion(o, conf) ==
  IF o # None THEN o ELSE IF conf = NoFile THEN "current" ELSE "legacy"

-----------------------------------------------------------------------------
(* The program's life.                                                     *)

SettingsInit ==
  /\ phase = "off"
  /\ \E i \in Installs :
       /\ disk = i.disk /\ oldest = i.oldest
       /\ first = IF i.oldest # None THEN i.oldest
                  ELSE IF i.disk["conf"] = NoFile THEN "current" ELSE "legacy"
  /\ broken = [f \in ConfFiles |-> NoFile] /\ saved = FALSE
  /\ mem = Fresh /\ hidden = HiddenAtFirst /\ options = Channels({})
  /\ seen = Fresh /\ view = None /\ faulty = {} /\ unmoved = {}

(* componentInitialize(), and the listeners of the other components, which *)
(* read their section when they are made.                                  *)
Start(ok, moves) ==
  LET st == Load([disk |-> disk, broken |-> broken, mem |-> Fresh, faulty |-> {}], ok, moves)
  IN  /\ phase = "off" /\ phase' = "starting"
      /\ oldest' = SetupVersion(oldest, disk["conf"])
      /\ disk' = st.disk /\ broken' = st.broken /\ mem' = st.mem /\ faulty' = st.faulty
      /\ hidden' = HiddenByType(st.mem["audio"]["devicetype"], HiddenAtFirst)
      /\ options' = Channels({}) /\ view' = None
      /\ seen' = [s \in Described |-> [k \in Keys(s) |-> st.mem[s][k]]]
      /\ unmoved' = {f \in ConfFiles :
                       disk[f] # NoFile /\ ~IsRead(disk[f]) /\ moves[f] # "moved"}
      /\ UNCHANGED <<saved, first>>

(* The end of a run, by a crash or not.                                    *)
Off ==
  /\ phase' = "off" /\ mem' = Fresh /\ hidden' = HiddenAtFirst /\ options' = Channels({})
  /\ seen' = Fresh /\ view' = None /\ faulty' = {} /\ unmoved' = {}

Stop == phase \in {"starting", "running"} /\ Off /\ UNCHANGED stored

(* A FatalException during the start, and the buttons of its message.      *)
Fatal ==
  /\ phase = "starting" /\ phase' = "fatal"
  /\ UNCHANGED <<stored, mem, hidden, options, seen, view, faulty, unmoved>>

ResetAndSaveOldConfiguration ==
  /\ phase = "fatal" /\ Off
  /\ IF ~saved /\ disk["conf"] # NoFile
       THEN saved' = TRUE /\ disk' = [disk EXCEPT !["conf"] = NoFile]
       ELSE UNCHANGED <<saved, disk>>
  /\ UNCHANGED <<broken, oldest, first>>

Abort == phase = "fatal" /\ Off /\ UNCHANGED stored

-----------------------------------------------------------------------------
(* Changes while it runs.                                                  *)

(* saveSection() of the sections S; saveSettings() writes nothing before   *)
(* setupVersion().                                                         *)
SaveSections(S, m, ok) ==
  LET F == {FileOf(s) : s \in S} \ (IF oldest = None THEN {"conf"} ELSE {})
  IN  /\ disk' = [f \in ConfFiles |-> IF ok /\ f \in F THEN Saved(f, m) ELSE disk[f]]
      /\ faulty' = IF ok THEN faulty \ F ELSE faulty \cup F

(* Plausible slip: the controller does not tell a change of descriptions.  *)
TellSilently(m) ==
  LET told == {s \in Described : Updated(s, mem[s], m[s]) # {}}
  IN  /\ seen' = [s \in Described |->
                    IF s \in told THEN [k \in Keys(s) |-> m[s][k]] ELSE seen[s]]
      /\ hidden' = IF "audio" \in told THEN HiddenByType(m["audio"]["devicetype"], hidden)
                                         ELSE hidden
      /\ UNCHANGED view

(* valuesUpdated from the sections that changed to m: their listeners read *)
(* them, the audio controller adapts what is shown and tells groupUpdate.  *)
Tell(m) ==
  LET told == {s \in Described : Updated(s, mem[s], m[s]) # {}}
  IN  /\ seen' = [s \in Described |->
                    IF s \in told THEN [k \in Keys(s) |-> m[s][k]] ELSE seen[s]]
      /\ hidden' = IF "audio" \in told THEN HiddenByType(m["audio"]["devicetype"], hidden)
                                         ELSE hidden
      /\ view' = IF view # None
                    /\ Descriptions("audio", hidden', options) # Descriptions("audio", hidden, options)
                  THEN [view EXCEPT !["audio"] = Descriptions("audio", hidden', options)]
                  ELSE view

(* Plausible slip: only the file with the settings is written.             *)
ChangeConfOnly(m, S, ok) ==
  /\ mem' = m /\ Tell(m) /\ SaveSections({"main"}, m, ok)
  /\ UNCHANGED <<broken, saved, oldest, options, first, unmoved>>

(* The sections S become those of m, listeners first, then saveSection().  *)
Change(m, S, ok) ==
  /\ mem' = m /\ Tell(m) /\ SaveSections(S, m, ok)
  /\ UNCHANGED <<broken, saved, oldest, options, first, unmoved>>

Running(A) == phase = "running" /\ A /\ UNCHANGED phase

With(s, c) == [t \in DOMAIN mem \cup {s} |-> IF t = s THEN c ELSE mem[t]]
Content(s) == IF s \in DOMAIN mem THEN mem[s] ELSE Empty

(* setValue(), setSettingCommand() and a string for setValues().           *)
SetValue(s, k, v, ok) ==
  /\ s \in DOMAIN mem
  /\ Change(With(s, SetOne(s, mem[s], k, v)), {s}, ok)

(* setValues() with a map; an unknown section is made.                     *)
SetValues(s, map, ok) == Change(With(s, SetAll(s, Content(s), map)), {s}, ok)

(* setValues() with null, resetToDefault() and removeValue() of a section. *)
ResetSection(s, ok) ==
  Change(With(s, ResetAllOf(s, Content(s))), {s}, ok)

(* removeValue() of a root key.                                            *)
RemoveKey(k, ok) ==
  Change(With("webclient", ResetOne("webclient", mem["webclient"], k)), {"webclient"}, ok)

ResetToDefaultAll(ok) ==
  Change([s \in DOMAIN mem |-> ResetAllOf(s, mem[s])], DOMAIN mem, ok)

(* The value after v in cycleSettingCommand().                             *)
NextValue(values, v) ==
  LET at   == {i \in DOMAIN values : values[i] = v}
      next == IF at = {} THEN 1 ELSE Min(at) + 1
  IN  values[IF next > Len(values) THEN 1 ELSE next]

CycleSetting(s, k, ok) ==
  /\ s \in Described /\ k \in DOMAIN mem[s]
  /\ LET values == Possible(s, k, options)
     IN  \/ values = <<>> /\ Defaults(s)[k] \in BOOLEAN
            /\ SetValue(s, k, ~mem[s][k], ok)
         \/ values # <<>> /\ SetValue(s, k, NextValue(values, mem[s][k]), ok)

(* What setCommandLineValues() sets in the section main, in this order.    *)
ModeValues(mode) ==
  CASE mode = "desktop"     -> <<<<"layout", "auto">>, <<"webMode", "desktop">>>>
    [] mode = "tv"          -> <<<<"layout", "tv">>, <<"webMode", "tv">>>>
    [] mode = "auto-layout" -> <<<<"layout", "auto">>>>
    [] OTHER                -> <<>>

CommandLineValues(args) ==
  LET modes == SelectSeq(args, LAMBDA a : ModeValues(a) # <<>>)
      fullscreen == SelectSeq(args, LAMBDA a : a \in {"fullscreen", "windowed"})
  IN  [i \in DOMAIN fullscreen |-> <<"fullscreen", fullscreen[i] = "fullscreen">>]
        \o (IF modes = <<>> THEN <<>> ELSE ModeValues(Last(modes)))

(* Users set described values and keys that the web client knows.          *)
ASSUME ChangesAssumption ==
  /\ \A i \in Inputs : i[1] \in Described \cup NewSections /\ i[2] \in Keys(i[1]) \cup NewKeys
  /\ \A args \in CommandLines : \A v \in ToSet(CommandLineValues(args)) : v[1] \in Keys("main")

(* setCommandLineValues(): the options of this start, of which the last    *)
(* for a value counts.                                                     *)
CommandLine(args, ok) ==
  LET values == CommandLineValues(args)
      At(k)  == {i \in DOMAIN values : values[i][1] = k}
      main   == SetAll("main", mem["main"],
                       [k \in DOMAIN mem["main"] \cup {values[i][1] : i \in DOMAIN values} |->
                          IF At(k) # {} THEN values[Max(At(k))][2] ELSE mem["main"][k]])
  IN  /\ phase = "starting" /\ phase' = "running"
      /\ IF values = <<>> THEN UNCHANGED <<stored, mem, hidden, options, seen, view, faulty, unmoved>>
                         ELSE Change(With("main", main), {"main"}, ok)

(* settingDescriptions(), when the web client is loaded.                   *)
SettingDescriptions ==
  /\ view' = AllDescriptions(hidden, options)
  /\ UNCHANGED <<stored, mem, hidden, options, seen, faulty, unmoved>>

(* setUserRoleList() and updatePossibleValues().                           *)
SetUserRoleList(roles) ==
  /\ options' = Channels(roles)
  /\ view' = IF view = None THEN None
              ELSE [view EXCEPT !["main"] = Descriptions("main", hidden, options')]
  /\ UNCHANGED <<stored, mem, hidden, seen, faulty, unmoved>>

(* A bound: no second handler is refused before a write of the file of the *)
(* first one has succeeded.                                                *)
Outcomes == IF faulty = {} THEN BOOLEAN ELSE {TRUE}

SettingsNext ==
  \/ \E ok \in Outcomes :
       \/ \E moves \in [ConfFiles -> Moves] : Start(ok, moves)
       \/ \E args \in CommandLines : CommandLine(args, ok)
       \/ \E i \in Inputs : Running(SetValue(i[1], i[2], i[3], ok))
       \/ \E s \in NewSections, K \in SUBSET NewKeys :
            Running(SetValues(s, [k \in K |-> NewValue], ok))
       \/ \E i \in Inputs : Running(SetValues(i[1], [k \in {i[2]} |-> i[3]], ok))
       \/ \E s \in DOMAIN mem : Running(ResetSection(s, ok))
       \/ \E k \in NewKeys : Running(RemoveKey(k, ok))
       \/ \E c \in Cycled : Running(CycleSetting(c[1], c[2], ok))
       \/ Running(ResetToDefaultAll(ok))
  \/ Running(SettingDescriptions)
  \/ \E roles \in RoleSets : Running(SetUserRoleList(roles))
  \/ Stop \/ Fatal \/ ResetAndSaveOldConfiguration \/ Abort

SettingsSpec == SettingsInit /\ [][SettingsNext]_settingsVars

-----------------------------------------------------------------------------
(* Properties.                                                             *)

Sections(m) ==
  /\ DOMAIN m \subseteq Described \cup NewSections
  /\ \A s \in DOMAIN m : DOMAIN m[s] \subseteq Keys(s) \cup NewKeys

(* A running program has every described section with every described      *)
(* value, and the files are whole.                                         *)
SettingsTypes ==
  /\ phase \in {"off", "starting", "fatal", "running"}
  /\ \A f \in ConfFiles : IsFile(disk[f]) /\ IsFile(broken[f])
  /\ saved \in BOOLEAN /\ oldest \in {None, "legacy", "current"} /\ first \in {"legacy", "current"}
  /\ Sections(mem) /\ Described \subseteq DOMAIN mem
  /\ \A s \in Described : Keys(s) \subseteq DOMAIN mem[s]
  /\ hidden \subseteq Pairs
  /\ {faulty, unmoved} \subseteq SUBSET ConfFiles

Alive == phase \in {"starting", "running"}

NoOldStorage == \A i \in Installs : ~Migrates(i.disk["storage"])

(* What a start reads of the sections m: a key "index" is not taken.       *)
LastingOf(c) == [k \in DOMAIN c \ {"index"} |-> c[k]]
Lasting(m)   == [s \in DOMAIN m |-> LastingOf(m[s])]

(* The next start would read what the program has now, whatever was set,   *)
(* removed, reset or migrated: every change is saved in the right file,    *)
(* the two files together hold everything, and only a refused write loses. *)
(* Without a storage file that is migrated: the run settings_migration     *)
(* shows what such a file does.                                            *)
SavedIsCurrent ==
  NoOldStorage /\ Alive /\ faulty = {} => Lasting(Reloaded(disk)) = Lasting(mem)

(* The other components use the values that the settings have: a change    *)
(* reaches the listeners of a section also when it is a reset, or a map    *)
(* that leaves the value out.                                              *)
ListenersFollow ==
  Alive => \A s \in Described : \A k \in Keys(s) : seen[s][k] = mem[s][k]

(* What is shown of the audio settings depends on the device type alone,   *)
(* not on the types that were chosen before.                               *)
HiddenFollowsType ==
  Alive => LET type  == mem["audio"]["devicetype"]
               hid   == InAudio(Passthrough \cup {"channels"}) \cap hidden
           IN  /\ type = "basic" => hid = InAudio(Passthrough)
               /\ type = "hdmi"  => hid = {}
               /\ type = "spdif" => hid = InAudio((Passthrough \ PassthroughSpdif) \cup {"channels"})

(* The settings page that the web client has built shows the values and    *)
(* the choices that there are now.                                         *)
ViewIsCurrent == view # None => view = AllDescriptions(hidden, options)

(* A configuration that this program cannot use, or that the user resets   *)
(* after a fatal error, is overwritten only when it has been moved away,   *)
(* or when that very move was refused at the start of this run: no later   *)
(* write, no write to the other file and no crash in between loses one.    *)
OldConfigMovesAway ==
  \A f \in ConfFiles :
    disk[f] # NoFile /\ ~IsRead(disk[f]) /\ disk'[f] # disk[f]
      => broken'[f] = disk[f] \/ (f = "conf" /\ ~saved /\ saved') \/ f \in unmoved'

OldConfigIsKept == [][OldConfigMovesAway]_settingsVars

(* QSettings tell an installation that was there before this key from a    *)
(* new one, at whatever start they were first written.                     *)
OldestIsRight == oldest \in {None, first}

(* What the value w becomes while the key is pressed as often as there are *)
(* choices.                                                                *)
Visited(values, w) ==
  LET nth[i \in 0..Len(values)] == IF i = 0 THEN w ELSE NextValue(values, nth[i - 1])
  IN  {nth[i] : i \in 1..Len(values)}

(* Pressing the key of a cycle_setting command again and again shows every *)
(* choice, from whatever value, also one that is no longer a choice.       *)
CycleVisitsAll ==
  \A s \in Described : \A k \in Keys(s) :
    LET values == Possible(s, k, options)
    IN  values # <<>> =>
          \A w \in ToSet(values) \cup {mem[s][k]} : Visited(values, w) = ToSet(values)

(* What was set is what the next start has, and from the whole history of  *)
(* starts, writes and crashes the files say when the first one was.        *)
StoredIsRight == SettingsTypes /\ SavedIsCurrent /\ OldestIsRight

(* Everybody who has a copy of the settings has the current ones: the      *)
(* components, the settings page with its hidden entries, and the command  *)
(* that steps through the choices of a value.                              *)
ShownIsCurrent ==
  /\ ListenersFollow
  /\ HiddenFollowsType
  /\ ViewIsCurrent
  /\ CycleVisitsAll

(* SettingsComponent.cpp:225: the migration is there "so that we don't     *)
(* flip their interface unnecessarly".  A start keeps the interface that   *)
(* this version of the program has saved.                                  *)
InterfaceIsKept ==
  [][phase = "off" /\ phase' = "starting" /\ VersionOf(disk["conf"]) = Version
       => mem'["main"]["webMode"] = disk["conf"].sections["main"]["webMode"]]_settingsVars
=============================================================================
