---------------------------- MODULE CodecFetcher ----------------------------
(***************************************************************************)
(* On-demand codecs (src/player/CodecsComponent.cpp): the files on disk,   *)
(* the cached list of the codecs that libmpv can load, the fetchers that   *)
(* download what is missing (one at start for what an older version had,   *)
(* one per file that the player wants to load), the EAE helper process and *)
(* the device id, over any number of starts, crashes and upgrades.         *)
(* Names, URLs, XML and checksums are abstracted to the outcome of each    *)
(* step.  A codec file is stored atomically; the EAE archive is not.       *)
(***************************************************************************)
EXTENDS CodecChoice

CONSTANTS
  Unloadable,     \* the codecs whose file libmpv cannot load
  Foreign,        \* those that another Plex product on this machine has
  Files,          \* what can be played: the tracks mpv finds, the server's streams
  EaeFiles,       \* the files of the EasyAudioEncoder archive, in its order
  Binary,         \* the one that is executed
  Loaders,        \* the fetchers of the player
  UpdateFetcher,  \* the fetcher of updateCodecs()
  Ids,            \* device ids
  Eae, None       \* the archive as an item to fetch; nothing

Codecs     == {d.driver : d \in {m \in ToSet(Manifest) : m.external}}
EaeDrivers == {d.driver : d \in {b \in ToSet(Builtin) : b.system = "eae"}}
Items      == Codecs \cup {Eae}
Fetchers   == Loaders \cup {UpdateFetcher}
StreamInfo == [index : Nat, kind : {"video", "audio", "sub"}, codec : STRING,
               profile : STRING, sized : BOOLEAN, channels : Nat, rate : Nat]

ASSUME CodecsAssumption ==
  /\ Unloadable \subseteq Codecs /\ Foreign \subseteq Codecs
  /\ Eae \notin Codecs /\ None \notin Items \cup Ids
  /\ UpdateFetcher \notin Loaders
  /\ EaeFiles \in Seq(ToSet(EaeFiles)) /\ Binary \in ToSet(EaeFiles)
  /\ \A file \in Files : file.tracks \in Seq(StreamInfo) /\ file.server \in Seq(StreamInfo)

VARIABLES
  running,   \* whether the program runs
  disk,      \* codec files in codecsPath(), the directory of this version
  old,       \* codec files in the directories of older versions
  eaeDir,    \* files of EasyAudioEncoder in eaePrefixPath()
  oldEae,    \* whether an EasyAudioEncoder directory of another version is there
  present,   \* g_cachedCodecList: the codecs marked present
  fetch,     \* the CodecsFetcher objects
  eaeRuns,   \* g_eaeProcess is running
  idFile,    \* the file .device-id
  id         \* g_deviceID

vars == <<running, disk, old, eaeDir, oldEae, present, fetch, eaeRuns, idFile, id>>
files == <<disk, old, eaeDir, oldEae>>

NewFetcher == [waits |-> FALSE, queue |-> <<>>, item |-> None, request |-> "none",
               eaeNeeded |-> FALSE, fetchEae |-> FALSE]

(* updateCachedCodecList(): what libmpv can load of the files in S. *)
Loadable(S) == S \ Unloadable

EaeIsPresent(dir) == Binary \in dir

(* codecNeedsDownload(c): have are the present codecs, q is the queue so   *)
(* far, stuck the files that cannot be removed.                            *)
CodecNeedsDownload(have, q, c, stuck) ==
  /\ c \in Codecs \ have
  /\ c \notin ToSet(q)
  /\ c \notin disk \cap stuck

(* The queue that installCodecs() fills for a list of drivers, one by one. *)
Enqueued(have, list, stuck) ==
  LET queue[n \in 0 .. Len(list)] ==
        IF n = 0 THEN <<>>
        ELSE IF CodecNeedsDownload(have, queue[n - 1], list[n], stuck)
             THEN Append(queue[n - 1], list[n])
             ELSE queue[n - 1]
  IN  queue[Len(list)]

(* startEAE() after the files dir: a process that runs is left alone, and  *)
(* the start of a missing binary fails.                                    *)
StartEae(dir) == eaeRuns' = (eaeRuns \/ EaeIsPresent(dir))

(* A new Downloader asks for item i. *)
Request(r, i) == [r EXCEPT !.item = i, !.request = "info"]

(* Plausible slip: the queue is served first, and an empty one ends the    *)
(* work.                                                                   *)
StartNextQueueFirst(f, r) ==
  \/ /\ r.queue # <<>>
     /\ fetch' = [fetch EXCEPT ![f] = Request([r EXCEPT !.queue = Tail(@)], Head(r.queue))]
     /\ UNCHANGED eaeRuns
  \/ r.queue = <<>> /\ fetch' = [fetch EXCEPT ![f] = NewFetcher] /\ UNCHANGED eaeRuns

(* startNext() of fetcher f with the fields r: EasyAudioEncoder first,     *)
(* then the queue, then done() - after the start of the EAE process, which *)
(* fails when there is no binary.                                          *)
StartNext(f, r) ==
  \/ /\ r.fetchEae
     /\ fetch' = [fetch EXCEPT ![f] = Request([r EXCEPT !.fetchEae = FALSE], Eae)]
     /\ UNCHANGED eaeRuns
  \/ /\ ~r.fetchEae /\ r.queue # <<>>
     /\ fetch' = [fetch EXCEPT ![f] = Request([r EXCEPT !.queue = Tail(@)], Head(r.queue))]
     /\ UNCHANGED eaeRuns
  \/ /\ ~r.fetchEae /\ r.queue = <<>>
     /\ fetch' = [fetch EXCEPT ![f] = NewFetcher]
     /\ IF r.eaeNeeded /\ f # UpdateFetcher THEN StartEae(eaeDir') ELSE UNCHANGED eaeRuns

(* installCodecs(list) of fetcher f; broken files are removed at once. *)
InstallCodecs(f, list, have) ==
  \E stuck \in {{}, Codecs} :
    LET q == Enqueued(have, list, stuck)
        needed == ToSet(list) \cap EaeDrivers # {}
    IN  /\ disk' = disk \ ToSet(q)
        /\ StartNext(f, [NewFetcher EXCEPT !.waits = TRUE, !.queue = q, !.eaeNeeded = needed,
                                           !.fetchEae = needed /\ ~EaeIsPresent(eaeDir)])

-----------------------------------------------------------------------------
Init ==
  /\ running = FALSE
  /\ disk = {} /\ old \in SUBSET Codecs /\ eaeDir = {} /\ oldEae \in BOOLEAN
  /\ present = {} /\ fetch = [f \in Fetchers |-> NewFetcher] /\ eaeRuns = FALSE
  /\ idFile = None /\ id = None

(* loadDeviceID(): the stored id, else one of an older version or another  *)
(* product or a new one, which counts only if it can be read back.         *)
LoadDeviceId ==
  \/ idFile # None /\ id' = idFile /\ UNCHANGED idFile
  \/ idFile = None /\ \E i \in Ids \cup {None} : idFile' = i /\ id' = i

(* Plausible slip: the old directories are deleted first. *)
OutdatedAfterDelete ==
  ((disk \cup Foreign) \ Loadable(disk)) \cup {d \in EaeDrivers : eaeDir # {} /\ ~EaeIsPresent(eaeDir)}

(* What updateCodecs() installs: external codecs that are not present and  *)
(* have a file in any codec directory, and EasyAudioEncoder if there is a  *)
(* directory of it and no binary of this version.                          *)
Outdated ==
  ((disk \cup old \cup Foreign) \ Loadable(disk))
    \cup {d \in EaeDrivers : (oldEae \/ eaeDir # {}) /\ ~EaeIsPresent(eaeDir)}

(* updateCodecs() *)
UpdateCodecs ==
  IF Outdated = {} THEN UNCHANGED <<disk, fetch, eaeRuns>>
  ELSE InstallCodecs(UpdateFetcher, SetToSeq(Outdated), Loadable(disk))

(* deleteOldCodecs() *)
DeleteOldCodecs == old' = {} /\ oldEae' = FALSE

(* preinitCodecs(), initCodecs(): without a device id the program ends     *)
(* with a FatalException; else the cached list is filled, the update       *)
(* fetcher begins and the old directories are deleted.                     *)
Start ==
  /\ ~running
  /\ LoadDeviceId
  /\ UNCHANGED eaeDir
  /\ IF id' = None
     THEN UNCHANGED <<running, disk, old, oldEae, present, fetch, eaeRuns>>
     ELSE /\ running' = TRUE
          /\ present' = Loadable(disk)
          /\ DeleteOldCodecs
          /\ UpdateCodecs

(* What determineRequiredCodecs() can answer for the files while libmpv    *)
(* loads the codecs in loaded, as lists of drivers, or None.               *)
Required == [loaded \in SUBSET Codecs |->
  {LET required == DetermineRequiredCodecs(CachedCodecList(loaded),
                     PlaybackStreams(file.tracks, file.server), ac3, useVideo)
   IN  [i \in DOMAIN required |->
          IF required[i] = <<>> THEN None ELSE required[i][1].codec.driver] :
     file \in Files, ac3 \in BOOLEAN, useVideo \in BOOLEAN}]

(* startCodecsLoading(): a hook of mpv wants what the file needs; the      *)
(* fetcher is done before the call returns if there is nothing to fetch.   *)
Load(f) ==
  /\ running /\ ~fetch[f].waits
  /\ UNCHANGED <<running, old, eaeDir, oldEae, idFile, id>>
  /\ present' = Loadable(disk)
  /\ \E list \in Required[present'] : InstallCodecs(f, list, present')

(* codecInfoDownloadDone(): a usable reply starts the download, anything   *)
(* else goes on with the next item.                                        *)
InfoDone(f) ==
  /\ fetch[f].request = "info"
  /\ UNCHANGED <<running, disk, old, eaeDir, oldEae, present, idFile, id>>
  /\ \/ /\ fetch' = [fetch EXCEPT ![f].request = "data"]
        /\ UNCHANGED eaeRuns
     \/ StartNext(f, [fetch[f] EXCEPT !.item = None, !.request = "none"])

(* extractZip(): the files up to the first one that fails are written, and *)
(* removing the archive's path with QDir leaves them there.                *)
ExtractZip ==
  \E n \in 0..Len(EaeFiles) : eaeDir' = eaeDir \cup ToSet(SubSeq(EaeFiles, 1, n))

(* Plausible slip: the list of present codecs is not made anew. *)
ProcessCodecDownloadDoneNoRescan(i) ==
  IF i = Eae
  THEN ExtractZip /\ UNCHANGED <<disk, present>>
  ELSE disk' = disk \cup {i} /\ UNCHANGED <<present, eaeDir>>

(* processCodecDownloadDone() with the right checksum and a stored file:   *)
(* the archive is extracted, or the list of present codecs is made anew.   *)
ProcessCodecDownloadDone(i) ==
  IF i = Eae
  THEN ExtractZip /\ UNCHANGED <<disk, present>>
  ELSE disk' = disk \cup {i} /\ present' = Loadable(disk') /\ UNCHANGED eaeDir

(* codecDownloadDone(): a failed request, a wrong checksum or a failed     *)
(* write changes nothing; the fetcher goes on in any case.                 *)
DataDone(f) ==
  /\ fetch[f].request = "data"
  /\ \/ ProcessCodecDownloadDone(fetch[f].item)
     \/ UNCHANGED <<disk, present, eaeDir>>
  /\ StartNext(f, [fetch[f] EXCEPT !.item = None, !.request = "none"])
  /\ UNCHANGED <<running, old, oldEae, idFile, id>>

(* The EAE process ends by itself. *)
EaeDies == eaeRuns /\ eaeRuns' = FALSE /\ UNCHANGED <<running, files, present, fetch, idFile, id>>

(* Codecs::Uninit() at the end, or a crash. *)
Stop ==
  /\ running /\ running' = FALSE
  /\ present' = {} /\ eaeRuns' = FALSE /\ id' = None
  /\ fetch' = [f \in Fetchers |-> NewFetcher]
  /\ UNCHANGED <<files, idFile>>

(* A new version is installed: its codecs have a directory of their own,   *)
(* and so may its EasyAudioEncoder.                                        *)
Upgrade ==
  /\ ~running
  /\ old' = old \cup disk /\ disk' = {}
  /\ \/ UNCHANGED <<eaeDir, oldEae>>
     \/ eaeDir' = {} /\ oldEae' = (oldEae \/ eaeDir # {})
  /\ UNCHANGED <<running, present, fetch, eaeRuns, idFile, id>>

Next ==
  \/ Start \/ Stop \/ Upgrade \/ EaeDies
  \/ \E f \in Loaders : Load(f)
  \/ \E f \in Fetchers : InfoDone(f) \/ DataDone(f)

(* Every request is answered or fails (QNetworkReply::finished).           *)
Fairness == \A f \in Fetchers : WF_vars(InfoDone(f)) /\ WF_vars(DataDone(f))

Spec == Init /\ [][Next]_vars /\ Fairness

-----------------------------------------------------------------------------
Fetcher == [waits : BOOLEAN, queue : Seq(Codecs), item : Items \cup {None},
            request : {"none", "info", "data"}, eaeNeeded : BOOLEAN, fetchEae : BOOLEAN]

(* Every variable keeps its type; a fetcher that is waited for has exactly *)
(* one request under way, and one that is not has nothing left.            *)
TypeOK ==
  /\ running \in BOOLEAN /\ eaeRuns \in BOOLEAN /\ oldEae \in BOOLEAN
  /\ disk \subseteq Codecs /\ old \subseteq Codecs /\ present \subseteq Codecs
  /\ eaeDir \subseteq ToSet(EaeFiles)
  /\ idFile \in Ids \cup {None} /\ id \in Ids \cup {None}
  /\ fetch \in [Fetchers -> Fetcher]
  /\ \A f \in Fetchers : /\ fetch[f].waits <=> fetch[f].request # "none"
                         /\ fetch[f].waits <=> fetch[f].item # None
                         /\ ~fetch[f].waits => fetch[f] = NewFetcher

(* While several fetchers write and remove files, the list that the choice *)
(* of decoders reads names exactly the codecs on disk that can be loaded:  *)
(* no file that is in use is removed, no stored one is forgotten           *)
(* (CodecsComponent.cpp:653, 1045).                                        *)
ListFollowsDisk == running => present = Loadable(disk)

(* One fetcher never downloads an item twice for one call of               *)
(* installCodecs, though a file may need the same codec for many streams.  *)
NoItemTwice ==
  \A f \in Fetchers : LET q == fetch[f].queue
    IN  IsInjective(q) /\ fetch[f].item \notin ToSet(q) /\ (fetch[f].fetchEae => fetch[f].item # Eae)

(* A system decoder that is not on the white list, or not wanted, decodes  *)
(* a stream only if nothing else can: it "might fail in various ways"      *)
(* (CodecsComponent.h:43).                                                 *)
LastResort == [loaded \in SUBSET Codecs |->
  \A file \in Files, useVideo \in BOOLEAN :
    \A s \in ToSet(PlaybackStreams(file.tracks, file.server)) :
      LET list == CachedCodecList(loaded)
          best == SelectBestDecoder(list, s, useVideo)
      IN  best # <<>> /\ IsSystemCodec(best[1].codec) /\ ~Whitelisted(best[1].codec, useVideo)
            => \A i \in CodecsByFormat(list, "Decoder", s.codec) :
                 LET d == list[i].codec
                 IN  IsSystemCodec(d) /\ (Whitelisted(d, useVideo) => BeyondLimits(d, s))]
UnlistedIsLastResort == LastResort[present]

(* Nothing is downloaded for a stream that a present decoder can decode    *)
(* within its limits, nor an encoder when a usable one is there, whatever  *)
(* the fetchers have stored so far.                                        *)
Needed == [loaded \in SUBSET Codecs |->
  \A file \in Files, useVideo \in BOOLEAN, ac3 \in BOOLEAN :
    LET list == CachedCodecList(loaded)
        streams == PlaybackStreams(file.tracks, file.server)
        required == DetermineRequiredCodecs(list, streams, ac3, useVideo)
        Suits(e) == e.present /\ (IsSystemCodec(e.codec) => Whitelisted(e.codec, useVideo))
    IN  \A n \in DOMAIN required : \A e \in ToSet(required[n]) :
          ~e.present =>
            \A i \in CodecsByFormat(list, e.codec.type, e.codec.format) :
              Suits(list[i]) => n \in DOMAIN streams /\ BeyondLimits(list[i].codec, streams[n])]
NothingNeedless == Needed[present]

(* The id that is sent to the server is the one that later starts will     *)
(* find, even when the disk refuses to store it.                           *)
IdIsStored == running => id # None /\ id = idFile

(* The fetchers share one list, one directory and one id: however their    *)
(* steps interleave, fail or are cut short, each is in a state that goes   *)
(* on, the list and the id are those of the disk, and nothing is fetched   *)
(* twice.                                                                  *)
FetchersAreSound == TypeOK /\ ListFollowsDisk /\ NoItemTwice /\ IdIsStored

(* Whatever has been stored so far, the choice of a decoder is good (a     *)
(* doubtful one is the last resort) and cheap (nothing is downloaded that  *)
(* a present codec makes needless).                                        *)
ChoiceIsSound == UnlistedIsLastResort /\ NothingNeedless

(* What an older version had is asked for before its directory goes, or is *)
(* there already, or cannot be fetched because its broken file cannot be   *)
(* removed.                                                                *)
ReadsOldVersion ==
  \A c \in old \ old' : \/ c \in present' \/ c \in disk'
                        \/ c \in ToSet(fetch'[UpdateFetcher].queue)
                        \/ c = fetch'[UpdateFetcher].item
OldVersionIsRead == [][ReadsOldVersion]_vars

(* When the player's fetcher reports done and the file needs               *)
(* EasyAudioEncoder, its process already runs, if it could be installed:   *)
(* mpv goes on as soon as done() is emitted.                               *)
StartsEaeFirst ==
  \A f \in Loaders : fetch[f].waits /\ fetch[f].eaeNeeded /\ ~fetch'[f].waits /\ running'
                       => eaeRuns' \/ ~EaeIsPresent(eaeDir')
EaeRunsBeforeDone == [][StartsEaeFirst]_vars

(* Steps whose order matters are taken in that order, also over an upgrade *)
(* and with several fetchers: read the old directory, then remove it; run  *)
(* the encoder, then report done.                                          *)
KeepsOrder == OldVersionIsRead /\ EaeRunsBeforeDone

(* The fetchers keep the promise of CodecWait. *)
Waiting == {f \in Fetchers : fetch[f].waits}
Left == [f \in Fetchers |-> (ToSet(fetch[f].queue) \cup {fetch[f].item} \cup
                             {i \in {Eae} : fetch[f].fetchEae}) \ {None}]
W == INSTANCE CodecWait WITH up <- running, waiting <- Waiting, left <- Left
ImplementsCodecWait == W!Spec

(* Every file that waits for codecs goes on, unless the program ends. *)
FilesGoOn == \A f \in Loaders : fetch[f].waits ~> ~fetch[f].waits

(* The caller's side: a fetcher reports done exactly once, with nothing    *)
(* left, and it does so whatever fails.                                    *)
KeepsItsPromise == ImplementsCodecWait /\ FilesGoOn
==============================================================================
