---------------------------- MODULE UpdaterProofs ----------------------------
(***************************************************************************)
(* Proofs about the updater, for any number of releases: the directories   *)
(* stay sound, and a start never tries an update a second time.            *)
(***************************************************************************)
EXTENDS Updater, TLAPS

\* A file that is being written is a file of m_version and not yet good, so
\* the directory of a version that is ready is never written.
WritesAreOpen ==
  /\ m_manifest # "null" => m_version # NoVersion
  /\ m_manifest = "running" => disk[m_version].manifest # "good"
  /\ m_file = "running" => disk[m_version].package # "good"

\* A process that is off, or was started to apply an update, has no objects.
OffIsEmpty == app = "off" => m_version = NoVersion

\* The marker of the version that is applied is gone, but of no other; and at
\* a start that version was downloaded since it was applied last.
MarkersAreFresh ==
  /\ \A v \in Versions : disk[v].ready => v \in fresh
  /\ app = "applying" => /\ applying \in Versions
                         /\ ~disk[applying].ready
                         /\ m_version = NoVersion => applying \in fresh

UpdInv == TypeOK /\ ReadyIsComplete /\ WritesAreOpen /\ OffIsEmpty /\ MarkersAreFresh
-----------------------------------------------------------------------------
(* The directories.                                           *)

Directory == [manifest : Contents, package : Contents, packages : BOOLEAN, ready : BOOLEAN]

\* Which of two directories was modified later is told for at most one of them.
Ordered(l) ==
  /\ l \subseteq Versions \X Versions
  /\ \A v, w \in Versions : <<v, w>> \in l => <<w, v>> \notin l

LEMMA NoVersionIsNone == NoVersion \notin Versions /\ Versions \subseteq Nat /\ 1 \in Versions
BY UpdaterAssumption DEF NoVersion, Versions

LEMMA ModifiedOrdered ==
  ASSUME NEW l, Ordered(l), NEW v \in Versions
  PROVE  Ordered(Modified(l, v))
BY DEF Ordered, Modified

LEMMA CleanedOrdered ==
  ASSUME NEW old, Ordered(later)
  PROVE  Ordered(Cleaned(old))
<1>1. Cleaned(old) \subseteq Versions \X Versions
  BY DEF Cleaned
<1>2. ASSUME NEW v \in Versions, NEW w \in Versions, <<v, w>> \in Cleaned(old), <<w, v>> \in Cleaned(old)
      PROVE  FALSE
  <2>1. CASE v \in old /\ w \in old
    BY <1>2, <2>1 DEF Ordered, Cleaned
  <2>2. CASE v \notin old /\ w \notin old
    BY <1>2, <2>2 DEF Ordered, Cleaned
  <2>3. CASE v \in old /\ w \notin old
    BY <1>2, <2>3 DEF Cleaned
  <2>4. CASE v \notin old /\ w \in old
    BY <1>2, <2>4 DEF Cleaned
  <2> QED BY <2>1, <2>2, <2>3, <2>4
<1> QED BY <1>1, <1>2 DEF Ordered

\* What Store leaves: directories, in an order, and one of them is d.
LEMMA StoreType ==
  ASSUME TypeOK, NEW v \in Versions, NEW d \in Directory, Store(v, d)
  PROVE  /\ disk' \in [Versions -> Directory]
         /\ Ordered(later')
         /\ disk'[v] = d
         /\ \A w \in Versions \ {v} : disk'[w] = disk[w]
<1>1. Ordered(later)
  BY DEF TypeOK, Ordered
<1>2. Ordered(later')
  BY <1>1, ModifiedOrdered DEF Store
<1> QED BY <1>2 DEF Store, TypeOK, Directory

\* Its files do not change when packages are removed, and what is ready keeps them.
LEMMA RemovedIsNotReady ==
  ASSUME TypeOK, NEW v \in Versions \cup {NoVersion}, FirstReady(v)
  PROVE  /\ WithoutPackages(OldPackages(v)) \in [Versions -> Directory]
         /\ \A w \in Versions :
              /\ WithoutPackages(OldPackages(v))[w].ready = disk[w].ready
              /\ disk[w].ready => WithoutPackages(OldPackages(v))[w] = disk[w]
         /\ Ordered(Cleaned(OldPackages(v)))
<1>1. ASSUME NEW w \in OldPackages(v)
      PROVE  ~disk[w].ready
  BY <1>1, NoVersionIsNone DEF OldPackages, FirstReady, Ready, TypeOK
<1>2. Ordered(Cleaned(OldPackages(v)))
  BY CleanedOrdered DEF TypeOK, Ordered
<1>3. ASSUME NEW w \in Versions
      PROVE  LET c == WithoutPackages(OldPackages(v))[w]
             IN  c \in Directory /\ c.ready = disk[w].ready /\ (disk[w].ready => c = disk[w])
  BY <1>1, <1>3 DEF WithoutPackages, TypeOK, Directory, Contents
<1> QED BY <1>2, <1>3 DEF WithoutPackages

-----------------------------------------------------------------------------
(* The steps of a download.                                                *)

\* A step has written the directory of v, the version being downloaded after it.
Written(v) ==
  /\ disk' \in [Versions -> Directory] /\ Ordered(later')
  /\ \A w \in Versions \ {v} : disk'[w] = disk[w]
  /\ disk'[v].ready => Complete(disk'[v]) /\ v \in fresh'
  /\ {m_manifest', m_file'} \subseteq {"null", "idle", "running"}
  /\ m_manifest' = "null" <=> m_file' = "null"
  /\ m_manifest' = "running" => disk'[v].manifest # "good"
  /\ m_file' = "running" => disk'[v].package # "good"
  /\ dialog' \in {"none", "open", "closed"}
  /\ fresh \subseteq fresh' /\ fresh' \subseteq Versions

\* fileComplete writes the marker only beside two complete files.
LEMMA FileCompleteWrites ==
  ASSUME UpdInv, NEW v \in Versions, NEW d \in Directory, NEW marked \in BOOLEAN,
         NEW manifest \in {"idle", "running"}, NEW file \in {"idle", "running"},
         manifest = "running" => d.manifest # "good",
         file = "running" => d.package # "good",
         d.ready => Complete(d) /\ v \in fresh,
         FileComplete(v, d, manifest, file, marked)
  PROVE  Written(v)
<1>1. fresh \subseteq Versions /\ dialog \in {"none", "open", "closed"}
  BY DEF UpdInv, TypeOK
<1>2. CASE "running" \notin {manifest, file} /\ Complete(d)
  <2> DEFINE e == [d EXCEPT !.ready = @ \/ marked]
  <2>1. e \in Directory /\ Complete(e) /\ (e.ready => d.ready \/ marked)
    BY <1>2 DEF Directory, Complete
  <2>2. /\ Store(v, e)
        /\ fresh' = IF marked THEN fresh \cup {v} ELSE fresh
        /\ m_manifest' = "null" /\ m_file' = "null"
        /\ dialog' = IF dialog = "none" THEN "open" ELSE dialog
    BY <1>2 DEF FileComplete
  <2> HIDE DEF e
  <2>3. /\ disk' \in [Versions -> Directory] /\ Ordered(later') /\ disk'[v] = e
        /\ \A w \in Versions \ {v} : disk'[w] = disk[w]
    BY <2>1, <2>2, StoreType DEF UpdInv
  <2> QED BY <1>1, <2>1, <2>2, <2>3 DEF Written
<1>3. CASE ~("running" \notin {manifest, file} /\ Complete(d))
  <2>1. /\ Store(v, d) /\ m_manifest' = manifest /\ m_file' = file
        /\ UNCHANGED <<fresh, dialog>>
    BY <1>3 DEF FileComplete
  <2>2. /\ disk' \in [Versions -> Directory] /\ Ordered(later') /\ disk'[v] = d
        /\ \A w \in Versions \ {v} : disk'[w] = disk[w]
    BY <2>1, StoreType DEF UpdInv
  <2> QED BY <1>1, <2>1, <2>2 DEF Written
<1> QED BY <1>2, <1>3

\* A download opens, and so empties, only files that are not good.
LEMMA DownloadWrites ==
  ASSUME UpdInv, NEW v \in Versions, NEW d \in Directory, NEW openable \in BOOLEAN,
         d.ready => Complete(d) /\ v \in fresh, Download(v, d, openable)
  PROVE  Written(v)
<1> DEFINE manifest == d.manifest # "good" /\ openable
           package  == d.package # "good" /\ openable
           e == [d EXCEPT !.manifest = IF manifest THEN "partial" ELSE @,
                          !.package  = IF package THEN "partial" ELSE @]
<1>1. /\ e \in Directory /\ e.ready = d.ready
      /\ e.manifest = IF manifest THEN "partial" ELSE d.manifest
      /\ e.package = IF package THEN "partial" ELSE d.package
  BY DEF Directory, Contents
<1>2. /\ Store(v, e)
      /\ m_manifest' = IF manifest THEN "running" ELSE "idle"
      /\ m_file' = IF package THEN "running" ELSE "idle"
      /\ UNCHANGED <<fresh, dialog>>
  BY DEF Download
<1> HIDE DEF e
<1>3. /\ disk' \in [Versions -> Directory] /\ Ordered(later') /\ disk'[v] = e
      /\ \A w \in Versions \ {v} : disk'[w] = disk[w]
  BY <1>1, <1>2, StoreType DEF UpdInv
<1>4. fresh \subseteq Versions /\ dialog \in {"none", "open", "closed"}
  BY DEF UpdInv, TypeOK
<1>5. e.ready => Complete(e) /\ v \in fresh
  BY <1>1 DEF Complete
<1> QED BY <1>1, <1>2, <1>3, <1>4, <1>5 DEF Written

\* startUpdateDownload writes in the directory of its version, or nowhere.
LEMMA StartUpdateDownloadWrites ==
  ASSUME UpdInv, NEW v \in Versions, NEW faulty \in BOOLEAN, StartUpdateDownload(v, faulty)
  PROVE  \/ UNCHANGED <<files, m_version, objects, dialog, fresh>>
         \/ m_version' = v /\ Written(v)
<1> SUFFICES ASSUME ~IsDownloading
             PROVE  m_version' = v /\ Written(v)
  BY DEF StartUpdateDownload
<1> DEFINE d == [disk[v] EXCEPT !.packages = TRUE]
<1>1. /\ disk \in [Versions -> Directory] /\ Ordered(later)
      /\ disk[v].ready => Complete(disk[v]) /\ v \in fresh
      /\ fresh \subseteq Versions /\ dialog \in {"none", "open", "closed"}
  BY DEF UpdInv, TypeOK, ReadyIsComplete, MarkersAreFresh, Ordered, Directory
<1>2. d \in Directory /\ (d.ready => Complete(d) /\ v \in fresh)
  BY <1>1 DEF Directory, Complete
<1>3. m_version' = v
  BY DEF StartUpdateDownload
<1>4. CASE faulty /\ ~disk[v].packages
  <2>1. /\ m_manifest' = "idle" /\ m_file' = "idle"
        /\ disk' = disk /\ later' = later /\ dialog' = dialog /\ fresh' = fresh
    BY <1>4 DEF StartUpdateDownload, files
  <2> QED BY <1>1, <1>3, <2>1 DEF Written
<1>5. CASE ~(faulty /\ ~disk[v].packages) /\ Complete(d)
  <2>1. FileComplete(v, d, "idle", "idle", ~faulty)
    BY <1>5 DEF StartUpdateDownload
  <2> HIDE DEF d
  <2> QED BY <1>2, <1>3, <2>1, FileCompleteWrites
<1>6. CASE ~(faulty /\ ~disk[v].packages) /\ ~Complete(d)
  <2>1. Download(v, d, ~faulty)
    BY <1>6 DEF StartUpdateDownload
  <2> HIDE DEF d
  <2> QED BY <1>2, <1>3, <2>1, DownloadWrites
<1> QED BY <1>4, <1>5, <1>6

\* The step has done no harm: v is the version that is downloaded after it.
LEMMA WrittenSound ==
  ASSUME UpdInv, app = "running", NEW v \in Versions, Written(v), m_version' = v,
         {m_check', updateTimer', stray'} \subseteq BOOLEAN, m_lastUpdateCheck' \in CheckTimes,
         UNCHANGED <<latest, installed, updater, app, applying>>
  PROVE  UpdInv'
<1>1. TypeOK'
  BY DEF UpdInv, TypeOK, Written, Ordered, Directory
<1>2. ReadyIsComplete'
  BY DEF UpdInv, ReadyIsComplete, Written, Complete
<1>3. WritesAreOpen'
  BY NoVersionIsNone DEF WritesAreOpen, Written
<1>4. OffIsEmpty' /\ MarkersAreFresh'
  BY DEF UpdInv, OffIsEmpty, MarkersAreFresh, Written
<1> QED BY <1>1, <1>2, <1>3, <1>4 DEF UpdInv

-----------------------------------------------------------------------------
(* The invariant and the theorems.                                         *)

LEMMA UpdInit == Init => UpdInv
<1> SUFFICES ASSUME Init
             PROVE  UpdInv
  OBVIOUS
<1>1. /\ disk \in [Versions -> Directory]
      /\ \A v \in Versions : ~disk[v].ready
  BY DEF Init, NoDirectory, Directory, Contents
<1>2. TypeOK
  BY <1>1, NoVersionIsNone DEF Init, TypeOK, Directory, CheckTimes
<1> QED
  BY <1>1, <1>2 DEF Init, UpdInv, ReadyIsComplete, WritesAreOpen, OffIsEmpty, MarkersAreFresh

LEMMA UpdStep == UpdInv /\ [Next]_vars => UpdInv'
<1> SUFFICES ASSUME UpdInv, [Next]_vars
             PROVE  UpdInv'
  OBVIOUS
<1> USE NoVersionIsNone
<1>1. CASE CheckForUpdate \/ TimerCheck
  BY <1>1 DEF TimerCheck, CheckForUpdate, CheckTimes, UpdInv, TypeOK, ReadyIsComplete,
              WritesAreOpen, OffIsEmpty,
              MarkersAreFresh, files, objects
<1>2. ASSUME NEW faulty \in BOOLEAN, CheckDone(faulty)
      PROVE  UpdInv'
  <2>1. /\ app = "running" /\ {m_check', updateTimer', stray'} \subseteq BOOLEAN
        /\ m_lastUpdateCheck' \in CheckTimes
        /\ UNCHANGED <<latest, installed, updater, app, applying>>
    BY <1>2 DEF CheckDone, UpdInv, TypeOK, clock
  <2>2. CASE UNCHANGED <<files, m_version, objects, dialog, fresh>>
    BY <1>2, <2>1, <2>2 DEF UpdInv, TypeOK, ReadyIsComplete, WritesAreOpen, OffIsEmpty,
                            MarkersAreFresh, files, objects
  <2>3. CASE m_version' = latest /\ Written(latest)
    BY <2>1, <2>3, WrittenSound DEF UpdInv, TypeOK
  <2>4. latest \in Versions
    BY DEF UpdInv, TypeOK
  <2>5. \/ StartUpdateDownload(latest, faulty)
        \/ UNCHANGED <<files, m_version, objects, dialog, fresh>>
    BY <1>2 DEF CheckDone
  <2> QED BY <2>2, <2>3, <2>4, <2>5, StartUpdateDownloadWrites
<1>3. ASSUME NEW file \in {"manifest", "package"}, NEW content \in {"partial", "good"},
             NEW faulty \in BOOLEAN, DownloadDone(file, content, faulty)
      PROVE  UpdInv'
  <2> DEFINE d == [disk[m_version] EXCEPT ![file] = content]
  <2>1. /\ app = "running" /\ {m_check', updateTimer', stray'} \subseteq BOOLEAN
        /\ m_lastUpdateCheck' \in CheckTimes /\ m_version' = m_version
        /\ UNCHANGED <<latest, installed, updater, app, applying>>
    BY <1>3 DEF DownloadDone, UpdInv, TypeOK, clock
  <2>2. \/ file = "manifest" /\ m_manifest = "running"
        \/ file = "package" /\ m_file = "running"
    BY <1>3 DEF DownloadDone
  <2>3. m_version \in Versions
    BY <2>2 DEF UpdInv, TypeOK, WritesAreOpen
  <2>4. ~disk[m_version].ready
    BY <2>2, <2>3 DEF UpdInv, WritesAreOpen, ReadyIsComplete, Complete
  <2>5. disk[m_version] \in Directory
    BY <2>3 DEF UpdInv, TypeOK, Directory
  <2>6. d \in Directory /\ ~d.ready
    BY <2>4, <2>5 DEF Directory, Contents
  <2>7. CASE file = "manifest"
    <3>1. m_file \in {"idle", "running"} /\ (m_file = "running" => d.package # "good")
      BY <2>2, <2>5, <2>7 DEF UpdInv, TypeOK, WritesAreOpen, Directory
    <3>2. FileComplete(m_version, d, "idle", m_file, ~faulty)
      BY <1>3, <2>7 DEF DownloadDone
    <3> HIDE DEF d
    <3>3. Written(m_version)
      BY <2>3, <2>6, <3>1, <3>2, FileCompleteWrites
    <3> QED BY <2>1, <2>3, <3>3, WrittenSound
  <2>8. CASE file = "package"
    <3>1. m_manifest \in {"idle", "running"} /\ (m_manifest = "running" => d.manifest # "good")
      BY <2>2, <2>5, <2>8 DEF UpdInv, TypeOK, WritesAreOpen, Directory
    <3>2. FileComplete(m_version, d, m_manifest, "idle", ~faulty)
      BY <1>3, <2>8 DEF DownloadDone
    <3> HIDE DEF d
    <3>3. Written(m_version)
      BY <2>3, <2>6, <3>1, <3>2, FileCompleteWrites
    <3> QED BY <2>1, <2>3, <3>3, WrittenSound
  <2> QED BY <2>7, <2>8
<1>4. CASE RequestFails
  BY <1>4 DEF RequestFails, Abort, UpdInv, TypeOK, ReadyIsComplete, WritesAreOpen, OffIsEmpty,
              MarkersAreFresh, files, clock
<1>5. CASE CheckRedirected
  BY <1>5 DEF CheckRedirected, CheckTimes, Down, UpdInv, TypeOK, ReadyIsComplete, WritesAreOpen,
              OffIsEmpty,
              MarkersAreFresh, files, objects, clock
<1>6. CASE Exit
  BY <1>6 DEF Exit, CheckTimes, Down, UpdInv, TypeOK, ReadyIsComplete, WritesAreOpen, OffIsEmpty,
              MarkersAreFresh, files, clock
<1>7. CASE Start
  <2>1. PICK v \in Versions \cup {NoVersion} :
          /\ FirstReady(v)
          /\ \/ /\ app' = "running" /\ applying' = NoVersion
                /\ disk' = WithoutPackages(OldPackages(v))
                /\ later' = Cleaned(OldPackages(v))
             \/ /\ v # NoVersion /\ app' = "applying" /\ applying' = v
                /\ RemoveMarker(v, WithoutPackages(OldPackages(v)))
    BY <1>7 DEF Start, Up
  <2> DEFINE clean == WithoutPackages(OldPackages(v))
  <2>2. /\ clean \in [Versions -> Directory]
        /\ \A w \in Versions : /\ clean[w].ready = disk[w].ready
                               /\ disk[w].ready => clean[w] = disk[w]
        /\ Ordered(Cleaned(OldPackages(v)))
    BY <2>1, RemovedIsNotReady DEF UpdInv
  <2>3. /\ m_version = NoVersion /\ m_manifest = "null" /\ m_file = "null"
        /\ UNCHANGED <<latest, installed, updater, m_version, m_manifest, m_file,
                       m_check, stray, dialog, fresh>>
        /\ updateTimer' \in BOOLEAN /\ m_lastUpdateCheck' = m_lastUpdateCheck
    BY <1>7 DEF Start, Up, UpdInv, OffIsEmpty, WritesAreOpen, TypeOK, objects, clock
  <2>4. WritesAreOpen' /\ OffIsEmpty'
    BY <2>1, <2>3 DEF WritesAreOpen, OffIsEmpty
  <2>5. CASE /\ app' = "running" /\ applying' = NoVersion
             /\ disk' = clean /\ later' = Cleaned(OldPackages(v))
    <3> HIDE DEF clean
    <3>1. TypeOK'
      BY <2>2, <2>3, <2>5 DEF UpdInv, TypeOK, Ordered, Directory
    <3>2. ReadyIsComplete' /\ MarkersAreFresh'
      BY <2>2, <2>3, <2>5 DEF UpdInv, ReadyIsComplete, MarkersAreFresh
    <3> QED BY <2>4, <3>1, <3>2 DEF UpdInv
  <2>6. CASE /\ v # NoVersion /\ app' = "applying" /\ applying' = v
             /\ RemoveMarker(v, clean)
    <3>1. /\ v \in Versions /\ disk[v].ready
          /\ disk' = [clean EXCEPT ![v].ready = FALSE]
          /\ later' = Modified(Cleaned(OldPackages(v)), v)
      BY <2>1, <2>6 DEF RemoveMarker, FirstReady, Ready
    <3> HIDE DEF clean
    <3>2. Ordered(later')
      BY <2>2, <3>1, ModifiedOrdered
    <3>3. TypeOK'
      BY <2>2, <2>3, <2>6, <3>1, <3>2 DEF UpdInv, TypeOK, Ordered, Directory
    <3>4. ReadyIsComplete' /\ MarkersAreFresh'
      BY <2>2, <2>3, <2>6, <3>1 DEF UpdInv, ReadyIsComplete, MarkersAreFresh, Directory, Complete
    <3> QED BY <2>4, <3>3, <3>4 DEF UpdInv
  <2> QED BY <2>1, <2>5, <2>6
<1>8. CASE DoUpdate
  <2>1. CASE Down /\ UNCHANGED files
    BY <1>8, <2>1 DEF DoUpdate, CheckTimes, Down, UpdInv, TypeOK, ReadyIsComplete, WritesAreOpen,
                      OffIsEmpty,
                      MarkersAreFresh, files, clock
  <2>2. CASE /\ m_version # NoVersion
             /\ app' = "applying" /\ applying' = m_version
             /\ Store(m_version, [disk[m_version] EXCEPT !.ready = FALSE])
             /\ UNCHANGED <<m_version, objects, m_check, clock, stray, dialog>>
    <3> DEFINE d == [disk[m_version] EXCEPT !.ready = FALSE]
    <3>1. m_version \in Versions
      BY <2>2 DEF UpdInv, TypeOK
    <3>2. /\ d \in Directory /\ ~d.ready
          /\ d.manifest = disk[m_version].manifest /\ d.package = disk[m_version].package
      BY <3>1 DEF UpdInv, TypeOK, Directory
    <3> HIDE DEF d
    <3>3. /\ disk' \in [Versions -> Directory] /\ Ordered(later') /\ disk'[m_version] = d
          /\ \A w \in Versions \ {m_version} : disk'[w] = disk[w]
      BY <2>2, <3>1, <3>2, StoreType DEF UpdInv, d
    <3>4. UNCHANGED <<latest, installed, updater, fresh>>
      BY <1>8 DEF DoUpdate
    <3>5. TypeOK'
      BY <2>2, <3>1, <3>3, <3>4 DEF UpdInv, TypeOK, Ordered, Directory, objects, clock
    <3>6. ReadyIsComplete' /\ MarkersAreFresh'
      BY <2>2, <3>1, <3>2, <3>3, <3>4 DEF UpdInv, ReadyIsComplete, MarkersAreFresh
    <3>7. WritesAreOpen' /\ OffIsEmpty'
      BY <2>2, <3>1, <3>2, <3>3 DEF UpdInv, WritesAreOpen, OffIsEmpty, objects
    <3> QED BY <3>5, <3>6, <3>7 DEF UpdInv
  <2> QED BY <1>8, <2>1, <2>2 DEF DoUpdate
<1>9. CASE CloseDialog
  BY <1>9 DEF CloseDialog, UpdInv, TypeOK, ReadyIsComplete, WritesAreOpen, OffIsEmpty,
              MarkersAreFresh, files, objects, clock
<1>10. CASE StartUpdater
  <2>1. TypeOK' /\ ReadyIsComplete'
    BY <1>10 DEF StartUpdater, Up, CheckTimes, Down, UpdInv, TypeOK, ReadyIsComplete, files,
                 objects, clock
  <2>2. WritesAreOpen' /\ OffIsEmpty'
    BY <1>10 DEF StartUpdater, Up, Down, UpdInv, WritesAreOpen, OffIsEmpty, files, objects
  <2>3. MarkersAreFresh'
    BY <1>10 DEF StartUpdater, Up, Down, UpdInv, MarkersAreFresh, files, clock
  <2> QED BY <2>1, <2>2, <2>3 DEF UpdInv
<1>11. CASE UpdaterEnds
  BY <1>11 DEF UpdaterEnds, UpdInv, TypeOK, ReadyIsComplete, WritesAreOpen, OffIsEmpty,
               MarkersAreFresh, files, objects, clock, process
<1>12. CASE Release
  <2>1. latest' \in Versions
    BY <1>12, UpdaterAssumption DEF Release, UpdInv, TypeOK, Versions
  <2> QED
    BY <1>12, <2>1 DEF Release, UpdInv, TypeOK, ReadyIsComplete, WritesAreOpen, OffIsEmpty,
                       MarkersAreFresh, files, objects, clock, process
<1>13. CASE UNCHANGED vars
  BY <1>13 DEF vars, UpdInv, TypeOK, ReadyIsComplete, WritesAreOpen, OffIsEmpty,
               MarkersAreFresh, files, objects, clock, process
<1> QED
  BY <1>1, <1>2, <1>3, <1>4, <1>5, <1>6, <1>7, <1>8, <1>9, <1>10, <1>11, <1>12, <1>13 DEF Next

LEMMA UpdCorrect == Spec => []UpdInv
BY UpdInit, UpdStep, PTL DEF Spec

\* What is marked as ready is complete, whatever broke off or failed before.
THEOREM SoundDisk == Spec => []DiskIsSound
<1>1. UpdInv => DiskIsSound
  BY DEF UpdInv, DiskIsSound
<1> QED BY <1>1, UpdCorrect, PTL

\* An update that was tried at a start is not tried at the next one: its
\* marker is gone before the updater runs, and only a download brings it back.
THEOREM TriedOnce == Spec => NotTriedAgain
<1>1. ASSUME UpdInv, Next, updater' # updater, updater' # NoVersion, m_version = NoVersion
      PROVE  updater' \in fresh
  <2>1. CASE StartUpdater
    BY <1>1, <2>1 DEF StartUpdater, UpdInv, MarkersAreFresh
  <2>2. CASE UpdaterEnds
    BY <1>1, <2>2 DEF UpdaterEnds
  <2>3. CASE ~StartUpdater /\ ~UpdaterEnds
    BY <1>1, <2>3 DEF Next, TimerCheck, CheckForUpdate, CheckDone, DownloadDone, RequestFails,
                      CheckRedirected,
                      Exit, Start, DoUpdate, CloseDialog, Release
  <2> QED BY <2>1, <2>2, <2>3
<1>2. UpdInv /\ [Next]_vars
        => [updater' # updater /\ updater' # NoVersion /\ m_version = NoVersion
              => updater' \in fresh]_vars
  BY <1>1
<1> QED BY <1>2, UpdCorrect, PTL DEF Spec, NotTriedAgain
=============================================================================
