------------------------------- MODULE Updater -------------------------------
(***************************************************************************)
(* UpdaterComponent and UpdateManager: new versions are looked for while   *)
(* the application runs, downloaded into a directory of their own, and     *)
(* applied by a separate updater, at the next start or at the user's word. *)
(*                                                                         *)
(* The disk outlives the process, which may end at any time.  A version's  *)
(* directory holds the manifest, the directory packages with the package,  *)
(* and the marker _readyToApply.  HaveUpdate looks through the directories *)
(* in the order of their modification times, the latest first; the time    *)
(* changes when an entry of the directory is created or removed.           *)
(*                                                                         *)
(* This is the UpdateManager of macOS, whose releases have a manifest.     *)
(***************************************************************************)
EXTENDS Integers

CONSTANT MaxVersion        \* bound: releases, of which 1 is installed at first

ASSUME UpdaterAssumption == MaxVersion \in Nat \ {0}

NoVersion == 0
Versions == 1 .. MaxVersion
Contents == {"none", "partial", "good"}    \* good: the file has the right hash

VARIABLES
  latest,       \* the version that the server offers
  \* the disk
  installed,    \* the version of the application
  disk,         \* version |-> its directory
  later,        \* the pairs of directories of which the first was modified later
  \* processes
  updater,      \* the version that the separate updater installs, if it runs
  app,          \* "off", "running" or "applying" (between marker and updater)
  applying,     \* the version that app applies
  \* UpdaterComponent
  m_version,
  m_manifest, m_file,   \* null, or an Update object with or without a reply
  m_check,      \* is a reply to an update check outstanding (m_checkReply)?
  updateTimer,  \* does the timer run that looks every five minutes if it is time?
  m_lastUpdateCheck,    \* when the last check was made, as the timer sees it
  stray,        \* is a reply outstanding that no object waits for?
  dialog,       \* the dialog that offers the update
  \* history
  fresh         \* versions downloaded since they were last applied

files == <<disk, later>>
objects == <<m_manifest, m_file>>
clock == <<updateTimer, m_lastUpdateCheck>>
process == <<app, applying, m_version, objects, m_check, clock, stray, dialog>>
vars == <<latest, installed, files, updater, process, fresh>>

\* A time of day: none yet, or one after which a tick of the timer will find
\* that three hours have gone on the same day ("early"), or no tick will, as
\* the time of day starts again at midnight ("late").
CheckTimes == {"never", "early", "late"}

NoDirectory == [manifest |-> "none", package |-> "none", packages |-> FALSE, ready |-> FALSE]

Init ==
  /\ latest = 1 /\ installed = 1
  /\ disk = [v \in Versions |-> NoDirectory]
  /\ later = {}
  /\ updater = NoVersion
  /\ app = "off" /\ applying = NoVersion
  /\ m_version = NoVersion
  /\ m_manifest = "null" /\ m_file = "null"
  /\ m_check = FALSE /\ stray = FALSE
  /\ updateTimer = FALSE /\ m_lastUpdateCheck = "never"
  /\ dialog = "none"
  /\ fresh = {}

-----------------------------------------------------------------------------
(* Directories.                                                            *)

Entries(d) == <<d.manifest # "none", d.packages, d.ready>>

\* The order l when the directory of v has been modified.
Modified(l, v) ==
  {p \in l : v \notin {p[1], p[2]}} \cup {<<v, w>> : w \in Versions \ {v}}

\* The directory of v becomes d.
Store(v, d) ==
  /\ disk' = [disk EXCEPT ![v] = d]
  /\ later' = IF Entries(d) = Entries(disk[v]) THEN later ELSE Modified(later, v)

Complete(d) == d.manifest = "good" /\ d.package = "good"

-----------------------------------------------------------------------------
(* UpdaterComponent.                                                       *)

\* isDownloading().
IsDownloading == "running" \in {m_manifest, m_file}

\* checkForUpdate(), ten seconds after login or for the web client: the time
\* is taken even when a reply is outstanding.
CheckForUpdate ==
  /\ app = "running"
  /\ m_check' = TRUE
  /\ m_lastUpdateCheck' \in {"early", "late"}
  /\ UNCHANGED <<latest, installed, files, updater, app, applying, m_version, objects,
                 updateTimer, stray, dialog, fresh>>

\* A tick of updateTimer at which three hours have gone since the last check,
\* by the time of day: never so after a late check, nor before the first one.
TimerCheck == updateTimer /\ m_lastUpdateCheck = "early" /\ CheckForUpdate

\* Plausible slip: only the package is looked at.
PackageComplete(v, d, manifest, file, marked) ==
  IF file # "running" /\ d.package = "good"
  THEN /\ Store(v, [d EXCEPT !.ready = @ \/ marked])
       /\ fresh' = IF marked THEN fresh \cup {v} ELSE fresh
       /\ m_manifest' = "null" /\ m_file' = "null"
       /\ dialog' = IF dialog = "none" THEN "open" ELSE dialog
  ELSE Store(v, d) /\ m_manifest' = manifest /\ m_file' = file /\ UNCHANGED <<fresh, dialog>>

\* fileComplete() with the directory d of v and the objects manifest and file:
\* if both files are there, the marker is written, which may fail, and
\* downloadComplete opens the dialog, once in the life of the process.
FileComplete(v, d, manifest, file, marked) ==
  IF "running" \notin {manifest, file} /\ Complete(d)
  THEN /\ Store(v, [d EXCEPT !.ready = @ \/ marked])
       /\ fresh' = IF marked THEN fresh \cup {v} ELSE fresh
       /\ m_manifest' = "null" /\ m_file' = "null"
       /\ dialog' = IF dialog = "none" THEN "open" ELSE dialog
  ELSE Store(v, d) /\ m_manifest' = manifest /\ m_file' = file /\ UNCHANGED <<fresh, dialog>>

\* Plausible slip: a file of an earlier attempt is taken to be downloaded.
DownloadMissing(v, d, openable) ==
  LET manifest == d.manifest = "none" /\ openable
      package  == d.package = "none" /\ openable
  IN  /\ Store(v, [d EXCEPT !.manifest = IF manifest THEN "partial" ELSE @,
                            !.package  = IF package THEN "partial" ELSE @])
      /\ m_manifest' = IF manifest THEN "running" ELSE "idle"
      /\ m_file' = IF package THEN "running" ELSE "idle"
      /\ UNCHANGED <<fresh, dialog>>

\* Download what is not there yet; a file that cannot be opened is skipped.
Download(v, d, openable) ==
  LET manifest == d.manifest # "good" /\ openable
      package  == d.package # "good" /\ openable
  IN  /\ Store(v, [d EXCEPT !.manifest = IF manifest THEN "partial" ELSE @,
                            !.package  = IF package THEN "partial" ELSE @])
      /\ m_manifest' = IF manifest THEN "running" ELSE "idle"
      /\ m_file' = IF package THEN "running" ELSE "idle"
      /\ UNCHANGED <<fresh, dialog>>

\* startUpdateDownload().  The disk may be faulty: the directory, the files
\* or the marker cannot be created.
StartUpdateDownload(v, faulty) ==
  IF IsDownloading THEN UNCHANGED <<files, m_version, objects, dialog, fresh>>
  ELSE /\ m_version' = v
       /\ LET d == [disk[v] EXCEPT !.packages = TRUE]
          IN  IF faulty /\ ~disk[v].packages
              THEN /\ m_manifest' = "idle" /\ m_file' = "idle"
                   /\ UNCHANGED <<files, dialog, fresh>>
              ELSE IF Complete(d) THEN FileComplete(v, d, "idle", "idle", ~faulty)
                                  ELSE Download(v, d, ~faulty)

\* The reply to the check is complete; it offers the latest version, if newer.
CheckDone(faulty) ==
  /\ app = "running" /\ m_check
  /\ m_check' = FALSE
  /\ IF latest > installed THEN StartUpdateDownload(latest, faulty)
     ELSE UNCHANGED <<files, m_version, objects, dialog, fresh>>
  /\ UNCHANGED <<latest, installed, updater, app, applying, clock, stray>>

\* A file was downloaded, with its hash or (a broken transfer) another one.  A
\* redirected download goes on with a new reply; or, if its file cannot be
\* opened again, ends here as a broken transfer.
DownloadDone(file, content, faulty) ==
  /\ app = "running"
  /\ LET d == [disk[m_version] EXCEPT ![file] = content]
     IN  \/ /\ file = "manifest" /\ m_manifest = "running"
            /\ FileComplete(m_version, d, "idle", m_file, ~faulty)
         \/ /\ file = "package" /\ m_file = "running"
            /\ FileComplete(m_version, d, m_manifest, "idle", ~faulty)
  /\ UNCHANGED <<latest, installed, updater, app, applying, m_version, m_check, clock, stray>>

\* Update::abort for both objects.
Abort ==
  /\ m_manifest' = IF m_manifest = "running" THEN "idle" ELSE m_manifest
  /\ m_file' = IF m_file = "running" THEN "idle" ELSE m_file

\* dlComplete() with an error, whatever reply it is of: both downloads go.
RequestFails ==
  /\ app = "running"
  /\ \/ m_check /\ m_check' = FALSE /\ UNCHANGED stray
     \/ stray /\ stray' = FALSE /\ UNCHANGED m_check
     \/ IsDownloading /\ UNCHANGED <<m_check, stray>>
  /\ Abort
  /\ UNCHANGED <<latest, installed, files, updater, app, applying, m_version, clock, dialog, fresh>>

\* The process is gone, with all that it had in memory.
Down ==
  /\ app' = "off" /\ applying' = NoVersion
  /\ m_version' = NoVersion
  /\ m_manifest' = "null" /\ m_file' = "null"
  /\ m_check' = FALSE /\ stray' = FALSE
  /\ updateTimer' = FALSE /\ m_lastUpdateCheck' = "never"
  /\ dialog' = "none"

\* UpdaterComponent() starts the timer if the setting automaticUpdates is on.
Up ==
  /\ app' = "running" /\ applying' = NoVersion
  /\ updateTimer' \in BOOLEAN
  /\ UNCHANGED m_lastUpdateCheck

\* dlComplete() for a check that is redirected: the data is of no use, the
\* new reply belongs to nobody, and without a download a null pointer is
\* used, which ends the process.
CheckRedirected ==
  /\ app = "running" /\ m_check /\ ~stray
  /\ IF m_manifest = "null" THEN Down
     ELSE m_check' = FALSE /\ stray' = TRUE /\ UNCHANGED <<app, applying, m_version, objects, clock, dialog>>
  /\ UNCHANGED <<latest, installed, files, updater, fresh>>

\* The user quits, or the process crashes.
Exit ==
  /\ app # "off"
  /\ Down
  /\ UNCHANGED <<latest, installed, files, updater, fresh>>

-----------------------------------------------------------------------------
(* UpdateManager.                                                          *)

Ready == {v \in Versions : disk[v].ready}

\* HaveUpdate returns v: the last modified directory with the marker, if any.
FirstReady(v) ==
  IF v = NoVersion THEN Ready = {}
  ELSE v \in Ready /\ \A w \in Ready \ {v} : <<v, w>> \in later

\* The directories whose packages it removes on its way to v.
OldPackages(v) == {w \in Versions : disk[w].packages /\ (v = NoVersion \/ <<w, v>> \in later)}

WithoutPackages(old) ==
  [v \in Versions |-> IF v \in old
                      THEN [disk[v] EXCEPT !.packages = FALSE, !.package = "none"] ELSE disk[v]]

\* It removes them from the last modified directory on, which reverses their order.
Cleaned(old) ==
  {p \in Versions \X Versions :
     CASE {p[1], p[2]} \subseteq old      -> <<p[2], p[1]>> \in later
       [] {p[1], p[2]} \cap old = {}      -> p \in later
       [] OTHER                           -> p[1] \in old}

\* Plausible slip: the marker stays until the updater has been started.
KeepMarker(v, ds) == disk' = ds /\ UNCHANGED later

\* "Beyond this point we don't want to try to install this update again."
RemoveMarker(v, ds) ==
  /\ disk' = [ds EXCEPT ![v].ready = FALSE]
  /\ later' = Modified(Cleaned(OldPackages(v)), v)

\* Does applyUpdate find the files it asks for?
Applicable(d) == d.manifest # "none" /\ d.packages

\* The start of the application: CheckForUpdates with HaveUpdate and the
\* first half of applyUpdate.  Without an updater to copy it just starts.
Start ==
  /\ app = "off" /\ updater = NoVersion
  /\ \E v \in Versions \cup {NoVersion} :
       /\ FirstReady(v)
       /\ LET clean == WithoutPackages(OldPackages(v))
          IN  \/ /\ Up
                 /\ disk' = clean
                 /\ later' = Cleaned(OldPackages(v))
              \/ /\ v # NoVersion /\ Applicable(disk[v])
                 /\ app' = "applying" /\ applying' = v /\ UNCHANGED clock
                 /\ RemoveMarker(v, clean)
  /\ UNCHANGED <<latest, installed, updater, m_version, objects, m_check, stray, dialog, fresh>>

\* doUpdate(), from the dialog or the web client, for the version that was
\* looked at last.  Without its files, or an updater to copy, the application
\* exits all the same.
DoUpdate ==
  /\ app = "running"
  /\ \/ Down /\ UNCHANGED files
     \/ /\ m_version # NoVersion /\ Applicable(disk[m_version])
        /\ app' = "applying" /\ applying' = m_version
        /\ Store(m_version, [disk[m_version] EXCEPT !.ready = FALSE])
        /\ UNCHANGED <<m_version, objects, m_check, clock, stray, dialog>>
  /\ UNCHANGED <<latest, installed, updater, fresh>>

\* The user closes the dialog: "Install on Next Restart".
CloseDialog ==
  /\ dialog = "open" /\ dialog' = "closed"
  /\ UNCHANGED <<latest, installed, files, updater, app, applying, m_version, objects,
                 m_check, clock, stray, fresh>>

\* The second half of applyUpdate starts the updater.  If that fails, the
\* application starts as usual, or exits if doUpdate was called.
StartUpdater ==
  /\ app = "applying"
  /\ fresh' = fresh \ {applying}
  /\ \/ updater' = applying /\ Down
     \/ /\ UNCHANGED updater
        /\ IF m_version = NoVersion
           THEN /\ Up
                /\ UNCHANGED <<m_version, objects, m_check, stray, dialog>>
           ELSE Down
  /\ UNCHANGED <<latest, installed, files>>

-----------------------------------------------------------------------------
(* The updater and the server.                                             *)

UpdaterEnds ==
  /\ updater # NoVersion
  /\ updater' = NoVersion
  /\ installed' \in {installed} \cup IF Complete(disk[updater]) THEN {updater} ELSE {}
  /\ UNCHANGED <<latest, files, process, fresh>>

Release ==
  /\ latest < MaxVersion
  /\ latest' = latest + 1
  /\ UNCHANGED <<installed, files, updater, process, fresh>>

-----------------------------------------------------------------------------

Next ==
  \/ CheckForUpdate
  \/ TimerCheck
  \/ \E faulty \in BOOLEAN : CheckDone(faulty)
  \/ \E file \in {"manifest", "package"}, content \in {"partial", "good"}, faulty \in BOOLEAN :
       DownloadDone(file, content, faulty)
  \/ RequestFails
  \/ CheckRedirected
  \/ Exit
  \/ Start
  \/ DoUpdate
  \/ CloseDialog
  \/ StartUpdater
  \/ UpdaterEnds
  \/ Release

Spec == Init /\ [][Next]_vars

(***************************************************************************)
(* The timer runs and ticks: it asks again when it is time, if no reply is *)
(* outstanding.  Nothing else is promised to ask.  The network and the     *)
(* disk may fail any number of times, but not for ever: a check, and the   *)
(* download of a file, that is tried again and again succeeds in the end.  *)
(***************************************************************************)
Fairness ==
  /\ WF_vars(~m_check /\ TimerCheck)
  /\ SF_vars(CheckDone(FALSE))
  /\ \A file \in {"manifest", "package"} : SF_vars(DownloadDone(file, "good", FALSE))

FairSpec == Spec /\ Fairness

-----------------------------------------------------------------------------
(* Properties.                                                             *)

\* The shape of the state; the two Update objects come and go together.
TypeOK ==
  /\ latest \in Versions /\ installed \in Versions
  /\ disk \in [Versions -> [manifest : Contents, package : Contents,
                            packages : BOOLEAN, ready : BOOLEAN]]
  /\ later \subseteq Versions \X Versions
  /\ \A v, w \in Versions : <<v, w>> \in later => <<w, v>> \notin later
  /\ {updater, applying, m_version} \subseteq Versions \cup {NoVersion}
  /\ app \in {"off", "running", "applying"}
  /\ {m_manifest, m_file} \subseteq {"null", "idle", "running"}
  /\ m_manifest = "null" <=> m_file = "null"
  /\ {m_check, updateTimer, stray} \subseteq BOOLEAN
  /\ m_lastUpdateCheck \in CheckTimes
  /\ dialog \in {"none", "open", "closed"}
  /\ fresh \subseteq Versions

\* A version that is marked as ready has both files, complete: neither a
\* crash nor another download can spoil them afterwards (fileComplete).
ReadyIsComplete == \A v \in Versions : disk[v].ready => Complete(disk[v])

\* The directories of the updates and the records of the downloads agree,
\* and what the next start may hand to the updater program is whole.
DiskIsSound == TypeOK /\ ReadyIsComplete

\* applyUpdate: "beyond this point we don't want to try to install this
\* update again".  At a start the updater only runs for a version that was
\* downloaded since it ran last, wherever the process died meanwhile.
NotTriedAgain ==
  [][updater' # updater /\ updater' # NoVersion /\ m_version = NoVersion
       => updater' \in fresh]_vars

\* While the application keeps running, and as long as it does not stop to look
\* for updates for good (a check is under way, or the timer runs and will find
\* again that it is time), the latest version is ready or installed for good in
\* the end, whatever failed before (dlComplete, isReady).
UpdatesArrive ==
  <>[](app = "running") /\ []<>(m_check \/ (updateTimer /\ m_lastUpdateCheck = "early"))
    => <>[](installed = latest \/ disk[latest].ready)
=============================================================================
