---------------------------- MODULE CrashUploader ----------------------------
(***************************************************************************)
(* Crash dumps (tools/helper/CrashUploader.cpp).  A program that crashes   *)
(* writes one into the directory "incoming" of its version.  The helper    *)
(* scans these directories when it starts, two seconds after a change in   *)
(* that of its own version, and five seconds after a failure: it lists     *)
(* each, moves one dump after the other to "processing", opens it there    *)
(* and posts it.  Each of these is a step, because another process may act *)
(* in between.  The helper does not watch while it moves files itself, and *)
(* the news that wait when it stops watching are lost; so the end of each  *)
(* handler, which watches again, is a step of its own too.                 *)
(***************************************************************************)
EXTENDS Instances

CONSTANTS
  Dumps,      \* crash dumps
  MaxUploads  \* 20 in the code: more of a version in one scan are removed

ASSUME CrashUploaderAssumption == IsFiniteSet(Dumps) /\ MaxUploads \in Nat

VARIABLES
  dump,      \* the place of a dump, the version whose directory it is in (dir),
             \* and the version that crashed (of)
  up,        \* the uploader of a helper: m_scanTimer (timer), whether it
             \* watches, the directories a scan has still to list (dirs), the
             \* one it is at (dir), what is left of its list (todo), numUploads
             \* (n), what it is about to open (moved), and what it is uploading
             \* from which directory (sending)
  answered,  \* history: dumps that the server has accepted or refused
  retried,   \* history: dumps that were moved back
  missed     \* history: dumps written while nobody watched, and not found since

dumpVars == <<dump, up, answered, retried, missed>>

Places == {"unwritten", "incoming", "processing", "old", "gone"}

NewUploader ==
  [doing |-> "nothing", watching |-> FALSE, timer |-> FALSE, dirs |-> {}, dir |-> AnyVersion,
   todo |-> {}, n |-> 0, moved |-> {}, sending |-> {}]

In(place)       == {d \in Dumps : dump[d].at = place}
Files(place, v) == {d \in In(place) : dump[d].dir = v}
Put(ds, place)  ==
  [d \in Dumps |-> IF d \in ds THEN [dump[d] EXCEPT !.at = place] ELSE dump[d]]

(* The uploaders us, after the files ds in "incoming" of version v changed. *)
Noticed(ds, v, us) ==
  [h \in Helpers |-> IF ds # {} /\ us[h].watching /\ helper[h].version = v
                     THEN [us[h] EXCEPT !.timer = TRUE] ELSE us[h]]

WriteDump(x, d) ==   \* the handler of breakpad, in a program that crashes
  /\ d \in In("unwritten") \cap setup.dumps
  /\ LET v == VersionOf[x]
     IN /\ dump' = [dump EXCEPT ![d] = [at |-> "incoming", dir |-> v, of |-> v]]
        /\ up' = Noticed({d}, v, up)
        /\ missed' = IF \E h \in Helpers : up[h].watching /\ helper[h].version = v
                     THEN missed ELSE missed \cup {d}
  /\ UNCHANGED <<answered, retried>>

----------------------------------------------------------------------------
(* uploadAndDeleteCrashDumps().                                             *)
Scanning(u) == [u EXCEPT !.doing = "busy", !.watching = FALSE, !.timer = FALSE, !.dirs = Versions]

(* deleteOldCrashDumps().                                                   *)
Wiped(h) ==
  Put({d \in Dumps : dump[d].at = "processing" \/
                     (dump[d].at = "old" /\ dump[d].dir # helper[h].version)}, "gone")

StartUploader(h) ==
  /\ helper[h].at = "unique" /\ up[h].doing = "nothing"
  /\ dump' = Wiped(h)
  /\ up' = [up EXCEPT ![h] = Scanning(@)]
  /\ UNCHANGED <<answered, retried, missed, faults>>

ScanTimer(h) ==
  /\ up[h].doing = "waits" /\ up[h].timer
  /\ up' = [up EXCEPT ![h] = Scanning(@)]
  /\ UNCHANGED <<dump, answered, retried, missed, faults>>

ListDumps(h, v) ==
  /\ v \in up[h].dirs /\ up[h].todo = {} /\ up[h].moved = {}
  /\ up' = [up EXCEPT ![h] = [@ EXCEPT !.dirs = up[h].dirs \ {v}, !.dir = v, !.n = 0,
                                       !.todo = Files("incoming", v)]]
  /\ missed' = missed \ Files("incoming", v)
  /\ UNCHANGED <<dump, answered, retried, faults>>

(* uploadCrashDump(): the names of dumps are random, so any comes next; one *)
(* over the limit is removed first, and one that is gone cannot be moved.   *)
MoveDump(h, d) ==
  /\ d \in up[h].todo /\ up[h].moved = {}
  /\ LET u     == up[h]
         found == {d} \cap Files("incoming", u.dir)
     IN /\ dump' = Put(found, IF u.n > MaxUploads THEN "gone" ELSE "processing")
        /\ up' = Noticed(found, u.dir,
                   [up EXCEPT ![h] = [u EXCEPT !.todo = u.todo \ {d}, !.n = u.n + 1,
                                               !.moved = {d}]])
  /\ UNCHANGED <<answered, retried, missed, faults>>

(* moveFileBackToIncoming(), which knows the directory of its own version   *)
(* only; u is the uploader of h after that.                                 *)
MoveBack(h, d, v, u) ==
  LET found == {d} \cap Files("processing", v)
  IN /\ dump' = [e \in Dumps |-> IF e \notin found THEN dump[e]
                   ELSE [dump[e] EXCEPT !.at = "incoming", !.dir = helper[h].version]]
     /\ up' = Noticed(found, helper[h].version, [up EXCEPT ![h] = u])
     /\ retried' = retried \cup found

(* Whoever moved it there, a file of that name is opened; and the scan goes *)
(* on watching after one that is not there, or cannot be read.              *)
OpenDump(h, d) ==
  /\ d \in up[h].moved
  /\ \/ /\ d \in Files("processing", up[h].dir)
        /\ up' = [up EXCEPT ![h] = [@ EXCEPT !.moved = {},
                                             !.sending = up[h].sending \cup {<<d, up[h].dir>>}]]
        /\ UNCHANGED <<dump, retried, faults>>
     \/ /\ MoveBack(h, d, up[h].dir,
                    [up[h] EXCEPT !.moved = {}, !.timer = TRUE, !.watching = TRUE])
        /\ IF d \in Files("processing", up[h].dir)
           THEN faults < setup.faults /\ faults' = faults + 1
           ELSE UNCHANGED faults
  /\ UNCHANGED <<answered, missed>>

WatchAgain(h) ==
  /\ up[h].doing = "busy" /\ up[h].dirs = {} /\ up[h].todo = {} /\ up[h].moved = {}
  /\ up' = [up EXCEPT ![h] = [@ EXCEPT !.doing = "waits", !.watching = TRUE,
                                       !.dir = AnyVersion, !.n = 0]]
  /\ UNCHANGED <<dump, answered, retried, missed, faults>>

----------------------------------------------------------------------------
(* The reply for what s stands for; renaming fails when another helper has  *)
(* wiped the directory or moved the dump.                                   *)
Replied(u, s) == [u EXCEPT !.doing = "busy", !.watching = FALSE, !.sending = @ \ {s}]

(* Plausible slip: a dump that was moved back waits for the next change.     *)
NotNowNoTimer(h, s) ==
  /\ up[h].doing = "waits" /\ s \in up[h].sending /\ faults < setup.faults
  /\ MoveBack(h, s[1], s[2], Replied(up[h], s))
  /\ faults' = faults + 1
  /\ UNCHANGED <<answered, missed>>

NotNow(h, s) ==   \* no status, or 503
  /\ up[h].doing = "waits" /\ s \in up[h].sending /\ faults < setup.faults
  /\ MoveBack(h, s[1], s[2], [Replied(up[h], s) EXCEPT !.timer = TRUE])
  /\ faults' = faults + 1
  /\ UNCHANGED <<answered, missed>>

(* Plausible slip: what the server does not want is tried again, too.        *)
FinishedOrRefused(h, s) ==
  /\ up[h].doing = "waits" /\ s \in up[h].sending
  /\ MoveBack(h, s[1], s[2], [Replied(up[h], s) EXCEPT !.timer = TRUE])
  /\ answered' = answered \cup {s[1]}
  /\ UNCHANGED <<missed, faults>>

Finished(h, s) ==   \* any other status
  /\ up[h].doing = "waits" /\ s \in up[h].sending
  /\ dump' = Put({s[1]} \cap Files("processing", s[2]), "old")
  /\ up' = [up EXCEPT ![h] = Replied(@, s)]
  /\ answered' = answered \cup {s[1]}
  /\ UNCHANGED <<retried, missed, faults>>

StopUploader(h) ==   \* with the helper: the requests are aborted
  /\ up' = [up EXCEPT ![h] = NewUploader]
  /\ UNCHANGED <<dump, answered, retried, missed>>

UploaderStep(h) ==
  \/ StartUploader(h) \/ ScanTimer(h) \/ WatchAgain(h)
  \/ \E v \in Versions : ListDumps(h, v)
  \/ \E d \in Dumps : MoveDump(h, d) \/ OpenDump(h, d)
  \/ \E s \in up[h].sending : NotNow(h, s) \/ Finished(h, s)

InitUploader ==
  /\ dump = [d \in Dumps |-> [at |-> "unwritten", dir |-> AnyVersion, of |-> AnyVersion]]
  /\ up = [h \in Helpers |-> NewUploader]
  /\ answered = {} /\ retried = {} /\ missed = {}
=============================================================================
