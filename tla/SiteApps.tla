------------------------------- MODULE SiteApps -------------------------------
(* The backup-first life of one App of one website: its update, which archives *)
(* the App directory before anything changes; its restore, which unpacks an    *)
(* archive beside the directory and swaps the two by renames; and the start    *)
(* and stop of a Node or Python App.  Every request runs on a thread of its    *)
(* own, the command line in a process of its own, and nothing orders them.     *)
(*                                                                             *)
(* A directory tree is the set of pieces it is made of: the generation of the  *)
(* App's own files (two generations are a mixture), the CMS installer, the     *)
(* stub a start writes.  A name taken from the clock is the second alone: the  *)
(* version in it tells two backups of one second apart only if it changed.     *)
EXTENDS Naturals, FiniteSets

CONSTANTS
    Jobs,      \* requests of the Apps page and of the command line
    MaxTime,   \* bound: the clock runs from 1 to MaxTime; an old backup is of 0
    MaxEdits,  \* bound: generations of the App's files
    MaxCrashes \* bound: deaths of the panel process

ASSUME JobsAssumption == IsFiniteSet(Jobs)
ASSUME BoundsAssumption ==
    MaxTime \in Nat \ {0} /\ MaxEdits \in Nat \ {0} /\ MaxCrashes \in Nat

VARIABLES
    app,      \* a runtime App (Node, Python) or a CMS in the document root
    now,      \* unix time
    at,       \* the directory at each place, or NoDir
    tree,     \* the pieces in each directory
    archive,  \* the listed backups, by second
    tmp,      \* the archives being written, by second
    running,  \* the systemd unit of the App is active
    cwd,      \* the directory the running App was started in
    pc,       \* where each job stands
    job,      \* the local variables of each job
    edits,    \* the latest generation
    crashes,  \* deaths of the panel so far
    newest,   \* history: the files the App should have now
    wanted,   \* history: the App was started, and since then neither stopped by its
              \* owner nor ended by itself
    clean,    \* history: nobody else touched the App during this job
    mess      \* history: ways in which jobs have got at each other

placeVars   == <<at, tree>>
backupVars  == <<archive, tmp>>
runVars     == <<running, cwd>>
jobVars     == <<pc, job>>
boundVars   == <<now, edits, crashes>>
historyVars == <<newest, wanted, clean, mess>>
vars == <<app, placeVars, backupVars, runVars, jobVars, boundVars, historyVars>>

Seconds == 0..MaxTime
Gens    == 0..MaxEdits
Installer == MaxEdits + 1   \* the CMS installer, complete
Broken    == MaxEdits + 2   \* the CMS installer, half copied
Stub      == MaxEdits + 3   \* the entry file a start writes
Pieces  == Gens \cup {Installer, Broken, Stub}
NoFile  == [pieces |-> {}, state |-> "none"]
Staging(s)  == <<"staging", s>>
Rollback(s) == <<"rollback", s>>
Live   == <<"live", 0>>
Places == {Live} \cup {Staging(s) : s \in Seconds}
                 \cup {Rollback(s) : s \in Seconds}

\* As many as places, running App and child processes may know, and one more.
Dirs  == 1..(Cardinality(Places) + Cardinality(Jobs) + 2)
NoDir == 0

Fresh == [dir |-> 1, id |-> 0, got |-> {}, was |-> FALSE, stg |-> 0, rb |-> 0,
          pick |-> 0, before |-> {}]

UpdatePcs  == {"mkdir", "tar", "tarring", "keep", "change", "copy"}
RestorePcs == {"stop", "select", "stage", "extract", "look", "away", "in",
               "putback", "clean"}
StartPcs   == {"start", "run"}
EndPcs     == {"idle", "done", "failed"}

Goto(j, label) == pc' = [pc EXCEPT ![j] = label]
Exists(p)      == at[p] # NoDir
LivePieces     == IF Exists(Live) THEN tree[at[Live]] ELSE {}
Listed         == {s \in Seconds : archive[s].state # "none"}

\* rename(2) replaces nothing, or an empty directory.
Vacant(p) == IF Exists(p) THEN tree[at[p]] = {} ELSE TRUE

\* A directory no place, no child process and no running App knows.
NewDir == CHOOSE d \in Dirs :
    /\ \A p \in Places : at[p] # d
    /\ running => cwd # d
    /\ \A k \in Jobs : pc[k] = "tarring" => job[k].dir # d

MakeDir(p) ==
    IF Exists(p) THEN UNCHANGED placeVars
    ELSE /\ at' = [at EXCEPT ![p] = NewDir]
         /\ tree' = [tree EXCEPT ![NewDir] = {}]

\* A restore that stops short does not start the App it has stopped.
Fail(j) ==
    /\ Goto(j, "failed")
    /\ mess' = IF job[j].was THEN mess \cup {"down"} ELSE mess

\* Job j alone, or nobody's job (a set without it), touches the live files.
Touch(js) == clean' = [k \in Jobs |-> clean[k] /\ k \in js]

-----------------------------------------------------------------------------
(* change_version: back the App up, then change it                            *)

UpdateBegin(j) ==
    /\ pc[j] = "idle"
    /\ Goto(j, IF app = "runtime" THEN "mkdir" ELSE "tar")
    /\ job' = [job EXCEPT ![j] = [Fresh EXCEPT !.before = LivePieces]]
    /\ clean' = [clean EXCEPT ![j] = TRUE]
    /\ UNCHANGED <<app, placeVars, backupVars, runVars, boundVars, newest, wanted,
                   mess>>

\* backup_before_change makes the directory of a runtime App that has none.
AppDir(j) ==
    /\ pc[j] = "mkdir"
    /\ MakeDir(Live)
    /\ IF Exists(Live) THEN UNCHANGED clean ELSE Touch({j})
    /\ Goto(j, "tar")
    /\ UNCHANGED <<app, backupVars, runVars, job, boundVars, newest, wanted,
                   mess>>

\* create_app_backup: the name is the second; a temporary file of that name is
\* truncated, whoever else writes it.  The outcome of two writers is open.
TarStart(j) ==
    /\ pc[j] = "tar"
    /\ Exists(Live)
    /\ job' = [job EXCEPT ![j].dir = at[Live], ![j].id = now,
                          ![j].got = tree[at[Live]]]
    /\ IF \E k \in Jobs : pc[k] \in {"tarring", "keep"} /\ job[k].id = now
       THEN /\ \E state \in {"partial", "garbled"} :
                   tmp' = [tmp EXCEPT ![now].state = state]
            /\ mess' = mess \cup {"archive"}
       ELSE tmp' = [tmp EXCEPT ![now].state = "partial"] /\ UNCHANGED mess
    /\ Goto(j, "tarring")
    /\ UNCHANGED <<app, placeVars, archive, runVars, boundVars, newest, wanted,
                   clean>>

\* tar holds on to the directory it has opened, wherever it is moved, and reads
\* it while others write.
TarEnd(j) ==
    /\ pc[j] = "tarring"
    /\ \E p \in Places : at[p] = job[j].dir
    /\ job' = [job EXCEPT ![j].got = @ \cup tree[job[j].dir]]
    /\ tmp' = IF tmp[job[j].id].state # "partial" THEN tmp
              ELSE [tmp EXCEPT ![job[j].id] =
                        [pieces |-> job'[j].got, state |-> "whole"]]
    /\ mess' = IF job'[j].got = job[j].got THEN mess ELSE mess \cup {"torn"}
    /\ Goto(j, "keep")
    /\ UNCHANGED <<app, placeVars, archive, runVars, boundVars, newest, wanted,
                   clean>>

\* Mutant: the error of the backup is dropped.
TarFailsIgnored(j) ==
    /\ \/ pc[j] = "tar" /\ UNCHANGED tmp
       \/ pc[j] = "tarring" /\ tmp' = [tmp EXCEPT ![job[j].id] = NoFile]
    /\ Goto(j, "change")
    /\ UNCHANGED <<app, placeVars, archive, runVars, job, boundVars, historyVars>>

TarFails(j) ==
    /\ \/ pc[j] = "tar" /\ UNCHANGED tmp
       \/ pc[j] = "tarring" /\ tmp' = [tmp EXCEPT ![job[j].id] = NoFile]
    /\ Goto(j, "failed")
    /\ UNCHANGED <<app, placeVars, archive, runVars, job, boundVars, historyVars>>

\* The finished archive gets its name, or another job has taken it.
Keep(j) ==
    /\ pc[j] = "keep"
    /\ IF tmp[job[j].id].state = "none"
       THEN Goto(j, "failed") /\ UNCHANGED <<backupVars, mess>>
       ELSE /\ archive' = [archive EXCEPT ![job[j].id] = tmp[job[j].id]]
            /\ tmp' = [tmp EXCEPT ![job[j].id] = NoFile]
            /\ mess' = IF job[j].id \in Listed THEN mess \cup {"archive"} ELSE mess
            /\ Goto(j, "change")
    /\ UNCHANGED <<app, placeVars, runVars, job, boundVars, newest, wanted,
                   clean>>

\* A runtime App changes its operating system package alone; the CMS gets its
\* installer, unless one is there, after a download that takes its time.
ChangePackage(j) ==
    /\ pc[j] = "change"
    /\ app = "runtime"
    /\ Goto(j, "done")
    /\ UNCHANGED <<app, placeVars, backupVars, runVars, job, boundVars, historyVars>>

ChangeCms(j) ==
    /\ pc[j] = "change"
    /\ app = "cms"
    /\ MakeDir(Live)
    /\ IF Exists(Live) THEN UNCHANGED clean ELSE Touch({j})
    /\ Goto(j, IF LivePieces \cap {Installer, Broken} # {} THEN "done"
                                                               ELSE "copy")
    /\ UNCHANGED <<app, backupVars, runVars, job, boundVars, newest, wanted,
                   mess>>

CopyInstaller(j) ==
    /\ pc[j] = "copy"
    /\ Exists(Live)
    /\ tree' = [tree EXCEPT ![at[Live]] = (@ \ {Broken}) \cup {Installer}]
    /\ Touch({j})
    /\ Goto(j, "done")
    /\ UNCHANGED <<app, at, backupVars, runVars, job, boundVars, newest, wanted,
                   mess>>

\* The package or the download fails, or the copy stops half way.
ChangeFails(j) ==
    /\ pc[j] \in {"change", "copy"}
    /\ Goto(j, "failed")
    /\ \/ UNCHANGED <<tree, clean>>
       \/ /\ pc[j] = "copy"
          /\ Exists(Live)
          /\ tree' = [tree EXCEPT ![at[Live]] = (@ \ {Installer}) \cup {Broken}]
          /\ Touch({j})
    /\ UNCHANGED <<app, at, backupVars, runVars, job, boundVars, newest, wanted,
                   mess>>

-----------------------------------------------------------------------------
(* restore: stop a runtime App, unpack, swap, start it again                  *)

\* Mutant: the App keeps running while its files are swapped.
RestoreBeginRunning(j) ==
    /\ pc[j] = "idle"
    /\ Goto(j, "select")
    /\ job' = [job EXCEPT ![j] = [Fresh EXCEPT !.before = LivePieces]]
    /\ clean' = [clean EXCEPT ![j] = TRUE]
    /\ UNCHANGED <<app, placeVars, backupVars, runVars, boundVars, newest, wanted,
                   mess>>

RestoreBegin(j) ==
    /\ pc[j] = "idle"
    /\ Goto(j, IF app = "runtime" /\ running THEN "stop" ELSE "select")
    /\ job' = [job EXCEPT ![j] = [Fresh EXCEPT !.was = app = "runtime" /\ running,
                                              !.before = LivePieces]]
    /\ clean' = [clean EXCEPT ![j] = TRUE]
    /\ UNCHANGED <<app, placeVars, backupVars, runVars, boundVars, newest, wanted,
                   mess>>

\* The answer of systemctl is not looked at.
StopFirst(j) ==
    /\ pc[j] = "stop"
    /\ \/ running' = FALSE /\ UNCHANGED mess
       \/ UNCHANGED running /\ mess' = mess \cup {"unstopped"}
    /\ Goto(j, "select")
    /\ UNCHANGED <<app, placeVars, backupVars, cwd, job, boundVars, newest, wanted,
                   clean>>

\* A listed backup whose members tar can read.
Select(j) ==
    /\ pc[j] = "select"
    /\ \E s \in Listed :
          /\ archive[s].state = "whole"
          /\ job' = [job EXCEPT ![j].pick = s, ![j].stg = now]
    /\ Goto(j, "stage")
    /\ UNCHANGED <<app, placeVars, backupVars, runVars, boundVars, historyVars>>

\* Mutant: the rollback directory is named after the next second.
StageAhead(j) ==
    /\ pc[j] = "stage"
    /\ job' = [job EXCEPT ![j].rb = now + 1]
    /\ MakeDir(Staging(job[j].stg))
    /\ Goto(j, "extract")
    /\ UNCHANGED <<app, backupVars, runVars, boundVars, historyVars>>

Stage(j) ==
    /\ pc[j] = "stage"
    /\ job' = [job EXCEPT ![j].rb = now]
    /\ MakeDir(Staging(job[j].stg))
    /\ mess' = IF \/ Exists(Staging(job[j].stg)) \/ Exists(Rollback(now))
                  \/ \E k \in Jobs : pc[k] \in RestorePcs \ {"stop", "select", "stage"}
                                     /\ job[k].rb = now
               THEN mess \cup {"twins"} ELSE mess
    /\ Goto(j, "extract")
    /\ UNCHANGED <<app, backupVars, runVars, boundVars, newest, wanted,
                   clean>>

\* Mutant: the archive is unpacked over the App.
ExtractOver(j) ==
    /\ pc[j] = "extract"
    /\ Exists(Live)
    /\ archive[job[j].pick].state = "whole"
    /\ tree' = [tree EXCEPT ![at[Live]] = @ \cup archive[job[j].pick].pieces]
    /\ Goto(j, "look")
    /\ UNCHANGED <<app, at, backupVars, runVars, job, boundVars, historyVars>>

Extract(j) ==
    /\ pc[j] = "extract"
    /\ Exists(Staging(job[j].stg))
    /\ archive[job[j].pick].state = "whole"
    /\ tree' = [tree EXCEPT ![at[Staging(job[j].stg)]] =
                                @ \cup archive[job[j].pick].pieces]
    /\ Goto(j, "look")
    /\ UNCHANGED <<app, at, backupVars, runVars, job, boundVars, historyVars>>

\* Nothing to select, an unreadable archive, a staging directory that cannot be
\* made; or a tar that fails, which takes the staging directory with it.
RestoreRefused(j) ==
    /\ \/ pc[j] \in {"select", "stage"} /\ UNCHANGED at
       \/ pc[j] = "extract" /\ at' = [at EXCEPT ![Staging(job[j].stg)] = NoDir]
    /\ Fail(j)
    /\ UNCHANGED <<app, tree, backupVars, runVars, job, boundVars, newest, wanted,
                   clean>>

Look(j) ==
    /\ pc[j] = "look"
    /\ Goto(j, IF Exists(Live) THEN "away" ELSE "in")
    /\ UNCHANGED <<app, placeVars, backupVars, runVars, job, boundVars, historyVars>>

\* Mutant: the old files are dropped instead of being set aside.
AwayForGood(j) ==
    /\ pc[j] = "away"
    /\ Exists(Live)
    /\ at' = [at EXCEPT ![Live] = NoDir]
    /\ Touch({j})
    /\ Goto(j, "in")
    /\ UNCHANGED <<app, tree, backupVars, runVars, job, boundVars, newest, wanted,
                   mess>>

\* rename(target, rollback)
Away(j) ==
    /\ pc[j] = "away"
    /\ Exists(Live)
    /\ Vacant(Rollback(job[j].rb))
    /\ at' = [at EXCEPT ![Live] = NoDir, ![Rollback(job[j].rb)] = at[Live]]
    /\ Touch({j})
    /\ Goto(j, "in")
    /\ UNCHANGED <<app, tree, backupVars, runVars, job, boundVars, newest, wanted,
                   mess>>

AwayFails(j) ==
    /\ pc[j] = "away"
    /\ Fail(j)
    /\ UNCHANGED <<app, placeVars, backupVars, runVars, job, boundVars, newest,
                   wanted, clean>>

\* rename(staging, target)
In(j) ==
    /\ pc[j] = "in"
    /\ Exists(Staging(job[j].stg))
    /\ Vacant(Live)
    /\ at' = [at EXCEPT ![Staging(job[j].stg)] = NoDir,
                        ![Live] = at[Staging(job[j].stg)]]
    /\ newest' = tree[at[Staging(job[j].stg)]] \cap Gens
    /\ Touch({j})
    /\ Goto(j, "clean")
    /\ UNCHANGED <<app, tree, backupVars, runVars, job, boundVars, wanted, mess>>

InFails(j) ==
    /\ pc[j] = "in"
    /\ Goto(j, "putback")
    /\ UNCHANGED <<app, placeVars, backupVars, runVars, job, boundVars, historyVars>>

\* Mutant: an error is reported without putting the files back.
PutBackNothing(j) ==
    /\ pc[j] = "putback"
    /\ Goto(j, "failed")
    /\ UNCHANGED <<app, placeVars, backupVars, runVars, job, boundVars, historyVars>>

\* What was set aside goes back, if there is anything and nothing is in its place.
PutBack(j) ==
    /\ pc[j] = "putback"
    /\ IF Exists(Rollback(job[j].rb)) /\ Vacant(Live)
       THEN /\ at' = [at EXCEPT ![Rollback(job[j].rb)] = NoDir,
                                ![Live] = at[Rollback(job[j].rb)]]
            /\ Touch({j})
       ELSE UNCHANGED <<at, clean>>
    /\ Fail(j)
    /\ UNCHANGED <<app, tree, backupVars, runVars, job, boundVars, newest, wanted>>

\* The rename back may fail as the rename before it did; nobody looks, and the
\* answer still is that the files were put back.
PutBackFails(j) ==
    /\ pc[j] = "putback"
    /\ Exists(Rollback(job[j].rb))
    /\ Goto(j, "failed")
    /\ mess' = mess \cup {"stuck"} \cup (IF job[j].was THEN {"down"} ELSE {})
    /\ UNCHANGED <<app, placeVars, backupVars, runVars, job, boundVars, newest,
                   wanted, clean>>

\* Mutant: a restored App is left stopped.
CleanOnly(j) ==
    /\ pc[j] = "clean"
    /\ at' = [at EXCEPT ![Rollback(job[j].rb)] = NoDir]
    /\ Goto(j, "done")
    /\ UNCHANGED <<app, tree, backupVars, runVars, job, boundVars, historyVars>>

Clean(j) ==
    /\ pc[j] = "clean"
    /\ at' = [at EXCEPT ![Rollback(job[j].rb)] = NoDir]
    /\ Goto(j, IF job[j].was THEN "start" ELSE "done")
    /\ UNCHANGED <<app, tree, backupVars, runVars, job, boundVars, historyVars>>

-----------------------------------------------------------------------------
(* start_runtime, on its own or at the end of a restore; stop_runtime         *)

StartBegin(j) ==
    /\ app = "runtime"
    /\ pc[j] = "idle"
    /\ Goto(j, "start")
    /\ job' = [job EXCEPT ![j] = Fresh]
    /\ UNCHANGED <<app, placeVars, backupVars, runVars, boundVars, historyVars>>

StartNeedless(j) ==
    /\ pc[j] = "start"
    /\ running
    /\ wanted' = TRUE
    /\ Goto(j, "done")
    /\ UNCHANGED <<app, placeVars, backupVars, runVars, job, boundVars, newest,
                   clean, mess>>

\* ensure_app_dir: a directory without an entry file gets a stub.
StartPrepare(j) ==
    /\ pc[j] = "start"
    /\ ~running
    /\ LET d == IF Exists(Live) THEN at[Live] ELSE NewDir
           old == LivePieces
       IN /\ at' = [at EXCEPT ![Live] = d]
          /\ tree' = [tree EXCEPT ![d] = IF old \cap (Gens \cup {Stub}) = {}
                                         THEN old \cup {Stub} ELSE old]
          /\ IF at' = at /\ tree' = tree THEN UNCHANGED clean ELSE Touch({j})
    /\ Goto(j, "run")
    /\ UNCHANGED <<app, backupVars, runVars, job, boundVars, newest, wanted,
                   mess>>

\* systemctl stop, systemd-run; a missing directory keeps the unit from starting.
Run(j) ==
    /\ pc[j] = "run"
    /\ IF Exists(Live)
       THEN running' = TRUE /\ cwd' = at[Live]
       ELSE running' = FALSE /\ UNCHANGED cwd
    /\ wanted' = TRUE
    /\ mess' = mess \cup (IF Exists(Live) THEN {} ELSE {"down"})
                     \cup (IF \E k \in Jobs : pc[k] \in RestorePcs THEN {"started"}
                                                               ELSE {})
    /\ Goto(j, "done")
    /\ UNCHANGED <<app, placeVars, backupVars, job, boundVars, newest, clean>>

StartFails(j) ==
    /\ \/ pc[j] = "start" /\ ~running /\ UNCHANGED running
       \/ pc[j] = "run" /\ running' = FALSE
    /\ Goto(j, "failed")
    /\ mess' = mess \cup {"down"}
    /\ UNCHANGED <<app, placeVars, backupVars, cwd, job, boundVars, newest, wanted,
                   clean>>

StopClick ==
    /\ running
    /\ running' = FALSE
    /\ wanted' = FALSE
    /\ UNCHANGED <<app, placeVars, backupVars, cwd, jobVars, boundVars, newest,
                   clean, mess>>

\* A transient unit without Restart= ends with its program, at any time: the stub a
\* start writes for Python prints a line and is done.
UnitEnds ==
    /\ running
    /\ running' = FALSE
    /\ wanted' = FALSE
    /\ UNCHANGED <<app, placeVars, backupVars, cwd, jobVars, boundVars, newest,
                   clean, mess>>

-----------------------------------------------------------------------------
(* The owner, the clock and the panel process                                 *)

\* An upload, or the web installer that is done: the App's files are new.
Edit ==
    /\ edits < MaxEdits
    /\ Exists(Live)
    /\ edits' = edits + 1
    /\ tree' = [tree EXCEPT ![at[Live]] = (@ \ (Gens \cup {Stub})) \cup {edits + 1}]
    /\ newest' = {edits + 1}
    /\ Touch({})
    /\ UNCHANGED <<app, at, backupVars, runVars, jobVars, now, crashes, wanted, mess>>

RemoveInstaller ==
    /\ LivePieces \cap {Installer, Broken} # {}
    /\ tree' = [tree EXCEPT ![at[Live]] = @ \ {Installer, Broken}]
    /\ Touch({})
    /\ UNCHANGED <<app, at, backupVars, runVars, jobVars, boundVars, newest, wanted,
                   mess>>

Advance ==
    /\ now < MaxTime
    /\ now' = now + 1
    /\ UNCHANGED <<app, placeVars, backupVars, runVars, jobVars, edits, crashes,
                   historyVars>>

\* The jobs and their children die; a unit of systemd-run lives on.
Crash ==
    /\ crashes < MaxCrashes
    /\ crashes' = crashes + 1
    /\ pc' = [j \in Jobs |-> IF pc[j] = "idle" THEN "idle" ELSE "failed"]
    /\ clean' = [j \in Jobs |-> FALSE]
    /\ mess' = mess \cup {"down"}
    /\ UNCHANGED <<app, placeVars, backupVars, runVars, job, now, edits, newest,
                   wanted>>

-----------------------------------------------------------------------------
Init ==
    /\ app \in {"runtime", "cms"}
    /\ now = 1
    /\ at = [p \in Places |-> IF p = Live THEN 1 ELSE NoDir]
    /\ tree = [d \in Dirs |-> IF d = 1 THEN {1} ELSE {}]
    /\ archive \in {[s \in Seconds |-> IF s = 0 THEN a ELSE NoFile] :
                       a \in {NoFile, [pieces |-> {0}, state |-> "whole"]}}
    /\ tmp = [s \in Seconds |-> NoFile]
    /\ running \in {b \in BOOLEAN : b => app = "runtime"}
    /\ cwd = 1
    /\ pc = [j \in Jobs |-> "idle"]
    /\ job = [j \in Jobs |-> Fresh]
    /\ edits = 1
    /\ crashes = 0
    /\ newest = {1}
    /\ wanted = running
    /\ clean = [j \in Jobs |-> FALSE]
    /\ mess = {}

Update(j) ==
    \/ UpdateBegin(j) \/ AppDir(j) \/ TarStart(j) \/ TarEnd(j) \/ TarFails(j)
    \/ Keep(j) \/ ChangePackage(j) \/ ChangeCms(j) \/ CopyInstaller(j)
    \/ ChangeFails(j)

Restore(j) ==
    \/ RestoreBegin(j) \/ StopFirst(j) \/ Select(j) \/ Stage(j) \/ Extract(j)
    \/ RestoreRefused(j) \/ Look(j) \/ Away(j) \/ AwayFails(j) \/ In(j)
    \/ InFails(j) \/ PutBack(j) \/ PutBackFails(j) \/ Clean(j)

Start(j) ==
    \/ StartBegin(j) \/ StartNeedless(j) \/ StartPrepare(j) \/ Run(j)
    \/ StartFails(j)

Next ==
    \/ \E j \in Jobs : Update(j) \/ Restore(j) \/ Start(j)
    \/ StopClick \/ UnitEnds \/ Edit \/ RemoveInstaller \/ Advance \/ Crash

Spec == Init /\ [][Next]_vars

-----------------------------------------------------------------------------
(* Properties *)

TypeOK ==
    /\ app \in {"runtime", "cms"}
    /\ now \in Seconds
    /\ at \in [Places -> Dirs \cup {NoDir}]
    /\ tree \in [Dirs -> SUBSET Pieces]
    /\ archive \in [Seconds -> [pieces : SUBSET Pieces,
                                 state : {"none", "whole", "partial", "garbled"}]]
    /\ tmp \in [Seconds -> [pieces : SUBSET Pieces,
                             state : {"none", "whole", "partial", "garbled"}]]
    /\ running \in BOOLEAN
    /\ cwd \in Dirs
    /\ pc \in [Jobs -> UpdatePcs \cup RestorePcs \cup StartPcs \cup EndPcs]
    /\ job \in [Jobs -> [dir : Dirs, id : Seconds, got : SUBSET Pieces,
                          was : BOOLEAN, stg : Seconds, rb : Seconds,
                          pick : Seconds, before : SUBSET Pieces]]
    /\ edits \in 1..MaxEdits
    /\ crashes \in 0..MaxCrashes
    /\ newest \subseteq Gens
    /\ wanted \in BOOLEAN
    /\ clean \in [Jobs -> BOOLEAN]
    /\ mess \subseteq {"archive", "twins", "torn", "unstopped",
                       "started", "down", "stuck"}

Archives == {archive[s] : s \in Listed}

\* docs/CLI.md: "Every update, upgrade, or downgrade creates a restore point
\* first."  When an update comes to the change, a backup of its own is listed and
\* holds all that the App was made of, as long as no second update of the same
\* second writes the same file and nobody else changed the App meanwhile.
RestorePointFirst ==
    "archive" \notin mess => \A j \in Jobs : pc[j] \in {"change", "copy"} =>
        /\ archive[job[j].id].state = "whole"
        /\ clean[j] => job[j].before \subseteq archive[job[j].id].pieces

\* The files of the App are whole in the rollback directory of job j.
SetAside(j) == /\ Exists(Rollback(job[j].rb))
               /\ tree[at[Rollback(job[j].rb)]] = job[j].before

\* restore_app_backup: a restore that does not succeed leaves "current files" as
\* they were, if nobody else got at them: extraction goes beside them, and the
\* renames are undone.  When the rename back fails too, which the code does not look
\* at, the App has no directory, but its files are whole in the rollback directory.
\* Two restores of one second share their directories.
FailedRestoreChangesNothing ==
    [][\A j \in Jobs : pc[j] \in RestorePcs /\ pc'[j] = "failed" /\ clean'[j]
                 /\ "twins" \notin mess
            => \/ LivePieces' = job[j].before
               \/ "stuck" \in mess' /\ SetAside(j)']_vars

\* No order of updates, restores, starts, uploads and deaths of the panel loses
\* the App's files: they are in their place, set aside, or in a backup, unless a
\* restore removes the directory a second one of the same second has set aside.
NothingLost ==
    "twins" \notin mess => newest \subseteq UNION ({tree[at[p]] : p \in {q \in Places : Exists(q)}}
                            \cup {a.pieces : a \in Archives})

\* The App is never put together from two generations of its files, unless two
\* restores of one second unpacked into one directory, or the owner wrote while
\* tar was reading: a backup that two jobs have written is whole or unreadable.
NoMixture ==
    mess \cap {"twins", "torn"} = {} =>
        Cardinality(LivePieces \cap Gens) <= 1

\* A running App runs from the files that are in place, not from a directory
\* that was swapped out under it, unless it could not be stopped or somebody
\* started it in the middle of a restore.
RunsWhatIsThere ==
    running /\ mess \cap {"unstopped", "started"} = {} => cwd = at[Live]

\* When all is quiet, an App that was started, and since then neither stopped by its
\* owner nor ended by itself, is running: the restores that stop it start it again,
\* unless a restore or start failed, or died.
StaysUp ==
    (\A j \in Jobs : pc[j] \in EndPcs) /\ wanted /\ "down" \notin mess => running
=============================================================================
