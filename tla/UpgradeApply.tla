---------------------------- MODULE UpgradeApply ----------------------------
(* How a maintenance job replaces the panel it may itself be running in, on a  *)
(* host with RPM packages: the release and the commit path, the package        *)
(* database that decides whether a package is installed again, the manifest,   *)
(* the flag behind the maintenance page, and the restarts of the panel: by the *)
(* scriptlet of the package, by the check of a command line job, by the        *)
(* detached reload at the end of a job of the panel.  A job of the command     *)
(* line runs in a process of its own, beside the panel and its job.            *)
(*                                                                             *)
(* A binary is the commit its code was built from and the commit its           *)
(* CPN_BUILD_SHA marker names.                                                 *)
EXTENDS Naturals, FiniteSets

CONSTANTS
    Commits,    \* commits of the repository
    Releases,   \* those published as a release package
    Version,    \* the Cargo version at each commit
    Neutral,    \* pairs of a release and a commit whose changes need no build
    NoSha,      \* no readable marker
    None,
    MaxJobs,    \* bound: jobs
    MaxFaults   \* bound: crashes of the panel, page views that reconcile

Procs == {"ui", "cli"}

ASSUME UpgradeAssumption ==
    /\ Releases \subseteq Commits /\ Releases # {}
    /\ Version \in [Commits -> Nat \ {0}]
    /\ Neutral \subseteq Releases \X Commits
    /\ NoSha \notin Commits
    /\ None \notin [code: Commits, sha: Commits \cup {NoSha}]
    /\ None \notin {"working", "restarting"}
    /\ MaxJobs \in Nat /\ MaxFaults \in Nat

VARIABLES
    disk,      \* /usr/bin/cpn-installer
    db,        \* the version the package database has
    running,   \* the binary the panel process was started from, or None
    enabled,   \* is cpn-installer.service enabled
    manifest,  \* install-manifest.json: package_version, source_commit
    flag,      \* the phase in maintenance.json, or None
    job,       \* the job of each process
    reload,    \* a detached reload is scheduled
    jobs, faults,
    behind,    \* history: why the panel may run another binary than the disk's
    odd        \* history: what a job met that the checks do not see

vars == <<disk, db, running, enabled, manifest, flag, job, reload, jobs, faults,
          behind, odd>>

Binaries == [code: Commits, sha: Commits \cup {NoSha}]
Actions  == {"upgrade", "repair", "downgrade", "tip"}

\* Code of one commit under the name of another, where the changes between the
\* two need no new binary.
Same(code, sha) == code = sha \/ <<code, sha>> \in Neutral

Some == CHOOSE c \in Commits : TRUE
Idle == [pc |-> "idle", act |-> "tip", target |-> Some, skipped |-> FALSE,
         exe |-> 1, pkg |-> 1, next |-> "record"]

Busy(p) == job[p].pc # "idle"

\* detect_existing_install: a manifest behind the package database is not
\* believed.
Installed == IF manifest.version < db THEN db ELSE manifest.version

GoTo(p, pc) == job' = [job EXCEPT ![p].pc = pc]

-----------------------------------------------------------------------------
(* The panel process *)

\* heal_on_startup.  The variant clears the flag of a job under way too.
HealAll(f) == None

Heal(f) == IF f = "restarting" THEN None ELSE f

\* The jobs in a set of processes end with them.
Killed(ps) == [p \in Procs |-> IF p \in ps THEN Idle ELSE job[p]]

CutShort(ps) == IF \E p \in ps : Busy(p) THEN {"cut"} ELSE {}

\* The panel process starts from the binary on disk; its own job is gone.
Boot ==
    /\ running' = disk
    /\ flag' = Heal(flag)
    /\ behind' = {}
    /\ odd' = odd \cup CutShort({"ui"})

\* Restart=on-failure
Crash ==
    /\ running # None
    /\ faults < MaxFaults
    /\ faults' = faults + 1
    /\ Boot
    /\ job' = Killed({"ui"})
    /\ UNCHANGED <<disk, db, enabled, manifest, reload, jobs>>

\* schedule_detached_panel_restart: the script ends every cpn-installer.  The
\* variant ends those of the command line alone.
EndedCli == Killed({"cli"})

Ended == Killed(Procs)

ReloadStop ==
    /\ reload
    /\ running # None
    /\ running' = None
    /\ job' = Ended
    /\ odd' = odd \cup CutShort(Procs)
    /\ UNCHANGED <<disk, db, enabled, manifest, flag, reload, jobs, faults,
                   behind>>

ReloadStart ==
    /\ reload
    /\ running = None
    /\ Boot
    /\ reload' = FALSE
    /\ UNCHANGED <<disk, db, enabled, manifest, job, jobs, faults>>

\* load_active: 45 minutes without progress.
Expire ==
    /\ flag # None
    /\ faults < MaxFaults
    /\ faults' = faults + 1
    /\ flag' = None
    /\ odd' = odd \cup {"expired"}
    /\ UNCHANGED <<disk, db, running, enabled, manifest, job, reload, jobs, behind>>

\* reconcile_stale_package_identity, when the Version page is read: a manifest
\* behind the package or the running panel follows it.
Reconcile ==
    /\ running # None
    /\ LET v == Version[running.code]
       IN  \/ manifest.version < db
              /\ manifest' = [manifest EXCEPT !.version = db]
           \/ manifest.version >= db /\ manifest.version < v
              /\ manifest' = [manifest EXCEPT !.version = v]
    /\ UNCHANGED <<disk, db, running, enabled, flag, job, reload, jobs, faults,
                   behind, odd>>

-----------------------------------------------------------------------------
(* A job begins *)

Begin(p, act, c, pc) ==
    /\ ~Busy(p)
    /\ jobs < MaxJobs
    /\ p = "ui" => running # None
    /\ jobs' = jobs + 1
    /\ LET exe == Version[IF p = "ui" THEN running.code ELSE disk.code]
       IN  job' = [job EXCEPT ![p] = [Idle EXCEPT
                      !.pc = pc, !.act = act, !.target = c, !.exe = exe]]
    /\ \E written \in BOOLEAN :
          /\ flag' = IF written THEN "working" ELSE flag
          /\ odd' = odd \cup (IF written THEN {} ELSE {"unflagged"})
                        \cup (IF \E q \in Procs : Busy(q) THEN {"second"} ELSE {})
    /\ UNCHANGED <<disk, db, running, enabled, manifest, reload, faults, behind>>

\* An upgrade to what is installed, or to less, ends here.
BeginRelease(p, act, c) ==
    /\ act = "upgrade" => Version[c] > Installed
    /\ Begin(p, act, c, "apply")

BeginTip(p, c) == Begin(p, "tip", c, "check")

\* Any step of a job may fail; run_maintenance takes the flag down.
Fail(p) ==
    /\ job[p].pc \notin {"idle", "posttrans", "finish"}
    /\ job' = Killed({p})
    /\ flag' = None
    /\ behind' = IF running # disk THEN behind \cup {"failed"} ELSE behind
    /\ UNCHANGED <<disk, db, running, enabled, manifest, reload, jobs, faults, odd>>

-----------------------------------------------------------------------------
(* install_rpm *)

\* A package of the version in the database is not installed again.  Left out: the
\* retag of a 1.0 version (--oldpackage, erase and install), Debian packages, and
\* a plain binary in place of a package.
InstallRpm(p, c, next) ==
    \/ /\ db = Version[c]
       /\ GoTo(p, next)
       /\ odd' = IF disk.code # c THEN odd \cup {"stale"} ELSE odd
       /\ UNCHANGED <<disk, db>>
    \/ /\ db # Version[c]
       /\ disk' = [code |-> c, sha |-> c]
       /\ db' = Version[c]
       /\ job' = [job EXCEPT ![p].pc = "posttrans", ![p].next = next]
       /\ UNCHANGED odd

\* The %posttrans scriptlet restarts an enabled panel, and with it the job of
\* the panel that runs the transaction.
PostTrans(p) ==
    /\ job[p].pc = "posttrans"
    /\ IF enabled /\ running # None
       THEN /\ Boot
            /\ job' = IF p = "ui" THEN Killed({"ui"})
                      ELSE [Killed({"ui"}) EXCEPT ![p].pc = job[p].next]
       ELSE /\ GoTo(p, job[p].next)
            /\ UNCHANGED <<running, flag, behind, odd>>
    /\ UNCHANGED <<disk, db, enabled, manifest, reload, jobs, faults>>

ApplyRelease(p) ==
    /\ job[p].pc = "apply"
    /\ InstallRpm(p, job[p].target, "record")
    /\ UNCHANGED <<running, enabled, manifest, flag, reload, jobs, faults, behind>>

-----------------------------------------------------------------------------
(* apply_tip_ref *)

\* The binary on disk is taken for the commit its marker names.
CheckDisk(p) ==
    /\ job[p].pc = "check"
    /\ job' = IF disk.sha = job[p].target
              THEN [job EXCEPT ![p].pc = "record", ![p].skipped = TRUE,
                               ![p].pkg = job[p].exe]
              ELSE [job EXCEPT ![p].pc = "artifact"]
    /\ UNCHANGED <<disk, db, running, enabled, manifest, flag, reload, jobs, faults,
                   behind, odd>>

\* try_apply_actions_artifacts: binaries whose marker may not be readable, a
\* package, or nothing.
ArtifactBins(p) ==
    /\ job[p].pc = "artifact"
    /\ \E m \in {job[p].target, NoSha} :
          disk' = [code |-> job[p].target, sha |-> m]
    /\ GoTo(p, "match")
    /\ UNCHANGED <<db, running, enabled, manifest, flag, reload, jobs, faults,
                   behind, odd>>

ArtifactRpm(p) ==
    /\ job[p].pc = "artifact"
    /\ InstallRpm(p, job[p].target, "match")
    /\ UNCHANGED <<running, enabled, manifest, flag, reload, jobs, faults, behind>>

ArtifactNone(p) ==
    /\ job[p].pc = "artifact"
    /\ GoTo(p, "package")
    /\ UNCHANGED <<disk, db, running, enabled, manifest, flag, reload, jobs, faults,
                   behind, odd>>

\* require_built_sha on the binary that was installed.  The variant takes an
\* artifact as it is.
ProvesAny(b, c) == TRUE

Proves(b, c) == b.sha = c

Match(p) ==
    /\ job[p].pc = "match"
    /\ job' = IF Proves(disk, job[p].target)
              THEN [job EXCEPT ![p].pc = "record", ![p].pkg = job[p].exe]
              ELSE [job EXCEPT ![p].pc = "package"]
    /\ UNCHANGED <<disk, db, running, enabled, manifest, flag, reload, jobs, faults,
                   behind, odd>>

\* release_matches_tip_version and tip_delta_allows_release_package.  The
\* variant leaves the second out.
SafeByVersion(r, c) == r \in Releases /\ Version[r] = Version[c]

Safe(r, c) ==
    /\ r \in Releases
    /\ Version[r] = Version[c]
    /\ <<r, c>> \in Neutral \/ r = c

PackageApply(p) ==
    /\ job[p].pc = "package"
    /\ \E r \in Releases :
          Safe(r, job[p].target) /\ InstallRpm(p, r, "stamp")
    /\ UNCHANGED <<running, enabled, manifest, flag, reload, jobs, faults, behind>>

\* No release that fits, or an error on the way: build from source.
PackageFails(p) ==
    /\ job[p].pc \in {"package", "stamp"}
    /\ GoTo(p, "source")
    /\ UNCHANGED <<disk, db, running, enabled, manifest, flag, reload, jobs, faults,
                   behind, odd>>

\* overwrite_embedded_sha on the binary on disk, whatever it is.
Stamp(p) ==
    /\ job[p].pc = "stamp"
    /\ disk' = [disk EXCEPT !.sha = job[p].target]
    /\ job' = [job EXCEPT ![p].pc = "record", ![p].pkg = Version[job[p].target]]
    /\ UNCHANGED <<db, running, enabled, manifest, flag, reload, jobs, faults,
                   behind, odd>>

\* The build is stamped and checked before it is installed.
Source(p) ==
    /\ job[p].pc = "source"
    /\ disk' = [code |-> job[p].target, sha |-> job[p].target]
    /\ job' = [job EXCEPT ![p].pc = "record", ![p].pkg = Version[job[p].target]]
    /\ UNCHANGED <<db, running, enabled, manifest, flag, reload, jobs, faults,
                   behind, odd>>

-----------------------------------------------------------------------------
(* The end of a job *)

\* record_install keeps the commit of an earlier commit install; a downgrade is
\* not verified.
Record(p) ==
    /\ job[p].pc = "record"
    /\ manifest' = IF job[p].act = "tip"
                   THEN [version |-> job[p].pkg, commit |-> job[p].target]
                   ELSE [manifest EXCEPT !.version = Version[job[p].target]]
    /\ GoTo(p, IF job[p].act = "downgrade" THEN "finish" ELSE "verify")
    /\ UNCHANGED <<disk, db, running, enabled, flag, reload, jobs, faults, behind,
                   odd>>

\* verify_after_upgrade.  The command line restarts the panel; in the panel the
\* restart is left to the reload, and without a new binary there is none.  The
\* checks that follow may fail.
Verify(p) ==
    /\ job[p].pc = "verify"
    /\ enabled' = TRUE
    /\ IF p = "cli" /\ (~job[p].skipped \/ running = None)
       THEN /\ Boot
            /\ job' = [Killed({"ui"}) EXCEPT ![p].pc = "checks"]
       ELSE /\ GoTo(p, "checks")
            /\ UNCHANGED <<running, flag, behind, odd>>
    /\ UNCHANGED <<disk, db, manifest, reload, jobs, faults>>

ChecksPass(p) ==
    /\ job[p].pc = "checks"
    /\ GoTo(p, "finish")
    /\ UNCHANGED <<disk, db, running, enabled, manifest, flag, reload, jobs, faults,
                   behind, odd>>

\* will_schedule_reload: only the panel under systemd, and only for a binary
\* that was replaced.  The variant leaves commit jobs out.
ReloadsReleases(p) == p = "ui" /\ job[p].act # "tip"

Reloads(p) == p = "ui" /\ ~job[p].skipped

Finish(p) ==
    /\ job[p].pc = "finish"
    /\ job' = Killed({p})
    /\ \E scheduled \in {Reloads(p), FALSE} :
          /\ reload' = (reload \/ scheduled)
          /\ flag' = IF scheduled THEN (IF flag = None THEN None ELSE "restarting")
                     ELSE None
          /\ behind' = IF ~scheduled /\ (Reloads(p) \/ job[p].act = "downgrade")
                          /\ running # disk
                       THEN behind \cup {"unscheduled"} ELSE behind
    /\ UNCHANGED <<disk, db, running, enabled, manifest, jobs, faults, odd>>

-----------------------------------------------------------------------------

\* A host installed from a release package.
Init ==
    /\ \E r \in Releases :
          /\ disk = [code |-> r, sha |-> r]
          /\ db = Version[r]
          /\ manifest = [version |-> Version[r], commit |-> None]
    /\ running = disk
    /\ enabled \in BOOLEAN
    /\ flag = None
    /\ job = [p \in Procs |-> Idle]
    /\ reload = FALSE
    /\ jobs = 0 /\ faults = 0 /\ behind = {} /\ odd = {}

Panel == Crash \/ ReloadStop \/ ReloadStart \/ Expire \/ Reconcile

Step(p) ==
    \/ \E act \in {"upgrade", "repair", "downgrade"}, c \in Releases :
          BeginRelease(p, act, c)
    \/ \E c \in Commits : BeginTip(p, c)
    \/ ApplyRelease(p) \/ PostTrans(p)
    \/ CheckDisk(p) \/ ArtifactBins(p) \/ ArtifactRpm(p) \/ ArtifactNone(p)
    \/ Match(p) \/ PackageApply(p) \/ PackageFails(p) \/ Stamp(p) \/ Source(p)
    \/ Record(p) \/ Verify(p) \/ ChecksPass(p) \/ Finish(p) \/ Fail(p)

Next == Panel \/ \E p \in Procs : Step(p)

Spec == Init /\ [][Next]_vars

-----------------------------------------------------------------------------

Pcs == {"idle", "apply", "posttrans", "check", "artifact", "match", "package",
        "stamp", "source", "record", "verify", "checks", "finish"}

\* The type invariant, with the two facts that tie a job to its process: the
\* panel has none while it is down, and only a commit job can find its binary
\* in place.
TypeOK ==
    /\ disk \in Binaries
    /\ db \in Nat
    /\ running \in Binaries \cup {None}
    /\ enabled \in BOOLEAN
    /\ manifest \in [version: Nat, commit: Commits \cup {None}]
    /\ flag \in {None, "working", "restarting"}
    /\ job \in [Procs -> [pc: Pcs, act: Actions, target: Commits, skipped: BOOLEAN,
                          exe: Nat, pkg: Nat, next: {"record", "match", "stamp"}]]
    /\ reload \in BOOLEAN
    /\ jobs \in 0..MaxJobs /\ faults \in 0..MaxFaults
    /\ behind \subseteq {"failed", "unscheduled"}
    /\ odd \subseteq {"cut", "expired", "unflagged", "second", "stale"}
    /\ running = None => ~Busy("ui") /\ reload
    /\ \A p \in Procs : job[p].skipped => job[p].act = "tip"

\* The marker decides whether a commit is built and installed again
\* (upgrade_tip.rs), so it must not lie: along every path, also through
\* failures, crashes and restarts half way, the marker on disk is that of the
\* code or of a commit that needs no other binary.  Left out: a package taken
\* for installed although a commit build is on disk, and two jobs at once.
MarkerIsTrue ==
    odd \cap {"stale", "second"} = {} /\ disk.sha # NoSha
        => Same(disk.code, disk.sha)

\* What a job has recorded is on disk: the release that was asked for, or a
\* binary that carries the commit.  The same two cases are left out.
RecordedIsInstalled ==
    odd \cap {"stale", "second"} = {} =>
        \A p \in Procs :
            job[p].pc \in {"verify", "checks", "finish"} =>
                IF job[p].act = "tip"
                THEN /\ manifest.commit = job[p].target
                     /\ disk.sha = job[p].target
                     /\ Same(disk.code, job[p].target)
                ELSE /\ disk.code = job[p].target
                     /\ db = Version[job[p].target]

\* A job that succeeds leaves the panel running what it installed, or a reload
\* on its way, whichever process did it and whatever restarted the panel
\* meanwhile.  Only after a job that failed or was cut short, or whose reload
\* could not be scheduled, may the panel run another binary than the disk has.
AppliedIsLive ==
    ~reload /\ behind = {} /\ odd \cap {"cut", "second"} = {}
        => running = disk \/ \E p \in Procs : Busy(p)

\* The maintenance page is up exactly while a job works on the panel or its
\* restart is due, also when the panel goes down and comes back under a job of
\* the command line.  Left out: a flag that expired or could not be written, a
\* process that ended with its job, two jobs at once.
FlagCovers ==
    odd = {} =>
        /\ (\E p \in Procs : Busy(p)) => flag # None
        /\ flag # None => reload \/ \E p \in Procs : Busy(p)

\* upgrade_verify.rs: "Do not stop/restart here; the caller schedules a detached
\* reload after writing phase=completed so migrations finish."  The scriptlet of
\* the package restarts the panel, and the job with it, before anything is
\* recorded.
OwnJobSurvivesPackage ==
    [][\A p \in Procs : PostTrans(p) /\ p = "ui" => job'[p].pc # "idle"]_vars

=============================================================================
