# Formal models of the CPN control panel

TLA+ modules for the parts of the CPN server panel (`src/src`, Rust) whose
correctness depends on what happens at the same time, in which order, and what
is left behind when something fails. TLC checks them on small instances; TLAPS
proves every safety property of the passing runs for every value of the constants.

| module | models | code |
|---|---|---|
| `JobLock` | the "operation in progress" lock of the panel process | `installer.rs`, `installer_transitions.rs`, `upgrade_busy.rs`, `upgrade.rs`, `upgrade_tip_run.rs`, `upgrade_reload.rs`, `panel_maintenance_mode.rs`, `maintenance_api.rs`, handlers of `main.rs` |
| `Operation` | what the lock promises: an abstract specification that `JobLock` implements | |
| `UpgradeApply` | what a maintenance job does to the host: packages, commit builds, manifest, restarts, a job of the command line beside the panel | `upgrade.rs`, `upgrade_apply.rs`, `upgrade_pkg.rs`, `upgrade_tip*.rs`, `upgrade_verify.rs`, `upgrade_reload.rs`, `panel_service.rs`, `build_meta.rs`, `manifest.rs`, `packaging/` |
| `InstallJournal` | the change journal and the rollback of an install | `install_journal.rs`, `finish` of `installer.rs` |
| `AutoUpgrade` | the settings file of the automatic upgrades and its checks | `auto_upgrade.rs`, `auto_upgrade_run.rs`, `auto_upgrade_api.rs` |
| `Accounts` | account files, renames, password reset links | `account*.rs`, `auth_password_reset_api.rs` |
| `Resellers` | the hierarchy of accounts, the pools of resellers, packages | `panel_reseller*.rs`, `panel_hub_routes_reseller.rs`, `packages.rs` |
| `SiteApps` | update, backup, restore, start and stop of one App of a site | `site_app_lifecycle.rs`, `site_app_backups.rs`, `panel_site_apps_*.rs` |
| `Bandwidth` | the monthly meter over a log that rotates | `package_bandwidth.rs`, `panel_log_retention.rs`, `panel_ops_bandwidth_reset.rs`, `panel_website_logs.rs` |
| `MC*` | the instances TLC checks (sets, symmetry) | |
| `*_proofs` | theorems and their proofs | |

`PROJECT.json` lists the runs, the mutants that show each property can fail, the
source lines of every definition, the hazards and the theorems.

## 1. Inventory

One process, `cpn-installer`, serves the panel on actix worker threads. It keeps
little in memory (`AppState` and some statics) and most of its state in JSON
files under `/var/lib/cpn`, which each request loads, changes and saves whole.
Long work runs in threads and tokio tasks of the same process, and in child
processes. The same functions also run in the command line `cpn`, a process of
its own. systemd restarts the panel; an upgrade ends with a reload of it.

| component | state | operations | hard because | correct when | status |
|---|---|---|---|---|---|
| Operation lock and workers | `status` (RwLock), `JOB_IN_FLIGHT`, `LAST_HEARTBEAT_UNIX`, `active_child_pids`, `maintenance.json` | start web server / mail install, start maintenance, automatic start, run a command, tick, log, finish, fail, heal, reload, restart | the lock is a phase string that many lock sections rewrite; heals decide on reads made one after the other | jobs exclude each other; a busy panel becomes idle; the flag falls; readiness is true | `JobLock` |
| Web server and mail recipes | the host | commands, tracked writes | fail anywhere | see lock and journal | commands of `JobLock`, writes of `InstallJournal` |
| Manifest and start-up | `install-manifest.json` | `record_install`, initial status | restart rebuilds the status from it | the status after a restart says what is installed | `JobLock` |
| Install journal | `install-journal.jsonl`, `install-backups/`, `CURRENT_RUN_ID` | begin, tracked write, record, roll back, end | crashes and errors between copy, write and line; one id for the whole process | a rollback restores what its run changed, only that, and says so truthfully | `InstallJournal` |
| Automatic upgrades | `auto-upgrade.json` | seed, Owner's save, check, start | the check saves what it loaded before a network wait; one temporary name for all savers | the Owner's choice stands; upgrades start on it | `AutoUpgrade` |
| Panel upgrades | `/usr/bin/cpn-installer` with its `CPN_BUILD_SHA` marker, the package database, the manifest, `maintenance.json`, the unit | release, repair, downgrade, commit build in four ways, record, verify, reload | several ways write the binary one over the other; the job runs in the process it replaces, or in a second one; the package restarts the panel | the marker is true; what is recorded is installed; the panel runs what was installed; the page is up while it must be | `UpgradeApply` |
| Accounts | `panel-bootstrap.json`, `accounts/*.json`, files and lists by user name, `password-reset-tokens.json` | create, edit, deactivate, rename, delete, ask for a link, reset | files rewritten in place without a lock; a rename over five stores; a reset in five steps | what was answered holds; a link works once; a rename takes along what it moves | `Accounts` |
| Resellers | accounts, `resellers.json`, packages and assignments | promote, demote, quotas, branding, assign, unassign, create, delete, rename, change a package | check and write in separate steps; two files per change; names that outlive accounts; unreadable files taken for nothing | the users of a reseller fit its pool; they have a reseller; one level | `Resellers` |
| Site Apps | the App directory, archives, staging and rollback directories, the unit | back up, update, restore, start, stop | directories replaced by two renames; names taken from the second; starts in between | no files lost or mixed; a failed restore loses nothing | `SiteApps` |
| Bandwidth meter | `bandwidth/<domain>.json`, the access log | refresh, reset, cut a log | a log rotates, is cut or replaced between stat, open and save; two processes refresh | no line counted twice; the total is kept | `Bandwidth` |
| Releases | cache files | fetch, compare versions, choose a package | version order, stale caches | order is total; no downgrade by accident | planned (pure) |
| Gates (features, login services) | cached answers | refresh in the background, peek | refresh races a save; no age on the last good answer | a saved setting shows | planned |
| TLS certificates | sites, retry table | issue, retry pass | a pass serves two sites | every site is retried | planned (retry) |
| Network change | port, migration, host name files | apply, migrate, restart | several saves, each may fail | the panel stays reachable on one of the ports | planned |
| Remote notifications | nonce store, rate counter | verify, consume | check and write in two steps | a nonce is used once | planned |
| Backups, staging, git deploys | archives, directories, job list | selective and incremental backups, deploys | names by the second; a list saved after a long run | old or new, never a mixture | planned |
| Sign-in, sub-users, access control, plugins, themes, mail maps | one file each | load, change, save per request | lost updates | | not modelled |
| System repair, foreign panels, Docker, DNS, databases, files | the host | external tools, one after the other | | | not modelled |
| Pages, navigation, front ends, packaging scripts | | rendering, build | | | not modelled |

How they interact. The handlers of `main.rs` and `maintenance_api.rs` accept a
job under the write lock of `status` and hand it to a thread or task. The job
calls `progress`, which touches the heartbeat, writes `status` and mirrors the
phase into `maintenance.json`, and `run_command`, which registers its child and
ticks every 20 s. An install writes its files through `install_journal` and ends
in `finish`, which rolls back on an error before it writes the outcome. A
maintenance job is wrapped in a `JobGuard`. Status polls, maintenance requests
and automatic checks first call `heal_orphaned_busy`. A reload or a crash ends
all of them; `main` builds the next status from the manifest. The command line
`cpn` runs the same functions in a process of its own: it does not see the lock of
the panel, and meets it only through the host and through files. The files of
accounts, resellers, packages and ledgers are loaded, changed and written back by
each request; a few statics (`STORE_LOCK` of the reset links, `LEDGER_LOCK` of the
meter) order single calls within one process.

The forty hazards that weigh most are listed with their lines in `PROJECT.json`;
the properties below are aimed at them. The rest are under "Further hazards" at
the end.

## 2. What is modelled

### JobLock

State: `status` (phase, `server_ready`, the two selections), `inFlight`
(`JOB_IN_FLIGHT`), `fresh` (the heartbeat is at most 5 s old), `flag`
(`maintenance.json`: none, open, or in a phase that start-up clears), `manifest`,
and one program counter per job and per request handler. A job identifier is
used once. Each action is a section of the code that runs under one lock or
between two visible effects:

- `StartServer`, `StartMail`: `start_install`, `start_mail_install` with the
  guards of `installer_transitions.rs`; `JobLost`: the thread or its runtime
  could not be made, the error is dropped (`let _ =`).
- `InstallBegin`, `InstallSucceed`, `InstallError`, `InstallFail`: the install
  worker and the two arms of `finish`. `InstallSucceed` keeps the manifest when
  recording it fails, which is only logged.
- `JobEnter`, `MaintainNothing`/`Settle`, `MaintainBegin`, `MaintainRecord`,
  `MaintainSucceed`, `Announce`, `Lower`/`Tail`, `Leave`: the maintenance task,
  with both of its ends: the release path announces once, the tip path and the
  jobs that find nothing to do announce twice. `MaintainError`, `MaintainDrop`,
  `MaintainFail`: the error path, in which the guard falls before the failure is
  written.
- `CommandStart`, `TickRead`, `TickWrite`, `CommandEnd`: `run_command`. The tick
  is two actions because the code gives up the lock between reading the phase and
  writing it back.
- `HealRead`, `HealProbe`, `HealDecide`, `HealClear`, `HealUnflag`:
  `heal_orphaned_busy`, one action per thing it reads or writes; then
  `StartMaintenance`, or `AutoCheck` and `AutoStart` around the release lookup.
- `HeartbeatAges`, `FlagExpires`: time. `Restart`: reload, the SIGKILL of a
  changed listen port, or a crash.

Abstracted: texts and percentages; the download phase of a dnf command (busy like
the others); commands after the manifest is recorded happen before it;
`restart_scheduled`, `mail_client_ready`, `mail_backend_ready`,
`external_ports_configured`; a rewrite of `maintenance.json` is one step; SIGTERM
(`cancel_requested`), after which the process ends; upgrade, repair and downgrade
are one kind of job. `NoJobLeft` is not code: it sends a request home when the
instance has run out of job identifiers.

The history variable `intruder` remembers that a heal (`"heal"`), a second announcement (`"settle"`), a reload
tail (`"tail"`) or a dropped guard (`"leave"`) struck while some job worked.

Properties:

- `Exclusion`: two jobs work at once only after a heal or a second announcement
  has struck. Everything else - the order of accepts, commands, ticks, outcomes,
  retries, restarts - cannot bring it about.
- `ReadinessIsStable`: under an undisturbed web server install `server_ready` is
  false, under a mail install it stays true.
- `InFlightCovers`: `JOB_IN_FLIGHT` is up as long as a maintenance task works.
- `BusyEnds`, `FlagFalls` (liveness): a busy phase and a maintenance flag end, also
  after a lost thread, a tick that revived a dead phase, or a kill.
- `ImplementsOperation`: with working jobs, accepted jobs, the busy phase and
  `intruder` mapped to the four variables of `Operation`, every step is a step of
  that specification or changes none of them: a job is accepted only when none
  works, the lock falls with the outcome and not before, and what takes the lock of
  a live worker away ends the promise until the next start.
- `HealSparesLiveJobs` is what the header of `upgrade_busy.rs` says; it has a run
  that TLC ends with a counterexample, and an entry under "findings".

### InstallJournal

State: the files (`disk`), the backups by second and file, the journal, the
current run id, the clock in seconds, and per worker its program counter, the
tracked write it is in, and the run id, position and report of its rollback. A
worker is an install (`Begin`) or anything else that writes tracked files without a
run (`Visit`). `BackUp`, `Overwrite`, `Create` and `Record` are the steps of
`write_file_tracked`; `IOError` is a failure of any of them; `RollbackBegin`,
`Undo`, `UndoFails`, `RollbackEnd` are `rollback_tracked_files` line by line,
newest first; `Finish` is the failure arm of `finish`. `Crash` ends the process and
may leave a torn line, after which the journal cannot be read. Lines that a
rollback passes over (notes, created directories) are left out, and so is what a
failed recipe does before its rollback: it starts the units again that it had stopped
on ports 80 and 443, from every such note in the journal, whichever run wrote it
(`install_server.rs:792-818`); units are not files. Writing a file is one step: a
crash in the middle of one is not distinguished.

`faults` is history: what would make a full undo impossible and is not the
journal's promise - two writers at once, two runs with one id, no id, a file backed
up twice in a second, a change whose line could not be written.

- `Recoverable`: at every point of a run without faults, in the middle of a tracked
  write too, each file can be taken back to what it was when the run began.
- `HonestRollback`: a run without faults that reports a complete undo has restored
  every file.

A run that got no id, or lost it, undoes everything in the journal, against the
comment of `begin_install_run` (`install_journal.rs:77`); that is the fault "no id".

### AutoUpgrade

State: `auto-upgrade.json`, its temporary file, what each save has open, and the
locals of every check and save under way. A save is `SaveCreate`, `SaveWrite`,
`SaveRename`, each of which may fail. Because every save uses one temporary name, a
rename takes the file another save is writing (`Renamed`), and text written over
the text of another save may not parse (`Written`). `CheckBegin` loads what the file
has or, when the read fails, the defaults, which are enabled (`Loads`). `LookupEnds`
is the answer of the release server, `BecameBusy` and `Start` are the second look at
the phase. `Boot` seeds a missing file, or one that it cannot see.

`misled` are the checks that work on other settings than those that stand: the Owner
saved after they had loaded, or their read failed. `spoilt` remembers that such a
check has saved, that two saves overlapped, or that the seeding wrote over a file.

- `OwnerChoiceStands`: unless `spoilt`, what the Owner saved last is what a load
  returns, through seeding, failed saves, check results and crashes.
- `StartsAsChosen`: unless `spoilt`, a check that is not misled starts an upgrade
  only if the last save enabled it, and only a security release in that mode.

A misled check writes back the settings it had loaded, and may start an upgrade that
the Owner has switched off: because he did so while it waited for the release server
(`auto_upgrade_run.rs:49` against `auto_upgrade.rs:5-7` and `auto_upgrade_api.rs:114`),
or because it could not read that he had (`auto_upgrade.rs:141`). Both properties
exempt these cases; everything else is shown not to bring the settings back.

### UpgradeApply

State: the binary on disk and the one the panel runs, each as the commit of its code
and the commit its marker names; the version in the package database; the manifest;
the flag; whether the unit is enabled and a detached reload is due; and a job of the
panel and one of the command line. A commit has a Cargo version; some are published
as packages; `Neutral` says which changes need no new binary
(`path_is_binary_neutral`).

A job begins with `BeginRelease` or `BeginTip`. `InstallRpm` is `install_rpm`: a
package of the version in the database is not installed again, otherwise the
scriptlet follows (`PostTrans`), which restarts an enabled panel and, with it, a job
of the panel. Debian packages, plain binaries and the retag of a 1.0 version are left
out. A commit job goes through `CheckDisk`, `ArtifactBins`, `ArtifactRpm`
or `ArtifactNone`, `Match`, `PackageApply`, `Stamp`, `Source`, in the order and with
the fallbacks of `upgrade_tip.rs` and `upgrade_tip_prebuilt.rs`; then `Record`,
`Verify`, `ChecksPass` and `Finish`. `Fail` is an error at any step, `Crash` the
death of the panel, `ReloadStop` and `ReloadStart` the script of the detached
restart, which ends every `cpn-installer`, `Expire` the time to live of the flag,
`Reconcile` the Version page.

History: `odd` remembers what no check of the code sees (a job cut short, two jobs
at once, a flag that expired or could not be written, a package taken for installed
over a commit build), `behind` why the panel may run another binary than the disk's.

- `MarkerIsTrue`: the marker on disk is that of the code, or of a commit that needs
  no other binary; `CheckDisk` and every later commit job rely on it.
- `RecordedIsInstalled`: from `Record` to the end of a job, what the manifest says is
  on disk.
- `AppliedIsLive`: without a failed job and an unscheduled reload, the panel runs the
  binary on disk unless a job or a reload is still at work.
- `FlagCovers`: the page is up exactly while a job works or a reload is due.
- `OwnJobSurvivesPackage` is what a comment of `upgrade_verify.rs` says; the
  scriptlet breaks it (finding).

### Accounts

State: the account files (the bootstrap file and one per account), what is filed
under a user name in files (MFA, passkeys) and in lists (packages, site ACL, sites),
the reset links, and per request its step with the copy it has loaded. Every write
is two steps, the truncation and the text, either of which may be the last. `Found`,
`Exists`, `PathOf` are `find_account`. `Key` maps names to file names, on which
different names may fall together (`account_file_key`); `Fold` is the comparison
without case. Creations, edits, deletions, the five steps of a rename, the links
with `Mint`, `SubmitPeek`, `Consume`, `ResetLoad`, `Drop`, and `Expire` are requests
of the panel or of the command line in any order; `Crash` ends them all.

History: `said` is what the last successful edit answered, `excused` the accounts two
requests met on, or one left half done. `EditsStand`, `LinkOnce` and `RefsFollow`
say that what was answered about the other accounts holds, that a link sets a
password at most once, and that what a rename moves - MFA and passkey files, packages,
grants, sites - is under the present name of its account only.

`RefsFollow` holds as long as no name was in use in two spellings (`alike`). The code
allows that: `create_account` looks only for the file of the key of the name, although
`docs/CLI.md:198` promises to compare without case, and a rename may be asked for under
another spelling of the old name. The lists then answer to both spellings and the
files to one, and a rename takes along the entries of both accounts or leaves the files
behind; TLC finds this at once when `~alike` is taken out of the property. The
instance has two such names, and `EditsStand` and `LinkOnce` hold with them.

A rename does not move the hierarchy: `parent_reseller` of the users of a reseller and
its record in `resellers.json` stay under the old name, which `Resellers` models;
`parent_owner` of sub-users stays as well and is in no module.

### Bandwidth

State: the candidate logs with inode and cells (a line is two cells, so that a
refresh can meet half a line), the ledger, the refresh under way (`RefreshBegin`,
`Stat`, `Read`, `Save`), a refresh of another process that stands still (`OverlapBegin`,
`OtherGoesOn`: `LEDGER_LOCK` belongs to one process, and `cpn site create` refreshes in
its own), the reset of the command line, the size limit at work on a
log, and the month. Around it the web server appends (`ServeHead`, `ServeEnd`),
logrotate truncates in place or renames (`CopyTruncate`, `RenameRotate`), a log
appears in the home of the site (`NewLog`). Two refreshes that save at once share one
temporary file (`Saved`). A ledger that cannot be read is taken for a new one
(`Loads`). Bytes are modelled by how often each line is in the total. Reading the
ledger and asking for the log is one step; the reset takes its month when it reads.

- `CountedOnce`: no line twice, but for a log cut by the size limit or replaced
  between the stat and the open of one refresh; also when two processes refresh.
- `Frontier`: while nothing rotates, a complete line of the month is in the total
  exactly if it ends before the offset, through partial lines, full chunks, the turn
  of the month, a reset, a failed read and two processes. A line longer than a chunk
  is not met: the instance and the proof have chunks of at least a line.
- `TotalKept`: no line leaves the total of a month and a log, until a reset, a refresh
  of another process that began earlier, or a failed read writes over it. Past the
  lock the later save may put back the smaller total; its offset goes back with it, so
  that the next refresh counts the same lines again, once (`Frontier`).
- `LineCountedOnce` is the claim of the file's header without the first exception;
  the size limit breaks it (finding).

### SiteApps

State: which directory is at which place (live, staging and rollback by second), the
pieces each directory has, the listed archives and those being written, whether the
App runs and in which directory, and the step of each request. A directory keeps its
identity when it is renamed, as it does for a running process and for a tar that has
opened it. `Away`, `In`, `PutBack`, `Clean` are the renames of `restore_app_backup`
with their failures; the rename back may fail as well (`PutBackFails`), which the code
does not look at. `StartPrepare` makes the directory and the stub of `ensure_app_dir`;
`UnitEnds` is the end of the program of the App, whose unit nobody restarts; `Edit` is
an upload; `Crash` leaves every job where it was. That `systemctl is-active` itself
cannot be run, and the App is taken for stopped, is left out.

History: `newest` (the files the App should have), `wanted`, `clean`, and `mess` (two
jobs of one second, a tar over changing files, an App that could not be stopped or
was started in the middle of a restore, a start or restore that failed, a rename back
that failed); each property names the part of it that it exempts.

- `RestorePointFirst`: an update that comes to its change has a backup of its own, of
  all the App was made of.
- `NothingLost`, `NoMixture`: the newest files are in place, set aside or in a backup;
  the App is never made of two generations.
- `RunsWhatIsThere`: a running App runs from the directory in place.
- `StaysUp`: `wanted` says that the App was started and has neither been stopped by its
  owner nor ended by itself since; it is then up when all is quiet.
- `FailedRestoreChangesNothing`: a restore that does not succeed leaves the files in
  place; when the rename back fails, the App has no directory, its files are whole in
  the rollback directory, and the answer says all the same that they were put back.

### Resellers

State: the accounts with role and parent, `resellers.json` with the pool of each
reseller (or torn), the limit in each package, the package of each name, and per
request its step and the copy of the store in its hand. One limit stands for the six
of a pool. A request checks (`Promote`, `Demote`, `Quotas`, `Assign`, ...), then
writes the account (`SetFields`), then loads and saves the whole store (`Load`,
`Truncate`, `Write`); `SaveFails` leaves it torn. `CreateUser`, `AssignCreated`,
`UndoCreate` are the handler that creates a user and takes it back.

`CheckUnread` and `AssignUnread` are checks in front of a file that cannot be read or
is being written at that moment: `child_usernames` skips an account it cannot read, a
promotion takes a sum that fails for nothing (`panel_reseller.rs:244`), and without the
store `account_is_reseller` has the role alone to go by.
`PackagesTorn` is a torn file of packages or assignments, which counts as an empty one:
a package that is missing has no caps (`panel_reseller_quota.rs:64`), an assignment
that is missing is the Default package. `Rename` is `rename_own_account` in one step
(its own steps are in `Accounts`): role, parent and package go along, the record and the
parent of the users stay under the old name.

- `PoolCovers`: what the users of a reseller may use together fits its pool, unless a
  package of one was enlarged or lost (`"package"`), or a request wrote on a check that
  was overtaken (`"stale"`) or could not read (`"unread"`).
- `ChildrenHaveReseller`: every parent is an account with a record, unless the account
  of a reseller was deleted or renamed away from its users (`"orphans"`), and with
  `"stale"` and `"unread"` exempted as above.
- `OneLevel`: no reseller has a parent, with the same two exempted and a reseller's user
  that takes a name with a record (`"renamed"`).

They hold over every sequence of promotions, demotions, assignments, deletions,
re-creations and renames, with failing saves and deaths of the panel.

### Divergences that have no run

Seen while modelling, true of the model, and left without a run of their own: a job
that has announced its end clears `JOB_IN_FLIGHT` of the next one
(`upgrade_busy.rs:38` and 49); a heal marks an outcome written meanwhile as failed
(`upgrade_busy.rs:240` and 259); after an upgrade and a restart the web server is
called ready though none was installed (`model.rs:298`, `main.rs:1054`); a mail
install that failed is refused as installed after an upgrade
(`installer_transitions.rs:58-60`); a repair of the installed release does not
reinstall it (`docs/CHANGELOG.md:212`, `upgrade_pkg.rs:99-103`); a commit job that
finds its binary on disk needs a reload it does not schedule when an earlier job
failed after replacing it (`upgrade_tip_run.rs:185-186`).

## 3. Runs

| run | instance | distinct states | shows |
|---|---|---|---|
| `JobLockSafety` | 2 jobs, 1 handler, 1 command per job, 1 restart | 620 700 | `TypeOK`, `Exclusion`, `ReadinessIsStable`, `InFlightCovers`, `ImplementsOperation` |
| `JobLockLiveness` | 1 job, 1 handler, 1 command, 1 restart | 6 000 | `BusyEnds`, `FlagFalls` |
| `InstallJournalRollback` | 1 worker, 2 files, 2 contents, 3 lines, 2 seconds | 4 770 931 | `TypeOK`, `Recoverable`, `HonestRollback` |
| `AutoUpgradeFile` | 1 check, 1 save, file errors | 216 045 | `TypeOK`, `OwnerChoiceStands`, `StartsAsChosen` |
| `UpgradeJobs` | 2 jobs in 2 processes, 2 releases, 4 commits, 1 fault | 2 470 000 | `TypeOK`, `MarkerIsTrue`, `RecordedIsInstalled`, `AppliedIsLive`, `FlagCovers` |
| `AccountsFiles` | 2 requests at once, 4 in all, 2 accounts, 4 names, 2 passwords, 1 link | 1 520 857 | `TypeOK`, `EditsStand`, `LinkOnce`, `RefsFollow` |
| `BandwidthMeter` | 2 lines, 2 months, 2 events, 2 logs, 2 inodes | 3 133 022 | `TypeOK`, `CountedOnce`, `Frontier`, `TotalKept` |
| `SiteAppsSwap` | 2 requests, 2 seconds, 2 generations, 1 crash | 997 967 | `TypeOK`, the six properties of `SiteApps` |
| `ResellersPools` | 3 users, 2 packages, 2 requests at once, 4 in all | 305 921 | `TypeOK`, `PoolCovers`, `ChildrenHaveReseller`, `OneLevel` |
| `JobLockHealLive`, `BandwidthTrim`, `UpgradeRestart` | as small as the counterexample allows | | one finding each |

Bounds. In `JobLock` and `InstallJournal` `MaxCommands`, `MaxBoots`, `MaxClock`,
`MaxEntries` are the only counters; `AutoUpgrade` has none. Two jobs are the least
that can overlap, and the proofs extend the safety results to any number. One command
gives a tick that straddles a heal, one restart a job killed at any point and a boot
from every manifest. Three journal lines hold two runs, a file changed twice in one
run, and a torn line before a later run; one worker suffices because overlap is a
fault the properties exempt. Liveness over two jobs was tried and takes several
minutes for the same result; the run keeps one.

In `UpgradeApply` two jobs give every pair of paths one after the other and side by
side, two releases an upgrade and a downgrade, and the two commits between them one
that changes no code and one that does. In `Accounts` four requests are a creation, a
deletion, a rename and one more, or a link asked for and submitted twice; of the four
names two share a file and two differ in case alone; two passwords tell an old one from
a new one. In `Bandwidth` two lines fill more than a chunk, and two events put a
rotation, a reset, an overlap or a failed read before or after any other. In `SiteApps` two requests meet in
every way the code allows, within a second and across one. In `Resellers` a reseller,
its user and a third account are the least that break the hierarchy, and four
requests build and break it; a constraint stops after a write on an overtaken check,
of which nothing is claimed, and follows the last of the four requests only where no
package differs from the Default one.

Symmetry is used in the runs without liveness only. Deadlock is checked in
`JobLock`, `InstallJournal`, `AutoUpgrade` and `Accounts`, where a handler can always
poll, a worker always begin, or a link is always looked at; the other four stop when
their bounds are used up, so the check for deadlock is off there.

Fairness (`JobLock!FairSpec`). Weak fairness for the steps of a worker, the write
back of a tick and the steps of a request handler: threads and tasks are scheduled
and none waits for another. Strong fairness for the end of a command, which ticks
interrupt: `run_command` puts a timeout of 1800 s around it. Weak fairness for the
status poll, which the Version Management page makes while it shows a job, for the
ageing of the heartbeat, and for the expiry of the flag, which the next visitor's
`load_active` finds. Ticks, accepts, restarts and logging are not fair. The other
modules claim no liveness: what they model ends with a request.

## 4. Proofs

TLAPS proves, for any constants that satisfy the named assumptions (bounds are
naturals, `IOErrors` and `Systemd` Boolean, `Checks` and `Owners` disjoint, the
markers such as `Absent`, `Torn` or `NoLink` distinct from the data, releases are
commits and versions positive, a chunk of the meter is larger than a line; the users
in `Resellers` and the jobs in `SiteApps` are finitely many, as they are in a
directory and in a process):

- `JobLock_proofs`: `TypeCorrect`, `ExclusionHolds`, `ReadinessHolds`,
  `InFlightHolds`. `Exclusion` is not inductive: a second job gets in when the
  phase is not busy while a first one works. `LockInv` adds that every undisturbed
  worker holds a busy phase (`WorkersHoldLock`) and that a tick about to write has
  read a busy phase (`TicksKeepBusy`). Then an accept, which requires a phase that
  is not busy, finds nobody working (`LockAccept`), a worker's step keeps the phase
  or ends its work (`LockWork`), and the steps of the others do not touch it or are
  blamed (`LockAside`).
  `Implements` is the refinement of `Operation`. From `LockInv` each action is shown
  to be an accept, an announcement, a loss, a clear, a disturbance, a start, or to
  change none of the four mapped variables; one lemma per kind of step (`MapsAccept`, `MapsWork`, `MapsAside`, `MapsDisturbed`), which the
  lemmas for the actions cite.
- `InstallJournal_proofs`: `TypeCorrect`, `RecoverableHolds`, `HonestRollbackHolds`.
  The invariant says that the lines of a run are well formed (`WellFormed`), that a
  worker without the fault "overlap" is alone (`Alone`), and that a clean run is
  `Tracked`: the current id is its own, each file is either untouched or led back
  by the first line about it, and during a rollback every file without a line left
  to undo is already what it was. `Undo` moves one line across that frontier.
- `AutoUpgrade_proofs`: `TypeCorrect`, `OwnerChoiceHolds`, `StartsAsChosenHolds`.
  The invariant adds that, unless `spoilt`, the only save under way has the temporary
  file to itself, and that every check that is not misled carries the settings of the
  last save.
- `UpgradeApply_proofs`: `TypeCorrect`, `MarkerHolds`, `RecordedHolds`,
  `FlagHolds`, `AppliedHolds`. The invariant `One` says that without "second" one job works at a
  time; `Placed` gives for each step of a job what the binary and the database are
  when it stands there (`Fit`), which is what makes the marker true when `Stamp`
  writes it over whatever is on disk; `FlagInv` adds what a scheduled reload and a
  panel that is down mean for the flag; `LiveInv` adds to `AppliedIsLive` the jobs
  that will not have the panel restarted any more (`Settled`): those that found
  their binary in place, and those of the command line that have restarted it.

- `Accounts_proofs`: `TypeCorrect`, `LinkOnceHolds`, `EditsStandHolds`,
  `RefsFollowHolds`. `LinkInv`: a link is in the file of tokens or at work in one
  request, and no password was set with it before; `STORE_LOCK` around each single
  call is enough for that. `EditInv` follows an account that no two requests met on
  through the two steps of a write and the five of a rename: `Stages` says at which
  paths it is in each step, `Sole` and `OnePath` that nobody else works on it,
  `Emptied` that the file about to be written is nobody else's, `Quiet` is the
  property for the accounts at rest. Both hold for any `Key` and `Fold`, so also for
  names that share a file. `RefsFollowHolds` needs `NameInv` besides: what is filed
  under a name follows the account only as long as two files of one name do not
  exist (`Uniq`), and that is so because a creation and a rename look for the name
  (`NamesSole`, `Meeting`). `SpelledInv` carries the exemption: without `alike`, two
  names in files or in hands that fold alike are one name, so that a request for it
  finds its account and moves what the lists and the files have.
- `Bandwidth_proofs`: `TypeCorrect`, `CountedOnceHolds`, `FrontierHolds`,
  `TotalKeptHolds`. For `CountedOnce`, a line that a ledger has counted is gone from
  every log, or its end lies before the offset in the very log, by path and inode,
  that the ledger follows, and that log is no shorter than the offset (`Behind`). So
  the test of `scan_log` for a rotated log can fail only where nothing counted is
  left. This holds of the ledger on disk, of the one in a refresh, of the one in a
  reset, and of the one a refresh of the other process has in hand (`CountInv`).
  `FrontInv` says for a log nobody touched that line l has the cells 2l - 1 and 2l
  (`Rows`), that every ledger stands between two lines, that its total is what lies
  before (`Front`), and that what lies before is of no later month, which is why a new
  month may keep the offset. A chunk of at least a line is needed there: a smaller one
  would leave the offset inside a line. `TotalInv` says that the total at work is no
  less than the one on disk, as long as no reset, no refresh of another process and no
  ledger that could not be read came between; a refresh of another process that is
  under way is on record as `"overlap"`.
- `SiteApps_proofs`: `TypeCorrect`, `RunsInPlace`, `StaysUpHolds`, `RestorePoints`,
  `NothingLostHolds`, `NoMixtureHolds`, and the action property `FailedRestore`.
  `Apart` says that no directory is at two places, so that a rename moves one.
  `UnitInv` gives `RunsInPlace` and `StaysUp`: a running App is in place and no
  restore is past its stop. `PointInv` follows the archive of a job from the directory
  over the temporary file to the list. `KeptInv`: the newest files are in place, or in
  a rollback directory that no restore is about to remove. `StageInv` and `PureInv`: a
  restore that unpacks has an empty directory of its own, and no directory or whole
  archive has two generations. `UntouchedInv` says what a restore found and where it
  is: in place until it is set aside, in the rollback directory of the restore from
  then on, and still there, whole, if it cannot be put back. `TypeOK` needs that a new
  directory can always be had: the places and the directories jobs have open are fewer
  than `Dirs` (`NewDirIn`, by counting).
- `Resellers_proofs`: `TypeCorrect`, `OneLevelHolds`, `ChildrenHold`,
  `PoolCoversHolds`. A request that has not been overtaken is `Sure` of what it has
  checked, unless a check could not read what it looked at (`"unread"`). The three
  invariants say what that is between the steps. `LevelInv`: the user of an assignment
  under way has no pool, on disk or in any copy about to be saved (`Clear`), a copy
  differs from the store in the user of its request alone (`Copies`), and a promoted
  account has the role before it has the pool (`Promoted`); these hold through every
  rename, and only that nobody with a record or a place in a copy has a parent
  (`Level`, `LevelCopies`) is given up with `"renamed"`. `FamilyInv`: the target of an
  assignment exists and keeps its record (`Targets`), a demotion has no users
  (`Childless`). `PoolInv`: there is room for the user (`RoomFor`) and a promotion
  brings a pool its users fit in (`LimitsHold`). The sum over the users of a reseller
  is the fold of the community modules; that adding one user adds its limit, that a
  smaller set or smaller limits give a smaller sum, and that a rename does not enlarge
  the sum unless the new name has the larger package, is proved there.

Sums, least elements and counting are inductions over finite sets or numbers. The
library states induction with an operator as parameter, which the provers here cannot
instantiate; the proofs take a least counterexample instead, which exists because the
order of the finite subsets is well-founded (`FS_StrictSubsetOrderingWellFounded`,
`WFMin`).

The inductive invariants of the last four modules hold on the instances of their runs
too, where TLC has checked them. Four things were changed for the proofs or came out
of them: the finiteness assumptions of `Resellers` and `SiteApps` and the distinctness
of `NoLink` were implicit before; `Committed` is the fold of a function; `Dirs` is now
counted from the places and the jobs, so that a new one can be had in every state of
the invariant; and `NoMixture` no longer exempts two backups of one second, because
the proof does not need it: what two jobs have written is not whole.

Only model-checked: the liveness properties `BusyEnds` and `FlagFalls`, which are out
of reach of the prover, and the three findings, which are counterexamples. The theorems
hold for every value of the bounds.

## 5. Not modelled, and the plan

Left out for good: rendering, routing and front ends, which are most of the lines;
external tools and what they do to the host; cryptography; the network except as an
arbitrary answer.

Next, in this order:

1. `MaintenanceFlag` - `maintenance.json` with its own read-modify-write steps, and
   the refinement of the one-step flag of `JobLock`.
2. `JobLock` composed with `UpgradeApply` (whose job of the panel begins when it can)
   and with `InstallJournal`.
3. `Backups` - selective backups over a shared staging directory, incremental jobs.
4. `OriginRetry` (starvation), `FeatureGate` (stale refresh), `RemoteNotifications`
   (nonce store), `NetworkChange` (partial failure); `Versions`, the order of versions
   as a pure operator over bounded inputs.

## Further hazards

Met while reading, beside the forty of `PROJECT.json`. Most are modelled and named
in the section of their module; those of modules that do not exist yet are in
the plan.

- `src/upgrade_tip_run.rs:177`: The end of a tip upgrade is announced twice, and the second write can hit the next job.
- `src/main.rs:1054`: The status after a restart is rebuilt from the manifest, which an upgrade writes too: the web server may be called ready though none was installed.
- `src/main.rs:441`: A changed listen port kills the process with a job at work; the flag and the phase must still come down.
- `src/installer_transitions.rs:58`: The selected mail system of a failed install outlives it and decides a later request.
- `src/auto_upgrade.rs:167`: All savers of the settings share one temporary file name: one may rename or truncate the file another is writing.
- `src/auto_upgrade.rs:152`: Seeding at start-up must not take a file that a crash left half replaced for a missing one.
- `src/install_journal.rs:333`: One torn line makes the whole journal unreadable for every later rollback.
- `src/install_journal.rs:79`: A run that cannot begin still rolls back, without an id to limit it.
- `src/install_journal.rs:313`: Backups are named by the second: a file changed twice in a second loses its first backup.
- `src/auto_upgrade_run.rs:218`: last_applied_version is saved before the start, which may still be refused.
- `src/panel_maintenance_mode.rs:227`: A start of the panel clears the flag of its own reload, and must not clear that of a job of the command line.
- `src/panel_service.rs:388`: The detached reload ends every cpn-installer process, a job of the command line too.
- `src/upgrade_pkg.rs:99`: The package database decides that a package is installed; after a commit build the files are others.
- `src/upgrade_tip_prebuilt.rs:28`: The prebuilt paths record the version of the running panel for a binary of another version.
- `src/manifest.rs:303`: A release install keeps the commit of an earlier commit install in the manifest.
- `src/upgrade_tip_release_fallback.rs:287`: The marker of a commit is stamped on whatever binary is on disk, also when the package was taken for installed.
- `src/upgrade_pkg.rs:217`: Two jobs stage the new binary under one temporary name.
- `src/upgrade_tip_run.rs:185`: A commit job that found its binary in place records success and schedules no reload, also when the panel still runs another one.
- `src/panel_website_bandwidth.rs:149`: The period is read before LEDGER_LOCK: a refresh that waited over the turn of the month puts the ledger back into the old month.
- `src/panel_log_retention.rs:125`: Copytruncate empties a log in place: if it grows past the old offset before the next refresh the meter does not notice.
- `src/package_bandwidth.rs:200`: What was appended between the last refresh and a rotation is never metered.
- `src/package_bandwidth.rs:196`: A log that appears in the home of the site is looked for first, and the total of the month begins again.
- `src/panel_ops_bandwidth_reset.rs:87`: The monthly reset writes the ledger in place, without LEDGER_LOCK and from what it has read: it may overwrite a refresh, and a refresh may find the file empty.
- `src/package_bandwidth.rs:211`: A log replaced between the stat and the open of one refresh gets the offset of the old one under the inode of the old one.
- `src/package_bandwidth.rs:200`: A new log may have the inode number of an older one and be longer than the offset.
- `src/account_mgmt.rs:183`: The bootstrap file is truncated and then written; a creation that reads it in between takes it for missing and replaces the owner.
- `src/account_mgmt.rs:34`: Names that differ may share a file name: creating one overwrites the file of the other, or a rename moves onto it.
- `src/account_mfa.rs:374`: A rename between two names of one file writes the record and then removes it.
- `src/account_mgmt.rs:327`: A second rename begins while the references of the first are still being moved.
- `src/account_mgmt.rs:95`: One unreadable file under accounts/ makes the list of accounts fail, and with it every request for a reset link.
- `src/auth_password_reset_api.rs:206`: The link is consumed before the password is written: if that fails, or the process dies, the link is gone and the password is the old one.
- `src/account_mfa.rs:273`: Two first uses mint two keys; the records of one become unreadable.
- `src/site_app_backups.rs:303`: Two restores of one second share their staging and rollback directories.
- `src/site_app_backups.rs:117`: Two backups of one second write one temporary archive.
- `src/site_app_lifecycle.rs:409`: A restore that fails leaves the App it has stopped down.
- `src/panel_site_apps_runtime.rs:280`: A start in the middle of a restore makes the directory, with a stub, that the restore has just set aside.
- `src/site_app_backups.rs:118`: tar reads a tree that is being written.
- `src/panel_site_apps_cmsms.rs:116`: A half copied installer counts as present.
- `src/panel_reseller.rs:75`: resellers.json is truncated in place: a full disk leaves it unreadable, and every operation that reads it fails from then on.
- `src/panel_reseller.rs:292`: New quotas and branding save the whole file as it was when they read it, over the changes of others.
- `src/panel_reseller.rs:244`: A promotion takes a sum that fails for nothing (unwrap_or_default): an unlimited package, or one torn account file, under a name that already has users.
- `src/panel_hub_routes_reseller.rs:351`: A new user whose assignment fails is removed again, by name.
- `src/panel_site_apps_runtime.rs:287`: A transient unit ends with its program: the stub of a fresh Python App at once, after a start that is reported as a success.
- `src/account_mgmt.rs:172`: create_account finds only the file of the key of a name: an account in another spelling of it is not seen, and the lists answer to both.
- `src/package_bandwidth.rs:124`: A ledger that cannot be read is taken for a new one, and the month begins again.
- `src/backups.rs:198`: Two selective backups of one second share a staging directory.
- `src/panel_ops_backup_incremental.rs:186`: A job loads the list of jobs, runs for minutes, and saves the list it had loaded.
- `src/panel_ops_ssl_origin_retry.rs:80`: A pass serves at most two sites in list order: sites that keep failing may starve those behind them.
- `src/login_service_gate.rs:162`: The last good answer is used without a look at its age.
- `src/panel_feature_gate.rs:115`: A refresh that began before a setting was saved publishes the old answer after it.
- `src/panel_notifications_remote.rs:234`: The nonce store is read, checked and rewritten without a lock.
- `src/panel_notifications_remote.rs:258`: The per-minute counter is read and written in two steps; simultaneous calls share one slot.
- `src/panel_network.rs:284`: The preference, the migration and the host name are saved in several steps, each of which may fail.
