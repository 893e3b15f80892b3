------------------------------- MODULE JobLock -------------------------------
(* The "an operation is already in progress" lock of the panel process: the    *)
(* installer status, the handlers that accept an install or a maintenance job, *)
(* the worker that runs it, and the requests that heal an orphaned lock.       *)
(*                                                                             *)
(* The lock is not a mutex.  A job holds it as long as status.phase is one of  *)
(* the busy phases; the handlers check the phase under the status RwLock, the  *)
(* workers rewrite it in many separate lock sections, and every status poll,   *)
(* maintenance request and automatic upgrade check may clear it after reading  *)
(* the phase, the process table, JOB_IN_FLIGHT and the heartbeat one by one.   *)
EXTENDS Naturals

CONSTANTS
    Jobs,         \* job identifiers, each used once
    Requests,     \* request handlers that run at the same time
    MaxCommands,  \* bound: child commands one job runs
    MaxBoots,     \* bound: restarts of the panel process
    Systemd       \* whether the panel runs under systemd

ASSUME BoundsAssumption == MaxCommands \in Nat /\ MaxBoots \in Nat
ASSUME SystemdAssumption == Systemd \in BOOLEAN

VARIABLES
    status,    \* AppState.status: phase, readiness and selections
    inFlight,  \* JOB_IN_FLIGHT
    fresh,     \* LAST_HEARTBEAT_UNIX is at most five seconds old
    flag,      \* maintenance.json: none, open (job phases) or closing
    manifest,  \* install-manifest.json: exists, names a web server, a mail system
    kind,      \* the operation of each job
    pc,        \* where the worker of each job stands
    ran,       \* child commands the job has run
    seen,      \* the phase a command's heartbeat tick has read
    reqPc,     \* where each request handler stands
    goal,      \* what each request handler was called for
    boots,     \* restarts so far
    intruder   \* history: who touched the lock of a running job since boot

statusVars  == <<status, inFlight, fresh, flag, manifest>>
jobVars     == <<kind, pc, ran, seen>>
requestVars == <<reqPc, goal>>
historyVars == <<boots, intruder>>
vars == <<statusVars, jobVars, requestVars, historyVars>>

InstallBusy     == {"configuring", "downloading", "installing", "testing"}
MaintenanceBusy == InstallBusy \cup {"verifying"}
Phases == MaintenanceBusy \cup {"ready", "maintenance", "completed", "failed"}

InstallKinds     == {"server", "mail"}
MaintenanceKinds == {"upgrade", "config"}
Goals == {"poll", "maintenance", "auto"}

\* A job is working from the moment its handler accepted it until its worker
\* has made the status write that announces the outcome.
WorkingPcs == {"queued", "entered", "run", "command", "tick", "verify",
               "rollback", "sweep", "late"}
JobPcs == WorkingPcs \cup {"idle", "settle", "announce", "tail", "lower",
                          "leave", "done"}
ReqPcs == {"idle", "probe", "decide", "clear", "unflag", "act", "recheck"}

Working(j)  == pc[j] \in WorkingPcs
Busy        == status.phase \in MaintenanceBusy
Maintains(j) == kind[j] \in MaintenanceKinds

\* A step that breaks into the lock while some job works is remembered.
Blame(who) ==
    intruder' = IF \E k \in Jobs : Working(k) THEN intruder \cup {who}
                                              ELSE intruder

-----------------------------------------------------------------------------
(* AppState helpers *)

Shown(phase) == IF flag = "none" THEN "none"
                ELSE IF phase \in MaintenanceBusy THEN "open" ELSE "closing"

\* progress: touch the heartbeat, write the phase, mirror it into the flag.
Progress(phase) ==
    /\ status' = [status EXCEPT !.phase = phase]
    /\ flag' = Shown(phase)
    /\ fresh' = TRUE

\* record_install keeps what an earlier manifest named.
RecordInstall ==
    manifest' = [has    |-> TRUE,
                 server |-> manifest.server \/ status.selServer,
                 mail   |-> manifest.mail \/ status.selMail]

Goto(j, label) == pc' = [pc EXCEPT ![j] = label]

Launch(j, k) ==
    /\ Goto(j, "queued")
    /\ kind' = [kind EXCEPT ![j] = k]
    /\ UNCHANGED <<ran, seen>>

-----------------------------------------------------------------------------
(* The install handlers.  Neither heals, neither touches the heartbeat.       *)

CanStartServer(force) ==
    /\ status.phase \notin InstallBusy
    /\ status.serverReady => force
    /\ status.phase \in {"ready", "completed", "failed", "maintenance"}

CanStartMail(force) ==
    /\ status.phase \notin InstallBusy
    /\ status.serverReady
    /\ ~(status.selMail /\ status.phase = "completed" /\ ~force)
    /\ status.phase \in {"ready", "completed", "failed", "maintenance"}

\* Mutant: a forced reinstall keeps the old readiness.
StartServerStillReady(j, force) ==
    /\ pc[j] = "idle"
    /\ CanStartServer(force)
    /\ status' = [status EXCEPT !.phase = "configuring",
                                !.selServer = TRUE,
                                !.selMail = FALSE]
    /\ Launch(j, "server")
    /\ UNCHANGED <<inFlight, fresh, flag, manifest, requestVars, historyVars>>

StartServer(j, force) ==
    /\ pc[j] = "idle"
    /\ CanStartServer(force)
    /\ status' = [status EXCEPT !.phase = "configuring",
                                !.selServer = TRUE,
                                !.selMail = FALSE,
                                !.serverReady = @ /\ ~force]
    /\ Launch(j, "server")
    /\ UNCHANGED <<inFlight, fresh, flag, manifest, requestVars, historyVars>>

StartMail(j, force) ==
    /\ pc[j] = "idle"
    /\ CanStartMail(force)
    /\ status' = [status EXCEPT !.phase = "downloading", !.selMail = TRUE]
    /\ Launch(j, "mail")
    /\ UNCHANGED <<inFlight, fresh, flag, manifest, requestVars, historyVars>>

\* The install thread or its runtime could not be created: the error is dropped
\* and the busy phase has no worker.
JobLost(j) ==
    /\ pc[j] = "queued"
    /\ kind[j] \in InstallKinds
    /\ Goto(j, "done")
    /\ UNCHANGED <<statusVars, kind, ran, seen, requestVars, historyVars>>

-----------------------------------------------------------------------------
(* An install worker.  Its preflight runs at "queued" and reports nothing.    *)

InstallBegin(j) ==
    /\ pc[j] = "queued"
    /\ kind[j] \in InstallKinds
    /\ IF kind[j] = "server"
       THEN Progress("configuring")
       ELSE fresh' = TRUE /\ UNCHANGED <<status, flag>>
    /\ Goto(j, "run")
    /\ UNCHANGED <<inFlight, manifest, kind, ran, seen, requestVars, historyVars>>

\* A mail install that finds no selected server fails by InstallError, unless it
\* is one of a desktop client, which needs none.
InstallSucceed(j) ==
    /\ pc[j] = "run"
    /\ kind[j] \in InstallKinds
    /\ status' = [status EXCEPT !.phase = "completed",
                                !.serverReady = @ \/ kind[j] = "server"]
    /\ RecordInstall \/ UNCHANGED manifest   \* a failed record is only logged
    /\ Goto(j, "done")
    /\ UNCHANGED <<inFlight, fresh, flag, kind, ran, seen, requestVars,
                   boots, intruder>>

\* Mutant: the failure is announced before the rollback.
InstallErrorEarly(j) ==
    /\ pc[j] \in {"queued", "run"}
    /\ kind[j] \in InstallKinds
    /\ status' = [status EXCEPT !.phase = "failed"]
    /\ Goto(j, "rollback")
    /\ UNCHANGED <<inFlight, fresh, flag, manifest, kind, ran, seen, requestVars,
                   historyVars>>

\* An error anywhere in the recipe: finish rolls back before it writes.
InstallError(j) ==
    /\ pc[j] \in {"queued", "run"}
    /\ kind[j] \in InstallKinds
    /\ Goto(j, "rollback")
    /\ UNCHANGED <<statusVars, kind, ran, seen, requestVars, historyVars>>

\* Mutant: the outcome is a phase no handler knows.
InstallFailOddly(j) ==
    /\ pc[j] = "rollback"
    /\ status' = [status EXCEPT !.phase = "rolled back"]
    /\ fresh' = TRUE
    /\ Goto(j, "done")
    /\ UNCHANGED <<inFlight, flag, manifest, kind, ran, seen, requestVars,
                   historyVars>>

InstallFail(j) ==
    /\ pc[j] = "rollback"
    /\ status' = [status EXCEPT !.phase = "failed"]
    /\ fresh' = TRUE
    /\ Goto(j, "done")
    /\ UNCHANGED <<inFlight, flag, manifest, kind, ran, seen, requestVars,
                   historyVars>>

-----------------------------------------------------------------------------
(* A maintenance worker: the tokio task of spawn_maintenance.                 *)

JobEnter(j) ==
    /\ pc[j] = "queued"
    /\ Maintains(j)
    /\ inFlight' = TRUE
    /\ fresh' = TRUE
    /\ Goto(j, "entered")
    /\ UNCHANGED <<status, flag, manifest, kind, ran, seen, requestVars,
                   historyVars>>

\* Configuration only, or already up to date: announce the end by progress,
\* then once more under a lock section of its own.
MaintainNothing(j) ==
    /\ pc[j] = "entered"
    /\ Maintains(j)
    /\ Progress(IF kind[j] = "config" THEN "ready" ELSE "completed")
    /\ Goto(j, "settle")
    /\ UNCHANGED <<inFlight, manifest, kind, ran, seen, requestVars,
                   historyVars>>

\* An upgrade raises the maintenance flag (a failure to do so is only logged)
\* and starts to download.
MaintainBegin(j) ==
    /\ pc[j] = "entered"
    /\ kind[j] = "upgrade"
    /\ status' = [status EXCEPT !.phase = "downloading"]
    /\ flag' \in {"open", Shown("downloading")}
    /\ fresh' = TRUE
    /\ Goto(j, "run")
    /\ UNCHANGED <<inFlight, manifest, kind, ran, seen, requestVars,
                   historyVars>>

\* Packages applied: record the install, then verify without a child process.  A
\* downgrade does not report that it verifies.
MaintainRecord(j) ==
    /\ pc[j] = "run"
    /\ kind[j] = "upgrade"
    /\ RecordInstall
    /\ Progress("verifying") \/ UNCHANGED <<status, flag, fresh>>
    /\ Goto(j, "verify")
    /\ UNCHANGED <<inFlight, kind, ran, seen, requestVars, historyVars>>

\* The release path announces the end in one write, the tip path first calls
\* progress("completed") and then writes again.
MaintainSucceed(j) ==
    /\ pc[j] = "verify"
    /\ \/ /\ status' = [status EXCEPT !.phase = "completed"]
          /\ Goto(j, "tail")
          /\ UNCHANGED <<flag, fresh>>
       \/ Progress("completed") /\ Goto(j, "announce")
    /\ UNCHANGED <<inFlight, manifest, kind, ran, seen, requestVars,
                   historyVars>>

\* The second write of a job that found nothing to do.
Settle(j) ==
    /\ pc[j] = "settle"
    /\ \E configured \in BOOLEAN :
          status' = [status EXCEPT !.phase =
              IF kind[j] = "config" /\ ~configured /\ ~status.serverReady
              THEN "ready" ELSE "completed"]
    /\ Goto(j, "leave")
    /\ Blame("settle")
    /\ UNCHANGED <<inFlight, fresh, flag, manifest, kind, ran, seen,
                   requestVars, boots>>

\* The second write of the tip path; a skipped build needs no reload.
Announce(j) ==
    /\ pc[j] = "announce"
    /\ status' = [status EXCEPT !.phase = "completed"]
    /\ \E label \in {"lower", "tail"} : Goto(j, label)
    /\ Blame("settle")
    /\ UNCHANGED <<inFlight, fresh, flag, manifest, kind, ran, seen,
                   requestVars, boots>>

Lower(j) ==
    /\ pc[j] = "lower"
    /\ flag' = "none"
    /\ fresh' = TRUE
    /\ Goto(j, "leave")
    /\ Blame("tail")
    /\ UNCHANGED <<status, inFlight, manifest, kind, ran, seen, requestVars,
                   boots>>

\* schedule_apply_reload: lower the flag, or mark it restarting and ask systemd.
\* The lock was given up by the write before.
Tail(j) ==
    /\ pc[j] = "tail"
    /\ \E scheduled \in {b \in BOOLEAN : b => Systemd} :
          /\ flag' = IF scheduled THEN Shown("restarting") ELSE "none"
          /\ fresh' = (Systemd \/ fresh)
    /\ Goto(j, "leave")
    /\ Blame("tail")
    /\ UNCHANGED <<status, inFlight, manifest, kind, ran, seen, requestVars,
                   boots>>

\* The JobGuard of a job that went well is dropped.
Leave(j) ==
    /\ pc[j] = "leave"
    /\ inFlight' = FALSE
    /\ Goto(j, "done")
    /\ Blame("leave")
    /\ UNCHANGED <<status, fresh, flag, manifest, kind, ran, seen, requestVars,
                   boots>>

\* run_maintenance on error: clear the flag, sweep old staging directories ...
MaintainError(j) ==
    /\ pc[j] \in {"entered", "run", "verify"}
    /\ Maintains(j)
    /\ flag' = "none"
    /\ Goto(j, "sweep")
    /\ UNCHANGED <<status, inFlight, fresh, manifest, kind, ran, seen,
                   requestVars, historyVars>>

\* ... drop the guard ...
MaintainDrop(j) ==
    /\ pc[j] = "sweep"
    /\ inFlight' = FALSE
    /\ Goto(j, "late")
    /\ UNCHANGED <<status, fresh, flag, manifest, kind, ran, seen, requestVars,
                   historyVars>>

\* ... and only then spawn_maintenance writes the failure.
MaintainFail(j) ==
    /\ pc[j] = "late"
    /\ status' = [status EXCEPT !.phase = "failed"]
    /\ flag' = "none"
    /\ fresh' = TRUE
    /\ Goto(j, "done")
    /\ UNCHANGED <<inFlight, manifest, kind, ran, seen, requestVars, historyVars>>

-----------------------------------------------------------------------------
(* run_command, shared by all workers                                         *)

CommandPhase(j) == IF kind[j] = "mail" THEN "testing" ELSE "installing"

CommandStart(j) ==
    /\ pc[j] = "run"
    /\ ran[j] < MaxCommands
    /\ Progress(CommandPhase(j))
    /\ ran' = [ran EXCEPT ![j] = @ + 1]
    /\ Goto(j, "command")
    /\ UNCHANGED <<inFlight, manifest, kind, seen, requestVars, historyVars>>

\* The 20 s tick of a quiet command reads the phase, logs, and writes it back.
TickRead(j) ==
    /\ pc[j] = "command"
    /\ seen' = [seen EXCEPT ![j] = status.phase]
    /\ fresh' = TRUE
    /\ Goto(j, "tick")
    /\ UNCHANGED <<status, inFlight, flag, manifest, kind, ran, requestVars,
                   historyVars>>

TickWrite(j) ==
    /\ pc[j] = "tick"
    /\ Progress(seen[j])
    /\ seen' = [seen EXCEPT ![j] = "ready"]
    /\ Goto(j, "command")
    /\ UNCHANGED <<inFlight, manifest, kind, ran, requestVars, historyVars>>

\* The child exits, times out or is killed, and its pid is unregistered.  An
\* error continues as InstallError or MaintainError.
CommandEnd(j) ==
    /\ pc[j] = "command"
    /\ fresh' = TRUE
    /\ Goto(j, "run")
    /\ UNCHANGED <<status, inFlight, flag, manifest, kind, ran, seen,
                   requestVars, historyVars>>

\* Any line a worker logs touches the heartbeat; output of a child does not.
JobLog(j) ==
    /\ pc[j] \in {"run", "command", "verify"}
    /\ ~fresh
    /\ fresh' = TRUE
    /\ UNCHANGED <<status, inFlight, flag, manifest, jobVars, requestVars,
                   historyVars>>

ChildAlive == \E j \in Jobs : pc[j] \in {"command", "tick"}

-----------------------------------------------------------------------------
(* heal_orphaned_busy, and the three handlers that call it first              *)

ReqGoto(r, label) == reqPc' = [reqPc EXCEPT ![r] = label]
AfterHeal(r) == IF goal[r] = "poll" THEN "idle" ELSE "act"

HealRead(r, g) ==
    /\ reqPc[r] = "idle"
    /\ goal' = [goal EXCEPT ![r] = g]
    /\ ReqGoto(r, IF Busy THEN "probe" ELSE IF g = "poll" THEN "idle" ELSE "act")
    /\ UNCHANGED <<statusVars, jobVars, historyVars>>

\* Mutant: looking at the process table counts as a heartbeat.
HealProbeTouching(r) ==
    /\ reqPc[r] = "probe"
    /\ fresh' = TRUE
    /\ ReqGoto(r, IF ChildAlive THEN AfterHeal(r) ELSE "decide")
    /\ UNCHANGED <<status, inFlight, flag, manifest, jobVars, goal, historyVars>>

HealProbe(r) ==
    /\ reqPc[r] = "probe"
    /\ ReqGoto(r, IF ChildAlive THEN AfterHeal(r) ELSE "decide")
    /\ UNCHANGED <<statusVars, jobVars, goal, historyVars>>

HealDecide(r) ==
    /\ reqPc[r] = "decide"
    /\ ReqGoto(r, IF inFlight \/ fresh THEN AfterHeal(r) ELSE "clear")
    /\ UNCHANGED <<statusVars, jobVars, goal, historyVars>>

HealClear(r) ==
    /\ reqPc[r] = "clear"
    /\ status' = [status EXCEPT !.phase = "failed"]
    /\ Blame("heal")
    /\ ReqGoto(r, "unflag")
    /\ UNCHANGED <<inFlight, fresh, flag, manifest, jobVars, goal, boots>>

HealUnflag(r) ==
    /\ reqPc[r] = "unflag"
    /\ flag' = "none"
    /\ ReqGoto(r, AfterHeal(r))
    /\ UNCHANGED <<status, inFlight, fresh, manifest, jobVars, goal, historyVars>>

\* Mutant: the handler leaves the flag to the task it spawns.
AcceptUnmarked(j, k) ==
    /\ pc[j] = "idle"
    /\ fresh' = TRUE
    /\ status' = [status EXCEPT !.phase = "downloading"]
    /\ Launch(j, k)
    /\ UNCHANGED <<inFlight, flag, manifest>>

AcceptMaintenance(j, k) ==
    /\ pc[j] = "idle"
    /\ inFlight' = TRUE
    /\ fresh' = TRUE
    /\ status' = [status EXCEPT !.phase = "downloading"]
    /\ Launch(j, k)
    /\ UNCHANGED <<flag, manifest>>

\* POST /api/maintenance: 409 while busy, else accept under the write lock.
StartMaintenance(r) ==
    /\ reqPc[r] = "act"
    /\ goal[r] = "maintenance"
    /\ ReqGoto(r, "idle")
    /\ \/ Busy /\ UNCHANGED <<statusVars, jobVars>>
       \/ ~Busy /\ \E j \in Jobs, k \in MaintenanceKinds : AcceptMaintenance(j, k)
    /\ UNCHANGED <<goal, historyVars>>

\* run_auto_upgrade_check: skip while busy; else go on to the release lookup ...
AutoCheck(r) ==
    /\ reqPc[r] = "act"
    /\ goal[r] = "auto"
    /\ ReqGoto(r, IF inFlight \/ Busy THEN "idle" ELSE "recheck")
    /\ UNCHANGED <<statusVars, jobVars, goal, historyVars>>

\* Mutant: no second look after the lookup.
AutoStartUnchecked(r) ==
    /\ reqPc[r] = "recheck"
    /\ ReqGoto(r, "idle")
    /\ \/ UNCHANGED <<statusVars, jobVars>>
       \/ \E j \in Jobs : AcceptMaintenance(j, "upgrade")
    /\ UNCHANGED <<goal, historyVars>>

\* ... which finds nothing to do, or looks again under the write lock.
AutoStart(r) ==
    /\ reqPc[r] = "recheck"
    /\ ReqGoto(r, "idle")
    /\ \/ UNCHANGED <<statusVars, jobVars>>
       \/ ~Busy /\ \E j \in Jobs : AcceptMaintenance(j, "upgrade")
    /\ UNCHANGED <<goal, historyVars>>

\* A bound, not code: no job identifier is left for this request.
NoJobLeft(r) ==
    /\ reqPc[r] = "act"
    /\ \A j \in Jobs : pc[j] # "idle"
    /\ ReqGoto(r, "idle")
    /\ UNCHANGED <<statusVars, jobVars, goal, historyVars>>

-----------------------------------------------------------------------------
(* Time and restarts                                                          *)

HeartbeatAges ==
    /\ fresh
    /\ fresh' = FALSE
    /\ UNCHANGED <<status, inFlight, flag, manifest, jobVars, requestVars,
                   historyVars>>

\* Mutant: only the restarting phase has a time to live.
FlagExpiresClosing ==
    /\ flag = "closing"
    /\ \A j \in Jobs : ~(Working(j) /\ Maintains(j))
    /\ flag' = "none"
    /\ UNCHANGED <<status, inFlight, fresh, manifest, jobVars, requestVars,
                   historyVars>>

\* load_active finds the flag past its time to live, which every progress call
\* of a live upgrade renews.
FlagExpires ==
    /\ flag # "none"
    /\ \A j \in Jobs : ~(Working(j) /\ Maintains(j))
    /\ flag' = "none"
    /\ UNCHANGED <<status, inFlight, fresh, manifest, jobVars, requestVars,
                   historyVars>>

\* The scheduled reload, a changed listen port (SIGKILL without a busy check) or
\* a crash: workers and handlers vanish, the status is built from disk.
Restart ==
    /\ boots < MaxBoots
    /\ boots' = boots + 1
    /\ \E bootstrap \in BOOLEAN :
          status' = [phase |-> IF manifest.has \/ bootstrap THEN "maintenance"
                                                            ELSE "ready",
                     serverReady |-> manifest.server \/ manifest.has,
                     selServer |-> manifest.server,
                     selMail |-> manifest.mail]
    /\ inFlight' = FALSE
    /\ fresh' = FALSE
    /\ flag' = IF flag = "closing" THEN "none" ELSE flag
    /\ pc' = [j \in Jobs |-> IF pc[j] = "idle" THEN "idle" ELSE "done"]
    /\ reqPc' = [r \in Requests |-> "idle"]
    /\ intruder' = {}
    /\ UNCHANGED <<manifest, kind, ran, goal>>
    /\ seen' = [j \in Jobs |-> "ready"]

-----------------------------------------------------------------------------
Init ==
    /\ status = [phase |-> "ready", serverReady |-> FALSE, selServer |-> FALSE,
                 selMail |-> FALSE]
    /\ inFlight = FALSE
    /\ fresh = FALSE
    /\ flag = "none"
    /\ manifest = [has |-> FALSE, server |-> FALSE, mail |-> FALSE]
    /\ kind = [j \in Jobs |-> "server"]
    /\ pc = [j \in Jobs |-> "idle"]
    /\ ran = [j \in Jobs |-> 0]
    /\ seen = [j \in Jobs |-> "ready"]
    /\ reqPc = [r \in Requests |-> "idle"]
    /\ goal = [r \in Requests |-> "poll"]
    /\ boots = 0
    /\ intruder = {}

StartInstall(j) == \E force \in BOOLEAN : StartServer(j, force) \/ StartMail(j, force)

\* The steps that bring a worker closer to its end.
JobStep(j) ==
    \/ JobLost(j) \/ InstallBegin(j) \/ InstallSucceed(j) \/ InstallError(j)
    \/ InstallFail(j) \/ JobEnter(j) \/ MaintainNothing(j) \/ MaintainBegin(j)
    \/ MaintainRecord(j) \/ MaintainSucceed(j) \/ Settle(j) \/ Announce(j)
    \/ Lower(j) \/ Tail(j) \/ Leave(j) \/ MaintainError(j) \/ MaintainDrop(j)
    \/ MaintainFail(j) \/ CommandStart(j)

Tick(j) == TickRead(j) \/ TickWrite(j)

HealStep(r) == HealProbe(r) \/ HealDecide(r) \/ HealClear(r) \/ HealUnflag(r)
ActStep(r)  == StartMaintenance(r) \/ AutoCheck(r) \/ AutoStart(r) \/ NoJobLeft(r)

Next ==
    \/ \E j \in Jobs : StartInstall(j) \/ JobStep(j) \/ Tick(j) \/ CommandEnd(j)
                        \/ JobLog(j)
    \/ \E r \in Requests : (\E g \in Goals : HealRead(r, g)) \/ HealStep(r)
                            \/ ActStep(r)
    \/ HeartbeatAges
    \/ FlagExpires
    \/ Restart

Spec == Init /\ [][Next]_vars

\* Threads and tasks are scheduled; a command ends, at the latest by its 1800 s
\* timeout; time passes; a status page polls and visitors read the flag.
Fairness ==
    /\ \A j \in Jobs : /\ WF_vars(JobStep(j))
                       /\ WF_vars(TickWrite(j))
                       /\ SF_vars(CommandEnd(j))
    /\ \A r \in Requests : /\ WF_vars(HealRead(r, "poll"))
                           /\ WF_vars(HealStep(r))
                           /\ WF_vars(ActStep(r))
    /\ WF_vars(HeartbeatAges)
    /\ WF_vars(FlagExpires)

FairSpec == Spec /\ Fairness

-----------------------------------------------------------------------------
(* Properties *)

TypeOK ==
    /\ status \in [phase : Phases, serverReady : BOOLEAN, selServer : BOOLEAN,
                   selMail : BOOLEAN]
    /\ inFlight \in BOOLEAN
    /\ fresh \in BOOLEAN
    /\ flag \in {"none", "open", "closing"}
    /\ manifest \in [has : BOOLEAN, server : BOOLEAN, mail : BOOLEAN]
    /\ kind \in [Jobs -> InstallKinds \cup MaintenanceKinds]
    /\ pc \in [Jobs -> JobPcs]
    /\ ran \in [Jobs -> 0..MaxCommands]
    /\ seen \in [Jobs -> Phases]
    /\ reqPc \in [Requests -> ReqPcs]
    /\ goal \in [Requests -> Goals]
    /\ boots \in 0..MaxBoots
    /\ intruder \subseteq {"heal", "settle", "tail", "leave"}

\* Nobody but its own worker has written the phase of a job at work.
Undisturbed == "heal" \notin intruder /\ "settle" \notin intruder

\* The handlers never let two jobs work at once, and a second job can only get
\* in after a heal cleared the lock of a live worker or a finished job wrote its
\* end a second time: no order of accepts, ticks, outcomes, retries and restarts
\* opens another way.
Exclusion ==
    Undisturbed => \A j, k \in Jobs : Working(j) /\ Working(k) => j = k

\* While a web server install works the panel does not claim a ready server, and
\* a mail install only works on top of one that stays ready to its end.
ReadinessIsStable ==
    Undisturbed => \A j \in Jobs : Working(j) =>
        /\ kind[j] = "server" => ~status.serverReady
        /\ kind[j] = "mail"   => status.serverReady

\* JOB_IN_FLIGHT is up from the accepted request to the drop of the guard, as
\* long as no earlier job's guard fell in between.
InFlightCovers ==
    Undisturbed /\ "leave" \notin intruder =>
        \A j \in Jobs : Maintains(j) /\ Working(j) /\ pc[j] # "late" => inFlight

\* All of this module, its heals and handlers included, does what Operation
\* promises: an operation is accepted only when none works, the lock falls with
\* the outcome and not before, and a heal clears the lock of no live worker
\* without the promise being over.
Op == INSTANCE Operation WITH
          Ops       <- Jobs,
          working   <- {j \in Jobs : Working(j)},
          accepted  <- {j \in Jobs : pc[j] # "idle"},
          locked    <- Busy,
          disturbed <- ~Undisturbed
ImplementsOperation == Op!Spec

\* Whatever leaves the panel busy - a worker, a thread that never started, a
\* tick that wrote the phase back after a heal - it becomes idle again.
BusyEnds == Busy ~> ~Busy

\* docs/PANEL-UPGRADE-MAINTENANCE.md: no stuck maintenance.
FlagFalls == flag # "none" ~> flag = "none"

\* upgrade_busy.rs, header: the lock is cleared "only when the in-process job is
\* gone and no upgrade child remains".
HealSparesLiveJobs == "heal" \notin intruder

=============================================================================
