------------------------- MODULE UpgradeApply_proofs -------------------------
(* Proofs about UpgradeApply for any set of commits, releases and versions and *)
(* any number of jobs and faults.                                              *)
EXTENDS UpgradeApply, TLAPS

JobRecords == [pc: Pcs, act: Actions, target: Commits, skipped: BOOLEAN,
               exe: Nat, pkg: Nat, next: {"record", "match", "stamp"}]

\* Only commit jobs go through the steps of apply_tip_ref, only release jobs
\* through those of apply_release; a job that found its binary installs none.
Shaped(r) ==
    /\ r.skipped => r.act = "tip" /\ r.pc \in {"record", "verify", "checks", "finish"}
    /\ r.pc \in {"check", "artifact", "match", "package", "stamp", "source"}
          => r.act = "tip"
    /\ r.pc = "apply" => r.act # "tip"
    /\ r.pc = "posttrans" => (r.next = "record" <=> r.act # "tip")

ShapedJobs == {r \in JobRecords : Shaped(r)}
JobsOK == job \in [Procs -> ShapedJobs]

-----------------------------------------------------------------------------
(* Type correctness *)

LEMMA SomeCommit == Some \in Commits
  BY UpgradeAssumption DEF Some

LEMMA IdleType == Idle \in ShapedJobs /\ Idle.pc = "idle" /\ ~Idle.skipped
                  /\ Idle.act = "tip"
  BY SomeCommit DEF Idle, ShapedJobs, Shaped, JobRecords, Pcs, Actions

LEMMA NoneIsNoBinary == None \notin Binaries
  BY UpgradeAssumption DEF Binaries

\* Jobs that end leave the others as they are.
LEMMA KilledJobs ==
  ASSUME JobsOK, NEW ps \in SUBSET Procs
  PROVE  /\ Killed(ps) \in [Procs -> ShapedJobs]
         /\ \A p \in Procs : Killed(ps)[p] = IF p \in ps THEN Idle ELSE job[p]
  BY IdleType DEF Killed, JobsOK

\* A start of the panel: the new values but those of the jobs.
LEMMA BootType ==
  ASSUME TypeOK, Boot
  PROVE  /\ running' \in Binaries /\ running' # None
         /\ flag' \in {None, "working", "restarting"}
         /\ behind' \subseteq {"failed", "unscheduled"}
         /\ odd' \subseteq {"cut", "expired", "unflagged", "second", "stale"}
  <1>1. odd' \subseteq odd \cup {"cut"}
    BY DEF Boot, CutShort
  <1> QED
    BY <1>1, NoneIsNoBinary DEF Boot, TypeOK, Heal

-----------------------------------------------------------------------------
(* The jobs *)

LEMMA JobsInit == Init => JobsOK
  BY IdleType DEF Init, JobsOK

LEMMA JobsPanel == TypeOK /\ JobsOK /\ Panel => JobsOK'
  <1> SUFFICES ASSUME TypeOK, JobsOK, Panel PROVE JobsOK'
    OBVIOUS
  <1>1. CASE Crash
    BY <1>1, KilledJobs DEF Crash, JobsOK, Procs
  <1>2. CASE ReloadStop
    BY <1>2, KilledJobs DEF ReloadStop, Ended, JobsOK
  <1>3. CASE UNCHANGED job
    BY <1>3 DEF JobsOK
  <1> QED
    BY <1>1, <1>2, <1>3 DEF Panel, ReloadStart, Expire, Reconcile

\* One job becomes another record of the right shape.
LEMMA JobsSet ==
  ASSUME JobsOK, NEW p \in Procs, NEW r \in ShapedJobs, job' = [job EXCEPT ![p] = r]
  PROVE  JobsOK'
  BY DEF JobsOK

LEMMA JobsStep ==
  ASSUME TypeOK, JobsOK, NEW p \in Procs, Step(p)
  PROVE  JobsOK'
  <1>v. \A c \in Commits : Version[c] \in Nat
    BY UpgradeAssumption
  <1>j. job[p] \in ShapedJobs
    BY DEF JobsOK
  <1>k. ASSUME NEW label \in Pcs, GoTo(p, label),
               Shaped([job[p] EXCEPT !.pc = label])
        PROVE  JobsOK'
    <2>1. [job[p] EXCEPT !.pc = label] \in ShapedJobs
      BY <1>j, <1>k DEF ShapedJobs, JobRecords
    <2>2. job' = [job EXCEPT ![p] = [job[p] EXCEPT !.pc = label]]
      BY <1>k DEF GoTo
    <2> QED
      BY <2>1, <2>2, JobsSet
  <1> USE DEF Pcs, Actions
  <1>1. ASSUME NEW act \in Actions, NEW c \in Commits, NEW pc \in {"apply", "check"},
               pc = "apply" <=> act # "tip", Begin(p, act, c, pc)
        PROVE  JobsOK'
    <2> DEFINE exe == Version[IF p = "ui" THEN running.code ELSE disk.code]
               r == [Idle EXCEPT !.pc = pc, !.act = act, !.target = c, !.exe = exe]
    <2>1. exe \in Nat
      BY <1>1, <1>v DEF Begin, Binaries, Procs, TypeOK
    <2>2. r \in ShapedJobs
      BY <1>1, <2>1, IdleType DEF ShapedJobs, Shaped, JobRecords
    <2>3. job' = [job EXCEPT ![p] = r]
      BY <1>1 DEF Begin
    <2> QED
      BY <2>2, <2>3, JobsSet
  <1>2. ASSUME NEW c \in Commits, NEW next \in {"record", "match", "stamp"},
               InstallRpm(p, c, next), job[p].pc \in {"apply", "artifact", "package"},
               next = "record" <=> job[p].act # "tip"
        PROVE  JobsOK'
    <2>1. CASE GoTo(p, next)
      <3>1. Shaped([job[p] EXCEPT !.pc = next])
        BY <1>2, <1>j DEF ShapedJobs, Shaped, JobRecords
      <3> QED
        BY <2>1, <3>1, <1>k
    <2>2. CASE job' = [job EXCEPT ![p].pc = "posttrans", ![p].next = next]
      <3> DEFINE r == [job[p] EXCEPT !.pc = "posttrans", !.next = next]
      <3>1. r \in ShapedJobs
        BY <1>2, <1>j DEF ShapedJobs, Shaped, JobRecords
      <3>2. job' = [job EXCEPT ![p] = r]
        BY <2>2, <1>j DEF JobsOK
      <3> QED
        BY <3>1, <3>2, JobsSet
    <2> QED
      BY <1>2, <2>1, <2>2 DEF InstallRpm
  <1>3. CASE PostTrans(p)
    <2>1. job[p].next \in Pcs /\ Shaped([job[p] EXCEPT !.pc = job[p].next])
      BY <1>3, <1>j DEF PostTrans, ShapedJobs, Shaped, JobRecords
    <2>2. [job[p] EXCEPT !.pc = job[p].next] \in ShapedJobs
      BY <2>1, <1>j DEF ShapedJobs, JobRecords
    <2>3. CASE GoTo(p, job[p].next)
      BY <2>1, <2>3, <1>k
    <2>4. CASE job' = Killed({"ui"})
      BY <2>4, KilledJobs DEF Procs, JobsOK
    <2>5. CASE p # "ui" /\ job' = [Killed({"ui"}) EXCEPT ![p].pc = job[p].next]
      <3>1. Killed({"ui"})[p] = job[p] /\ Killed({"ui"}) \in [Procs -> ShapedJobs]
        BY <2>5, KilledJobs DEF Procs
      <3>2. job' = [Killed({"ui"}) EXCEPT ![p] = [job[p] EXCEPT !.pc = job[p].next]]
        BY <2>5, <3>1
      <3> QED
        BY <2>2, <3>1, <3>2 DEF JobsOK
    <2> QED
      BY <1>3, <2>3, <2>4, <2>5 DEF PostTrans
  <1>4. CASE ApplyRelease(p)
    BY <1>4, <1>2, <1>j DEF ApplyRelease, ShapedJobs, Shaped, JobRecords
  <1>5. CASE ArtifactRpm(p)
    BY <1>5, <1>2, <1>j DEF ArtifactRpm, ShapedJobs, Shaped, JobRecords
  <1>6. CASE PackageApply(p)
    BY <1>6, <1>2, <1>j, UpgradeAssumption DEF PackageApply, ShapedJobs, Shaped,
       JobRecords
  <1>7. CASE CheckDisk(p)
    <2> DEFINE r == [job[p] EXCEPT !.pc = "record", !.skipped = TRUE,
                                   !.pkg = job[p].exe]
               t == [job[p] EXCEPT !.pc = "artifact"]
    <2>1. r \in ShapedJobs /\ t \in ShapedJobs
      BY <1>7, <1>j DEF CheckDisk, ShapedJobs, Shaped, JobRecords
    <2>2. job' = [job EXCEPT ![p] = r] \/ job' = [job EXCEPT ![p] = t]
      BY <1>7, <1>j DEF CheckDisk, JobsOK
    <2> QED
      BY <2>1, <2>2, JobsSet
  <1>8. CASE Match(p)
    <2> DEFINE r == [job[p] EXCEPT !.pc = "record", !.pkg = job[p].exe]
               t == [job[p] EXCEPT !.pc = "package"]
    <2>1. r \in ShapedJobs /\ t \in ShapedJobs
      BY <1>8, <1>j DEF Match, ShapedJobs, Shaped, JobRecords
    <2>2. job' = [job EXCEPT ![p] = r] \/ job' = [job EXCEPT ![p] = t]
      BY <1>8, <1>j DEF Match, JobsOK
    <2> QED
      BY <2>1, <2>2, JobsSet
  <1>9. CASE Stamp(p) \/ Source(p)
    <2> DEFINE r == [job[p] EXCEPT !.pc = "record", !.pkg = Version[job[p].target]]
    <2>1. job[p].target \in Commits
      BY <1>j DEF ShapedJobs, JobRecords
    <2>2. r \in ShapedJobs
      BY <1>9, <1>j, <1>v, <2>1 DEF Stamp, Source, ShapedJobs, Shaped, JobRecords
    <2>3. job' = [job EXCEPT ![p] = r]
      BY <1>9, <1>j DEF Stamp, Source, JobsOK
    <2> QED
      BY <2>2, <2>3, JobsSet
  <1>10. CASE ArtifactBins(p) \/ ArtifactNone(p) \/ PackageFails(p) \/ Record(p)
              \/ ChecksPass(p)
    <2>1. PICK label \in {"match", "package", "source", "finish", "verify"} :
             GoTo(p, label) /\ (label \in {"match", "package", "source"} =>
                                  job[p].pc \in {"artifact", "package", "stamp"})
      BY <1>10 DEF ArtifactBins, ArtifactNone, PackageFails, Record, ChecksPass
    <2>2. Shaped([job[p] EXCEPT !.pc = label])
      BY <2>1, <1>j DEF ShapedJobs, Shaped, JobRecords
    <2> QED
      BY <2>1, <2>2, <1>k
  <1>11. CASE Verify(p)
    <2>1. [job[p] EXCEPT !.pc = "checks"] \in ShapedJobs
      BY <1>j DEF ShapedJobs, Shaped, JobRecords
    <2>2. CASE GoTo(p, "checks")
      <3>1. job' = [job EXCEPT ![p] = [job[p] EXCEPT !.pc = "checks"]]
        BY <2>2 DEF GoTo
      <3> QED
        BY <2>1, <3>1, JobsSet
    <2>3. CASE p = "cli" /\ job' = [Killed({"ui"}) EXCEPT ![p].pc = "checks"]
      <3>1. Killed({"ui"})[p] = job[p] /\ Killed({"ui"}) \in [Procs -> ShapedJobs]
        BY <2>3, KilledJobs DEF Procs
      <3>2. job' = [Killed({"ui"}) EXCEPT ![p] = [job[p] EXCEPT !.pc = "checks"]]
        BY <2>3, <3>1
      <3> QED
        BY <2>1, <3>1, <3>2 DEF JobsOK
    <2> QED
      BY <1>11, <2>2, <2>3 DEF Verify
  <1>12. CASE Finish(p) \/ Fail(p)
    BY <1>12, KilledJobs DEF Finish, Fail, JobsOK
  <1> QED
    BY <1>1, <1>3, <1>4, <1>5, <1>6, <1>7, <1>8, <1>9, <1>10, <1>11, <1>12,
       UpgradeAssumption DEF Step, BeginRelease, BeginTip

-----------------------------------------------------------------------------
(* Type correctness *)

\* What the rest of TypeOK says of everything but the jobs.
Others ==
    /\ disk \in Binaries
    /\ db \in Nat
    /\ running \in Binaries \cup {None}
    /\ enabled \in BOOLEAN
    /\ manifest \in [version: Nat, commit: Commits \cup {None}]
    /\ flag \in {None, "working", "restarting"}
    /\ reload \in BOOLEAN
    /\ jobs \in 0..MaxJobs /\ faults \in 0..MaxFaults
    /\ behind \subseteq {"failed", "unscheduled"}
    /\ odd \subseteq {"cut", "expired", "unflagged", "second", "stale"}
Down == running = None => ~Busy("ui") /\ reload

LEMMA TypeParts == JobsOK => (TypeOK <=> Others /\ Down)
  BY DEF TypeOK, Others, Down, JobsOK, ShapedJobs, Shaped, JobRecords

LEMMA TypePartsNext == JobsOK' /\ Others' /\ Down' => TypeOK'
  BY DEF TypeOK, Others, Down, JobsOK, ShapedJobs, Shaped, JobRecords, Busy

LEMMA TypeInit == Init => TypeOK
  <1> SUFFICES ASSUME Init PROVE TypeOK
    OBVIOUS
  <1>1. PICK r \in Releases :
          /\ disk = [code |-> r, sha |-> r]
          /\ db = Version[r]
          /\ manifest = [version |-> Version[r], commit |-> None]
    BY DEF Init
  <1>2. disk \in Binaries /\ db \in Nat
        /\ manifest \in [version: Nat, commit: Commits \cup {None}]
    BY <1>1, UpgradeAssumption DEF Binaries
  <1>3. running \in Binaries /\ running # None
    BY <1>2, NoneIsNoBinary DEF Init
  <1>4. jobs \in 0..MaxJobs /\ faults \in 0..MaxFaults
    BY UpgradeAssumption DEF Init
  <1>5. /\ enabled \in BOOLEAN /\ reload \in BOOLEAN
        /\ flag \in {None, "working", "restarting"}
        /\ behind \subseteq {"failed", "unscheduled"}
        /\ odd \subseteq {"cut", "expired", "unflagged", "second", "stale"}
    BY DEF Init
  <1> QED
    BY <1>2, <1>3, <1>4, <1>5, JobsInit, TypeParts DEF Others, Down

LEMMA TypePanel ==
  ASSUME TypeOK, JobsOK, Panel
  PROVE  Others' /\ Down'
  <1> USE DEF Others, Down
  <1>o. Others /\ Down
    BY TypeParts
  <1>1. CASE Crash
    <2>1. faults' \in 0..MaxFaults
      BY <1>1, UpgradeAssumption DEF Crash, TypeOK
    <2> QED
      BY <1>1, <1>o, <2>1, BootType DEF Crash
  <1>2. CASE ReloadStop
    <2>1. odd' \subseteq odd \cup {"cut"}
      BY <1>2 DEF ReloadStop, CutShort
    <2>2. ~Busy("ui")'
      BY <1>2, KilledJobs, IdleType DEF ReloadStop, Ended, Busy, Procs
    <2> QED
      BY <1>2, <1>o, <2>1, <2>2 DEF ReloadStop
  <1>3. CASE ReloadStart
    BY <1>3, <1>o, BootType DEF ReloadStart
  <1>4. CASE Expire
    <2>1. faults' \in 0..MaxFaults
      BY <1>4, UpgradeAssumption DEF Expire, TypeOK
    <2> QED
      BY <1>4, <1>o, <2>1 DEF Expire, Busy
  <1>5. CASE Reconcile
    <2>1. Version[running.code] \in Nat
      BY <1>5, UpgradeAssumption DEF Reconcile, TypeOK, Binaries
    <2>2. manifest' \in [version: Nat, commit: Commits \cup {None}]
      BY <1>5, <1>o, <2>1 DEF Reconcile
    <2> QED
      BY <1>5, <1>o, <2>2 DEF Reconcile, Busy
  <1> QED
    BY <1>1, <1>2, <1>3, <1>4, <1>5 DEF Panel

\* A job of the panel that goes on, or ends, is the panel's: while the panel is
\* down nothing of it moves.
LEMMA UiStays ==
  ASSUME TypeOK, JobsOK, NEW p \in Procs, Step(p), running' = None
  PROVE  Down'
  <1>1. running = None
    BY BootType DEF Step, BeginRelease, BeginTip, Begin, ApplyRelease, PostTrans,
       CheckDisk, ArtifactBins, ArtifactRpm, ArtifactNone, Match, PackageApply,
       PackageFails, Stamp, Source, Record, Verify, ChecksPass, Finish, Fail
  <1>2. job["ui"].pc = "idle" /\ reload
    BY <1>1 DEF TypeOK, Busy
  <1>3. p = "cli"
    BY <1>1, <1>2 DEF Procs, Step, BeginRelease, BeginTip, Begin, ApplyRelease,
       PostTrans, CheckDisk, ArtifactBins, ArtifactRpm, ArtifactNone, Match,
       PackageApply, PackageFails, Stamp, Source, Record, Verify, ChecksPass,
       Finish, Fail
  <1>4. job'["ui"] = job["ui"] \/ job'["ui"] = Idle
    BY <1>3, KilledJobs DEF Procs, Step, BeginRelease, BeginTip, Begin,
       ApplyRelease, InstallRpm, PostTrans, CheckDisk, ArtifactBins, ArtifactRpm,
       ArtifactNone, Match, PackageApply, PackageFails, Stamp, Source, Record,
       Verify, ChecksPass, Finish, Fail, GoTo, JobsOK
  <1>5. reload'
    BY <1>2 DEF Step, BeginRelease, BeginTip, Begin, ApplyRelease, PostTrans,
       CheckDisk, ArtifactBins, ArtifactRpm, ArtifactNone, Match, PackageApply,
       PackageFails, Stamp, Source, Record, Verify, ChecksPass, Finish, Fail
  <1> QED
    BY <1>2, <1>4, <1>5, IdleType DEF Down, Busy

LEMMA TypeStep ==
  ASSUME TypeOK, JobsOK, NEW p \in Procs, Step(p)
  PROVE  Others'
  <1> USE DEF Others
  <1>o. Others
    BY TypeParts
  <1>v. \A c \in Commits : Version[c] \in Nat
    BY UpgradeAssumption
  <1>t. job[p].target \in Commits /\ job[p].pkg \in Nat
    BY DEF JobsOK, ShapedJobs, JobRecords
  <1>1. ASSUME NEW act, NEW c, NEW pc, Begin(p, act, c, pc)
        PROVE  Others'
    <2>1. jobs' \in 0..MaxJobs
      BY <1>1, UpgradeAssumption DEF Begin, TypeOK
    <2>2. /\ flag' \in {None, "working", "restarting"}
          /\ odd' \subseteq {"cut", "expired", "unflagged", "second", "stale"}
      BY <1>1, <1>o DEF Begin
    <2> QED
      BY <1>1, <1>o, <2>1, <2>2 DEF Begin
  <1>2. ASSUME NEW c \in Commits, NEW next, InstallRpm(p, c, next),
               UNCHANGED <<running, enabled, manifest, flag, reload, jobs, faults,
                           behind>>
        PROVE  Others'
    <2>1. disk' \in Binaries /\ db' \in Nat
      BY <1>2, <1>o, <1>v DEF InstallRpm, Binaries
    <2>2. odd' \subseteq {"cut", "expired", "unflagged", "second", "stale"}
      BY <1>2, <1>o DEF InstallRpm
    <2> QED
      BY <1>2, <1>o, <2>1, <2>2
  <1>3. CASE ApplyRelease(p)
    BY <1>2, <1>3, <1>t DEF ApplyRelease
  <1>4. CASE ArtifactRpm(p)
    BY <1>2, <1>4, <1>t DEF ArtifactRpm
  <1>5. CASE PackageApply(p)
    BY <1>2, <1>5, UpgradeAssumption DEF PackageApply
  <1>6. CASE PostTrans(p)
    BY <1>6, <1>o, BootType DEF PostTrans
  <1>7. CASE ArtifactBins(p)
    <2>1. disk' \in Binaries
      BY <1>7, <1>t DEF ArtifactBins, Binaries
    <2> QED
      BY <1>7, <1>o, <2>1 DEF ArtifactBins
  <1>8. CASE Stamp(p) \/ Source(p)
    <2>1. disk' \in Binaries
      BY <1>8, <1>o, <1>t DEF Stamp, Source, Binaries
    <2> QED
      BY <1>8, <1>o, <2>1 DEF Stamp, Source
  <1>9. CASE Record(p)
    <2>1. manifest' \in [version: Nat, commit: Commits \cup {None}]
      BY <1>9, <1>o, <1>t, <1>v DEF Record
    <2> QED
      BY <1>9, <1>o, <2>1 DEF Record
  <1>10. CASE Verify(p)
    BY <1>10, <1>o, BootType DEF Verify
  <1>11. CASE Finish(p)
    <2>1. /\ reload' \in BOOLEAN
          /\ flag' \in {None, "working", "restarting"}
      BY <1>11, <1>o DEF Finish, Reloads
    <2>2. behind' \subseteq {"failed", "unscheduled"}
      BY <1>11, <1>o DEF Finish
    <2> QED
      BY <1>11, <1>o, <2>1, <2>2 DEF Finish
  <1>12. CASE Fail(p)
    <2>1. behind' \subseteq {"failed", "unscheduled"}
      BY <1>12, <1>o DEF Fail
    <2> QED
      BY <1>12, <1>o, <2>1 DEF Fail
  <1>13. CASE CheckDisk(p) \/ ArtifactNone(p) \/ Match(p) \/ PackageFails(p)
              \/ ChecksPass(p)
    BY <1>13, <1>o DEF CheckDisk, ArtifactNone, Match, PackageFails, ChecksPass
  <1> QED
    BY <1>1, <1>3, <1>4, <1>5, <1>6, <1>7, <1>8, <1>9, <1>10, <1>11, <1>12,
       <1>13 DEF Step, BeginRelease, BeginTip

TypeInv == TypeOK /\ JobsOK

LEMMA TypeNext == TypeInv /\ [Next]_vars => TypeInv'
  <1> SUFFICES ASSUME TypeOK, JobsOK, [Next]_vars PROVE TypeOK' /\ JobsOK'
    BY DEF TypeInv
  <1>1. CASE Panel
    BY <1>1, JobsPanel, TypePanel, TypePartsNext
  <1>2. ASSUME NEW p \in Procs, Step(p)
        PROVE  TypeOK' /\ JobsOK'
    <2>1. Down'
      BY <1>2, UiStays DEF Down
    <2> QED
      BY <1>2, <2>1, JobsStep, TypeStep, TypePartsNext
  <1>3. CASE UNCHANGED vars
    BY <1>3 DEF vars, TypeOK, JobsOK, Busy
  <1> QED
    BY <1>1, <1>2, <1>3 DEF Next

LEMMA TypeInvariant == Spec => []TypeInv
  <1>1. Init => TypeInv
    BY TypeInit, JobsInit DEF TypeInv
  <1> QED
    BY <1>1, TypeNext, PTL DEF Spec

\* Types, whatever the commits, versions, jobs and faults; the panel has no job
\* while it is down, and only a commit job finds its binary in place.
THEOREM TypeCorrect == Spec => []TypeOK
  <1>1. TypeInv => TypeOK
    BY DEF TypeInv
  <1> QED
    BY <1>1, TypeInvariant, PTL

-----------------------------------------------------------------------------
(* One job at a time                                                          *)

One == "second" \notin odd => \A p, q \in Procs : Busy(p) /\ Busy(q) => p = q

\* What is remembered is not forgotten.
LEMMA OddGrows == [Next]_vars => odd \subseteq odd'
  BY DEF Next, vars, Panel, Crash, ReloadStop, ReloadStart, Expire, Reconcile, Boot,
     Step, BeginRelease, BeginTip, Begin, ApplyRelease, InstallRpm, PostTrans,
     CheckDisk, ArtifactBins, ArtifactRpm, ArtifactNone, Match, PackageApply,
     PackageFails, Stamp, Source, Record, Verify, ChecksPass, Finish, Fail

\* A step of one job leaves the other alone, but for the panel's job, which a
\* restart may end.
LEMMA OtherJob ==
  ASSUME TypeInv, NEW p \in Procs, Step(p), NEW q \in Procs \ {p}
  PROVE  job'[q] = job[q] \/ job'[q] = Idle
  BY KilledJobs DEF TypeInv, Procs, Step, BeginRelease, BeginTip, Begin,
     ApplyRelease, InstallRpm, PostTrans, CheckDisk, ArtifactBins, ArtifactRpm,
     ArtifactNone, Match, PackageApply, PackageFails, Stamp, Source, Record,
     Verify, ChecksPass, Finish, Fail, GoTo, JobsOK

LEMMA Alone ==
  ASSUME TypeInv, One, NEW p \in Procs, Step(p), "second" \notin odd'
  PROVE  \A q \in Procs \ {p} : ~Busy(q) /\ ~Busy(q)'
  <1>1. "second" \notin odd
    <2>1. Next
      BY DEF Next
    <2> QED
      BY <2>1, OddGrows
  <1>2. ASSUME NEW q \in Procs \ {p} PROVE ~Busy(q)
    <2>1. CASE Busy(p)
      BY <1>1, <2>1, <1>2 DEF One
    <2>2. ASSUME NEW act, NEW c, NEW pc, Begin(p, act, c, pc) PROVE ~Busy(q)
      <3>1. (\E k \in Procs : Busy(k)) => "second" \in odd'
        BY <2>2 DEF Begin
      <3> QED
        BY <1>2, <3>1
    <2>3. CASE ~Busy(p)
      BY <2>2, <2>3 DEF Busy, Step, BeginRelease, BeginTip, ApplyRelease, PostTrans,
         CheckDisk, ArtifactBins, ArtifactRpm, ArtifactNone, Match, PackageApply,
         PackageFails, Stamp, Source, Record, Verify, ChecksPass, Finish, Fail
    <2> QED
      BY <2>1, <2>3
  <1> QED
    BY <1>2, OtherJob, IdleType DEF Busy

\* A step of the panel ends jobs and moves none.
LEMMA PanelJobs ==
  ASSUME TypeInv, Panel, NEW p \in Procs
  PROVE  job'[p] = job[p] \/ job'[p] = Idle
  BY KilledJobs DEF TypeInv, Procs, Panel, Crash, ReloadStop, ReloadStart, Expire,
     Reconcile, Ended, JobsOK

LEMMA OneNext == TypeInv /\ One /\ [Next]_vars => One'
  <1> SUFFICES ASSUME TypeInv, One, [Next]_vars PROVE One'
    OBVIOUS
  <1>1. CASE Panel
    BY <1>1, PanelJobs, OddGrows, IdleType DEF One, Busy
  <1>2. ASSUME NEW p \in Procs, Step(p) PROVE One'
    BY <1>2, Alone DEF One
  <1>3. CASE UNCHANGED vars
    BY <1>3 DEF vars, One, Busy
  <1> QED
    BY <1>1, <1>2, <1>3 DEF Next

-----------------------------------------------------------------------------
(* What is on disk *)

Clean    == odd \cap {"stale", "second"} = {}
MarkerOK == disk.sha # NoSha => Same(disk.code, disk.sha)
Written  == {"record", "verify", "checks", "finish"}

\* What job p may rely on: a package about to be stamped fits the commit, and
\* what the manifest is about to name is in place.
Fit(p) ==
    /\ job[p].pc = "stamp" \/ (job[p].pc = "posttrans" /\ job[p].next = "stamp")
          => Same(disk.code, job[p].target)
    /\ job[p].act # "tip" /\ job[p].pc \in Written \cup {"posttrans"}
          => disk.code = job[p].target /\ db = Version[job[p].target]
    /\ job[p].act = "tip" /\ job[p].pc \in Written => disk.sha = job[p].target
    /\ job[p].act = "tip" /\ job[p].pc \in Written \ {"record"}
          => manifest.commit = job[p].target

Placed == Clean => MarkerOK /\ \A p \in Procs : Fit(p)

LEMMA CleanBefore == [Next]_vars /\ Clean' => Clean
  BY OddGrows DEF Clean

LEMMA PlacedInit == Init => Placed
  BY IdleType DEF Init, Placed, MarkerOK, Fit, Same, Written

LEMMA PlacedPanel ==
  ASSUME TypeInv, Placed, Panel
  PROVE  Placed'
  <1>1. Clean' => Clean
    BY CleanBefore DEF Next
  <1>2. UNCHANGED <<disk, db>> /\ manifest'.commit = manifest.commit
    BY DEF Panel, Crash, ReloadStop, ReloadStart, Expire, Reconcile, TypeInv, TypeOK
  <1>3. \A p \in Procs : job'[p] = job[p] \/ job'[p] = Idle
    BY PanelJobs
  <1>4. Idle.pc = "idle"
    BY IdleType
  <1> QED
    BY <1>1, <1>2, <1>3, <1>4 DEF Placed, MarkerOK, Fit, Written

\* A package installed, or found installed: the binary is the package's unless
\* that was noted as stale.
LEMMA Packaged ==
  ASSUME TypeInv, MarkerOK, NEW p \in Procs, NEW c \in Commits,
         NEW next \in {"record", "match", "stamp"}, InstallRpm(p, c, next), Clean'
  PROVE  /\ disk'.code = c /\ db' = Version[c] /\ MarkerOK'
         /\ job'[p].target = job[p].target /\ job'[p].act = job[p].act
         /\ job'[p].pc = next \/ (job'[p].pc = "posttrans" /\ job'[p].next = next)
  <1>j. job \in [Procs -> JobRecords]
    BY DEF TypeInv, JobsOK, ShapedJobs
  <1>1. CASE /\ db = Version[c]
             /\ GoTo(p, next)
             /\ odd' = IF disk.code # c THEN odd \cup {"stale"} ELSE odd
             /\ UNCHANGED <<disk, db>>
    BY <1>j, <1>1 DEF Clean, MarkerOK, GoTo, JobRecords
  <1>2. CASE /\ disk' = [code |-> c, sha |-> c]
             /\ db' = Version[c]
             /\ job' = [job EXCEPT ![p].pc = "posttrans", ![p].next = next]
    BY <1>j, <1>2 DEF MarkerOK, Same, JobRecords
  <1> QED
    BY <1>1, <1>2 DEF InstallRpm

LEMMA PlacedStep ==
  ASSUME TypeInv, One, Placed, NEW p \in Procs, Step(p)
  PROVE  Placed'
  <1> SUFFICES ASSUME Clean' PROVE MarkerOK' /\ \A q \in Procs : Fit(q)'
    BY DEF Placed
  <1>n. Next
    BY DEF Next
  <1>c. Clean /\ MarkerOK /\ Fit(p)
    BY <1>n, CleanBefore DEF Placed
  <1>a. \A q \in Procs \ {p} : Fit(q)'
    <2>1. \A q \in Procs \ {p} : job'[q].pc = "idle"
      BY Alone DEF Clean, Busy
    <2> QED
      BY <2>1 DEF Fit, Written
  <1>j. job \in [Procs -> JobRecords] /\ job[p] \in JobRecords /\ Shaped(job[p])
    BY DEF TypeInv, JobsOK, ShapedJobs
  <1>s. NoSha # job[p].target /\ Same(job[p].target, job[p].target)
        /\ job[p].target \in Commits
    BY <1>j, UpgradeAssumption DEF JobRecords, Same
  <1>w. disk \in Binaries
    BY DEF TypeInv, TypeOK
  <1> SUFFICES MarkerOK' /\ Fit(p)'
    BY <1>a
  <1>1. ASSUME NEW act, NEW c, NEW pc \in {"apply", "check"}, Begin(p, act, c, pc)
        PROVE  MarkerOK' /\ Fit(p)'
    <2>1. job'[p].pc = pc
      BY <1>1, <1>j, IdleType DEF Begin, ShapedJobs, JobRecords
    <2> QED
      BY <1>1, <1>c, <2>1 DEF Begin, MarkerOK, Fit, Written
  <1>2. CASE ApplyRelease(p)
    BY <1>2, <1>c, <1>j, <1>s, Packaged DEF ApplyRelease, Fit, Shaped, Written
  <1>3. CASE ArtifactRpm(p)
    BY <1>3, <1>c, <1>j, <1>s, Packaged DEF ArtifactRpm, Fit, Shaped, Written
  <1>4. CASE PackageApply(p)
    <2>1. PICK r \in Releases : Safe(r, job[p].target) /\ InstallRpm(p, r, "stamp")
      BY <1>4 DEF PackageApply
    <2>2. Same(r, job[p].target)
      BY <2>1 DEF Safe, Same
    <2> QED
      BY <1>4, <1>c, <1>j, <2>1, <2>2, Packaged, UpgradeAssumption DEF PackageApply,
         Fit, Shaped, Written
  <1>5. CASE PostTrans(p)
    <2>1. job'[p] = Idle \/ job'[p] = [job[p] EXCEPT !.pc = job[p].next]
      BY <1>5, <1>j, KilledJobs DEF PostTrans, GoTo, TypeInv, Procs, JobsOK
    <2>2. job[p].pc = "posttrans" /\ UNCHANGED <<disk, db, manifest>>
      BY <1>5 DEF PostTrans
    <2>3. CASE job'[p] = Idle
      BY <1>c, <2>2, <2>3, IdleType DEF MarkerOK, Fit, Written
    <2>4. CASE job'[p] = [job[p] EXCEPT !.pc = job[p].next]
      BY <1>c, <1>j, <2>2, <2>4 DEF MarkerOK, Fit, Written, Shaped, JobRecords
    <2> QED
      BY <2>1, <2>3, <2>4
  <1>6. CASE CheckDisk(p)
    BY <1>6, <1>c, <1>j DEF CheckDisk, MarkerOK, Fit, Shaped, Written, JobRecords
  <1>7. CASE ArtifactBins(p)
    BY <1>7, <1>j, <1>s DEF ArtifactBins, GoTo, MarkerOK, Fit, Shaped, Written,
       JobRecords
  <1>8. CASE Match(p)
    BY <1>8, <1>c, <1>j DEF Match, Proves, MarkerOK, Fit, Shaped, Written, JobRecords
  <1>9. CASE Stamp(p)
    BY <1>9, <1>c, <1>j, <1>s, <1>w DEF Stamp, MarkerOK, Fit, Shaped, Written,
       JobRecords, Binaries
  <1>10. CASE Source(p)
    BY <1>10, <1>j, <1>s DEF Source, MarkerOK, Fit, Shaped, Written, JobRecords
  <1>11. CASE Record(p)
    BY <1>11, <1>c, <1>j DEF Record, GoTo, MarkerOK, Fit, Written, JobRecords
  <1>12. CASE ArtifactNone(p) \/ PackageFails(p)
    BY <1>12, <1>c, <1>j DEF ArtifactNone, PackageFails, GoTo, MarkerOK, Fit, Shaped,
       Written, JobRecords
  <1>13. CASE Verify(p)
    <2>1. job'[p] = [job[p] EXCEPT !.pc = "checks"]
      BY <1>13, <1>j, KilledJobs DEF Verify, GoTo, TypeInv, Procs, JobsOK
    <2>2. job[p].pc = "verify" /\ UNCHANGED <<disk, db, manifest>>
      BY <1>13 DEF Verify
    <2> QED
      BY <1>c, <1>j, <2>1, <2>2 DEF MarkerOK, Fit, Written, JobRecords
  <1>14. CASE ChecksPass(p)
    BY <1>14, <1>c, <1>j DEF ChecksPass, GoTo, MarkerOK, Fit, Written, JobRecords
  <1>15. CASE Finish(p) \/ Fail(p)
    <2>1. job'[p] = Idle /\ UNCHANGED disk
      BY <1>15, KilledJobs DEF Finish, Fail, TypeInv
    <2> QED
      BY <1>c, <2>1, IdleType DEF MarkerOK, Fit, Written
  <1> QED
    BY <1>1, <1>2, <1>3, <1>4, <1>5, <1>6, <1>7, <1>8, <1>9, <1>10, <1>11,
       <1>12, <1>13, <1>14, <1>15 DEF Step, BeginRelease, BeginTip

DiskInv == TypeInv /\ One /\ Placed

LEMMA DiskInvariant == Spec => []DiskInv
  <1>1. Init => DiskInv
    <2>1. Init => One
      BY DEF Init, One, Busy, Idle
    <2> QED
      BY <2>1, TypeInit, JobsInit, PlacedInit DEF DiskInv, TypeInv
  <1>2. DiskInv /\ [Next]_vars => DiskInv'
    <2> SUFFICES ASSUME TypeInv, One, Placed, [Next]_vars PROVE Placed'
      BY TypeNext, OneNext DEF DiskInv
    <2>1. CASE UNCHANGED vars
      BY <2>1 DEF vars, Placed, Clean, MarkerOK, Fit
    <2> QED
      BY <2>1, PlacedPanel, PlacedStep DEF Next
  <1> QED
    BY <1>1, <1>2, PTL DEF Spec

\* The marker on disk never names a commit whose code is not there, for any
\* commits, releases and versions and along every path of a job.
THEOREM MarkerHolds == Spec => []MarkerIsTrue
  <1>1. DiskInv => MarkerIsTrue
    BY DEF DiskInv, Placed, Clean, MarkerOK, MarkerIsTrue
  <1> QED
    BY <1>1, DiskInvariant, PTL

\* What a job has recorded is what is installed.
THEOREM RecordedHolds == Spec => []RecordedIsInstalled
  <1>1. DiskInv => RecordedIsInstalled
    <2> SUFFICES ASSUME DiskInv, Clean, NEW p \in Procs,
                        job[p].pc \in {"verify", "checks", "finish"}
                 PROVE  IF job[p].act = "tip"
                        THEN /\ manifest.commit = job[p].target
                             /\ disk.sha = job[p].target
                             /\ Same(disk.code, job[p].target)
                        ELSE /\ disk.code = job[p].target
                             /\ db = Version[job[p].target]
      BY DEF RecordedIsInstalled, Clean
    <2>1. MarkerOK /\ Fit(p)
      BY DEF DiskInv, Placed
    <2>2. job[p].target # NoSha
      BY UpgradeAssumption DEF DiskInv, TypeInv, JobsOK, ShapedJobs, JobRecords
    <2> QED
      BY <2>1, <2>2 DEF Fit, MarkerOK, Written
  <1> QED
    BY <1>1, DiskInvariant, PTL

-----------------------------------------------------------------------------
(* The maintenance flag                                                       *)

SomeJob == \E p \in Procs : Busy(p)

FlagInv == odd = {} =>
    /\ flag = "working" <=> SomeJob
    /\ flag = "restarting" => reload

\* A start that cuts no job short clears the flag only of a restart.
LEMMA BootFlag ==
  ASSUME TypeInv, FlagInv, odd' = {}, Boot,
         \A p \in Procs : p # "ui" => (Busy(p)' <=> Busy(p)),
         ~Busy("ui")'
  PROVE  /\ flag' = "working" <=> SomeJob'
         /\ flag' # "restarting"
  <1>1. odd = {} /\ ~Busy("ui")
    BY DEF Boot, CutShort
  <1>2. SomeJob' <=> SomeJob
    BY <1>1 DEF SomeJob
  <1> QED
    BY <1>1, <1>2, UpgradeAssumption DEF Boot, Heal, FlagInv

LEMMA FlagPanel ==
  ASSUME TypeInv, FlagInv, Panel
  PROVE  FlagInv'
  <1> SUFFICES ASSUME odd' = {}
               PROVE  (flag' = "working" <=> SomeJob') /\ (flag' = "restarting" => reload')
    BY DEF FlagInv
  <1>1. odd = {}
    BY OddGrows DEF Next
  <1>2. CASE Crash
    <2>1. /\ ~Busy("ui")'
          /\ \A p \in Procs : p # "ui" => (Busy(p)' <=> Busy(p))
      BY <1>2, KilledJobs, IdleType DEF Crash, TypeInv, Procs, Busy
    <2> QED
      BY <1>2, <2>1, BootFlag DEF Crash
  <1>3. CASE ReloadStop
    <2>1. ~SomeJob
      BY <1>3 DEF ReloadStop, CutShort, SomeJob
    <2>2. ~SomeJob'
      BY <1>3, KilledJobs, IdleType DEF ReloadStop, Ended, TypeInv, SomeJob, Busy
    <2> QED
      BY <1>1, <1>3, <2>1, <2>2 DEF ReloadStop, FlagInv
  <1>4. CASE ReloadStart
    <2>1. ~Busy("ui")
      BY <1>4 DEF ReloadStart, TypeInv, TypeOK
    <2>2. \A p \in Procs : Busy(p)' <=> Busy(p)
      BY <1>4 DEF ReloadStart, Busy
    <2> QED
      BY <1>4, <2>1, <2>2, BootFlag DEF ReloadStart, Procs
  <1>5. CASE Expire
    BY <1>5 DEF Expire
  <1>6. CASE Reconcile
    BY <1>1, <1>6 DEF Reconcile, FlagInv, SomeJob, Busy
  <1> QED
    BY <1>2, <1>3, <1>4, <1>5, <1>6 DEF Panel

LEMMA FlagStep ==
  ASSUME TypeInv, One, FlagInv, NEW p \in Procs, Step(p)
  PROVE  FlagInv'
  <1> SUFFICES ASSUME odd' = {}
               PROVE  (flag' = "working" <=> SomeJob') /\ (flag' = "restarting" => reload')
    BY DEF FlagInv
  <1>n. Next
    BY DEF Next
  <1>1. odd = {}
    BY <1>n, OddGrows
  <1>a. \A q \in Procs \ {p} : ~Busy(q) /\ ~Busy(q)'
    BY Alone
  <1>b. (SomeJob <=> Busy(p)) /\ (SomeJob' <=> Busy(p)')
    BY <1>a DEF SomeJob
  <1>j. job \in [Procs -> JobRecords]
    BY DEF TypeInv, JobsOK, ShapedJobs
  <1>2. ASSUME NEW act, NEW c, NEW pc \in {"apply", "check"}, Begin(p, act, c, pc)
        PROVE  (flag' = "working" <=> SomeJob') /\ (flag' = "restarting" => reload')
    <2>1. job'[p].pc = pc
      BY <1>2, <1>j, IdleType DEF Begin, ShapedJobs, JobRecords
    <2>2. flag' = "working"
      BY <1>2 DEF Begin
    <2> QED
      BY <1>b, <2>1, <2>2 DEF Busy
  <1>3. CASE Fail(p) \/ Finish(p)
    <2>1. ~Busy(p)'
      BY <1>3, KilledJobs, IdleType DEF Fail, Finish, TypeInv, Busy
    <2>2. flag' # "working" /\ (flag' = "restarting" => reload')
      BY <1>3, UpgradeAssumption DEF Fail, Finish
    <2> QED
      BY <1>b, <2>1, <2>2
  \* Every other step leaves the job at work.
  <1>4. ASSUME Busy(p), Busy(p)', UNCHANGED <<flag, reload>>
        PROVE  (flag' = "working" <=> SomeJob') /\ (flag' = "restarting" => reload')
    BY <1>1, <1>4, <1>b DEF FlagInv
  <1>5. CASE PostTrans(p) \/ Verify(p)
    <2>1. CASE Boot
      <3>1. ~Busy("ui")
        BY <2>1 DEF Boot, CutShort
      <3>2. p = "cli" /\ Busy(p)
        BY <1>5, <3>1 DEF PostTrans, Verify, Procs, Busy
      <3>3. Busy(p)'
        BY <1>5, <1>j, <2>1, <3>2, KilledJobs DEF PostTrans, Verify, GoTo, TypeInv,
           JobsOK, Procs, Busy, JobRecords
      <3>4. /\ ~Busy("ui")'
            /\ \A q \in Procs : q # "ui" => (Busy(q)' <=> Busy(q))
        BY <1>a, <3>1, <3>2, <3>3 DEF Procs
      <3> QED
        BY <2>1, <3>4, BootFlag
    <2>2. CASE UNCHANGED flag /\ \E label \in {"checks", job[p].next} : GoTo(p, label)
      <3>1. Busy(p) /\ Busy(p)' /\ UNCHANGED reload
        BY <1>5, <1>j, <2>2 DEF PostTrans, Verify, GoTo, Busy, JobRecords
      <3> QED
        BY <1>4, <2>2, <3>1
    <2> QED
      BY <1>5, <2>1, <2>2 DEF PostTrans, Verify
  <1>6. ASSUME NEW c, NEW next \in {"record", "match", "stamp"}, InstallRpm(p, c, next)
        PROVE  Busy(p)'
    BY <1>6, <1>j DEF InstallRpm, GoTo, Busy, JobRecords
  <1>7. CASE ApplyRelease(p) \/ ArtifactRpm(p) \/ PackageApply(p)
    BY <1>4, <1>6, <1>7 DEF ApplyRelease, ArtifactRpm, PackageApply, Busy
  <1>8. CASE CheckDisk(p) \/ Match(p) \/ Stamp(p) \/ Source(p)
    BY <1>4, <1>8, <1>j DEF CheckDisk, Match, Stamp, Source, Busy, JobRecords
  <1>9. CASE ArtifactBins(p) \/ ArtifactNone(p) \/ PackageFails(p) \/ Record(p)
              \/ ChecksPass(p)
    BY <1>4, <1>9, <1>j DEF ArtifactBins, ArtifactNone, PackageFails, Record,
       ChecksPass, GoTo, Busy, JobRecords
  <1> QED
    BY <1>2, <1>3, <1>5, <1>7, <1>8, <1>9 DEF Step, BeginRelease, BeginTip

\* The maintenance page is up exactly while a job works or its restart is due.
THEOREM FlagHolds == Spec => []FlagCovers
  <1> DEFINE Inv == TypeInv /\ One /\ FlagInv
  <1>1. Init => Inv
    <2>1. Init => One /\ FlagInv
      BY UpgradeAssumption DEF Init, One, FlagInv, SomeJob, Busy, Idle
    <2> QED
      BY <2>1, TypeInit, JobsInit DEF TypeInv
  <1>2. Inv /\ [Next]_vars => Inv'
    <2> SUFFICES ASSUME TypeInv, One, FlagInv, [Next]_vars PROVE FlagInv'
      BY TypeNext, OneNext
    <2>1. CASE UNCHANGED vars
      BY <2>1 DEF vars, FlagInv, SomeJob, Busy
    <2> QED
      BY <2>1, FlagPanel, FlagStep DEF Next
  <1>3. Inv => FlagCovers
    BY UpgradeAssumption DEF FlagInv, FlagCovers, SomeJob, TypeInv, TypeOK
  <1> QED
    BY <1>1, <1>2, <1>3, PTL DEF Spec

-----------------------------------------------------------------------------
(* The panel runs what is on disk *)

Quiet == ~reload /\ behind = {} /\ odd \cap {"cut", "second"} = {}

\* A job that will not have the panel restarted any more: it has found its
\* binary in place, or the command line has restarted the panel already.
Settled(p) ==
    \/ job[p].pc = "check"
    \/ job[p].skipped
    \/ p = "cli" /\ job[p].act # "downgrade" /\ job[p].pc \in {"checks", "finish"}

LiveInv == Quiet =>
    /\ SomeJob \/ running = disk
    /\ \A p \in Procs : Settled(p) => running = disk

\* Any start of the panel brings it up to date.
LEMMA BootIsLive == Boot /\ UNCHANGED disk => LiveInv'
  BY DEF Boot, LiveInv

LEMMA LivePanel ==
  ASSUME LiveInv, Panel
  PROVE  LiveInv'
  <1>1. CASE Crash \/ ReloadStart
    BY <1>1, BootIsLive DEF Crash, ReloadStart
  <1>2. CASE ReloadStop
    BY <1>2 DEF ReloadStop, LiveInv, Quiet
  <1>3. CASE Expire \/ Reconcile
    BY <1>3 DEF Expire, Reconcile, LiveInv, Quiet, SomeJob, Busy, Settled
  <1> QED
    BY <1>1, <1>2, <1>3 DEF Panel

LEMMA LiveStep ==
  ASSUME TypeInv, One, LiveInv, NEW p \in Procs, Step(p)
  PROVE  LiveInv'
  <1>1. CASE Boot /\ UNCHANGED disk
    BY <1>1, BootIsLive
  <1>2. CASE ~(Boot /\ UNCHANGED disk)
    <2> SUFFICES ASSUME Quiet'
                 PROVE  /\ SomeJob' \/ running' = disk'
                        /\ \A q \in Procs : Settled(q)' => running' = disk'
      BY DEF LiveInv
    <2>n. Next
      BY DEF Next
    <2>q. ~reload /\ odd \cap {"cut", "second"} = {}
      <3>1. ~reload
        BY DEF Quiet, Step, BeginRelease, BeginTip, Begin, ApplyRelease, PostTrans,
           CheckDisk, ArtifactBins, ArtifactRpm, ArtifactNone, Match, PackageApply,
           PackageFails, Stamp, Source, Record, Verify, ChecksPass, Finish, Fail
      <3> QED
        BY <2>n, <3>1, OddGrows DEF Quiet
    <2>b. behind = {}
      BY <1>2 DEF Quiet, Step, BeginRelease, BeginTip, Begin, ApplyRelease,
         PostTrans, CheckDisk, ArtifactBins, ArtifactRpm, ArtifactNone, Match,
         PackageApply, PackageFails, Stamp, Source, Record, Verify, ChecksPass,
         Finish, Fail
    <2>l. (SomeJob \/ running = disk) /\ (Settled(p) => running = disk)
      BY <2>q, <2>b DEF LiveInv, Quiet
    <2>j. job \in [Procs -> JobRecords] /\ job[p] \in JobRecords /\ Shaped(job[p])
      BY DEF TypeInv, JobsOK, ShapedJobs
    <2>a. \A q \in Procs \ {p} : ~Busy(q) /\ ~Busy(q)' /\ ~Settled(q)'
      <3>1. \A q \in Procs \ {p} : ~Busy(q) /\ ~Busy(q)'
        BY Alone DEF Quiet
      <3>2. \A q \in Procs \ {p} : job'[q].pc = "idle" /\ Shaped(job'[q])
        BY <3>1, JobsStep DEF TypeInv, JobsOK, ShapedJobs, Busy
      <3> QED
        BY <3>1, <3>2 DEF Settled, Shaped
    \* It is enough to look at this job.
    <2>s. ASSUME running' = disk' \/ (Busy(p)' /\ ~Settled(p)')
          PROVE  /\ SomeJob' \/ running' = disk'
                 /\ \A q \in Procs : Settled(q)' => running' = disk'
      BY <2>a, <2>s DEF SomeJob
    <2> SUFFICES running' = disk' \/ (Busy(p)' /\ ~Settled(p)')
      BY <2>s
    <2>1. ASSUME NEW act, NEW c, BeginRelease(p, act, c)
          PROVE  Busy(p)' /\ ~Settled(p)'
      <3>1. job'[p].pc = "apply" /\ ~job'[p].skipped
        BY <2>1, <2>j, IdleType DEF BeginRelease, Begin, ShapedJobs, JobRecords
      <3> QED
        BY <3>1 DEF Busy, Settled
    <2>2. ASSUME NEW c, BeginTip(p, c)
          PROVE  running' = disk'
      <3>1. ~SomeJob
        BY <2>2, <2>a DEF BeginTip, Begin, SomeJob
      <3> QED
        BY <2>2, <2>l, <3>1 DEF BeginTip, Begin
    <2>3. ASSUME NEW c, NEW next \in {"record", "match", "stamp"},
                 InstallRpm(p, c, next), job[p].pc \in {"apply", "artifact", "package"}
          PROVE  Busy(p)' /\ ~Settled(p)'
      <3>1. job'[p].pc \in {next, "posttrans"} /\ ~job'[p].skipped
        BY <2>3, <2>j DEF InstallRpm, GoTo, Shaped, JobRecords
      <3> QED
        BY <3>1 DEF Busy, Settled
    <2>4. CASE ApplyRelease(p) \/ ArtifactRpm(p) \/ PackageApply(p)
      BY <2>3, <2>4 DEF ApplyRelease, ArtifactRpm, PackageApply
    <2>5. CASE PostTrans(p)
      <3>1. GoTo(p, job[p].next)
        BY <1>2, <2>5 DEF PostTrans
      <3>2. job'[p].pc \in {"record", "match", "stamp"} /\ ~job'[p].skipped
        BY <2>5, <2>j, <3>1 DEF PostTrans, GoTo, Shaped, JobRecords
      <3> QED
        BY <3>2 DEF Busy, Settled
    <2>6. CASE CheckDisk(p)
      BY <2>6, <2>l DEF CheckDisk, Settled
    <2>7. CASE ArtifactBins(p) \/ ArtifactNone(p) \/ Match(p) \/ PackageFails(p)
               \/ Stamp(p) \/ Source(p)
      <3>1. job'[p].pc \in {"match", "package", "record", "source"} /\ ~job'[p].skipped
        BY <2>7, <2>j DEF ArtifactBins, ArtifactNone, Match, PackageFails, Stamp,
           Source, GoTo, Shaped, JobRecords
      <3> QED
        BY <3>1 DEF Busy, Settled
    \* From here on the binary stays as it is.
    <2>8. CASE Record(p) \/ ChecksPass(p)
      <3>1. Busy(p)' /\ UNCHANGED <<running, disk>> /\ (Settled(p)' => Settled(p))
        BY <2>8, <2>j DEF Record, ChecksPass, GoTo, Busy, Settled, JobRecords
      <3> QED
        BY <2>l, <3>1
    <2>9. CASE Verify(p)
      <3>1. GoTo(p, "checks") /\ UNCHANGED <<running, disk>>
        BY <1>2, <2>9 DEF Verify
      <3>2. p = "cli" => Settled(p)
        BY <1>2, <2>9 DEF Verify, Settled
      <3>3. Busy(p)' /\ (Settled(p)' => Settled(p))
        BY <2>j, <3>1, <3>2 DEF GoTo, Busy, Settled, JobRecords
      <3> QED
        BY <2>l, <3>1, <3>3
    <2>10. CASE Finish(p)
      <3>1. running # disk => ~Reloads(p) /\ job[p].act # "downgrade"
        BY <2>10 DEF Finish, Quiet
      <3>2. running # disk => Settled(p)
        BY <2>10, <3>1 DEF Finish, Reloads, Settled, Procs
      <3> QED
        BY <2>10, <2>l, <3>2 DEF Finish
    <2>11. CASE Fail(p)
      BY <2>11 DEF Fail, Quiet
    <2> QED
      BY <2>1, <2>2, <2>4, <2>5, <2>6, <2>7, <2>8, <2>9, <2>10, <2>11 DEF Step
  <1> QED
    BY <1>1, <1>2

\* A job that succeeds leaves the panel running what it installed, or a reload
\* on its way, for any commits, versions, jobs and faults.
THEOREM AppliedHolds == Spec => []AppliedIsLive
  <1> DEFINE Inv == TypeInv /\ One /\ LiveInv
  <1>1. Init => Inv
    <2>1. Init => One /\ LiveInv
      BY DEF Init, One, LiveInv, Busy, Idle
    <2> QED
      BY <2>1, TypeInit, JobsInit DEF TypeInv
  <1>2. Inv /\ [Next]_vars => Inv'
    <2> SUFFICES ASSUME TypeInv, One, LiveInv, [Next]_vars PROVE LiveInv'
      BY TypeNext, OneNext
    <2>1. CASE UNCHANGED vars
      BY <2>1 DEF vars, LiveInv, Quiet, SomeJob, Busy, Settled
    <2> QED
      BY <2>1, LivePanel, LiveStep DEF Next
  <1>3. Inv => AppliedIsLive
    BY DEF LiveInv, Quiet, SomeJob, AppliedIsLive
  <1> QED
    BY <1>1, <1>2, <1>3, PTL DEF Spec
=============================================================================
