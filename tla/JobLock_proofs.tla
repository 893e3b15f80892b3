--------------------------- MODULE JobLock_proofs ---------------------------
(* Proofs about JobLock for any set of jobs and requests and any bounds: its    *)
(* invariants first, then that it implements Operation.                        *)
EXTENDS JobLock, TLAPS

\* Every worker that nobody disturbed still finds the phase busy ...
WorkersHoldLock == \A j \in Jobs : Working(j) => Busy

\* ... and so did the tick that is about to write the phase back.
TicksKeepBusy == \A j \in Jobs : pc[j] = "tick" => seen[j] \in MaintenanceBusy

LockInv == /\ Undisturbed => WorkersHoldLock /\ TicksKeepBusy
           /\ Exclusion
           /\ ReadinessIsStable
           /\ InFlightCovers

IInv == TypeOK /\ LockInv

-----------------------------------------------------------------------------
(* Type correctness *)

LEMMA TypeInit == Init => TypeOK
  <1> SUFFICES ASSUME Init PROVE TypeOK
    OBVIOUS
  <1> USE DEF Init
  <1>1. status \in [phase : Phases, serverReady : BOOLEAN, selServer : BOOLEAN,
                   selMail : BOOLEAN]
    BY DEF Phases
  <1>2. manifest \in [has : BOOLEAN, server : BOOLEAN, mail : BOOLEAN]
    OBVIOUS
  <1>3. kind \in [Jobs -> InstallKinds \cup MaintenanceKinds]
    BY DEF InstallKinds
  <1>4. pc \in [Jobs -> JobPcs] /\ seen \in [Jobs -> Phases]
    BY DEF JobPcs, Phases
  <1>5. ran \in [Jobs -> 0..MaxCommands] /\ boots \in 0..MaxBoots
    BY BoundsAssumption
  <1>6. reqPc \in [Requests -> ReqPcs] /\ goal \in [Requests -> Goals]
    BY DEF ReqPcs, Goals
  <1> QED
    BY <1>1, <1>2, <1>3, <1>4, <1>5, <1>6 DEF TypeOK

\* progress keeps the types of what it writes.
LEMMA ProgressType ==
  ASSUME TypeOK, NEW phase \in Phases, Progress(phase)
  PROVE  /\ status' \in [phase : Phases, serverReady : BOOLEAN,
                         selServer : BOOLEAN, selMail : BOOLEAN]
         /\ flag' \in {"none", "open", "closing"}
         /\ fresh' \in BOOLEAN
  BY DEF TypeOK, Progress, Shown

LEMMA TypeStartInstall ==
  ASSUME TypeOK, NEW j \in Jobs, StartInstall(j)
  PROVE  TypeOK'
  <1> USE DEF TypeOK, Launch, Goto, requestVars, historyVars, InstallKinds,
          Phases, MaintenanceBusy, InstallBusy, JobPcs, WorkingPcs
  <1>1. ASSUME NEW force \in BOOLEAN, StartServer(j, force)
        PROVE  TypeOK'
    <2>1. status' \in [phase : Phases, serverReady : BOOLEAN,
                      selServer : BOOLEAN, selMail : BOOLEAN]
      BY <1>1 DEF StartServer
    <2> QED
      BY <1>1, <2>1 DEF StartServer
  <1>2. ASSUME NEW force \in BOOLEAN, StartMail(j, force)
        PROVE  TypeOK'
    BY <1>2 DEF StartMail
  <1> QED
    BY <1>1, <1>2 DEF StartInstall

LEMMA TypeJobStep ==
  ASSUME TypeOK, NEW j \in Jobs, JobStep(j)
  PROVE  TypeOK'
  <1> USE DEF TypeOK, Goto, statusVars, requestVars, historyVars, InstallKinds,
          MaintenanceKinds, Phases, MaintenanceBusy, InstallBusy, JobPcs,
          WorkingPcs, Maintains
  <1>1. CASE JobLost(j)
    BY <1>1 DEF JobLost
  <1>2. CASE InstallBegin(j)
    BY <1>2 DEF InstallBegin, Progress, Shown
  <1>3. CASE InstallSucceed(j)
    <2>1. status' \in [phase : Phases, serverReady : BOOLEAN,
                      selServer : BOOLEAN, selMail : BOOLEAN]
      BY <1>3 DEF InstallSucceed
    <2>2. manifest' \in [has : BOOLEAN, server : BOOLEAN, mail : BOOLEAN]
      <3>1. CASE RecordInstall
        BY <3>1 DEF RecordInstall
      <3>2. CASE UNCHANGED manifest
        BY <3>2
      <3> QED
        BY <1>3, <3>1, <3>2 DEF InstallSucceed
    <2> QED
      BY <1>3, <2>1, <2>2 DEF InstallSucceed
  <1>4. CASE InstallError(j)
    BY <1>4 DEF InstallError
  <1>5. CASE InstallFail(j)
    BY <1>5 DEF InstallFail
  <1>6. CASE JobEnter(j)
    BY <1>6 DEF JobEnter
  <1>7. CASE MaintainNothing(j)
    BY <1>7 DEF MaintainNothing, Progress, Shown
  <1>8. CASE MaintainBegin(j)
    BY <1>8 DEF MaintainBegin, Shown
  <1>9. CASE MaintainRecord(j)
    BY <1>9 DEF MaintainRecord, RecordInstall, Progress, Shown
  <1>10. CASE MaintainSucceed(j)
    BY <1>10 DEF MaintainSucceed, Progress, Shown
  <1>11. CASE Settle(j)
    BY <1>11 DEF Settle, Blame
  <1>12. CASE Announce(j)
    BY <1>12 DEF Announce, Blame
  <1>13. CASE Lower(j)
    BY <1>13 DEF Lower, Blame
  <1>14. CASE Tail(j)
    BY <1>14 DEF Tail, Blame, Shown
  <1>15. CASE Leave(j)
    <2>1. inFlight' \in BOOLEAN
      BY <1>15, Zenon DEF Leave
    <2> QED
      BY <1>15, <2>1 DEF Leave, Blame
  <1>16. CASE MaintainError(j)
    BY <1>16 DEF MaintainError
  <1>17. CASE MaintainDrop(j)
    <2>1. inFlight' \in BOOLEAN
      BY <1>17, Zenon DEF MaintainDrop
    <2> QED
      BY <1>17, <2>1 DEF MaintainDrop
  <1>18. CASE MaintainFail(j)
    BY <1>18 DEF MaintainFail
  <1>19. CASE CommandStart(j)
    BY <1>19, BoundsAssumption DEF CommandStart, CommandPhase, Progress, Shown
  <1> QED
    BY <1>1, <1>2, <1>3, <1>4, <1>5, <1>6, <1>7, <1>8, <1>9, <1>10, <1>11,
       <1>12, <1>13, <1>14, <1>15, <1>16, <1>17, <1>18, <1>19 DEF JobStep

LEMMA TypeCommand ==
  ASSUME TypeOK, NEW j \in Jobs, Tick(j) \/ CommandEnd(j) \/ JobLog(j)
  PROVE  TypeOK'
  <1> USE DEF TypeOK, Goto, jobVars, requestVars, historyVars, JobPcs,
          WorkingPcs, Phases
  <1>1. CASE TickRead(j)
    BY <1>1 DEF TickRead
  <1>2. CASE TickWrite(j)
    BY <1>2 DEF TickWrite, Progress, Shown
  <1>3. CASE CommandEnd(j)
    BY <1>3 DEF CommandEnd
  <1>4. CASE JobLog(j)
    BY <1>4 DEF JobLog
  <1> QED
    BY <1>1, <1>2, <1>3, <1>4 DEF Tick

LEMMA TypeRequest ==
  ASSUME TypeOK, NEW r \in Requests,
         (\E g \in Goals : HealRead(r, g)) \/ HealStep(r) \/ ActStep(r)
  PROVE  TypeOK'
  <1> USE DEF TypeOK, ReqGoto, AfterHeal, ReqPcs, statusVars, jobVars,
          historyVars
  <1>1. CASE \E g \in Goals : HealRead(r, g)
    BY <1>1 DEF HealRead
  <1>2. CASE HealProbe(r) \/ HealDecide(r)
    BY <1>2 DEF HealProbe, HealDecide
  <1>3. CASE HealClear(r) \/ HealUnflag(r)
    BY <1>3 DEF HealClear, HealUnflag, Blame, Phases
  <1>4. ASSUME NEW j \in Jobs, NEW k \in MaintenanceKinds, AcceptMaintenance(j, k)
        PROVE  /\ status' \in [phase : Phases, serverReady : BOOLEAN,
                                selServer : BOOLEAN, selMail : BOOLEAN]
               /\ pc' \in [Jobs -> JobPcs]
               /\ kind' \in [Jobs -> InstallKinds \cup MaintenanceKinds]
               /\ inFlight' \in BOOLEAN /\ fresh' \in BOOLEAN
               /\ UNCHANGED <<flag, manifest, ran, seen>>
    BY <1>4 DEF AcceptMaintenance, Launch, Goto, Phases, MaintenanceBusy,
       InstallBusy, JobPcs, WorkingPcs
  <1>5. CASE StartMaintenance(r) \/ AutoStart(r)
    <2>1. reqPc' \in [Requests -> ReqPcs] /\ UNCHANGED <<goal, historyVars>>
      BY <1>5 DEF StartMaintenance, AutoStart
    <2>2. \/ UNCHANGED <<statusVars, jobVars>>
          \/ /\ UNCHANGED manifest
             /\ \E j \in Jobs, k \in MaintenanceKinds : AcceptMaintenance(j, k)
      BY <1>5 DEF StartMaintenance, AutoStart, MaintenanceKinds, AcceptMaintenance
    <2>3. CASE UNCHANGED <<statusVars, jobVars>>
      BY <2>1, <2>3
    <2>4. CASE /\ UNCHANGED manifest
               /\ \E j \in Jobs, k \in MaintenanceKinds : AcceptMaintenance(j, k)
      BY <1>4, <2>1, <2>4
    <2> QED
      BY <2>2, <2>3, <2>4
  <1>6. CASE AutoCheck(r) \/ NoJobLeft(r)
    BY <1>6 DEF AutoCheck, NoJobLeft
  <1> QED
    BY <1>1, <1>2, <1>3, <1>5, <1>6 DEF HealStep, ActStep

LEMMA TypeEnvironment ==
  ASSUME TypeOK, HeartbeatAges \/ FlagExpires \/ Restart
  PROVE  TypeOK'
  <1> USE DEF TypeOK, jobVars, requestVars, historyVars
  <1>1. CASE HeartbeatAges \/ FlagExpires
    BY <1>1 DEF HeartbeatAges, FlagExpires
  <1>2. CASE Restart
    <2> USE <1>2 DEF Restart
    <2>1. status' \in [phase : Phases, serverReady : BOOLEAN,
                      selServer : BOOLEAN, selMail : BOOLEAN]
      BY DEF Phases
    <2>2. inFlight' \in BOOLEAN /\ fresh' \in BOOLEAN
      BY Zenon
    <2>3. flag' \in {"none", "open", "closing"} /\ boots' \in 0..MaxBoots
      BY BoundsAssumption
    <2>4. pc' \in [Jobs -> JobPcs] /\ seen' \in [Jobs -> Phases]
      BY DEF JobPcs, Phases
    <2>5. reqPc' \in [Requests -> ReqPcs]
      BY DEF ReqPcs
    <2> QED
      BY <2>1, <2>2, <2>3, <2>4, <2>5
  <1> QED
    BY <1>1, <1>2

LEMMA TypeNext == TypeOK /\ [Next]_vars => TypeOK'
  <1> SUFFICES ASSUME TypeOK, [Next]_vars PROVE TypeOK'
    OBVIOUS
  <1>1. CASE Next
    BY <1>1, TypeStartInstall, TypeJobStep, TypeCommand, TypeRequest,
       TypeEnvironment DEF Next
  <1>2. CASE UNCHANGED vars
    BY <1>2 DEF TypeOK, vars, statusVars, jobVars, requestVars, historyVars
  <1> QED
    BY <1>1, <1>2

\* The variables of the lock keep their types: no handler, worker or restart
\* leaves a phase, a flag or a program counter outside the listed ones.
THEOREM TypeCorrect == Spec => []TypeOK
  BY TypeInit, TypeNext, PTL DEF Spec

-----------------------------------------------------------------------------
(* The lock *)

LEMMA LockInit == Init => LockInv
  BY DEF Init, LockInv, WorkersHoldLock, TicksKeepBusy, Exclusion,
     ReadinessIsStable, InFlightCovers, Working, WorkingPcs

\* A handler accepts a job only while the phase is idle, and thus only while no
\* undisturbed worker is left.
LEMMA LockAccept ==
  ASSUME TypeOK, LockInv, NEW j \in Jobs, ~Busy,
         status'.phase \in MaintenanceBusy,
         pc' = [pc EXCEPT ![j] = "queued"],
         UNCHANGED <<seen, intruder>>,
         \A k \in Jobs \ {j} : kind'[k] = kind[k],
         kind'[j] = "server" => ~status'.serverReady,
         kind'[j] = "mail" => status'.serverReady,
         Maintains(j)' => inFlight'
  PROVE  LockInv'
  <1>1. Undisturbed => \A k \in Jobs : ~Working(k)
    BY DEF LockInv, WorkersHoldLock
  <1>2. pc' \in [Jobs -> JobPcs] /\ pc'[j] = "queued"
        /\ \A k \in Jobs \ {j} : pc'[k] = pc[k]
    BY DEF TypeOK, JobPcs, WorkingPcs
  <1>3. Undisturbed' = Undisturbed
    BY DEF Undisturbed
  <1>4. Undisturbed => \A k \in Jobs : Working(k)' => k = j
    BY <1>1, <1>2 DEF Working
  <1>5. Busy'
    BY DEF Busy
  <1>6. (Undisturbed => WorkersHoldLock /\ TicksKeepBusy)'
    BY <1>2, <1>3, <1>4, <1>5 DEF WorkersHoldLock, TicksKeepBusy, LockInv
  <1>7. Exclusion'
    BY <1>3, <1>4 DEF Exclusion
  <1>8. ReadinessIsStable'
    BY <1>3, <1>4 DEF ReadinessIsStable
  <1>9. InFlightCovers'
    BY <1>3, <1>4 DEF InFlightCovers
  <1> QED
    BY <1>6, <1>7, <1>8, <1>9 DEF LockInv

\* A step of the one undisturbed worker keeps the lock as long as it leaves the
\* phase busy or is its last.
LEMMA LockWork ==
  ASSUME TypeOK, LockInv, NEW j \in Jobs, Working(j),
         NEW label \in JobPcs, pc' = [pc EXCEPT ![j] = label],
         label \in WorkingPcs => status'.phase \in MaintenanceBusy \/ ~Undisturbed,
         label = "tick" => seen'[j] = status.phase,
         \A k \in Jobs \ {j} : seen'[k] = seen[k],
         UNCHANGED <<kind, intruder>>,
         label \in WorkingPcs => status'.serverReady = status.serverReady,
         Maintains(j) /\ label \in WorkingPcs \ {"late"}
            => inFlight' \/ (inFlight' = inFlight /\ pc[j] # "late")
  PROVE  LockInv'
  <1>1. Undisturbed => Busy /\ \A k \in Jobs : Working(k) => k = j
    BY DEF LockInv, WorkersHoldLock, Exclusion
  <1>2. pc' \in [Jobs -> JobPcs] /\ pc'[j] = label
        /\ \A k \in Jobs \ {j} : pc'[k] = pc[k]
    BY DEF TypeOK
  <1>3. Undisturbed' = Undisturbed
    BY DEF Undisturbed
  <1>4. Undisturbed => \A k \in Jobs : Working(k)' => k = j /\ label \in WorkingPcs
    BY <1>1, <1>2 DEF Working
  <1>5. (Undisturbed => WorkersHoldLock)'
    BY <1>3, <1>4 DEF WorkersHoldLock, Busy
  <1>6. (Undisturbed => TicksKeepBusy)'
    BY <1>1, <1>2, <1>3, <1>4 DEF TicksKeepBusy, LockInv, Busy, Working, WorkingPcs
  <1>7. Exclusion'
    BY <1>3, <1>4 DEF Exclusion
  <1>8. ReadinessIsStable'
    BY <1>3, <1>4 DEF ReadinessIsStable, LockInv
  <1>9. InFlightCovers'
    BY <1>2, <1>3, <1>4 DEF InFlightCovers, LockInv, Maintains
  <1> QED
    BY <1>5, <1>6, <1>7, <1>8, <1>9 DEF LockInv

\* A step that moves no worker keeps the lock if nobody works, if it is blamed
\* for its intrusion, or if it touches nothing the workers rely on.
LEMMA LockAside ==
  ASSUME TypeOK, LockInv,
         \A k \in Jobs : /\ Working(k)' <=> Working(k)
                         /\ Working(k) => pc'[k] = pc[k],
         UNCHANGED <<kind, seen>>,
         intruder \subseteq intruder',
         \/ \A k \in Jobs : ~Working(k)
         \/ ~Undisturbed'
         \/ /\ status'.phase = status.phase
            /\ status'.serverReady = status.serverReady
            /\ inFlight' = inFlight \/ "leave" \in intruder'
  PROVE  LockInv'
  <1>1. Undisturbed' => Undisturbed
    BY DEF Undisturbed
  <1>2. CASE \A k \in Jobs : ~Working(k)
    <2>1. \A k \in Jobs : ~Working(k)' /\ pc'[k] # "tick"
      BY <1>2 DEF Working, WorkingPcs
    <2> QED
      BY <2>1 DEF LockInv, WorkersHoldLock, TicksKeepBusy, Exclusion,
         ReadinessIsStable, InFlightCovers
  <1>3. CASE ~Undisturbed'
    BY <1>3 DEF LockInv, Exclusion, ReadinessIsStable, InFlightCovers
  <1>4. CASE /\ status'.phase = status.phase
             /\ status'.serverReady = status.serverReady
             /\ inFlight' = inFlight \/ "leave" \in intruder'
    <2>1. (Undisturbed => WorkersHoldLock)'
      BY <1>1, <1>4 DEF LockInv, WorkersHoldLock, Busy
    <2>2. (Undisturbed => TicksKeepBusy)'
      BY <1>1 DEF LockInv, TicksKeepBusy, Working, WorkingPcs
    <2>3. Exclusion'
      BY <1>1 DEF LockInv, Exclusion
    <2>4. ReadinessIsStable'
      BY <1>1, <1>4 DEF LockInv, ReadinessIsStable
    <2>5. InFlightCovers'
      BY <1>1, <1>4 DEF LockInv, InFlightCovers, Maintains
    <2> QED
      BY <2>1, <2>2, <2>3, <2>4, <2>5 DEF LockInv
  <1> QED
    BY <1>2, <1>3, <1>4

LEMMA BlameGrows ==
  ASSUME NEW who, Blame(who)
  PROVE  /\ intruder \subseteq intruder'
         /\ (\E k \in Jobs : Working(k)) => who \in intruder'
  BY DEF Blame

LEMMA LockStartInstall ==
  ASSUME TypeOK, LockInv, NEW j \in Jobs, StartInstall(j)
  PROVE  LockInv'
  <1> USE DEF Launch, Goto, requestVars, historyVars, Maintains, MaintenanceKinds
  <1>1. ASSUME NEW force \in BOOLEAN, StartServer(j, force)
        PROVE  LockInv'
    <2>1. ~Busy /\ status'.phase \in MaintenanceBusy /\ ~status'.serverReady
      BY <1>1 DEF StartServer, CanStartServer, Busy, MaintenanceBusy, InstallBusy,
         TypeOK
    <2> QED
      BY <1>1, <2>1, LockAccept DEF StartServer, TypeOK
  <1>2. ASSUME NEW force \in BOOLEAN, StartMail(j, force)
        PROVE  LockInv'
    <2>1. ~Busy /\ status'.phase \in MaintenanceBusy /\ status'.serverReady
      BY <1>2 DEF StartMail, CanStartMail, Busy, MaintenanceBusy, InstallBusy,
         TypeOK
    <2> QED
      BY <1>2, <2>1, LockAccept DEF StartMail, TypeOK
  <1> QED
    BY <1>1, <1>2 DEF StartInstall

LEMMA LockJobStep ==
  ASSUME TypeOK, LockInv, NEW j \in Jobs, JobStep(j)
  PROVE  LockInv'
  <1> USE DEF Goto, statusVars, requestVars, historyVars
  <1>a. Working(j) <=> pc[j] \in WorkingPcs
    BY DEF Working
  <1>b. ASSUME NEW label \in JobPcs \ WorkingPcs, pc[j] \notin WorkingPcs,
               pc' = [pc EXCEPT ![j] = label]
        PROVE  \A k \in Jobs : /\ Working(k)' <=> Working(k)
                               /\ Working(k) => pc'[k] = pc[k]
    BY <1>b DEF Working, TypeOK
  <1>c. Working(j) => status.phase \in MaintenanceBusy \/ ~Undisturbed
    BY DEF LockInv, WorkersHoldLock, Busy
  <1>d. \A phase \in MaintenanceBusy : Progress(phase) =>
          status'.phase = phase /\ status'.serverReady = status.serverReady
    BY DEF Progress, TypeOK
  <1> USE DEF WorkingPcs, JobPcs
  <1>1. CASE JobLost(j)
    BY <1>1, <1>a, LockWork DEF JobLost
  <1>2. CASE InstallBegin(j)
    BY <1>2, <1>a, <1>c, <1>d, LockWork DEF InstallBegin, MaintenanceBusy, InstallBusy,
       Maintains, InstallKinds, MaintenanceKinds
  <1>3. CASE InstallSucceed(j)
    BY <1>3, <1>a, LockWork DEF InstallSucceed
  <1>4. CASE InstallError(j)
    BY <1>4, <1>a, <1>c, LockWork DEF InstallError
  <1>5. CASE InstallFail(j)
    BY <1>5, <1>a, LockWork DEF InstallFail
  <1>6. CASE JobEnter(j)
    BY <1>6, <1>a, <1>c, LockWork DEF JobEnter
  <1>7. CASE MaintainNothing(j)
    BY <1>7, <1>a, LockWork DEF MaintainNothing
  <1>8. CASE MaintainBegin(j)
    BY <1>8, <1>a, LockWork DEF MaintainBegin, TypeOK, MaintenanceBusy, InstallBusy
  <1>9. CASE MaintainRecord(j)
    <2>1. Progress("verifying") \/ UNCHANGED status
      BY <1>9 DEF MaintainRecord
    <2>2. status'.serverReady = status.serverReady
      BY <2>1, <1>d DEF MaintenanceBusy
    <2>3. Undisturbed => status'.phase \in MaintenanceBusy
      BY <1>9, <2>1, <1>a, <1>c, <1>d DEF MaintainRecord, MaintenanceBusy
    <2> QED
      BY <1>9, <1>a, <2>2, <2>3, LockWork DEF MaintainRecord
  <1>10. CASE MaintainSucceed(j)
    BY <1>10, <1>a, LockWork DEF MaintainSucceed
  <1>16. CASE MaintainError(j)
    BY <1>16, <1>a, <1>c, LockWork DEF MaintainError
  <1>17. CASE MaintainDrop(j)
    BY <1>17, <1>a, <1>c, LockWork DEF MaintainDrop
  <1>18. CASE MaintainFail(j)
    BY <1>18, <1>a, LockWork DEF MaintainFail
  <1>19. CASE CommandStart(j)
    BY <1>19, <1>a, <1>d, LockWork DEF CommandStart, CommandPhase, MaintenanceBusy,
       InstallBusy
  <1>11. CASE Settle(j) \/ Announce(j)
    <2>1. Blame("settle") /\ UNCHANGED <<kind, seen>>
      BY <1>11 DEF Settle, Announce
    <2>2. (\A k \in Jobs : ~Working(k)) \/ ~Undisturbed'
      BY <2>1, BlameGrows DEF Undisturbed
    <2> QED
      BY <1>11, <1>b, <2>1, <2>2, BlameGrows, LockAside DEF Settle, Announce
  <1>12. CASE Lower(j) \/ Tail(j) \/ Leave(j)
    <2>1. /\ intruder \subseteq intruder'
          /\ UNCHANGED <<kind, seen, status>>
      BY <1>12, BlameGrows DEF Lower, Tail, Leave
    <2>2. \/ \A k \in Jobs : ~Working(k)
          \/ inFlight' = inFlight
          \/ "leave" \in intruder'
      BY <1>12, BlameGrows DEF Lower, Tail, Leave
    <2> QED
      BY <1>12, <1>b, <2>1, <2>2, LockAside DEF Lower, Tail, Leave
  <1> QED
    BY <1>1, <1>2, <1>3, <1>4, <1>5, <1>6, <1>7, <1>8, <1>9, <1>10, <1>11,
       <1>12, <1>16, <1>17, <1>18, <1>19 DEF JobStep

LEMMA LockCommand ==
  ASSUME TypeOK, LockInv, NEW j \in Jobs, Tick(j) \/ CommandEnd(j) \/ JobLog(j)
  PROVE  LockInv'
  <1> USE DEF Goto, jobVars, requestVars, historyVars, Working, WorkingPcs, JobPcs
  <1>1. Undisturbed /\ Working(j) => Busy
    BY DEF LockInv, WorkersHoldLock
  <1>2. CASE TickRead(j)
    BY <1>1, <1>2, LockWork DEF TickRead, Busy, TypeOK
  <1>3. CASE TickWrite(j)
    <2>1. Undisturbed => seen[j] \in MaintenanceBusy
      BY <1>3 DEF TickWrite, LockInv, TicksKeepBusy
    <2> QED
      BY <1>3, <2>1, LockWork DEF TickWrite, Progress, TypeOK
  <1>4. CASE CommandEnd(j)
    BY <1>1, <1>4, LockWork DEF CommandEnd, Busy
  <1>5. CASE JobLog(j)
    BY <1>5, LockAside DEF JobLog
  <1> QED
    BY <1>2, <1>3, <1>4, <1>5 DEF Tick

LEMMA LockRequest ==
  ASSUME TypeOK, LockInv, NEW r \in Requests,
         (\E g \in Goals : HealRead(r, g)) \/ HealStep(r) \/ ActStep(r)
  PROVE  LockInv'
  <1> USE DEF ReqGoto, statusVars, jobVars, historyVars, requestVars
  <1>1. ASSUME UNCHANGED <<statusVars, jobVars, historyVars>>
        PROVE  LockInv'
    BY <1>1, LockAside DEF Working
  <1>2. CASE HealUnflag(r)
    BY <1>2, LockAside DEF HealUnflag, Working
  <1>3. CASE HealClear(r)
    <2>1. Blame("heal") /\ UNCHANGED jobVars
      BY <1>3 DEF HealClear
    <2>2. (\A k \in Jobs : ~Working(k)) \/ ~Undisturbed'
      BY <2>1, BlameGrows DEF Undisturbed
    <2> QED
      BY <2>1, <2>2, BlameGrows, LockAside DEF Working
  <1>4. ASSUME NEW j \in Jobs, NEW k \in MaintenanceKinds, ~Busy,
               AcceptMaintenance(j, k), UNCHANGED historyVars
        PROVE  LockInv'
    <2>1. status'.phase \in MaintenanceBusy
      BY <1>4 DEF AcceptMaintenance, MaintenanceBusy, InstallBusy, TypeOK
    <2>2. kind'[j] = k /\ k # "server" /\ k # "mail"
      BY <1>4 DEF AcceptMaintenance, Launch, TypeOK, MaintenanceKinds
    <2> QED
      BY <1>4, <2>1, <2>2, LockAccept DEF AcceptMaintenance, Launch, Goto, TypeOK
  <1>5. CASE StartMaintenance(r)
    BY <1>1, <1>4, <1>5 DEF StartMaintenance
  <1>6. CASE AutoStart(r)
    BY <1>1, <1>4, <1>6 DEF AutoStart, MaintenanceKinds
  <1> QED
    BY <1>1, <1>2, <1>3, <1>5, <1>6 DEF HealStep, ActStep, HealRead, HealProbe,
       HealDecide, AutoCheck, NoJobLeft

LEMMA LockEnvironment ==
  ASSUME TypeOK, LockInv, HeartbeatAges \/ FlagExpires \/ Restart
  PROVE  LockInv'
  <1>1. CASE HeartbeatAges \/ FlagExpires
    BY <1>1, LockAside DEF HeartbeatAges, FlagExpires, jobVars, historyVars, Working
  <1>2. CASE Restart
    <2>1. \A k \in Jobs : ~Working(k)' /\ pc'[k] # "tick"
      BY <1>2 DEF Restart, Working, WorkingPcs
    <2> QED
      BY <2>1 DEF LockInv, WorkersHoldLock, TicksKeepBusy, Exclusion,
         ReadinessIsStable, InFlightCovers
  <1> QED
    BY <1>1, <1>2

LEMMA LockNext == IInv /\ [Next]_vars => LockInv'
  <1> SUFFICES ASSUME TypeOK, LockInv, [Next]_vars PROVE LockInv'
    BY DEF IInv
  <1>1. CASE Next
    BY <1>1, LockStartInstall, LockJobStep, LockCommand, LockRequest,
       LockEnvironment DEF Next
  <1>2. CASE UNCHANGED vars
    BY <1>2, LockAside DEF vars, statusVars, jobVars, requestVars, historyVars,
       Working
  <1> QED
    BY <1>1, <1>2

LEMMA LockInvariant == Spec => []IInv
  <1>1. Init => IInv
    BY TypeInit, LockInit DEF IInv
  <1>2. IInv /\ [Next]_vars => IInv'
    BY TypeNext, LockNext DEF IInv
  <1> QED
    BY <1>1, <1>2, PTL DEF Spec

\* Whatever the number of jobs, handlers, restarts and commands: two jobs only
\* work at once after a heal or a second final write broke into a live lock.
THEOREM ExclusionHolds == Spec => []Exclusion
  <1>1. IInv => Exclusion
    BY DEF IInv, LockInv
  <1> QED
    BY <1>1, LockInvariant, PTL

\* The readiness an install was accepted on stays what it was until the install
\* reports, unless its lock was broken.
THEOREM ReadinessHolds == Spec => []ReadinessIsStable
  <1>1. IInv => ReadinessIsStable
    BY DEF IInv, LockInv
  <1> QED
    BY <1>1, LockInvariant, PTL

\* JOB_IN_FLIGHT, the flag the heal relies on, covers every maintenance job from
\* its acceptance to the drop of its guard, unless an earlier job's guard fell
\* in between or the lock was broken.
THEOREM InFlightHolds == Spec => []InFlightCovers
  <1>1. IInv => InFlightCovers
    BY DEF IInv, LockInv
  <1> QED
    BY <1>1, LockInvariant, PTL

-----------------------------------------------------------------------------
(* JobLock implements Operation: a step accepts a job, is one of the           *)
(* undisturbed worker, or moves no worker.                                     *)

Maps == Op!Next \/ UNCHANGED Op!vars

\* A job that works has been accepted.
LEMMA WorkersAccepted ==
  {j \in Jobs : Working(j)} \subseteq {j \in Jobs : pc[j] # "idle"}
  BY DEF Working, WorkingPcs

\* Once the promise is over, any step that takes no acceptance back will do.
LEMMA MapsDisturbed ==
  ASSUME ~Undisturbed', \A k \in Jobs : pc[k] # "idle" => pc'[k] # "idle"
  PROVE  Maps
  <1>1. {k \in Jobs : Working(k)'} \subseteq {k \in Jobs : pc'[k] # "idle"}
    BY DEF Working, WorkingPcs
  <1>2. Op!Disturb
    BY <1>1 DEF Op!Disturb
  <1> QED
    BY <1>2 DEF Maps, Op!Next

LEMMA MapsAccept ==
  ASSUME TypeOK, LockInv, NEW j \in Jobs, pc[j] = "idle", ~Busy,
         status'.phase \in MaintenanceBusy,
         pc' = [pc EXCEPT ![j] = "queued"],
         UNCHANGED intruder
  PROVE  Maps
  <1>1. pc'[j] = "queued" /\ \A k \in Jobs \ {j} : pc'[k] = pc[k]
    BY DEF TypeOK
  <1>2. Undisturbed' = Undisturbed
    BY DEF Undisturbed
  <1>3. CASE ~Undisturbed
    BY <1>1, <1>2, <1>3, MapsDisturbed
  <1>4. CASE Undisturbed
    <2>1. {k \in Jobs : Working(k)} = {}
      BY <1>4 DEF LockInv, WorkersHoldLock
    <2>2. {k \in Jobs : Working(k)'} = {j}
      BY <1>1, <2>1 DEF Working, WorkingPcs
    <2>3. {k \in Jobs : pc'[k] # "idle"} = {k \in Jobs : pc[k] # "idle"} \cup {j}
      BY <1>1
    <2>4. Busy'
      BY DEF Busy
    <2>5. Op!Accept(j)
      BY <2>1, <2>2, <2>3, <2>4 DEF Op!Accept
    <2> QED
      BY <1>2, <1>4, <2>5 DEF Maps, Op!Next, Op!Keeps
  <1> QED
    BY <1>3, <1>4

\* The one undisturbed worker goes on under the lock, announces its outcome, or
\* vanishes.
LEMMA MapsWork ==
  ASSUME TypeOK, LockInv, NEW j \in Jobs, Working(j),
         NEW label \in JobPcs \ {"idle"}, pc' = [pc EXCEPT ![j] = label],
         label \in WorkingPcs => status'.phase \in MaintenanceBusy \/ ~Undisturbed,
         UNCHANGED intruder,
         label \notin WorkingPcs =>
            status'.phase \notin MaintenanceBusy \/ status' = status
  PROVE  Maps
  <1>1. pc'[j] = label /\ pc[j] # "idle" /\ \A k \in Jobs \ {j} : pc'[k] = pc[k]
    BY DEF TypeOK, Working, WorkingPcs
  <1>2. Undisturbed' = Undisturbed
    BY DEF Undisturbed
  <1>3. CASE ~Undisturbed
    BY <1>1, <1>2, <1>3, MapsDisturbed
  <1>4. CASE Undisturbed
    <2>1. {k \in Jobs : Working(k)} = {j} /\ Busy
      BY <1>4 DEF LockInv, WorkersHoldLock, Exclusion
    <2>2. {k \in Jobs : pc'[k] # "idle"} = {k \in Jobs : pc[k] # "idle"}
      BY <1>1
    <2>3. CASE label \in WorkingPcs
      <3>1. {k \in Jobs : Working(k)'} = {j} /\ Busy'
        BY <1>1, <1>4, <2>1, <2>3 DEF Working, Busy
      <3> QED
        BY <1>2, <2>1, <2>2, <3>1 DEF Maps, Op!vars
    <2>4. CASE label \notin WorkingPcs
      <3>1. {k \in Jobs : Working(k)'} = {}
        BY <1>1, <2>1, <2>4 DEF Working
      <3>2. CASE status'.phase \notin MaintenanceBusy
        <4>1. Busy' = FALSE
          BY <3>2 DEF Busy
        <4>2. Op!Announce(j)
          BY <2>1, <2>2, <3>1, <4>1 DEF Op!Announce
        <4> QED
          BY <1>2, <1>4, <4>2 DEF Maps, Op!Next, Op!Keeps
      <3>3. CASE status' = status
        <4>1. Busy' = Busy
          BY <3>3 DEF Busy
        <4>2. Op!Vanish(j)
          BY <2>1, <2>2, <3>1, <4>1 DEF Op!Vanish
        <4> QED
          BY <1>2, <1>4, <4>2 DEF Maps, Op!Next, Op!Keeps
      <3> QED
        BY <2>4, <3>2, <3>3
    <2> QED
      BY <2>3, <2>4
  <1> QED
    BY <1>3, <1>4

\* A step that moves no worker does not concern the lock, clears one nobody
\* works under, or ends the promise.
LEMMA MapsAside ==
  ASSUME TypeOK, LockInv,
         \A k \in Jobs : /\ Working(k)' <=> Working(k)
                         /\ pc'[k] = "idle" <=> pc[k] = "idle",
         Undisturbed' => Undisturbed,
         \/ ~Undisturbed'
         \/ status'.phase = status.phase
         \/ (\A k \in Jobs : ~Working(k)) /\ status'.phase \notin MaintenanceBusy
  PROVE  Maps
  <1>1. {k \in Jobs : Working(k)'} = {k \in Jobs : Working(k)}
    OBVIOUS
  <1>2. {k \in Jobs : pc'[k] # "idle"} = {k \in Jobs : pc[k] # "idle"}
    OBVIOUS
  <1>3. CASE ~Undisturbed'
    BY <1>3, MapsDisturbed
  <1>4. CASE Undisturbed' /\ status'.phase = status.phase
    <2>1. Undisturbed' = Undisturbed
      BY <1>4
    <2>2. Busy' = Busy
      BY <1>4 DEF Busy
    <2> QED
      BY <1>1, <1>2, <2>1, <2>2 DEF Maps, Op!vars
  <1>5. CASE /\ Undisturbed'
             /\ \A k \in Jobs : ~Working(k)
             /\ status'.phase \notin MaintenanceBusy
    <2>1. Undisturbed /\ Undisturbed' /\ ~Busy'
      BY <1>5 DEF Busy
    <2>2. {k \in Jobs : Working(k)} = {}
      BY <1>5
    <2>3. CASE Busy
      <3>1. Op!Clear
        BY <1>1, <1>2, <2>1, <2>2, <2>3 DEF Op!Clear
      <3> QED
        BY <2>1, <3>1 DEF Maps, Op!Next, Op!Keeps
    <2>4. CASE ~Busy
      <3>1. Busy' = Busy /\ Undisturbed' = Undisturbed
        BY <2>1, <2>4 DEF Busy, Undisturbed
      <3> QED
        BY <1>1, <1>2, <3>1 DEF Maps, Op!vars
    <2> QED
      BY <2>3, <2>4
  <1> QED
    BY <1>3, <1>4, <1>5

-----------------------------------------------------------------------------
(* Every action *)

LEMMA MapsStartInstall ==
  ASSUME TypeOK, LockInv, NEW j \in Jobs, StartInstall(j)
  PROVE  Maps
  <1> USE DEF Launch, Goto, historyVars
  <1>1. ASSUME NEW force \in BOOLEAN, StartServer(j, force)
        PROVE  Maps
    <2>1. ~Busy /\ status'.phase \in MaintenanceBusy
      BY <1>1 DEF StartServer, CanStartServer, Busy, MaintenanceBusy, InstallBusy,
         TypeOK
    <2> QED
      BY <1>1, <2>1, MapsAccept DEF StartServer
  <1>2. ASSUME NEW force \in BOOLEAN, StartMail(j, force)
        PROVE  Maps
    <2>1. ~Busy /\ status'.phase \in MaintenanceBusy
      BY <1>2 DEF StartMail, CanStartMail, Busy, MaintenanceBusy, InstallBusy,
         TypeOK
    <2> QED
      BY <1>2, <2>1, MapsAccept DEF StartMail
  <1> QED
    BY <1>1, <1>2 DEF StartInstall

LEMMA MapsJobStep ==
  ASSUME TypeOK, LockInv, NEW j \in Jobs, JobStep(j)
  PROVE  Maps
  <1> USE DEF Goto, statusVars, historyVars
  <1>a. Working(j) <=> pc[j] \in WorkingPcs
    BY DEF Working
  <1>b. ASSUME NEW label \in JobPcs \ (WorkingPcs \cup {"idle"}),
               pc[j] \notin WorkingPcs, pc[j] # "idle",
               pc' = [pc EXCEPT ![j] = label]
        PROVE  \A k \in Jobs : /\ Working(k)' <=> Working(k)
                               /\ pc'[k] = "idle" <=> pc[k] = "idle"
    BY <1>b DEF Working, TypeOK
  <1>c. Working(j) => status.phase \in MaintenanceBusy \/ ~Undisturbed
    BY DEF LockInv, WorkersHoldLock, Busy
  <1>d. \A phase \in Phases : Progress(phase) => status'.phase = phase
    BY DEF Progress, TypeOK
  <1> USE DEF WorkingPcs, JobPcs
  <1>1. CASE JobLost(j)
    BY <1>1, <1>a, MapsWork DEF JobLost
  <1>2. CASE InstallBegin(j)
    BY <1>2, <1>a, <1>c, <1>d, MapsWork DEF InstallBegin, Phases, MaintenanceBusy,
       InstallBusy
  <1>3. CASE InstallSucceed(j)
    <2>1. status'.phase \notin MaintenanceBusy
      BY <1>3 DEF InstallSucceed, TypeOK, MaintenanceBusy, InstallBusy
    <2> QED
      BY <1>3, <1>a, <2>1, MapsWork DEF InstallSucceed
  <1>4. CASE InstallError(j)
    BY <1>4, <1>a, <1>c, MapsWork DEF InstallError
  <1>5. CASE InstallFail(j)
    <2>1. status'.phase \notin MaintenanceBusy
      BY <1>5 DEF InstallFail, TypeOK, MaintenanceBusy, InstallBusy
    <2> QED
      BY <1>5, <1>a, <2>1, MapsWork DEF InstallFail
  <1>6. CASE JobEnter(j)
    BY <1>6, <1>a, <1>c, MapsWork DEF JobEnter
  <1>7. CASE MaintainNothing(j)
    <2>1. status'.phase \notin MaintenanceBusy
      BY <1>7, <1>d DEF MaintainNothing, Phases, MaintenanceBusy, InstallBusy
    <2> QED
      BY <1>7, <1>a, <2>1, MapsWork DEF MaintainNothing
  <1>8. CASE MaintainBegin(j)
    BY <1>8, <1>a, MapsWork DEF MaintainBegin, TypeOK, MaintenanceBusy, InstallBusy
  <1>9. CASE MaintainRecord(j)
    <2>1. Progress("verifying") \/ UNCHANGED status
      BY <1>9 DEF MaintainRecord
    <2>2. Undisturbed => status'.phase \in MaintenanceBusy
      BY <1>9, <2>1, <1>a, <1>c, <1>d DEF MaintainRecord, Phases, MaintenanceBusy
    <2> QED
      BY <1>9, <1>a, <2>2, MapsWork DEF MaintainRecord
  <1>10. CASE MaintainSucceed(j)
    <2>1. status'.phase \notin MaintenanceBusy
      BY <1>10, <1>d DEF MaintainSucceed, TypeOK, Phases, MaintenanceBusy, InstallBusy
    <2> QED
      BY <1>10, <1>a, <2>1, MapsWork DEF MaintainSucceed
  <1>11. CASE Settle(j) \/ Announce(j)
    <2>1. Blame("settle") /\ status'.phase \notin MaintenanceBusy
      BY <1>11 DEF Settle, Announce, TypeOK, MaintenanceBusy, InstallBusy
    <2>2. /\ (\A k \in Jobs : ~Working(k)) \/ ~Undisturbed'
          /\ Undisturbed' => Undisturbed
      BY <2>1, BlameGrows DEF Undisturbed
    <2> QED
      BY <1>11, <1>b, <2>1, <2>2, MapsAside DEF Settle, Announce
  <1>12. CASE Lower(j) \/ Tail(j) \/ Leave(j)
    <2>1. intruder \subseteq intruder' /\ UNCHANGED status
      BY <1>12, BlameGrows DEF Lower, Tail, Leave
    <2>2. Undisturbed' => Undisturbed
      BY <2>1 DEF Undisturbed
    <2> QED
      BY <1>12, <1>b, <2>1, <2>2, MapsAside DEF Lower, Tail, Leave
  <1>13. CASE MaintainError(j)
    BY <1>13, <1>a, <1>c, MapsWork DEF MaintainError
  <1>14. CASE MaintainDrop(j)
    BY <1>14, <1>a, <1>c, MapsWork DEF MaintainDrop
  <1>15. CASE MaintainFail(j)
    <2>1. status'.phase \notin MaintenanceBusy
      BY <1>15 DEF MaintainFail, TypeOK, MaintenanceBusy, InstallBusy
    <2> QED
      BY <1>15, <1>a, <2>1, MapsWork DEF MaintainFail
  <1>16. CASE CommandStart(j)
    BY <1>16, <1>a, <1>d, MapsWork DEF CommandStart, CommandPhase, Phases,
       MaintenanceBusy, InstallBusy
  <1> QED
    BY <1>1, <1>2, <1>3, <1>4, <1>5, <1>6, <1>7, <1>8, <1>9, <1>10, <1>11,
       <1>12, <1>13, <1>14, <1>15, <1>16 DEF JobStep

LEMMA MapsCommand ==
  ASSUME TypeOK, LockInv, NEW j \in Jobs, Tick(j) \/ CommandEnd(j) \/ JobLog(j)
  PROVE  Maps
  <1> USE DEF Goto, jobVars, historyVars, Working, WorkingPcs, JobPcs
  <1>1. Undisturbed /\ Working(j) => Busy
    BY DEF LockInv, WorkersHoldLock
  <1>2. CASE TickRead(j)
    BY <1>1, <1>2, MapsWork DEF TickRead, Busy
  <1>3. CASE TickWrite(j)
    <2>1. Undisturbed => seen[j] \in MaintenanceBusy
      BY <1>3 DEF TickWrite, LockInv, TicksKeepBusy
    <2> QED
      BY <1>3, <2>1, MapsWork DEF TickWrite, Progress, TypeOK
  <1>4. CASE CommandEnd(j)
    BY <1>1, <1>4, MapsWork DEF CommandEnd, Busy
  <1>5. CASE JobLog(j)
    BY <1>5, MapsAside DEF JobLog, Undisturbed
  <1> QED
    BY <1>2, <1>3, <1>4, <1>5 DEF Tick

LEMMA MapsRequest ==
  ASSUME TypeOK, LockInv, NEW r \in Requests,
         (\E g \in Goals : HealRead(r, g)) \/ HealStep(r) \/ ActStep(r)
  PROVE  Maps
  <1> USE DEF ReqGoto, statusVars, jobVars, historyVars
  <1>1. ASSUME UNCHANGED <<status, pc, intruder>>
        PROVE  Maps
    BY <1>1, MapsAside DEF Working, Undisturbed
  <1>2. CASE HealClear(r)
    <2>1. Blame("heal") /\ UNCHANGED jobVars /\ status'.phase \notin MaintenanceBusy
      BY <1>2 DEF HealClear, TypeOK, MaintenanceBusy, InstallBusy
    <2>2. /\ (\A k \in Jobs : ~Working(k)) \/ ~Undisturbed'
          /\ Undisturbed' => Undisturbed
      BY <2>1, BlameGrows DEF Undisturbed
    <2> QED
      BY <2>1, <2>2, MapsAside DEF Working
  <1>3. ASSUME NEW j \in Jobs, NEW k \in MaintenanceKinds, ~Busy,
               AcceptMaintenance(j, k), UNCHANGED historyVars
        PROVE  Maps
    <2>1. status'.phase \in MaintenanceBusy
      BY <1>3 DEF AcceptMaintenance, MaintenanceBusy, InstallBusy, TypeOK
    <2> QED
      BY <1>3, <2>1, MapsAccept DEF AcceptMaintenance, Launch, Goto
  <1>4. CASE StartMaintenance(r)
    BY <1>1, <1>3, <1>4 DEF StartMaintenance
  <1>5. CASE AutoStart(r)
    BY <1>1, <1>3, <1>5 DEF AutoStart, MaintenanceKinds
  <1> QED
    BY <1>1, <1>2, <1>4, <1>5 DEF HealStep, ActStep, HealRead, HealProbe,
       HealDecide, HealUnflag, AutoCheck, NoJobLeft

LEMMA MapsEnvironment ==
  ASSUME TypeOK, LockInv, HeartbeatAges \/ FlagExpires \/ Restart
  PROVE  Maps
  <1>1. CASE HeartbeatAges \/ FlagExpires
    BY <1>1, MapsAside DEF HeartbeatAges, FlagExpires, jobVars, historyVars, Working,
       Undisturbed
  <1>2. CASE Restart
    <2>1. \A k \in Jobs : pc'[k] = IF pc[k] = "idle" THEN "idle" ELSE "done"
      BY <1>2 DEF Restart
    <2>2. /\ {k \in Jobs : Working(k)'} = {}
          /\ {k \in Jobs : pc'[k] # "idle"} = {k \in Jobs : pc[k] # "idle"}
      BY <2>1 DEF Working, WorkingPcs
    <2>3. ~Busy' /\ Undisturbed'
      BY <1>2 DEF Restart, Busy, MaintenanceBusy, InstallBusy, Undisturbed
    <2>4. Op!Start
      BY <2>2, <2>3 DEF Op!Start
    <2> QED
      BY <2>4 DEF Maps, Op!Next
  <1> QED
    BY <1>1, <1>2

-----------------------------------------------------------------------------

\* The panel keeps the promise of Operation, whatever the number of jobs,
\* handlers, restarts and commands: one operation at a time, under a lock that
\* falls with its outcome, until a heal or a second final write takes the lock
\* from an operation at work.
THEOREM Implements == Spec => ImplementsOperation
  <1>1. Init => Op!Init
    BY DEF Init, Op!Init, Working, WorkingPcs, Busy, MaintenanceBusy, InstallBusy,
       Undisturbed
  <1>2. IInv /\ [Next]_vars => [Op!Next]_Op!vars
    <2> SUFFICES ASSUME TypeOK, LockInv, [Next]_vars
                 PROVE  Maps
      BY DEF IInv, Maps
    <2>1. CASE Next
      BY <2>1, MapsStartInstall, MapsJobStep, MapsCommand, MapsRequest,
         MapsEnvironment DEF Next
    <2>2. CASE UNCHANGED vars
      BY <2>2, MapsAside DEF vars, statusVars, jobVars, requestVars, historyVars,
         Working, Undisturbed
    <2> QED
      BY <2>1, <2>2
  <1> QED
    BY <1>1, <1>2, LockInvariant, PTL DEF Spec, ImplementsOperation, Op!Spec

=============================================================================
