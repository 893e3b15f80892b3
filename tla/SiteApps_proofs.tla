---------------------------- MODULE SiteApps_proofs ----------------------------
(* That the App's directory, backups and unit are always what SiteApps says,   *)
(* for any number of requests, seconds, uploads and deaths of the panel.       *)
EXTENDS SiteApps, FiniteSetTheorems, TLAPS

JobRecords == [dir : Dirs, id : Seconds, got : SUBSET Pieces, was : BOOLEAN,
               stg : Seconds, rb : Seconds, pick : Seconds, before : SUBSET Pieces]
Pcs   == UpdatePcs \cup RestorePcs \cup StartPcs \cup EndPcs
Files == [pieces : SUBSET Pieces, state : {"none", "whole", "partial", "garbled"}]

-----------------------------------------------------------------------------
(* Places and directories                                                     *)

LEMMA PlacesApart ==
  /\ Live \in Places
  /\ \A s \in Seconds : /\ Staging(s) \in Places /\ Rollback(s) \in Places
                        /\ Staging(s) # Live /\ Rollback(s) # Live
                        /\ \A t \in Seconds : /\ Staging(s) # Rollback(t)
                                              /\ Staging(s) = Staging(t) => s = t
                                              /\ Rollback(s) = Rollback(t) => s = t
  BY DEF Places, Live, Staging, Rollback

LEMMA ImageOf ==
  ASSUME NEW S, IsFiniteSet(S), NEW f
  PROVE  IsFiniteSet({f[x] : x \in S}) /\ Cardinality({f[x] : x \in S}) <= Cardinality(S)
  <1> DEFINE T == {f[x] : x \in S}
             g == [x \in S |-> f[x]]
  <1>1. g \in Surjection(S, T)
    BY DEF Surjection
  <1> HIDE DEF g, T
  <1>2. IsFiniteSet(T) /\ Cardinality(T) <= Cardinality(S)
    BY <1>1, FS_Surjection
  <1> QED
    BY <1>2 DEF T

LEMMA PlacesFinite == IsFiniteSet(Places) /\ Cardinality(Places) \in Nat
  <1>1. IsFiniteSet(Seconds)
    BY BoundsAssumption, FS_Interval DEF Seconds
  <1>2. /\ IsFiniteSet({Staging(s) : s \in Seconds})
        /\ IsFiniteSet({Rollback(s) : s \in Seconds})
    <2> DEFINE f == [s \in Seconds |-> Staging(s)]
               g == [s \in Seconds |-> Rollback(s)]
    <2>1. /\ {f[s] : s \in Seconds} = {Staging(s) : s \in Seconds}
          /\ {g[s] : s \in Seconds} = {Rollback(s) : s \in Seconds}
      OBVIOUS
    <2>2. IsFiniteSet({f[s] : s \in Seconds}) /\ IsFiniteSet({g[s] : s \in Seconds})
      <3> HIDE DEF f, g
      <3> QED
        BY <1>1, ImageOf
    <2> QED
      BY <2>1, <2>2
  <1>3. IsFiniteSet({Live})
    BY FS_Singleton
  <1>4. IsFiniteSet(Places)
    BY <1>2, <1>3, FS_Union DEF Places
  <1> QED
    BY <1>4, FS_CardinalityType

LEMMA DirsMany ==
  /\ IsFiniteSet(Dirs) /\ 1 \in Dirs /\ NoDir \notin Dirs
  /\ Cardinality(Dirs) = Cardinality(Places) + Cardinality(Jobs) + 2
  <1>1. Cardinality(Jobs) \in Nat
    BY JobsAssumption, FS_CardinalityType
  <1> DEFINE n == Cardinality(Places) + Cardinality(Jobs) + 2
  <1>2. n \in Nat /\ n >= 1
    BY <1>1, PlacesFinite
  <1>3. Dirs = 1..n
    BY DEF Dirs
  <1> HIDE DEF n
  <1>4. IsFiniteSet(1..n) /\ Cardinality(1..n) = n
    BY <1>2, FS_Interval
  <1> QED
    BY <1>2, <1>3, <1>4 DEF n, NoDir

\* There is always a directory that nobody knows.
LEMMA NewDirIn ==
  /\ NewDir \in Dirs /\ NewDir # NoDir
  /\ \A p \in Places : at[p] # NewDir
  /\ running => cwd # NewDir
  /\ \A k \in Jobs : pc[k] = "tarring" => job[k].dir # NewDir
  <1> DEFINE A == {at[p] : p \in Places}
             B == {job[k].dir : k \in Jobs}
             K == A \cup B \cup {cwd}
  <1>1. IsFiniteSet(A) /\ Cardinality(A) <= Cardinality(Places)
    BY PlacesFinite, ImageOf
  <1>2. IsFiniteSet(B) /\ Cardinality(B) <= Cardinality(Jobs)
    <2> DEFINE f == [k \in Jobs |-> job[k].dir]
    <2>1. {f[k] : k \in Jobs} = B
      OBVIOUS
    <2>2. IsFiniteSet({f[k] : k \in Jobs}) /\ Cardinality({f[k] : k \in Jobs}) <= Cardinality(Jobs)
      <3> HIDE DEF f
      <3> QED
        BY JobsAssumption, ImageOf
    <2> QED
      BY <2>1, <2>2
  <1>3. IsFiniteSet({cwd}) /\ Cardinality({cwd}) = 1
    BY FS_Singleton
  <1>4. IsFiniteSet(A \cup B) /\ Cardinality(A \cup B) <= Cardinality(A) + Cardinality(B)
    <2>1. /\ IsFiniteSet(A \cup B) /\ IsFiniteSet(A \cap B)
          /\ Cardinality(A \cup B) = Cardinality(A) + Cardinality(B) - Cardinality(A \cap B)
      BY <1>1, <1>2, FS_Union, FS_Intersection
    <2>2. Cardinality(A) \in Nat /\ Cardinality(B) \in Nat /\ Cardinality(A \cap B) \in Nat
      BY <1>1, <1>2, <2>1, FS_CardinalityType
    <2> QED
      BY <2>1, <2>2
  <1>5. IsFiniteSet(K) /\ Cardinality(K) <= Cardinality(A \cup B) + 1
    <2>1. /\ IsFiniteSet(K) /\ IsFiniteSet((A \cup B) \cap {cwd})
          /\ Cardinality(K) = Cardinality(A \cup B) + Cardinality({cwd})
                               - Cardinality((A \cup B) \cap {cwd})
      BY <1>3, <1>4, FS_Union, FS_Intersection
    <2>2. Cardinality(A \cup B) \in Nat /\ Cardinality((A \cup B) \cap {cwd}) \in Nat
      BY <1>4, <2>1, FS_CardinalityType
    <2> QED
      BY <1>3, <2>1, <2>2
  <1>6. Cardinality(K) < Cardinality(Dirs)
    <2>1. /\ Cardinality(A) \in Nat /\ Cardinality(B) \in Nat /\ Cardinality(A \cup B) \in Nat
          /\ Cardinality(K) \in Nat /\ Cardinality(Jobs) \in Nat
      BY <1>1, <1>2, <1>4, <1>5, JobsAssumption, FS_CardinalityType
    <2> HIDE DEF A, B, K
    <2> QED
      BY <1>1, <1>2, <1>4, <1>5, <2>1, PlacesFinite, DirsMany
  <1>7. ~(Dirs \subseteq K)
    <2>1. Cardinality(K) \in Nat /\ Cardinality(Dirs) \in Nat
      BY <1>5, DirsMany, FS_CardinalityType
    <2> HIDE DEF K
    <2> QED
      BY <1>5, <1>6, <2>1, DirsMany, FS_Subset
  <1>8. \E d \in Dirs : /\ \A p \in Places : at[p] # d
                        /\ running => cwd # d
                        /\ \A k \in Jobs : pc[k] = "tarring" => job[k].dir # d
    BY <1>7
  <1> HIDE DEF A, B, K
  <1> QED
    BY <1>8, DirsMany DEF NewDir

LEMMA Made ==
  ASSUME TypeOK, NEW p \in Places, MakeDir(p)
  PROVE  /\ at' \in [Places -> Dirs \cup {NoDir}] /\ tree' \in [Dirs -> SUBSET Pieces]
         /\ at'[p] # NoDir /\ (at[p] # NoDir => at'[p] = at[p])
         /\ at[p] = NoDir => at'[p] = NewDir /\ tree'[NewDir] = {}
         /\ \A q \in Places \ {p} : at'[q] = at[q]
         /\ \A d \in Dirs \ {NewDir} : tree'[d] = tree[d]
         /\ \A d \in Dirs : tree'[d] = tree[d] \/ tree'[d] = {}
  <1>1. CASE Exists(p)
    BY <1>1, NewDirIn DEF MakeDir, Exists, placeVars, TypeOK
  <1>2. CASE ~Exists(p)
    <2>1. at' = [at EXCEPT ![p] = NewDir] /\ tree' = [tree EXCEPT ![NewDir] = {}]
      BY <1>2 DEF MakeDir
    <2> QED
      BY <1>2, <2>1, NewDirIn DEF Exists, TypeOK
  <1> QED
    BY <1>1, <1>2

-----------------------------------------------------------------------------
(* Types                                                                      *)

Step(j) == Update(j) \/ Restore(j) \/ Start(j)

JobsOK == pc \in [Jobs -> Pcs] /\ job \in [Jobs -> JobRecords] /\ clean \in [Jobs -> BOOLEAN]
DataOK == /\ at \in [Places -> Dirs \cup {NoDir}] /\ tree \in [Dirs -> SUBSET Pieces]
          /\ archive \in [Seconds -> Files] /\ tmp \in [Seconds -> Files]
RestOK == /\ app \in {"runtime", "cms"} /\ now \in Seconds /\ running \in BOOLEAN
          /\ cwd \in Dirs /\ edits \in 1..MaxEdits /\ crashes \in 0..MaxCrashes
          /\ newest \subseteq Gens /\ wanted \in BOOLEAN
          /\ mess \subseteq {"archive", "twins", "torn", "unstopped", "started", "down", "stuck"}

LEMMA Types == (TypeOK <=> JobsOK /\ DataOK /\ RestOK)
  BY DEF TypeOK, JobsOK, DataOK, RestOK, JobRecords, Files, Pcs

LEMMA TypesNext == JobsOK' /\ DataOK' /\ RestOK' => TypeOK'
  BY DEF TypeOK, JobsOK, DataOK, RestOK, JobRecords, Files, Pcs

LEMMA FreshType ==
  /\ Fresh \in JobRecords
  /\ \A b \in SUBSET Pieces, w \in BOOLEAN :
        /\ [Fresh EXCEPT !.before = b] \in JobRecords
        /\ [Fresh EXCEPT !.was = w, !.before = b] \in JobRecords
  <1>1. Fresh \in JobRecords
    BY BoundsAssumption, DirsMany DEF Fresh, JobRecords, Seconds
  <1> QED
    BY <1>1 DEF JobRecords

LEMMA LiveType ==
  ASSUME TypeOK
  PROVE  /\ LivePieces \in SUBSET Pieces
         /\ Exists(Live) => /\ at[Live] \in Dirs /\ tree[at[Live]] \in SUBSET Pieces
                            /\ LivePieces = tree[at[Live]]
         /\ ~Exists(Live) => LivePieces = {}
  BY PlacesApart DEF TypeOK, LivePieces, Exists

\* Only the steps of job j itself leave it clean.
LEMMA Touched ==
  ASSUME TypeOK, NEW js, Touch(js) \/ UNCHANGED clean
  PROVE  /\ clean' \in [Jobs -> BOOLEAN]
         /\ \A k \in Jobs : clean'[k] => clean[k]
         /\ Touch(js) => \A k \in Jobs : clean'[k] => k \in js
  BY DEF Touch, TypeOK

\* A job that goes on, with the same local variables or with others.
LEMMA Went ==
  ASSUME TypeOK, NEW j \in Jobs, NEW label \in Pcs, Goto(j, label)
  PROVE  /\ pc' \in [Jobs -> Pcs] /\ pc'[j] = label
         /\ \A k \in Jobs \ {j} : pc'[k] = pc[k]
         /\ UNCHANGED job => job' \in [Jobs -> JobRecords]
         /\ \A l \in JobRecords : job' = [job EXCEPT ![j] = l] =>
               /\ job' \in [Jobs -> JobRecords] /\ job'[j] = l
               /\ \A k \in Jobs \ {j} : job'[k] = job[k]
  BY DEF TypeOK, Goto, Pcs, JobRecords

LEMMA UpdateJobs ==
  ASSUME TypeOK, NEW j \in Jobs, Update(j)
  PROVE  JobsOK' /\ \A k \in Jobs \ {j} : pc'[k] = pc[k] /\ job'[k] = job[k]
  <1>0. JobsOK /\ DataOK /\ RestOK
    BY Types
  <1>1. CASE UpdateBegin(j)
    <2>1. [Fresh EXCEPT !.before = LivePieces] \in JobRecords
      BY FreshType, LiveType
    <2>2. clean' \in [Jobs -> BOOLEAN]
      BY <1>0, <1>1 DEF UpdateBegin, JobsOK
    <2> QED
      BY <1>1, <2>1, <2>2, Went DEF UpdateBegin, JobsOK, Pcs, UpdatePcs
  <1>2. CASE AppDir(j)
    <2>1. clean' \in [Jobs -> BOOLEAN]
      BY <1>2, Touched DEF AppDir
    <2> QED
      BY <1>2, <2>1, Went DEF AppDir, JobsOK, Pcs, UpdatePcs
  <1>3. CASE TarStart(j)
    <2>1. PICK d \in Dirs, s \in Seconds, g \in SUBSET Pieces :
             job' = [job EXCEPT ![j].dir = d, ![j].id = s, ![j].got = g]
      BY <1>0, <1>3, LiveType DEF TarStart, RestOK
    <2> DEFINE l == [job[j] EXCEPT !.dir = d, !.id = s, !.got = g]
    <2>2. job' = [job EXCEPT ![j] = l]
      BY <1>0, <2>1 DEF JobsOK
    <2>3. l \in JobRecords
      BY <1>0 DEF JobsOK, JobRecords
    <2> HIDE DEF l
    <2> QED
      BY <1>0, <1>3, <2>2, <2>3, Went DEF TarStart, JobsOK, Pcs, UpdatePcs
  <1>4. CASE TarEnd(j)
    <2>1. job[j].dir \in Dirs /\ tree[job[j].dir] \in SUBSET Pieces
      BY <1>0 DEF JobsOK, JobRecords, DataOK
    <2>2. job' \in [Jobs -> JobRecords] /\ \A k \in Jobs \ {j} : job'[k] = job[k]
      BY <1>0, <1>4, <2>1 DEF TarEnd, JobsOK, JobRecords
    <2> QED
      BY <1>0, <1>4, <2>2, Went DEF TarEnd, JobsOK, Pcs, UpdatePcs
  <1>5. CASE TarFails(j)
    BY <1>0, <1>5 DEF TarFails, Goto, JobsOK, Pcs, UpdatePcs, RestorePcs, StartPcs,
       EndPcs, JobRecords, historyVars
  <1>6. CASE Keep(j)
    BY <1>0, <1>6 DEF Keep, Goto, JobsOK, Pcs, UpdatePcs, RestorePcs, StartPcs, EndPcs,
       JobRecords, Listed
  <1>7. CASE ChangePackage(j)
    BY <1>0, <1>7 DEF ChangePackage, Goto, JobsOK, Pcs, UpdatePcs, RestorePcs, StartPcs,
       EndPcs, JobRecords, historyVars
  <1>8. CASE ChangeCms(j)
    <2>1. clean' \in [Jobs -> BOOLEAN]
      BY <1>8, Touched DEF ChangeCms
    <2> QED
      BY <1>8, <2>1, Went DEF ChangeCms, JobsOK, Pcs, UpdatePcs, EndPcs
  <1>9. CASE CopyInstaller(j)
    BY <1>0, <1>9 DEF CopyInstaller, Goto, JobsOK, Pcs, UpdatePcs, RestorePcs, StartPcs,
       EndPcs, JobRecords, Touch, Exists
  <1>10. CASE ChangeFails(j)
    BY <1>0, <1>10 DEF ChangeFails, Goto, JobsOK, Pcs, UpdatePcs, RestorePcs, StartPcs,
       EndPcs, JobRecords, Touch, Exists
  <1> QED
    BY <1>1, <1>2, <1>3, <1>4, <1>5, <1>6, <1>7, <1>8, <1>9, <1>10 DEF Update

LEMMA UpdateData ==
  ASSUME TypeOK, NEW j \in Jobs, Update(j)
  PROVE  DataOK' /\ RestOK'
  <1>0. JobsOK /\ DataOK /\ RestOK
    BY Types
  <1>1. CASE UpdateBegin(j)
    BY <1>0, <1>1 DEF UpdateBegin, DataOK, RestOK, placeVars, backupVars, runVars,
       boundVars
  <1>2. CASE AppDir(j)
    BY <1>0, <1>2, PlacesApart, Made DEF AppDir, DataOK, RestOK, backupVars, runVars,
       boundVars
  <1>3. CASE TarStart(j)
    <2>1. tmp' \in [Seconds -> Files]
      <3>1. ASSUME NEW state \in {"partial", "garbled"}, tmp' = [tmp EXCEPT ![now].state = state]
            PROVE  tmp' \in [Seconds -> Files]
        BY <1>0, <3>1 DEF DataOK, RestOK, Files
      <3> QED
        BY <1>3, <3>1 DEF TarStart
    <2>2. mess' \subseteq mess \cup {"archive"}
      BY <1>3 DEF TarStart
    <2> QED
      BY <1>0, <1>3, <2>1, <2>2 DEF TarStart, DataOK, RestOK, placeVars, runVars, boundVars
  <1>4. CASE TarEnd(j)
    <2>1. job'[j].got \in SUBSET Pieces /\ job[j].id \in Seconds
      <3>1. JobsOK'
        BY <1>4, UpdateJobs DEF Update
      <3> QED
        BY <1>0, <3>1 DEF JobsOK, JobRecords
    <2>2. tmp' \in [Seconds -> Files]
      BY <1>0, <1>4, <2>1 DEF TarEnd, DataOK, Files
    <2>3. mess' \subseteq mess \cup {"torn"}
      BY <1>4 DEF TarEnd
    <2> QED
      BY <1>0, <1>4, <2>2, <2>3 DEF TarEnd, DataOK, RestOK, placeVars, runVars, boundVars
  <1>5. CASE TarFails(j)
    <2>1. tmp' \in [Seconds -> Files]
      <3>1. NoFile \in Files /\ job[j].id \in Seconds
        BY <1>0 DEF NoFile, Files, JobsOK, JobRecords
      <3>2. tmp' = tmp \/ tmp' = [tmp EXCEPT ![job[j].id] = NoFile]
        BY <1>5 DEF TarFails
      <3> QED
        BY <1>0, <3>1, <3>2 DEF DataOK
    <2> QED
      BY <1>0, <1>5, <2>1 DEF TarFails, DataOK, RestOK, placeVars, runVars, boundVars,
         historyVars
  <1>6. CASE Keep(j)
    <2>1. job[j].id \in Seconds /\ NoFile \in Files
      BY <1>0 DEF JobsOK, JobRecords, NoFile, Files
    <2>2. archive' \in [Seconds -> Files] /\ tmp' \in [Seconds -> Files]
      BY <1>0, <1>6, <2>1 DEF Keep, DataOK, backupVars
    <2>3. mess' \subseteq mess \cup {"archive"}
      BY <1>6 DEF Keep
    <2> QED
      BY <1>0, <1>6, <2>2, <2>3 DEF Keep, DataOK, RestOK, placeVars, runVars, boundVars
  <1>7. CASE ChangePackage(j)
    BY <1>0, <1>7 DEF ChangePackage, DataOK, RestOK, placeVars, backupVars, runVars,
       boundVars, historyVars
  <1>8. CASE ChangeCms(j)
    BY <1>0, <1>8, PlacesApart, Made DEF ChangeCms, DataOK, RestOK, backupVars, runVars,
       boundVars
  <1>9. CASE CopyInstaller(j)
    BY <1>0, <1>9, PlacesApart DEF CopyInstaller, Exists, Pieces, DataOK, RestOK,
       backupVars, runVars, boundVars
  <1>10. CASE ChangeFails(j)
    <2>1. tree' \in [Dirs -> SUBSET Pieces]
      BY <1>0, <1>10, LiveType DEF ChangeFails, DataOK, Pieces
    <2> QED
      BY <1>0, <1>10, <2>1 DEF ChangeFails, DataOK, RestOK, backupVars, runVars, boundVars
  <1> QED
    BY <1>1, <1>2, <1>3, <1>4, <1>5, <1>6, <1>7, <1>8, <1>9, <1>10 DEF Update

LEMMA RestoreJobs ==
  ASSUME TypeOK, NEW j \in Jobs, Restore(j)
  PROVE  JobsOK' /\ \A k \in Jobs \ {j} : pc'[k] = pc[k] /\ job'[k] = job[k]
  <1>0. JobsOK /\ DataOK /\ RestOK
    BY Types
  <1>1. CASE RestoreBegin(j)
    <2>1. [Fresh EXCEPT !.was = app = "runtime" /\ running, !.before = LivePieces] \in JobRecords
      BY FreshType, LiveType
    <2>2. clean' \in [Jobs -> BOOLEAN]
      BY <1>0, <1>1 DEF RestoreBegin, JobsOK
    <2> QED
      BY <1>1, <2>1, <2>2, Went DEF RestoreBegin, JobsOK, Pcs, RestorePcs
  <1>2. CASE StopFirst(j)
    BY <1>0, <1>2 DEF StopFirst, Goto, JobsOK, Pcs, UpdatePcs, RestorePcs, StartPcs,
       EndPcs, JobRecords
  <1>3. CASE Select(j)
    <2>1. PICK s \in Seconds : job' = [job EXCEPT ![j].pick = s, ![j].stg = now]
      BY <1>3 DEF Select, Listed
    <2>2. job' \in [Jobs -> JobRecords] /\ \A k \in Jobs \ {j} : job'[k] = job[k]
      BY <1>0, <2>1 DEF JobsOK, RestOK, JobRecords
    <2> QED
      BY <1>0, <1>3, <2>2, Went DEF Select, JobsOK, Pcs, RestorePcs, historyVars
  <1>4. CASE Stage(j)
    <2>1. job' \in [Jobs -> JobRecords] /\ \A k \in Jobs \ {j} : job'[k] = job[k]
      BY <1>0, <1>4 DEF Stage, JobsOK, RestOK, JobRecords
    <2> QED
      BY <1>0, <1>4, <2>1, Went DEF Stage, JobsOK, Pcs, RestorePcs
  <1>5. CASE Extract(j)
    BY <1>0, <1>5 DEF Extract, Goto, JobsOK, Pcs, UpdatePcs, RestorePcs, StartPcs,
       EndPcs, JobRecords, historyVars, Exists
  <1>6. CASE RestoreRefused(j)
    BY <1>0, <1>6 DEF RestoreRefused, Goto, JobsOK, Pcs, UpdatePcs, RestorePcs, StartPcs,
       EndPcs, JobRecords, Fail
  <1>7. CASE Look(j)
    BY <1>0, <1>7 DEF Look, Goto, JobsOK, Pcs, UpdatePcs, RestorePcs, StartPcs, EndPcs,
       JobRecords, historyVars, Exists
  <1>8. CASE Away(j)
    BY <1>0, <1>8 DEF Away, Goto, JobsOK, Pcs, UpdatePcs, RestorePcs, StartPcs, EndPcs,
       JobRecords, Touch, Exists
  <1>9. CASE AwayFails(j) \/ PutBackFails(j)
    BY <1>0, <1>9 DEF AwayFails, PutBackFails, Goto, JobsOK, Pcs, UpdatePcs, RestorePcs, StartPcs,
       EndPcs, JobRecords, Fail
  <1>10. CASE In(j)
    BY <1>0, <1>10 DEF In, Goto, JobsOK, Pcs, UpdatePcs, RestorePcs, StartPcs, EndPcs,
       JobRecords, Touch, Exists
  <1>11. CASE InFails(j)
    BY <1>0, <1>11 DEF InFails, Goto, JobsOK, Pcs, UpdatePcs, RestorePcs, StartPcs,
       EndPcs, JobRecords, historyVars
  <1>12. CASE PutBack(j)
    <2>1. clean' \in [Jobs -> BOOLEAN]
      BY <1>12, Touched DEF PutBack
    <2> QED
      BY <1>12, <2>1, Went DEF PutBack, Fail, JobsOK, Pcs, EndPcs
  <1>13. CASE Clean(j)
    BY <1>0, <1>13 DEF Clean, Goto, JobsOK, Pcs, UpdatePcs, RestorePcs, StartPcs, EndPcs,
       JobRecords, historyVars
  <1> QED
    BY <1>1, <1>2, <1>3, <1>4, <1>5, <1>6, <1>7, <1>8, <1>9, <1>10, <1>11, <1>12, <1>13 DEF Restore

LEMMA RestoreData ==
  ASSUME TypeOK, NEW j \in Jobs, Restore(j)
  PROVE  DataOK' /\ RestOK'
  <1>0. JobsOK /\ DataOK /\ RestOK
    BY Types
  <1>1. CASE RestoreBegin(j)
    BY <1>0, <1>1 DEF RestoreBegin, DataOK, RestOK, placeVars, backupVars, runVars,
       boundVars
  <1>2. CASE StopFirst(j)
    BY <1>0, <1>2 DEF StopFirst, DataOK, RestOK, placeVars, backupVars, boundVars
  <1>3. CASE Select(j)
    BY <1>0, <1>3 DEF Select, DataOK, RestOK, placeVars, backupVars, runVars, boundVars,
       historyVars
  <1>4. CASE Stage(j)
    <2>1. Staging(job[j].stg) \in Places
      BY <1>0, PlacesApart DEF JobsOK, JobRecords
    <2>2. at' \in [Places -> Dirs \cup {NoDir}] /\ tree' \in [Dirs -> SUBSET Pieces]
      BY <1>4, <2>1, Made DEF Stage
    <2>3. mess' \subseteq mess \cup {"twins"}
      BY <1>4 DEF Stage
    <2> QED
      BY <1>0, <1>4, <2>2, <2>3 DEF Stage, DataOK, RestOK, backupVars, runVars, boundVars
  <1>5. CASE Extract(j)
    BY <1>0, <1>5, PlacesApart DEF Extract, Exists, JobsOK, JobRecords, Files, DataOK,
       RestOK, backupVars, runVars, boundVars, historyVars
  <1>6. CASE RestoreRefused(j)
    BY <1>0, <1>6, PlacesApart DEF RestoreRefused, Exists, JobsOK, JobRecords, DataOK,
       RestOK, Fail, backupVars, runVars, boundVars
  <1>7. CASE Look(j)
    BY <1>0, <1>7 DEF Look, DataOK, RestOK, placeVars, backupVars, runVars, boundVars,
       historyVars
  <1>8. CASE Away(j)
    BY <1>0, <1>8, PlacesApart DEF Away, Exists, JobsOK, JobRecords, DataOK, RestOK,
       backupVars, runVars, boundVars
  <1>9. CASE AwayFails(j) \/ PutBackFails(j)
    BY <1>0, <1>9 DEF AwayFails, PutBackFails, DataOK, RestOK, Fail, placeVars, backupVars, runVars,
       boundVars
  <1>10. CASE In(j)
    BY <1>0, <1>10, PlacesApart DEF In, Exists, JobsOK, JobRecords, Vacant, Files,
       DataOK, RestOK, backupVars, runVars, boundVars
  <1>11. CASE InFails(j)
    BY <1>0, <1>11 DEF InFails, DataOK, RestOK, placeVars, backupVars, runVars,
       boundVars, historyVars
  <1>12. CASE PutBack(j)
    <2>1. Rollback(job[j].rb) \in Places
      BY <1>0, PlacesApart DEF JobsOK, JobRecords
    <2>2. at' \in [Places -> Dirs \cup {NoDir}]
      BY <1>0, <1>12, <2>1, PlacesApart DEF PutBack, DataOK
    <2>3. mess' \subseteq mess \cup {"down"}
      BY <1>12 DEF PutBack, Fail
    <2> QED
      BY <1>0, <1>12, <2>2, <2>3 DEF PutBack, DataOK, RestOK, backupVars, runVars, boundVars
  <1>13. CASE Clean(j)
    BY <1>0, <1>13, PlacesApart DEF Clean, Exists, JobsOK, JobRecords, DataOK, RestOK,
       backupVars, runVars, boundVars, historyVars
  <1> QED
    BY <1>1, <1>2, <1>3, <1>4, <1>5, <1>6, <1>7, <1>8, <1>9, <1>10, <1>11, <1>12, <1>13 DEF Restore

LEMMA StartJobs ==
  ASSUME TypeOK, NEW j \in Jobs, Start(j)
  PROVE  JobsOK' /\ \A k \in Jobs \ {j} : pc'[k] = pc[k] /\ job'[k] = job[k]
  <1>0. JobsOK /\ DataOK /\ RestOK
    BY Types
  <1>1. CASE StartBegin(j)
    BY <1>0, <1>1, FreshType, Went DEF StartBegin, JobsOK, Pcs, StartPcs, historyVars
  <1>2. CASE StartNeedless(j)
    BY <1>0, <1>2 DEF StartNeedless, Goto, JobsOK, Pcs, UpdatePcs, RestorePcs, StartPcs,
       EndPcs, JobRecords
  <1>3. CASE StartPrepare(j)
    <2>1. clean' \in [Jobs -> BOOLEAN]
      BY <1>3, Touched DEF StartPrepare
    <2> QED
      BY <1>3, <2>1, Went DEF StartPrepare, JobsOK, Pcs, StartPcs
  <1>4. CASE Run(j)
    BY <1>0, <1>4 DEF Run, Goto, JobsOK, Pcs, UpdatePcs, RestorePcs, StartPcs, EndPcs,
       JobRecords, Exists
  <1>5. CASE StartFails(j)
    BY <1>0, <1>5 DEF StartFails, Goto, JobsOK, Pcs, UpdatePcs, RestorePcs, StartPcs,
       EndPcs, JobRecords
  <1> QED
    BY <1>1, <1>2, <1>3, <1>4, <1>5 DEF Start

LEMMA StartData ==
  ASSUME TypeOK, NEW j \in Jobs, Start(j)
  PROVE  DataOK' /\ RestOK'
  <1>0. JobsOK /\ DataOK /\ RestOK
    BY Types
  <1>1. CASE StartBegin(j)
    BY <1>0, <1>1 DEF StartBegin, DataOK, RestOK, placeVars, backupVars, runVars,
       boundVars, historyVars
  <1>2. CASE StartNeedless(j)
    BY <1>0, <1>2 DEF StartNeedless, DataOK, RestOK, placeVars, backupVars, runVars,
       boundVars
  <1>3. CASE StartPrepare(j)
    <2>1. at' \in [Places -> Dirs \cup {NoDir}] /\ tree' \in [Dirs -> SUBSET Pieces]
      <3>1. PICK d \in Dirs, new \in SUBSET Pieces :
               at' = [at EXCEPT ![Live] = d] /\ tree' = [tree EXCEPT ![d] = new]
        BY <1>3, LiveType, NewDirIn DEF StartPrepare, Pieces
      <3> QED
        BY <1>0, <3>1 DEF DataOK
    <2> QED
      BY <1>0, <1>3, <2>1 DEF StartPrepare, DataOK, RestOK, backupVars, runVars, boundVars
  <1>4. CASE Run(j)
    <2>1. cwd' \in Dirs /\ running' \in BOOLEAN
      BY <1>0, <1>4, LiveType DEF Run, RestOK
    <2>2. mess' \subseteq mess \cup {"down", "started"}
      BY <1>4 DEF Run
    <2> QED
      BY <1>0, <1>4, <2>1, <2>2 DEF Run, DataOK, RestOK, placeVars, backupVars, boundVars
  <1>5. CASE StartFails(j)
    BY <1>0, <1>5 DEF StartFails, DataOK, RestOK, placeVars, backupVars, boundVars
  <1> QED
    BY <1>1, <1>2, <1>3, <1>4, <1>5 DEF Start

LEMMA TypeInit == Init => TypeOK
  <1> SUFFICES ASSUME Init PROVE TypeOK
    OBVIOUS
  <1>1. MaxTime \in Nat \ {0} /\ MaxEdits \in Nat \ {0} /\ MaxCrashes \in Nat
    BY BoundsAssumption
  <1>2. JobsOK
    BY FreshType DEF Init, JobsOK, Pcs, EndPcs
  <1>3. NoFile \in Files /\ [pieces |-> {0}, state |-> "whole"] \in Files
    BY <1>1 DEF NoFile, Files, Pieces, Gens
  <1>4. archive \in [Seconds -> Files] /\ tmp \in [Seconds -> Files]
    BY <1>3 DEF Init
  <1>5. at \in [Places -> Dirs \cup {NoDir}] /\ tree \in [Dirs -> SUBSET Pieces]
    BY <1>1, DirsMany DEF Init, Pieces, Gens
  <1>6. RestOK
    BY <1>1, DirsMany DEF Init, RestOK, Seconds, Gens
  <1> QED
    BY <1>2, <1>4, <1>5, <1>6, Types DEF DataOK

LEMMA OwnerType ==
  ASSUME TypeOK, StopClick \/ UnitEnds \/ Edit \/ RemoveInstaller \/ Advance
  PROVE  TypeOK' /\ UNCHANGED <<pc, job>>
  <1>0. JobsOK /\ DataOK /\ RestOK
    BY Types
  <1>1. CASE StopClick \/ UnitEnds
    <2>1. JobsOK' /\ DataOK' /\ RestOK' /\ UNCHANGED <<pc, job>>
      BY <1>0, <1>1 DEF StopClick, UnitEnds, JobsOK, DataOK, RestOK, placeVars, backupVars, jobVars, boundVars
    <2> QED
      BY <2>1, TypesNext
  <1>2. CASE Edit
    <2>1. edits' \in 1..MaxEdits /\ edits' \in Gens
      BY <1>0, <1>2, BoundsAssumption DEF Edit, RestOK, Gens
    <2>2. tree' \in [Dirs -> SUBSET Pieces]
      BY <1>0, <1>2, <2>1, LiveType DEF Edit, DataOK, Pieces
    <2>3. clean' \in [Jobs -> BOOLEAN]
      BY <1>2, Touched DEF Edit
    <2>4. JobsOK' /\ DataOK' /\ RestOK' /\ UNCHANGED <<pc, job>>
      BY <1>0, <1>2, <2>1, <2>2, <2>3
         DEF Edit, JobsOK, DataOK, RestOK, backupVars, runVars, jobVars
    <2> QED
      BY <2>4, TypesNext
  <1>3. CASE RemoveInstaller
    <2>1. tree' \in [Dirs -> SUBSET Pieces]
      BY <1>0, <1>3, LiveType DEF RemoveInstaller, DataOK
    <2>2. clean' \in [Jobs -> BOOLEAN]
      BY <1>3, Touched DEF RemoveInstaller
    <2>3. JobsOK' /\ DataOK' /\ RestOK' /\ UNCHANGED <<pc, job>>
      BY <1>0, <1>3, <2>1, <2>2
         DEF RemoveInstaller, JobsOK, DataOK, RestOK, backupVars, runVars, jobVars, boundVars
    <2> QED
      BY <2>3, TypesNext
  <1>4. CASE Advance
    <2>1. now' \in Seconds
      BY <1>0, <1>4, BoundsAssumption DEF Advance, RestOK, Seconds
    <2>2. JobsOK' /\ DataOK' /\ RestOK' /\ UNCHANGED <<pc, job>>
      BY <1>0, <1>4, <2>1
         DEF Advance, JobsOK, DataOK, RestOK, placeVars, backupVars, runVars, jobVars, historyVars
    <2> QED
      BY <2>2, TypesNext
  <1> QED
    BY <1>1, <1>2, <1>3, <1>4

LEMMA CrashType ==
  ASSUME TypeOK, Crash
  PROVE  /\ TypeOK' /\ UNCHANGED <<app, at, tree, archive, tmp, running, cwd, job, newest, wanted>>
         /\ mess' = mess \cup {"down"}
         /\ \A k \in Jobs : pc'[k] \in {"idle", "failed"} /\ ~clean'[k]
  <1>0. JobsOK /\ DataOK /\ RestOK
    BY Types
  <1>1. JobsOK' /\ \A k \in Jobs : pc'[k] \in {"idle", "failed"} /\ ~clean'[k]
    BY <1>0 DEF Crash, JobsOK, Pcs, EndPcs
  <1>2. DataOK' /\ RestOK'
    BY <1>0, BoundsAssumption DEF Crash, DataOK, RestOK, placeVars, backupVars, runVars
  <1> QED
    BY <1>1, <1>2, TypesNext DEF Crash, placeVars, backupVars, runVars

\* What every step of a job leaves alone.
LEMMA StepType ==
  ASSUME TypeOK, NEW j \in Jobs, Step(j)
  PROVE  TypeOK' /\ \A k \in Jobs \ {j} : pc'[k] = pc[k] /\ job'[k] = job[k]
  BY UpdateJobs, UpdateData, RestoreJobs, RestoreData, StartJobs, StartData, TypesNext DEF Step

LEMMA NextCases ==
  [Next]_vars => \/ \E j \in Jobs : Update(j) \/ Restore(j) \/ Start(j)
                 \/ StopClick \/ UnitEnds \/ Edit \/ RemoveInstaller \/ Advance \/ Crash
                 \/ UNCHANGED vars
  BY DEF Next

LEMMA TypeNext == TypeOK /\ [Next]_vars => TypeOK'
  <1> SUFFICES ASSUME TypeOK, [Next]_vars PROVE TypeOK'
    OBVIOUS
  <1>1. CASE UNCHANGED vars
    <2>1. JobsOK' /\ DataOK' /\ RestOK'
      BY <1>1, Types DEF JobsOK, DataOK, RestOK, vars, placeVars, backupVars, runVars, jobVars,
         boundVars, historyVars
    <2> QED
      BY <2>1, TypesNext
  <1> QED
    BY <1>1, NextCases, StepType, OwnerType, CrashType DEF Step

\* The directory a job makes always exists, the archives and times in its hands
\* are those of the model, and so on: every variable has its type.
THEOREM TypeCorrect == Spec => []TypeOK
  BY TypeInit, TypeNext, PTL DEF Spec

-----------------------------------------------------------------------------
(* The unit of the App                                                        *)

\* A CMS has no unit, and only a restore of a runtime App has stopped one.
Units == /\ app = "cms" => ~running /\ \A j \in Jobs : pc[j] \notin StartPcs
         /\ \A j \in Jobs : job[j].was => app = "runtime"
\* A running App is in its place, and no restore is past its stop.
InPlace == running /\ mess \cap {"unstopped", "started"} = {} =>
    /\ \A j \in Jobs : pc[j] \notin RestorePcs \ {"stop"}
    /\ cwd = at[Live]
\* An App its owner wants is up, or on its way up.
Reviving(j) == pc[j] \in StartPcs \/ (pc[j] \in RestorePcs /\ job[j].was)
Revived == /\ \A j \in Jobs : pc[j] = "stop" => job[j].was
           /\ wanted /\ "down" \notin mess => running \/ \E j \in Jobs : Reviving(j)
UnitInv == Units /\ InPlace /\ Revived

LEMMA UnitInit == Init => UnitInv
  BY PlacesApart DEF Init, UnitInv, Units, InPlace, Revived, Fresh, RestorePcs, StartPcs

\* An update does nothing to the unit, nor to a directory it runs in.
LEMMA UpdateKeeps ==
  ASSUME TypeOK, NEW j \in Jobs, Update(j)
  PROVE  /\ pc[j] \in UpdatePcs \cup {"idle"} /\ pc'[j] \in UpdatePcs \cup {"done", "failed"}
         /\ UNCHANGED <<app, running, cwd, wanted>>
         /\ mess \subseteq mess'
         /\ job'[j].was => job[j].was
         /\ Exists(Live) => at'[Live] = at[Live]
  <1>0. JobsOK /\ DataOK
    BY Types
  <1>1. CASE UpdateBegin(j)
    BY <1>0, <1>1 DEF UpdateBegin, Goto, JobsOK, JobRecords, UpdatePcs, placeVars, runVars, historyVars, Fresh
  <1>2. CASE AppDir(j)
    BY <1>0, <1>2 DEF AppDir, Goto, JobsOK, JobRecords, UpdatePcs, placeVars, runVars, historyVars, MakeDir
  <1>3. CASE TarStart(j)
    BY <1>0, <1>3 DEF TarStart, Goto, JobsOK, JobRecords, UpdatePcs, placeVars, runVars, historyVars
  <1>4. CASE TarEnd(j)
    BY <1>0, <1>4 DEF TarEnd, Goto, JobsOK, JobRecords, UpdatePcs, placeVars, runVars, historyVars
  <1>5. CASE TarFails(j)
    BY <1>0, <1>5 DEF TarFails, Goto, JobsOK, JobRecords, UpdatePcs, placeVars, runVars, historyVars
  <1>6. CASE Keep(j)
    BY <1>0, <1>6 DEF Keep, Goto, JobsOK, JobRecords, UpdatePcs, placeVars, runVars, historyVars
  <1>7. CASE ChangePackage(j)
    BY <1>0, <1>7 DEF ChangePackage, Goto, JobsOK, JobRecords, UpdatePcs, placeVars, runVars, historyVars
  <1>8. CASE ChangeCms(j)
    BY <1>0, <1>8 DEF ChangeCms, Goto, JobsOK, JobRecords, UpdatePcs, placeVars, runVars, historyVars, MakeDir
  <1>9. CASE CopyInstaller(j)
    BY <1>0, <1>9 DEF CopyInstaller, Goto, JobsOK, JobRecords, UpdatePcs, placeVars, runVars, historyVars
  <1>10. CASE ChangeFails(j)
    BY <1>0, <1>10 DEF ChangeFails, Goto, JobsOK, JobRecords, UpdatePcs, placeVars, runVars, historyVars
  <1> QED
    BY <1>1, <1>2, <1>3, <1>4, <1>5, <1>6, <1>7, <1>8, <1>9, <1>10 DEF Update

LEMMA UnitUpdate ==
  ASSUME TypeOK, UnitInv, NEW j \in Jobs, Update(j)
  PROVE  UnitInv'
  <1>0. Units /\ InPlace /\ Revived /\ cwd # NoDir
    BY DirsMany DEF UnitInv, TypeOK
  <1>1. /\ pc[j] \notin RestorePcs \cup StartPcs /\ pc'[j] \notin RestorePcs \cup StartPcs
        /\ UNCHANGED <<app, running, cwd, wanted>> /\ mess \subseteq mess'
        /\ job'[j].was => job[j].was
        /\ Exists(Live) => at'[Live] = at[Live]
    BY UpdateKeeps DEF UpdatePcs, RestorePcs, StartPcs
  <1>2. \A k \in Jobs \ {j} : pc'[k] = pc[k] /\ job'[k] = job[k]
    BY StepType DEF Step
  <1>3. Units'
    BY <1>0, <1>1, <1>2 DEF Units
  <1>4. InPlace'
    BY <1>0, <1>1, <1>2 DEF InPlace, Exists
  <1>5. Revived'
    BY <1>0, <1>1, <1>2 DEF Revived, Reviving, RestorePcs
  <1> QED
    BY <1>3, <1>4, <1>5 DEF UnitInv

LEMMA UnitRestore ==
  ASSUME TypeOK, UnitInv, NEW j \in Jobs, Restore(j)
  PROVE  UnitInv'
  <1>0. JobsOK /\ DataOK /\ RestOK /\ Units /\ InPlace /\ Revived /\ cwd # NoDir
    BY Types, DirsMany DEF UnitInv, RestOK
  <1>a. \A k \in Jobs \ {j} : pc'[k] = pc[k] /\ job'[k] = job[k]
    BY StepType DEF Step
  <1>1. CASE RestoreBegin(j)
    <2>1. Units'
      BY <1>0, <1>a, <1>1 DEF RestoreBegin, Units, Goto, JobsOK, JobRecords, RestorePcs, StartPcs, runVars, placeVars, historyVars, Fresh
    <2>2. InPlace'
      BY <1>0, <1>a, <1>1 DEF RestoreBegin, Units, InPlace, Goto, RestOK, JobsOK, JobRecords, RestorePcs, StartPcs, runVars, placeVars, historyVars, Fresh
    <2>3. Revived'
      BY <1>0, <1>a, <1>1 DEF RestoreBegin, Revived, Reviving, Goto, JobsOK, JobRecords, RestorePcs, StartPcs, runVars, placeVars, historyVars, Fresh
    <2> QED
      BY <2>1, <2>2, <2>3 DEF UnitInv
  <1>2. CASE StopFirst(j)
    <2>1. Units'
      BY <1>0, <1>a, <1>2 DEF StopFirst, Units, Goto, JobsOK, JobRecords, RestorePcs, StartPcs, runVars, placeVars, historyVars
    <2>2. InPlace'
      BY <1>0, <1>a, <1>2 DEF StopFirst, Units, InPlace, Goto, JobsOK, JobRecords, RestorePcs, StartPcs, runVars, placeVars, historyVars
    <2>3. Revived'
      BY <1>0, <1>a, <1>2 DEF StopFirst, Revived, Reviving, Goto, JobsOK, JobRecords, RestorePcs, StartPcs, runVars, placeVars, historyVars
    <2> QED
      BY <2>1, <2>2, <2>3 DEF UnitInv
  <1>3. CASE Select(j)
    <2>1. Units'
      BY <1>0, <1>a, <1>3 DEF Select, Units, Goto, JobsOK, JobRecords, RestorePcs, StartPcs, runVars, placeVars, historyVars
    <2>2. InPlace'
      BY <1>0, <1>a, <1>3 DEF Select, Units, InPlace, Goto, JobsOK, JobRecords, RestorePcs, StartPcs, runVars, placeVars, historyVars
    <2>3. Revived'
      BY <1>0, <1>a, <1>3 DEF Select, Revived, Reviving, Goto, JobsOK, JobRecords, RestorePcs, StartPcs, runVars, placeVars, historyVars
    <2> QED
      BY <2>1, <2>2, <2>3 DEF UnitInv
  <1>4. CASE Stage(j)
    <2>1. Units'
      BY <1>0, <1>a, <1>4 DEF Stage, Units, Goto, JobsOK, JobRecords, RestorePcs, StartPcs, runVars, placeVars, historyVars, MakeDir
    <2>2. InPlace'
      BY <1>0, <1>a, <1>4 DEF Stage, Units, InPlace, Goto, JobsOK, JobRecords, RestorePcs, StartPcs, runVars, placeVars, historyVars, MakeDir
    <2>3. Revived'
      BY <1>0, <1>a, <1>4 DEF Stage, Revived, Reviving, Goto, JobsOK, JobRecords, RestorePcs, StartPcs, runVars, placeVars, historyVars, MakeDir
    <2> QED
      BY <2>1, <2>2, <2>3 DEF UnitInv
  <1>5. CASE Extract(j)
    <2>1. Units'
      BY <1>0, <1>a, <1>5 DEF Extract, Units, Goto, JobsOK, JobRecords, RestorePcs, StartPcs, runVars, placeVars, historyVars
    <2>2. InPlace'
      BY <1>0, <1>a, <1>5 DEF Extract, Units, InPlace, Goto, JobsOK, JobRecords, RestorePcs, StartPcs, runVars, placeVars, historyVars
    <2>3. Revived'
      BY <1>0, <1>a, <1>5 DEF Extract, Revived, Reviving, Goto, JobsOK, JobRecords, RestorePcs, StartPcs, runVars, placeVars, historyVars
    <2> QED
      BY <2>1, <2>2, <2>3 DEF UnitInv
  <1>6. CASE RestoreRefused(j)
    <2>1. Units'
      BY <1>0, <1>a, <1>6 DEF RestoreRefused, Units, Goto, JobsOK, JobRecords, RestorePcs, StartPcs, runVars, placeVars, historyVars, Fail
    <2>2. InPlace'
      BY <1>0, <1>a, <1>6 DEF RestoreRefused, Units, InPlace, Goto, JobsOK, JobRecords, RestorePcs, StartPcs, runVars, placeVars, historyVars, Fail
    <2>3. Revived'
      BY <1>0, <1>a, <1>6 DEF RestoreRefused, Revived, Reviving, Goto, JobsOK, JobRecords, RestorePcs, StartPcs, runVars, placeVars, historyVars, Fail
    <2> QED
      BY <2>1, <2>2, <2>3 DEF UnitInv
  <1>7. CASE Look(j)
    <2>1. Units'
      BY <1>0, <1>a, <1>7 DEF Look, Units, Goto, JobsOK, JobRecords, RestorePcs, StartPcs, runVars, placeVars, historyVars
    <2>2. InPlace'
      BY <1>0, <1>a, <1>7 DEF Look, Units, InPlace, Goto, JobsOK, JobRecords, RestorePcs, StartPcs, runVars, placeVars, historyVars
    <2>3. Revived'
      BY <1>0, <1>a, <1>7 DEF Look, Revived, Reviving, Goto, JobsOK, JobRecords, RestorePcs, StartPcs, runVars, placeVars, historyVars
    <2> QED
      BY <2>1, <2>2, <2>3 DEF UnitInv
  <1>8. CASE Away(j)
    <2>1. Units'
      BY <1>0, <1>a, <1>8 DEF Away, Units, Goto, JobsOK, JobRecords, RestorePcs, StartPcs, runVars, placeVars, historyVars, Exists
    <2>2. InPlace'
      BY <1>0, <1>a, <1>8 DEF Away, Units, InPlace, Goto, JobsOK, JobRecords, RestorePcs, StartPcs, runVars, placeVars, historyVars, Exists
    <2>3. Revived'
      BY <1>0, <1>a, <1>8 DEF Away, Revived, Reviving, Goto, JobsOK, JobRecords, RestorePcs, StartPcs, runVars, placeVars, historyVars, Exists
    <2> QED
      BY <2>1, <2>2, <2>3 DEF UnitInv
  <1>9. CASE AwayFails(j) \/ PutBackFails(j)
    <2>1. Units'
      BY <1>0, <1>a, <1>9 DEF AwayFails, PutBackFails, Units, Goto, JobsOK, JobRecords, RestorePcs, StartPcs, runVars, placeVars, historyVars, Fail
    <2>2. InPlace'
      BY <1>0, <1>a, <1>9 DEF AwayFails, PutBackFails, Units, InPlace, Goto, JobsOK, JobRecords, RestorePcs, StartPcs, runVars, placeVars, historyVars, Fail
    <2>3. Revived'
      BY <1>0, <1>a, <1>9 DEF AwayFails, PutBackFails, Revived, Reviving, Goto, JobsOK, JobRecords, RestorePcs, StartPcs, runVars, placeVars, historyVars, Fail
    <2> QED
      BY <2>1, <2>2, <2>3 DEF UnitInv
  <1>10. CASE In(j)
    <2>1. Units'
      BY <1>0, <1>a, <1>10 DEF In, Units, Goto, JobsOK, JobRecords, RestorePcs, StartPcs, runVars, placeVars, historyVars
    <2>2. InPlace'
      BY <1>0, <1>a, <1>10 DEF In, Units, InPlace, Goto, JobsOK, JobRecords, RestorePcs, StartPcs, runVars, placeVars, historyVars
    <2>3. Revived'
      BY <1>0, <1>a, <1>10 DEF In, Revived, Reviving, Goto, JobsOK, JobRecords, RestorePcs, StartPcs, runVars, placeVars, historyVars
    <2> QED
      BY <2>1, <2>2, <2>3 DEF UnitInv
  <1>11. CASE InFails(j)
    <2>1. Units'
      BY <1>0, <1>a, <1>11 DEF InFails, Units, Goto, JobsOK, JobRecords, RestorePcs, StartPcs, runVars, placeVars, historyVars
    <2>2. InPlace'
      BY <1>0, <1>a, <1>11 DEF InFails, Units, InPlace, Goto, JobsOK, JobRecords, RestorePcs, StartPcs, runVars, placeVars, historyVars
    <2>3. Revived'
      BY <1>0, <1>a, <1>11 DEF InFails, Revived, Reviving, Goto, JobsOK, JobRecords, RestorePcs, StartPcs, runVars, placeVars, historyVars
    <2> QED
      BY <2>1, <2>2, <2>3 DEF UnitInv
  <1>12. CASE PutBack(j)
    <2>1. Units'
      BY <1>0, <1>a, <1>12 DEF PutBack, Units, Goto, JobsOK, JobRecords, RestorePcs, StartPcs, runVars, placeVars, historyVars, Fail
    <2>2. InPlace'
      BY <1>0, <1>a, <1>12 DEF PutBack, Units, InPlace, Goto, JobsOK, JobRecords, RestorePcs, StartPcs, runVars, placeVars, historyVars, Fail
    <2>3. Revived'
      BY <1>0, <1>a, <1>12 DEF PutBack, Revived, Reviving, Goto, JobsOK, JobRecords, RestorePcs, StartPcs, runVars, placeVars, historyVars, Fail
    <2> QED
      BY <2>1, <2>2, <2>3 DEF UnitInv
  <1>13. CASE Clean(j)
    <2>1. Units'
      BY <1>0, <1>a, <1>13 DEF Clean, Units, Goto, JobsOK, JobRecords, RestorePcs, StartPcs, runVars, placeVars, historyVars
    <2>2. InPlace'
      BY <1>0, <1>a, <1>13 DEF Clean, Units, InPlace, Goto, JobsOK, JobRecords, RestorePcs, StartPcs, runVars, placeVars, historyVars
    <2>3. Revived'
      BY <1>0, <1>a, <1>13 DEF Clean, Revived, Reviving, Goto, JobsOK, JobRecords, RestorePcs, StartPcs, runVars, placeVars, historyVars
    <2> QED
      BY <2>1, <2>2, <2>3 DEF UnitInv
  <1> QED
    BY <1>1, <1>2, <1>3, <1>4, <1>5, <1>6, <1>7, <1>8, <1>9, <1>10, <1>11, <1>12, <1>13 DEF Restore

LEMMA UnitStart ==
  ASSUME TypeOK, UnitInv, NEW j \in Jobs, Start(j)
  PROVE  UnitInv'
  <1>0. JobsOK /\ DataOK /\ RestOK /\ Units /\ InPlace /\ Revived /\ cwd # NoDir
    BY Types, DirsMany DEF UnitInv, RestOK
  <1>a. \A k \in Jobs \ {j} : pc'[k] = pc[k] /\ job'[k] = job[k]
    BY StepType DEF Step
  <1>1. CASE StartBegin(j)
    <2>1. Units'
      BY <1>0, <1>a, <1>1 DEF StartBegin, Units, Goto, JobsOK, JobRecords, RestorePcs, StartPcs, runVars, placeVars, historyVars, Fresh
    <2>2. InPlace'
      BY <1>0, <1>a, <1>1 DEF StartBegin, Units, InPlace, Goto, JobsOK, JobRecords, RestorePcs, StartPcs, runVars, placeVars, historyVars, Fresh
    <2>3. Revived'
      BY <1>0, <1>a, <1>1 DEF StartBegin, Revived, Reviving, Goto, JobsOK, JobRecords, RestorePcs, StartPcs, runVars, placeVars, historyVars, Fresh
    <2> QED
      BY <2>1, <2>2, <2>3 DEF UnitInv
  <1>2. CASE StartNeedless(j)
    <2>1. Units'
      BY <1>0, <1>a, <1>2 DEF StartNeedless, Units, Goto, JobsOK, JobRecords, RestorePcs, StartPcs, runVars, placeVars, historyVars
    <2>2. InPlace'
      BY <1>0, <1>a, <1>2 DEF StartNeedless, Units, InPlace, Goto, JobsOK, JobRecords, RestorePcs, StartPcs, runVars, placeVars, historyVars
    <2>3. Revived'
      BY <1>0, <1>a, <1>2 DEF StartNeedless, Revived, Reviving, Goto, JobsOK, JobRecords, RestorePcs, StartPcs, runVars, placeVars, historyVars
    <2> QED
      BY <2>1, <2>2, <2>3 DEF UnitInv
  <1>3. CASE StartPrepare(j)
    <2>1. Units'
      BY <1>0, <1>a, <1>3 DEF StartPrepare, Units, Goto, JobsOK, JobRecords, RestorePcs, StartPcs, runVars, placeVars, historyVars
    <2>2. InPlace'
      BY <1>0, <1>a, <1>3 DEF StartPrepare, Units, InPlace, Goto, JobsOK, JobRecords, RestorePcs, StartPcs, runVars, placeVars, historyVars
    <2>3. Revived'
      BY <1>0, <1>a, <1>3 DEF StartPrepare, Revived, Reviving, Goto, JobsOK, JobRecords, RestorePcs, StartPcs, runVars, placeVars, historyVars
    <2> QED
      BY <2>1, <2>2, <2>3 DEF UnitInv
  <1>4. CASE Run(j)
    <2>1. Units'
      BY <1>0, <1>a, <1>4 DEF Run, Units, Goto, JobsOK, JobRecords, RestorePcs, StartPcs, runVars, placeVars, historyVars, Exists
    <2>2. InPlace'
      BY <1>0, <1>a, <1>4 DEF Run, Units, InPlace, Goto, JobsOK, JobRecords, RestorePcs, StartPcs, runVars, placeVars, historyVars, Exists
    <2>3. Revived'
      BY <1>0, <1>a, <1>4 DEF Run, Revived, Reviving, Goto, JobsOK, JobRecords, RestorePcs, StartPcs, runVars, placeVars, historyVars, Exists
    <2> QED
      BY <2>1, <2>2, <2>3 DEF UnitInv
  <1>5. CASE StartFails(j)
    <2>1. Units'
      BY <1>0, <1>a, <1>5 DEF StartFails, Units, Goto, JobsOK, JobRecords, RestorePcs, StartPcs, runVars, placeVars, historyVars
    <2>2. InPlace'
      BY <1>0, <1>a, <1>5 DEF StartFails, Units, InPlace, Goto, JobsOK, JobRecords, RestorePcs, StartPcs, runVars, placeVars, historyVars
    <2>3. Revived'
      BY <1>0, <1>a, <1>5 DEF StartFails, Revived, Reviving, Goto, JobsOK, JobRecords, RestorePcs, StartPcs, runVars, placeVars, historyVars
    <2> QED
      BY <2>1, <2>2, <2>3 DEF UnitInv
  <1> QED
    BY <1>1, <1>2, <1>3, <1>4, <1>5 DEF Start

LEMMA UnitNext ==
  ASSUME TypeOK, UnitInv, [Next]_vars
  PROVE  UnitInv'
  <1>0. Units /\ InPlace /\ Revived
    BY DEF UnitInv
  <1>1. CASE StopClick \/ UnitEnds
    BY <1>0, <1>1 DEF StopClick, UnitEnds, jobVars, placeVars, UnitInv, Units, InPlace, Revived, Reviving
  <1>2. CASE Edit \/ RemoveInstaller \/ Advance \/ UNCHANGED vars
    <2>1. UNCHANGED <<app, at, running, cwd, pc, job, wanted, mess>>
      BY <1>2 DEF Edit, RemoveInstaller, Advance, vars, placeVars, runVars, jobVars, historyVars
    <2> QED
      BY <1>0, <2>1 DEF UnitInv, Units, InPlace, Revived, Reviving
  <1>3. CASE Crash
    BY <1>0, <1>3, CrashType
       DEF UnitInv, Units, InPlace, Revived, Reviving, RestorePcs, StartPcs
  <1> QED
    BY <1>1, <1>2, <1>3, NextCases, UnitUpdate, UnitRestore, UnitStart

\* A running App runs in the directory that is in its place: no restore swaps
\* the files under it, unless systemctl did not stop it or it was started while
\* a restore was on its way.
THEOREM RunsInPlace == Spec => []RunsWhatIsThere
  <1>1. Init => TypeOK /\ UnitInv
    BY TypeInit, UnitInit
  <1>2. TypeOK /\ UnitInv /\ [Next]_vars => (TypeOK /\ UnitInv)'
    BY TypeNext, UnitNext
  <1>3. UnitInv => RunsWhatIsThere
    BY DEF UnitInv, InPlace, RunsWhatIsThere
  <1> QED
    BY <1>1, <1>2, <1>3, PTL DEF Spec

\* When no job is on its way, an App that was started, and since then neither stopped
\* by its owner nor ended by itself, is up, unless a restore or a start failed or
\* died: every restore that stops it starts it again, whatever other jobs do
\* between the two.
THEOREM StaysUpHolds == Spec => []StaysUp
  <1>1. Init => TypeOK /\ UnitInv
    BY TypeInit, UnitInit
  <1>2. TypeOK /\ UnitInv /\ [Next]_vars => (TypeOK /\ UnitInv)'
    BY TypeNext, UnitNext
  <1>3. UnitInv => StaysUp
    BY DEF UnitInv, Revived, Reviving, StaysUp, EndPcs, RestorePcs, StartPcs
  <1> QED
    BY <1>1, <1>2, <1>3, PTL DEF Spec

-----------------------------------------------------------------------------
(* What a step does to the places                                             *)

\* No two places have one directory.
Apart == \A p \in Places, q \in Places : Exists(p) /\ at[p] = at[q] => p = q

\* A directory is made, moved to another place or dropped.
Makes(p)    == at[p] = NoDir /\ at' = [at EXCEPT ![p] = NewDir]
Moves(p, q) == p # q /\ Exists(p) /\ at' = [at EXCEPT ![p] = NoDir, ![q] = at[p]]
Drops(p)    == at' = [at EXCEPT ![p] = NoDir]
Rearranges == \/ UNCHANGED at
              \/ \E p \in Places : Makes(p) \/ Drops(p)
              \/ \E p \in Places, q \in Places : Moves(p, q)

\* The places of a job, apart from the App's.
LEMMA JobPlaces ==
  ASSUME TypeOK, NEW j \in Jobs
  PROVE  /\ Live \in Places
         /\ Staging(job[j].stg) \in Places /\ Staging(job[j].stg) # Live
         /\ Rollback(job[j].rb) \in Places /\ Rollback(job[j].rb) # Live
         /\ job[j].id \in Seconds /\ job[j].rb \in Seconds /\ job[j].stg \in Seconds
         /\ job[j].pick \in Seconds /\ job[j].dir \in Dirs
  <1>1. JobsOK
    BY Types
  <1> QED
    BY <1>1, PlacesApart DEF JobsOK, JobRecords

LEMMA Making ==
  ASSUME TypeOK, NEW p \in Places, MakeDir(p)
  PROVE  Rearranges
  BY DEF MakeDir, Exists, placeVars, Rearranges, Makes

LEMMA NextRearranges ==
  ASSUME TypeOK, [Next]_vars
  PROVE  Rearranges
  <1>1. ASSUME NEW j \in Jobs, Update(j) PROVE Rearranges
    BY <1>1, PlacesApart, Making DEF Update, UpdateBegin, AppDir, TarStart, TarEnd, TarFails,
       Keep, ChangePackage, ChangeCms, CopyInstaller, ChangeFails, placeVars, Rearranges
  <1>2. ASSUME NEW j \in Jobs, Restore(j) PROVE Rearranges
    <2>1. CASE RestoreBegin(j) \/ StopFirst(j) \/ Select(j) \/ Extract(j) \/ Look(j)
               \/ AwayFails(j) \/ PutBackFails(j) \/ InFails(j)
      BY <2>1 DEF RestoreBegin, StopFirst, Select, Extract, Look, AwayFails, PutBackFails, InFails, placeVars,
         Rearranges
    <2>2. CASE Stage(j)
      BY <2>2, JobPlaces, Making DEF Stage
    <2>3. CASE RestoreRefused(j) \/ Clean(j)
      BY <2>3, JobPlaces DEF RestoreRefused, Clean, Rearranges, Drops
    <2>4. CASE Away(j)
      BY <2>4, JobPlaces DEF Away, Rearranges, Moves
    <2>5. CASE In(j)
      BY <2>5, JobPlaces DEF In, Rearranges, Moves
    <2>6. CASE PutBack(j)
      BY <2>6, JobPlaces DEF PutBack, Rearranges, Moves
    <2> QED
      BY <1>2, <2>1, <2>2, <2>3, <2>4, <2>5, <2>6 DEF Restore
  <1>3. ASSUME NEW j \in Jobs, Start(j) PROVE Rearranges
    <2>1. CASE StartBegin(j) \/ StartNeedless(j) \/ Run(j) \/ StartFails(j)
      BY <2>1 DEF StartBegin, StartNeedless, Run, StartFails, placeVars, Rearranges
    <2>2. CASE StartPrepare(j) /\ Exists(Live)
      <3>1. at' = [at EXCEPT ![Live] = at[Live]]
        BY <2>2 DEF StartPrepare
      <3> QED
        BY <3>1, PlacesApart DEF TypeOK, Rearranges
    <2>3. CASE StartPrepare(j) /\ ~Exists(Live)
      <3>1. at' = [at EXCEPT ![Live] = NewDir]
        BY <2>3 DEF StartPrepare
      <3> QED
        BY <2>3, <3>1, PlacesApart DEF Exists, Rearranges, Makes
    <2> QED
      BY <1>3, <2>1, <2>2, <2>3 DEF Start
  <1>4. CASE StopClick \/ UnitEnds \/ Edit \/ RemoveInstaller \/ Advance \/ Crash \/ UNCHANGED vars
    BY <1>4 DEF StopClick, UnitEnds, Edit, RemoveInstaller, Advance, Crash, vars, placeVars, Rearranges
  <1> QED
    BY <1>1, <1>2, <1>3, <1>4, NextCases

LEMMA ApartInit == Init => Apart
  BY DEF Init, Apart, Exists

LEMMA ApartNext ==
  ASSUME TypeOK, Apart, [Next]_vars
  PROVE  Apart'
  <1>1. Rearranges
    BY NextRearranges
  <1>2. ASSUME NEW p \in Places, Makes(p) PROVE Apart'
    <2>1. \A q \in Places : at'[q] = (IF q = p THEN NewDir ELSE at[q])
      BY <1>2 DEF Makes, TypeOK
    <2> QED
      BY <2>1, NewDirIn DEF Apart, Exists
  <1>3. ASSUME NEW p \in Places, Drops(p) PROVE Apart'
    <2>1. \A q \in Places : at'[q] = (IF q = p THEN NoDir ELSE at[q])
      BY <1>3 DEF Drops, TypeOK
    <2> QED
      BY <2>1 DEF Apart, Exists
  <1>4. ASSUME NEW p \in Places, NEW q \in Places, Moves(p, q) PROVE Apart'
    <2>1. \A r \in Places : at'[r] = (IF r = q THEN at[p] ELSE IF r = p THEN NoDir ELSE at[r])
      BY <1>4 DEF Moves, TypeOK
    <2> QED
      BY <1>4, <2>1 DEF Apart, Exists, Moves
  <1> QED
    BY <1>1, <1>2, <1>3, <1>4 DEF Rearranges, Apart, Exists

\* A job that is clean when somebody else's step ends finds the App as it was.
Leaves(js) == \A k \in Jobs \ js : clean'[k] =>
    clean[k] /\ LivePieces' = LivePieces /\ (Exists(Live)' <=> Exists(Live))

LEMMA Elsewhere ==
  ASSUME at'[Live] = at[Live], Exists(Live) => tree'[at[Live]] = tree[at[Live]]
  PROVE  LivePieces' = LivePieces /\ (Exists(Live)' <=> Exists(Live))
  BY DEF LivePieces, Exists

LEMMA TouchLeaves ==
  ASSUME TypeOK, NEW js, Touch(js) PROVE Leaves(js)
  BY Touched DEF Leaves

LEMMA StillLeaves ==
  ASSUME NEW js, UNCHANGED placeVars, \A k \in Jobs \ js : clean'[k] = clean[k]
  PROVE  Leaves(js)
  BY DEF placeVars, Leaves, LivePieces, Exists

LEMMA UpdateLeaves ==
  ASSUME TypeOK, NEW j \in Jobs, Update(j)
  PROVE  Leaves({j})
  <1>1. CASE UpdateBegin(j)
    BY <1>1, StillLeaves DEF UpdateBegin, TypeOK
  <1>2. CASE TarStart(j) \/ TarEnd(j) \/ TarFails(j) \/ Keep(j) \/ ChangePackage(j)
    BY <1>2, StillLeaves DEF TarStart, TarEnd, TarFails, Keep, ChangePackage, historyVars
  <1>3. CASE AppDir(j) \/ ChangeCms(j)
    <2>1. MakeDir(Live) /\ IF Exists(Live) THEN UNCHANGED clean ELSE Touch({j})
      BY <1>3 DEF AppDir, ChangeCms
    <2>2. Exists(Live) => UNCHANGED placeVars
      BY <2>1 DEF MakeDir
    <2> QED
      BY <2>1, <2>2, StillLeaves, TouchLeaves
  <1>4. CASE CopyInstaller(j) \/ ChangeFails(j)
    <2>1. Touch({j}) \/ (UNCHANGED placeVars /\ UNCHANGED clean)
      BY <1>4 DEF CopyInstaller, ChangeFails, placeVars
    <2> QED
      BY <2>1, StillLeaves, TouchLeaves
  <1> QED
    BY <1>1, <1>2, <1>3, <1>4 DEF Update

LEMMA RestoreLeaves ==
  ASSUME TypeOK, Apart, NEW j \in Jobs, Restore(j)
  PROVE  Leaves({j})
  <1>0. at \in [Places -> Dirs \cup {NoDir}] /\ tree \in [Dirs -> SUBSET Pieces]
    BY DEF TypeOK
  <1>1. CASE RestoreBegin(j)
    BY <1>1, StillLeaves DEF RestoreBegin, TypeOK
  <1>2. CASE StopFirst(j) \/ Select(j) \/ Look(j) \/ AwayFails(j) \/ PutBackFails(j) \/ InFails(j)
    BY <1>2, StillLeaves DEF StopFirst, Select, Look, AwayFails, PutBackFails, InFails, historyVars
  <1>3. CASE Stage(j)
    <2>1. at'[Live] = at[Live] /\ (Exists(Live) => tree'[at[Live]] = tree[at[Live]])
      BY <1>0, <1>3, JobPlaces, Made, NewDirIn DEF Stage, Exists
    <2> QED
      BY <1>3, <2>1, Elsewhere DEF Stage, Leaves
  <1>4. CASE Extract(j)
    <2>1. at' = at /\ (Exists(Live) => tree'[at[Live]] = tree[at[Live]])
      BY <1>0, <1>4, JobPlaces DEF Extract, Exists, Apart
    <2> QED
      BY <1>4, <2>1, Elsewhere DEF Extract, Leaves, historyVars
  <1>5. CASE RestoreRefused(j)
    <2>1. at'[Live] = at[Live] /\ tree' = tree
      BY <1>0, <1>5, JobPlaces DEF RestoreRefused
    <2> QED
      BY <1>5, <2>1, Elsewhere DEF RestoreRefused, Leaves
  <1>6. CASE Clean(j)
    <2>1. at'[Live] = at[Live] /\ tree' = tree
      BY <1>0, <1>6, JobPlaces DEF Clean
    <2> QED
      BY <1>6, <2>1, Elsewhere DEF Clean, Leaves, historyVars
  <1>7. CASE Away(j) \/ In(j)
    BY <1>7, TouchLeaves DEF Away, In
  <1>8. CASE PutBack(j)
    <2>1. Touch({j}) \/ (UNCHANGED placeVars /\ UNCHANGED clean)
      BY <1>8 DEF PutBack, placeVars
    <2> QED
      BY <2>1, StillLeaves, TouchLeaves
  <1> QED
    BY <1>1, <1>2, <1>3, <1>4, <1>5, <1>6, <1>7, <1>8 DEF Restore

LEMMA StartLeaves ==
  ASSUME TypeOK, NEW j \in Jobs, Start(j)
  PROVE  Leaves({j})
  <1>1. CASE StartPrepare(j)
    <2>1. Touch({j}) \/ (UNCHANGED placeVars /\ UNCHANGED clean)
      BY <1>1 DEF StartPrepare, placeVars
    <2> QED
      BY <2>1, StillLeaves, TouchLeaves
  <1>2. CASE StartBegin(j) \/ StartNeedless(j) \/ Run(j) \/ StartFails(j)
    BY <1>2, StillLeaves DEF StartBegin, StartNeedless, Run, StartFails, historyVars
  <1> QED
    BY <1>1, <1>2 DEF Start

LEMMA OthersLeave ==
  ASSUME TypeOK, StopClick \/ UnitEnds \/ Edit \/ RemoveInstaller \/ Advance \/ Crash \/ UNCHANGED vars
  PROVE  Leaves({})
  <1>1. CASE Edit \/ RemoveInstaller
    BY <1>1, TouchLeaves DEF Edit, RemoveInstaller
  <1>2. CASE Crash
    BY <1>2, CrashType DEF Leaves
  <1>3. CASE StopClick \/ UnitEnds \/ Advance \/ UNCHANGED vars
    BY <1>3, StillLeaves DEF StopClick, UnitEnds, Advance, vars, placeVars, historyVars
  <1> QED
    BY <1>1, <1>2, <1>3

-----------------------------------------------------------------------------
(* Restore points                                                             *)

Writes(j) == pc[j] \in {"tarring", "keep"}
\* Two jobs that write an archive write two.
IdApart == \A j \in Jobs, k \in Jobs :
    Writes(j) /\ Writes(k) /\ job[j].id = job[k].id => j = k
\* All that a job has to back up is in the App, then in the archive it writes,
\* and then in the one that is listed.
Point(j) ==
    /\ pc[j] \in {"mkdir", "tar"} /\ clean[j] => job[j].before \subseteq LivePieces
    /\ pc[j] = "tarring" =>
          /\ tmp[job[j].id].state = "partial"
          /\ clean[j] => job[j].before \subseteq job[j].got
    /\ pc[j] = "keep" =>
          /\ tmp[job[j].id].state = "whole"
          /\ clean[j] => job[j].before \subseteq tmp[job[j].id].pieces
    /\ pc[j] \in {"change", "copy"} =>
          /\ archive[job[j].id].state = "whole"
          /\ clean[j] => job[j].before \subseteq archive[job[j].id].pieces
PointInv == "archive" \notin mess => IdApart /\ \A j \in Jobs : Point(j)

LEMMA PointInit == Init => PointInv
  BY DEF Init, PointInv, IdApart, Point, Writes

\* Steps that leave the archives alone.
LEMMA PointFrame ==
  ASSUME PointInv, UNCHANGED <<archive, tmp>>, mess \subseteq mess', NEW js, Leaves(js),
         \A k \in Jobs \ js : pc'[k] = pc[k] /\ job'[k] = job[k],
         "archive" \notin mess => \A k \in js : ~Writes(k)' /\ Point(k)'
  PROVE  PointInv'
  <1> SUFFICES ASSUME "archive" \notin mess' PROVE IdApart' /\ \A k \in Jobs : Point(k)'
    BY DEF PointInv
  <1>0. IdApart /\ (\A k \in Jobs : Point(k)) /\ \A k \in js : ~Writes(k)' /\ Point(k)'
    BY DEF PointInv
  <1>1. IdApart'
    BY <1>0 DEF IdApart, Writes
  <1>2. ASSUME NEW k \in Jobs \ js PROVE Point(k)'
    <2>1. /\ Point(k) /\ pc'[k] = pc[k] /\ job'[k] = job[k]
          /\ clean'[k] => clean[k] /\ LivePieces' = LivePieces
      BY <1>0 DEF Leaves
    <2> QED
      BY <2>1 DEF Point
  <1> QED
    BY <1>0, <1>1, <1>2

\* Steps of a job that writes an archive: what they leave of the other jobs.
LEMMA PointOthers ==
  ASSUME TypeOK, PointInv, "archive" \notin mess, NEW j \in Jobs, Update(j),
         \A k \in Jobs \ {j} :
            /\ Writes(k) => tmp'[job[k].id] = tmp[job[k].id]
            /\ pc[k] \in {"change", "copy"} => archive'[job[k].id] = archive[job[k].id]
  PROVE  \A k \in Jobs \ {j} : Point(k)'
  <1> SUFFICES ASSUME NEW k \in Jobs \ {j} PROVE Point(k)'
    OBVIOUS
  <1>1. Point(k) /\ pc'[k] = pc[k] /\ job'[k] = job[k]
    BY StepType DEF Step, PointInv
  <1>2. clean'[k] => clean[k] /\ LivePieces' = LivePieces
    BY UpdateLeaves DEF Leaves
  <1> QED
    BY <1>1, <1>2 DEF Point, Writes

LEMMA PointTar ==
  ASSUME TypeOK, PointInv, NEW j \in Jobs, TarStart(j) \/ TarEnd(j) \/ TarFails(j) \/ Keep(j)
  PROVE  PointInv'
  <1> SUFFICES ASSUME "archive" \notin mess' PROVE IdApart' /\ \A k \in Jobs : Point(k)'
    BY DEF PointInv
  <1>u. Update(j) /\ mess \subseteq mess'
    BY DEF Update, TarStart, TarEnd, TarFails, Keep, historyVars
  <1>0. /\ "archive" \notin mess /\ IdApart /\ Point(j)
        /\ \A k \in Jobs : Writes(k) => job[k].id \in Seconds
    BY <1>u, JobPlaces DEF PointInv
  <1>t. JobsOK /\ DataOK /\ RestOK /\ job[j].id \in Seconds
    BY Types, JobPlaces
  <1>k. \A k \in Jobs \ {j} : pc'[k] = pc[k] /\ job'[k] = job[k]
    BY <1>u, StepType DEF Step
  <1>1. CASE TarStart(j)
    <2>1. \A k \in Jobs : Writes(k) => job[k].id # now
      BY <1>1 DEF TarStart, Writes
    <2>2. /\ tmp' = [tmp EXCEPT ![now].state = "partial"] /\ archive' = archive
          /\ Exists(Live) /\ pc[j] = "tar" /\ clean' = clean
      BY <1>1, <2>1 DEF TarStart, Writes
    <2>3. pc'[j] = "tarring" /\ job'[j].id = now /\ job'[j].got = tree[at[Live]]
          /\ job'[j].before = job[j].before
      BY <1>1, <1>t DEF TarStart, Goto, JobsOK, JobRecords
    <2>4. IdApart'
      BY <1>0, <1>k, <2>1, <2>3 DEF IdApart, Writes
    <2>5. Point(j)'
      <3>1. clean[j] => job[j].before \subseteq tree[at[Live]]
        BY <1>0, <2>2, LiveType DEF Point
      <3>2. tmp'[now].state = "partial"
        BY <1>t, <2>2 DEF DataOK, RestOK, Files
      <3> QED
        BY <2>2, <2>3, <3>1, <3>2 DEF Point
    <2>6. \A k \in Jobs \ {j} : /\ Writes(k) => tmp'[job[k].id] = tmp[job[k].id]
                               /\ archive'[job[k].id] = archive[job[k].id]
      BY <1>0, <1>t, <2>1, <2>2 DEF DataOK
    <2> QED
      BY <1>0, <1>u, <2>4, <2>5, <2>6, PointOthers
  <1>2. CASE TarEnd(j)
    <2>1. /\ pc[j] = "tarring" /\ archive' = archive /\ clean' = clean
          /\ tmp[job[j].id].state = "partial"
          /\ tmp' = [tmp EXCEPT ![job[j].id] = [pieces |-> job'[j].got, state |-> "whole"]]
      BY <1>0, <1>2 DEF TarEnd, Point
    <2>2. /\ pc'[j] = "keep" /\ job'[j].id = job[j].id /\ job[j].got \subseteq job'[j].got
          /\ job'[j].before = job[j].before
      BY <1>2, <1>t DEF TarEnd, Goto, JobsOK, JobRecords
    <2>3. IdApart'
      BY <1>0, <1>k, <2>1, <2>2 DEF IdApart, Writes
    <2>4. Point(j)'
      <3>1. tmp'[job[j].id] = [pieces |-> job'[j].got, state |-> "whole"]
        BY <1>t, <2>1 DEF DataOK
      <3> QED
        BY <1>0, <2>1, <2>2, <3>1 DEF Point
    <2>5. \A k \in Jobs \ {j} : /\ Writes(k) => tmp'[job[k].id] = tmp[job[k].id]
                               /\ archive'[job[k].id] = archive[job[k].id]
      BY <1>0, <1>t, <2>1 DEF DataOK, IdApart, Writes
    <2> QED
      BY <1>0, <1>u, <2>3, <2>4, <2>5, PointOthers
  <1>3. CASE TarFails(j)
    <2>1. /\ pc'[j] = "failed" /\ archive' = archive
          /\ pc[j] = "tarring" \/ tmp' = tmp
          /\ tmp' = tmp \/ tmp' = [tmp EXCEPT ![job[j].id] = NoFile]
      BY <1>3, <1>t DEF TarFails, Goto, JobsOK
    <2>2. IdApart' /\ Point(j)'
      BY <1>0, <1>k, <2>1 DEF IdApart, Writes, Point
    <2>3. \A k \in Jobs \ {j} : /\ Writes(k) => tmp'[job[k].id] = tmp[job[k].id]
                               /\ archive'[job[k].id] = archive[job[k].id]
      BY <1>0, <1>t, <2>1 DEF DataOK, IdApart, Writes
    <2> QED
      BY <1>0, <1>u, <2>2, <2>3, PointOthers
  <1>4. CASE Keep(j)
    <2>1. pc[j] = "keep" /\ tmp[job[j].id].state = "whole"
      BY <1>0, <1>4 DEF Keep, Point
    <2>2. /\ archive' = [archive EXCEPT ![job[j].id] = tmp[job[j].id]]
          /\ tmp' = [tmp EXCEPT ![job[j].id] = NoFile]
          /\ job[j].id \notin Listed /\ Goto(j, "change") /\ job' = job /\ clean' = clean
      BY <1>4, <2>1 DEF Keep
    <2>3. pc'[j] = "change" /\ archive'[job[j].id] = tmp[job[j].id]
      BY <1>t, <2>2 DEF Goto, JobsOK, DataOK
    <2>4. IdApart' /\ Point(j)'
      BY <1>0, <1>k, <2>1, <2>2, <2>3 DEF IdApart, Writes, Point
    <2>5. ASSUME NEW k \in Jobs \ {j}, pc[k] \in {"change", "copy"}
          PROVE  archive'[job[k].id] = archive[job[k].id]
      <3>1. archive[job[k].id].state = "whole" /\ job[k].id \in Seconds
        BY <1>0, <2>5, JobPlaces DEF PointInv, Point
      <3>2. job[k].id # job[j].id
        BY <2>2, <3>1 DEF Listed
      <3> QED
        BY <1>t, <2>2, <3>1, <3>2 DEF DataOK
    <2>6. \A k \in Jobs \ {j} : Writes(k) => tmp'[job[k].id] = tmp[job[k].id]
      BY <1>0, <1>t, <2>1, <2>2 DEF DataOK, IdApart, Writes
    <2> QED
      BY <1>0, <1>u, <2>4, <2>5, <2>6, PointOthers
  <1> QED
    BY <1>1, <1>2, <1>3, <1>4

LEMMA PointUpdate ==
  ASSUME TypeOK, PointInv, NEW j \in Jobs, Update(j)
  PROVE  PointInv'
  <1>0. JobsOK /\ ("archive" \notin mess => Point(j))
    BY Types DEF PointInv
  <1>f. ASSUME UNCHANGED <<archive, tmp>>, "archive" \notin mess => ~Writes(j)' /\ Point(j)'
        PROVE  PointInv'
    <2>1. Leaves({j}) /\ mess \subseteq mess'
      BY UpdateLeaves, UpdateKeeps
    <2>2. \A k \in Jobs \ {j} : pc'[k] = pc[k] /\ job'[k] = job[k]
      BY StepType DEF Step
    <2> QED
      BY <1>f, <2>1, <2>2, PointFrame
  <1>1. CASE UpdateBegin(j)
    <2>1. /\ pc'[j] \in {"mkdir", "tar"} /\ job'[j].before = LivePieces
          /\ LivePieces' = LivePieces /\ UNCHANGED <<archive, tmp>>
      BY <1>0, <1>1 DEF UpdateBegin, Goto, JobsOK, Fresh, placeVars, backupVars, LivePieces, Exists
    <2> QED
      BY <1>f, <2>1 DEF Point, Writes
  <1>2. CASE AppDir(j)
    <2>1. /\ pc[j] = "mkdir" /\ pc'[j] = "tar" /\ job' = job /\ UNCHANGED <<archive, tmp>>
          /\ MakeDir(Live) /\ (clean'[j] => clean[j])
      BY <1>0, <1>2, Touched DEF AppDir, Goto, JobsOK, backupVars
    <2>2. Exists(Live) => LivePieces' = LivePieces
      BY <2>1 DEF MakeDir, placeVars, LivePieces, Exists
    <2>3. ~Exists(Live) => LivePieces = {}
      BY DEF LivePieces
    <2> QED
      BY <1>0, <1>f, <2>1, <2>2, <2>3 DEF Point, Writes
  <1>3. CASE TarStart(j) \/ TarEnd(j) \/ TarFails(j) \/ Keep(j)
    BY <1>3, PointTar
  <1>4. CASE ChangePackage(j) \/ CopyInstaller(j) \/ ChangeFails(j)
    <2>1. pc'[j] \in {"done", "failed"} /\ UNCHANGED <<archive, tmp>>
      BY <1>0, <1>4 DEF ChangePackage, CopyInstaller, ChangeFails, Goto, JobsOK, backupVars
    <2> QED
      BY <1>f, <2>1 DEF Point, Writes
  <1>5. CASE ChangeCms(j)
    <2>1. /\ pc[j] = "change" /\ pc'[j] \in {"done", "copy"} /\ job' = job
          /\ UNCHANGED <<archive, tmp>> /\ (clean'[j] => clean[j])
      BY <1>0, <1>5, Touched DEF ChangeCms, Goto, JobsOK, backupVars
    <2> QED
      BY <1>0, <1>f, <2>1 DEF Point, Writes
  <1> QED
    BY <1>1, <1>2, <1>3, <1>4, <1>5 DEF Update

\* Restores and starts never write an archive.
LEMMA RestoreKeeps ==
  ASSUME TypeOK, NEW j \in Jobs, Restore(j)
  PROVE  /\ pc[j] \in RestorePcs \cup {"idle"}
         /\ pc'[j] \in RestorePcs \cup {"start", "done", "failed"}
         /\ UNCHANGED <<archive, tmp, now>> /\ mess \subseteq mess'
  <1>0. JobsOK
    BY Types
  <1>1. CASE RestoreBegin(j)
    BY <1>0, <1>1 DEF RestoreBegin, Goto, JobsOK, RestorePcs, backupVars, boundVars, historyVars
  <1>2. CASE StopFirst(j)
    BY <1>0, <1>2 DEF StopFirst, Goto, JobsOK, RestorePcs, backupVars, boundVars, historyVars
  <1>3. CASE Select(j)
    BY <1>0, <1>3 DEF Select, Goto, JobsOK, RestorePcs, backupVars, boundVars, historyVars
  <1>4. CASE Stage(j)
    BY <1>0, <1>4 DEF Stage, Goto, JobsOK, RestorePcs, backupVars, boundVars, historyVars
  <1>5. CASE Extract(j)
    BY <1>0, <1>5 DEF Extract, Goto, JobsOK, RestorePcs, backupVars, boundVars, historyVars
  <1>6. CASE RestoreRefused(j)
    BY <1>0, <1>6 DEF RestoreRefused, Goto, JobsOK, RestorePcs, backupVars, boundVars, historyVars, Fail
  <1>7. CASE Look(j)
    BY <1>0, <1>7 DEF Look, Goto, JobsOK, RestorePcs, backupVars, boundVars, historyVars
  <1>8. CASE Away(j)
    BY <1>0, <1>8 DEF Away, Goto, JobsOK, RestorePcs, backupVars, boundVars, historyVars
  <1>9. CASE AwayFails(j) \/ PutBackFails(j)
    BY <1>0, <1>9 DEF AwayFails, PutBackFails, Goto, JobsOK, RestorePcs, backupVars, boundVars, historyVars, Fail
  <1>10. CASE In(j)
    BY <1>0, <1>10 DEF In, Goto, JobsOK, RestorePcs, backupVars, boundVars, historyVars
  <1>11. CASE InFails(j)
    BY <1>0, <1>11 DEF InFails, Goto, JobsOK, RestorePcs, backupVars, boundVars, historyVars
  <1>12. CASE PutBack(j)
    BY <1>0, <1>12 DEF PutBack, Goto, JobsOK, RestorePcs, backupVars, boundVars, historyVars, Fail
  <1>13. CASE Clean(j)
    BY <1>0, <1>13 DEF Clean, Goto, JobsOK, RestorePcs, backupVars, boundVars, historyVars
  <1> QED
    BY <1>1, <1>2, <1>3, <1>4, <1>5, <1>6, <1>7, <1>8, <1>9, <1>10, <1>11, <1>12, <1>13 DEF Restore

LEMMA StartKeeps ==
  ASSUME TypeOK, NEW j \in Jobs, Start(j)
  PROVE  /\ pc[j] \in StartPcs \cup {"idle"} /\ pc'[j] \in StartPcs \cup {"done", "failed"}
         /\ UNCHANGED <<archive, tmp, now, newest>> /\ mess \subseteq mess'
  <1>0. JobsOK
    BY Types
  <1>1. CASE StartBegin(j)
    BY <1>0, <1>1 DEF StartBegin, Goto, JobsOK, StartPcs, backupVars, boundVars, historyVars
  <1>2. CASE StartNeedless(j)
    BY <1>0, <1>2 DEF StartNeedless, Goto, JobsOK, StartPcs, backupVars, boundVars, historyVars
  <1>3. CASE StartPrepare(j)
    BY <1>0, <1>3 DEF StartPrepare, Goto, JobsOK, StartPcs, backupVars, boundVars, historyVars
  <1>4. CASE Run(j)
    BY <1>0, <1>4 DEF Run, Goto, JobsOK, StartPcs, backupVars, boundVars, historyVars
  <1>5. CASE StartFails(j)
    BY <1>0, <1>5 DEF StartFails, Goto, JobsOK, StartPcs, backupVars, boundVars, historyVars
  <1> QED
    BY <1>1, <1>2, <1>3, <1>4, <1>5 DEF Start

LEMMA OwnerKeeps ==
  ASSUME StopClick \/ UnitEnds \/ Edit \/ RemoveInstaller \/ Advance \/ UNCHANGED vars
  PROVE  UNCHANGED <<archive, tmp, pc, job, mess>>
  BY DEF StopClick, UnitEnds, Edit, RemoveInstaller, Advance, vars, backupVars, jobVars, historyVars

LEMMA PointNext ==
  ASSUME TypeOK, Apart, PointInv, [Next]_vars
  PROVE  PointInv'
  <1>1. ASSUME NEW j \in Jobs, Restore(j) \/ Start(j) PROVE PointInv'
    <2>1. /\ pc'[j] \notin UpdatePcs /\ UNCHANGED <<archive, tmp>> /\ mess \subseteq mess'
      BY <1>1, RestoreKeeps, StartKeeps DEF UpdatePcs, RestorePcs, StartPcs
    <2>2. Leaves({j}) /\ \A k \in Jobs \ {j} : pc'[k] = pc[k] /\ job'[k] = job[k]
      BY <1>1, RestoreLeaves, StartLeaves, StepType DEF Step
    <2>3. ~Writes(j)' /\ Point(j)'
      BY <2>1 DEF Writes, Point, UpdatePcs
    <2> QED
      BY <2>1, <2>2, <2>3, PointFrame
  <1>2. CASE StopClick \/ UnitEnds \/ Edit \/ RemoveInstaller \/ Advance \/ UNCHANGED vars
    <2>1. UNCHANGED <<archive, tmp, pc, job, mess>> /\ Leaves({})
      BY <1>2, OwnerKeeps, OthersLeave
    <2> QED
      BY <2>1, PointFrame
  <1>3. CASE Crash
    BY <1>3, CrashType DEF PointInv, IdApart, Point, Writes
  <1> QED
    BY <1>1, <1>2, <1>3, NextCases, PointUpdate

\* docs/CLI.md promises a restore point before every change: when an update comes
\* to the change, its own backup is listed and whole, and holds all that the App
\* was made of when the update began, whatever other updates, restores, starts
\* and edits did meanwhile, unless one of them changed the App itself, or a second
\* update of the same second wrote the same file.
THEOREM RestorePoints == Spec => []RestorePointFirst
  <1>1. Init => TypeOK /\ Apart /\ PointInv
    BY TypeInit, ApartInit, PointInit
  <1>2. TypeOK /\ Apart /\ PointInv /\ [Next]_vars => (TypeOK /\ Apart /\ PointInv)'
    BY TypeNext, ApartNext, PointNext
  <1>3. PointInv => RestorePointFirst
    BY DEF PointInv, Point, RestorePointFirst
  <1> QED
    BY <1>1, <1>2, <1>3, PTL DEF Spec

-----------------------------------------------------------------------------
(* Nothing is lost                                                            *)

Placed(j) == pc[j] \in {"extract", "look", "away", "in", "putback", "clean"}
\* Two restores set the App's files aside in two places.
RbApart == \A j \in Jobs, k \in Jobs :
    Placed(j) /\ Placed(k) /\ job[j].rb = job[k].rb => j = k
\* The files are in their place, or set aside where no restore will remove them.
Kept == \/ newest \subseteq LivePieces
        \/ \E s \in Seconds : /\ Exists(Rollback(s))
                              /\ newest \subseteq tree[at[Rollback(s)]]
                              /\ \A j \in Jobs : pc[j] = "clean" => job[j].rb # s
KeptInv == "twins" \notin mess => RbApart /\ Kept

LEMMA KeptInit == Init => KeptInv
  <1> SUFFICES ASSUME Init PROVE KeptInv
    OBVIOUS
  <1>1. RbApart
    BY DEF Init, RbApart, Placed
  <1>2. at[Live] = 1 /\ tree[1] = {1} /\ newest = {1}
    BY PlacesApart, DirsMany DEF Init
  <1> QED
    BY <1>1, <1>2 DEF KeptInv, Kept, LivePieces, Exists, NoDir

\* Nothing but an upload takes a generation of the App's files out of a place.
Holds == \A p \in Places : Exists(p) => tree[at[p]] \cap Gens \subseteq tree'[at[p]]

LEMMA KeptFrame ==
  ASSUME TypeOK, Kept, newest' = newest, Holds,
         Exists(Live) => at'[Live] = at[Live],
         \A s \in Seconds : Exists(Rollback(s)) => at'[Rollback(s)] = at[Rollback(s)],
         \A j \in Jobs : pc'[j] = "clean" => pc[j] = "clean" /\ job'[j].rb = job[j].rb
  PROVE  Kept'
  <1>0. newest \subseteq Gens
    BY DEF TypeOK
  <1>1. CASE newest \subseteq LivePieces
    <2>1. CASE Exists(Live)
      BY <1>0, <1>1, <2>1, PlacesApart DEF Kept, LivePieces, Exists, Holds
    <2>2. CASE ~Exists(Live)
      BY <1>1, <2>2 DEF Kept, LivePieces
    <2> QED
      BY <2>1, <2>2
  <1>2. CASE \E s \in Seconds : /\ Exists(Rollback(s))
                               /\ newest \subseteq tree[at[Rollback(s)]]
                               /\ \A j \in Jobs : pc[j] = "clean" => job[j].rb # s
    <2>1. PICK s \in Seconds : /\ Exists(Rollback(s))
                               /\ newest \subseteq tree[at[Rollback(s)]]
                               /\ \A j \in Jobs : pc[j] = "clean" => job[j].rb # s
      BY <1>2
    <2>2. /\ at'[Rollback(s)] = at[Rollback(s)] /\ at'[Rollback(s)] # NoDir
          /\ newest' \subseteq tree'[at'[Rollback(s)]]
          /\ \A j \in Jobs : pc'[j] = "clean" => job'[j].rb # s
      BY <1>0, <2>1, PlacesApart DEF Exists, Holds
    <2> QED
      BY <2>2 DEF Kept, Exists
  <1> QED
    BY <1>1, <1>2 DEF Kept

LEMMA MadeHolds ==
  ASSUME TypeOK, NEW p \in Places, MakeDir(p)
  PROVE  Holds /\ \A q \in Places : Exists(q) => at'[q] = at[q]
  BY Made, NewDirIn DEF Holds, Exists, TypeOK

LEMMA UpdateHolds ==
  ASSUME TypeOK, NEW j \in Jobs, Update(j)
  PROVE  Holds /\ newest' = newest /\ \A q \in Places : Exists(q) => at'[q] = at[q]
  <1>0. DataOK
    BY Types
  <1>1. CASE AppDir(j) \/ ChangeCms(j)
    BY <1>1, MadeHolds, PlacesApart DEF AppDir, ChangeCms
  <1>2. CASE CopyInstaller(j)
    BY <1>0, <1>2, BoundsAssumption DEF CopyInstaller, Holds, Exists, DataOK, Gens, Broken, Installer
  <1>3. CASE ChangeFails(j)
    BY <1>0, <1>3, BoundsAssumption DEF ChangeFails, Holds, Exists, DataOK, Gens, Broken, Installer
  <1>4. CASE UpdateBegin(j) \/ TarStart(j) \/ TarEnd(j) \/ TarFails(j) \/ Keep(j) \/ ChangePackage(j)
    BY <1>4 DEF UpdateBegin, TarStart, TarEnd, TarFails, Keep, ChangePackage, placeVars, historyVars,
       Holds
  <1> QED
    BY <1>1, <1>2, <1>3, <1>4 DEF Update

LEMMA StartHolds ==
  ASSUME TypeOK, NEW j \in Jobs, Start(j)
  PROVE  Holds /\ newest' = newest /\ \A q \in Places : Exists(q) => at'[q] = at[q]
  <1>0. DataOK
    BY Types
  <1>1. CASE StartPrepare(j) /\ Exists(Live)
    <2>1. /\ at' = [at EXCEPT ![Live] = at[Live]] /\ newest' = newest
          /\ tree' = [tree EXCEPT ![at[Live]] =
                IF LivePieces \cap (Gens \cup {Stub}) = {} THEN LivePieces \cup {Stub} ELSE LivePieces]
      BY <1>1 DEF StartPrepare
    <2>2. LivePieces = tree[at[Live]]
      BY <1>1 DEF LivePieces
    <2> QED
      BY <1>0, <2>1, <2>2 DEF DataOK, Holds
  <1>2. CASE StartPrepare(j) /\ ~Exists(Live)
    <2>1. PICK new : /\ at' = [at EXCEPT ![Live] = NewDir] /\ newest' = newest
                     /\ tree' = [tree EXCEPT ![NewDir] = new]
      BY <1>2 DEF StartPrepare
    <2> QED
      BY <1>0, <1>2, <2>1, NewDirIn DEF DataOK, Holds, Exists
  <1>3. CASE StartBegin(j) \/ StartNeedless(j) \/ Run(j) \/ StartFails(j)
    BY <1>3 DEF StartBegin, StartNeedless, Run, StartFails, placeVars, historyVars, Holds
  <1> QED
    BY <1>1, <1>2, <1>3 DEF Start

\* A restore names its rollback directory once.
LEMMA RollbackNamed ==
  ASSUME TypeOK, NEW j \in Jobs, Restore(j)
  PROVE  /\ Stage(j) \/ (Placed(j)' => Placed(j) /\ job'[j].rb = job[j].rb)
         /\ In(j) \/ (pc'[j] = "clean" => pc[j] = "clean" /\ job'[j].rb = job[j].rb)
  <1>0. JobsOK
    BY Types
  <1>1. CASE RestoreBegin(j) \/ StopFirst(j) \/ Select(j) \/ RestoreRefused(j) \/ AwayFails(j) \/ PutBackFails(j)
             \/ PutBack(j) \/ Clean(j)
    <2>1. pc'[j] \in {"stop", "select", "stage", "failed", "start", "done"}
      BY <1>0, <1>1 DEF RestoreBegin, StopFirst, Select, RestoreRefused, AwayFails, PutBackFails, PutBack, Clean,
         Goto, Fail, JobsOK
    <2> QED
      BY <2>1 DEF Placed
  <1>2. CASE Stage(j)
    BY <1>0, <1>2 DEF Stage, Goto, JobsOK
  <1>3. CASE Extract(j) \/ Look(j) \/ Away(j) \/ In(j) \/ InFails(j)
    BY <1>0, <1>3 DEF Extract, Look, Away, In, InFails, Goto, JobsOK, Placed, historyVars
  <1> QED
    BY <1>1, <1>2, <1>3 DEF Restore

LEMMA RollbacksApart ==
  ASSUME TypeOK, RbApart, NEW j \in Jobs, Step(j), "twins" \notin mess'
  PROVE  RbApart'
  <1>0. \A k \in Jobs \ {j} : pc'[k] = pc[k] /\ job'[k] = job[k]
    BY StepType
  <1>1. CASE Stage(j)
    <2>1. job'[j].rb = now
      <3>1. JobsOK
        BY Types
      <3> QED
        BY <1>1, <3>1 DEF Stage, JobsOK, JobRecords
    <2>2. \A k \in Jobs : Placed(k) => job[k].rb # now
      BY <1>1 DEF Stage, Placed, RestorePcs
    <2> QED
      BY <1>0, <2>1, <2>2 DEF RbApart, Placed
  <1>2. CASE Placed(j)' => Placed(j) /\ job'[j].rb = job[j].rb
    BY <1>0, <1>2 DEF RbApart, Placed
  <1>3. CASE Update(j) \/ Start(j)
    <2>1. ~Placed(j)'
      BY <1>3, UpdateKeeps, StartKeeps DEF Placed, UpdatePcs, StartPcs
    <2> QED
      BY <1>2, <2>1
  <1> QED
    BY <1>1, <1>2, <1>3, RollbackNamed DEF Step

LEMMA KeptRestore ==
  ASSUME TypeOK, RbApart, Kept, NEW j \in Jobs, Restore(j)
  PROVE  Kept'
  <1>0. JobsOK /\ DataOK /\ newest \subseteq Gens
    BY Types DEF RestOK
  <1>k. \A k \in Jobs \ {j} : pc'[k] = pc[k] /\ job'[k] = job[k]
    BY StepType DEF Step
  <1>c. In(j) \/ \A k \in Jobs : pc'[k] = "clean" => pc[k] = "clean" /\ job'[k].rb = job[k].rb
    BY <1>k, RollbackNamed
  <1>p. \A s \in Seconds : Rollback(s) \in Places /\ Rollback(s) # Live
    BY PlacesApart
  <1>1. CASE RestoreBegin(j) \/ StopFirst(j) \/ Select(j) \/ Look(j) \/ AwayFails(j) \/ PutBackFails(j) \/ InFails(j)
    <2>1. /\ UNCHANGED <<at, tree>> /\ newest' = newest /\ Holds
          /\ \A k \in Jobs : pc'[k] = "clean" => pc[k] = "clean" /\ job'[k].rb = job[k].rb
      <3>1. pc'[j] # "clean"
        BY <1>0, <1>1 DEF RestoreBegin, StopFirst, Select, Look, AwayFails, PutBackFails, InFails, Goto, Fail, JobsOK
      <3> QED
        BY <1>k, <1>1, <3>1 DEF RestoreBegin, StopFirst, Select, Look, AwayFails, PutBackFails, InFails, placeVars,
           historyVars, Holds
    <2> QED
      BY <2>1, KeptFrame
  <1>2. CASE Stage(j)
    <2>1. Holds /\ newest' = newest /\ \A q \in Places : Exists(q) => at'[q] = at[q]
      BY <1>2, JobPlaces, MadeHolds DEF Stage
    <2>2. pc'[j] # "clean"
      BY <1>0, <1>2 DEF Stage, Goto, JobsOK
    <2> QED
      BY <1>k, <1>p, <2>1, <2>2, PlacesApart, KeptFrame
  <1>3. CASE Extract(j)
    <2>1. Holds /\ newest' = newest /\ at' = at
      BY <1>0, <1>3, JobPlaces DEF Extract, DataOK, historyVars, Holds, Exists
    <2>2. pc'[j] # "clean"
      BY <1>0, <1>3 DEF Extract, Goto, JobsOK
    <2> QED
      BY <1>k, <2>1, <2>2, KeptFrame
  <1>4. CASE RestoreRefused(j)
    <2>1. /\ Holds /\ newest' = newest /\ at'[Live] = at[Live]
          /\ \A s \in Seconds : at'[Rollback(s)] = at[Rollback(s)]
      BY <1>0, <1>4, <1>p, JobPlaces, PlacesApart DEF RestoreRefused, DataOK, Holds
    <2>2. pc'[j] # "clean"
      BY <1>0, <1>4 DEF RestoreRefused, Fail, Goto, JobsOK
    <2> QED
      BY <1>k, <2>1, <2>2, KeptFrame
  <1>5. CASE Away(j)
    <2> DEFINE r == Rollback(job[j].rb)
    <2>1. /\ pc[j] = "away" /\ pc'[j] = "in" /\ job' = job /\ tree' = tree /\ newest' = newest
          /\ Exists(Live) /\ Vacant(r) /\ LivePieces = tree[at[Live]]
          /\ at' = [at EXCEPT ![Live] = NoDir, ![r] = at[Live]]
      BY <1>0, <1>5 DEF Away, Goto, JobsOK, LivePieces
    <2>2. /\ r \in Places /\ r # Live /\ job[j].rb \in Seconds
      BY JobPlaces
    <2>3. /\ at'[r] = at[Live] /\ at'[Live] = NoDir
          /\ \A q \in Places \ {r, Live} : at'[q] = at[q]
      BY <1>0, <2>1, <2>2, PlacesApart DEF DataOK
    <2>4. ASSUME newest \subseteq LivePieces PROVE Kept'
      <3>1. \A k \in Jobs : pc'[k] = "clean" => job'[k].rb # job[j].rb
        BY <1>k, <2>1 DEF RbApart, Placed
      <3>2. PICK s \in Seconds : s = job[j].rb
        BY <2>2
      <3>3. at'[Rollback(s)] # NoDir /\ newest' \subseteq tree'[at'[Rollback(s)]]
        BY <2>1, <2>3, <2>4, <3>2 DEF Exists
      <3> QED
        BY <3>1, <3>2, <3>3 DEF Kept, Exists
    <2>5. ASSUME NEW s \in Seconds, Exists(Rollback(s)), newest \subseteq tree[at[Rollback(s)]],
                 \A k \in Jobs : pc[k] = "clean" => job[k].rb # s
          PROVE  Kept'
      <3>1. CASE s = job[j].rb
        BY <2>1, <2>4, <2>5, <3>1 DEF Vacant
      <3>2. CASE s # job[j].rb
        <4>1. at'[Rollback(s)] = at[Rollback(s)]
          BY <1>p, <2>2, <2>3, <3>2, PlacesApart
        <4>2. \A k \in Jobs : pc'[k] = "clean" => job'[k].rb # s
          BY <1>k, <2>1, <2>5
        <4>3. at'[Rollback(s)] # NoDir /\ newest' \subseteq tree'[at'[Rollback(s)]]
          BY <2>1, <2>5, <4>1 DEF Exists
        <4> HIDE DEF r
        <4> QED
          BY <4>2, <4>3 DEF Kept, Exists
      <3> QED
        BY <3>1, <3>2
    <2> QED
      BY <2>4, <2>5 DEF Kept
  <1>6. CASE In(j)
    <2>1. /\ Exists(Staging(job[j].stg)) /\ tree' = tree
          /\ newest' = tree[at[Staging(job[j].stg)]] \cap Gens
          /\ at' = [at EXCEPT ![Staging(job[j].stg)] = NoDir, ![Live] = at[Staging(job[j].stg)]]
      BY <1>6 DEF In
    <2>2. at'[Live] = at[Staging(job[j].stg)]
      BY <1>0, <2>1, JobPlaces DEF DataOK
    <2> QED
      BY <2>1, <2>2 DEF Kept, LivePieces, Exists
  <1>7. CASE PutBack(j)
    <2> DEFINE r == Rollback(job[j].rb)
    <2>1. job' = job /\ tree' = tree /\ newest' = newest /\ pc'[j] = "failed"
      BY <1>0, <1>7 DEF PutBack, Fail, Goto, JobsOK
    <2>2. CASE Exists(r) /\ Vacant(Live)
      <3>1. at' = [at EXCEPT ![r] = NoDir, ![Live] = at[r]]
        BY <1>7, <2>2 DEF PutBack
      <3>2. r \in Places /\ r # Live /\ job[j].rb \in Seconds
        BY JobPlaces
      <3>3. at'[Live] = at[r] /\ \A q \in Places \ {r, Live} : at'[q] = at[q]
        BY <1>0, <3>1, <3>2, PlacesApart DEF DataOK
      <3>4. CASE newest \subseteq LivePieces
        <4>1. newest = {}
          BY <2>2, <3>4 DEF LivePieces, Vacant
        <4> QED
          BY <2>1, <4>1 DEF Kept
      <3>5. ASSUME NEW s \in Seconds, Exists(Rollback(s)), newest \subseteq tree[at[Rollback(s)]],
                   \A k \in Jobs : pc[k] = "clean" => job[k].rb # s
            PROVE  Kept'
        <4>1. CASE s = job[j].rb
          BY <2>1, <2>2, <3>3, <3>5, <4>1 DEF Kept, LivePieces, Exists
        <4>2. CASE s # job[j].rb
          <5>1. at'[Rollback(s)] = at[Rollback(s)]
            BY <1>p, <3>2, <3>3, <4>2, PlacesApart
          <5> QED
            BY <1>k, <2>1, <3>5, <5>1 DEF Kept, Exists
        <4> QED
          BY <4>1, <4>2
      <3> QED
        BY <3>4, <3>5 DEF Kept
    <2>3. CASE ~(Exists(r) /\ Vacant(Live))
      <3>1. at' = at /\ Holds
        BY <1>7, <2>1, <2>3 DEF PutBack, Holds
      <3> QED
        BY <1>k, <2>1, <3>1, KeptFrame
    <2> QED
      BY <2>2, <2>3
  <1>8. CASE Clean(j)
    <2>1. /\ pc[j] = "clean" /\ pc'[j] # "clean" /\ job' = job /\ tree' = tree /\ newest' = newest
          /\ at' = [at EXCEPT ![Rollback(job[j].rb)] = NoDir]
      BY <1>0, <1>8 DEF Clean, Goto, JobsOK, historyVars
    <2>2. /\ job[j].rb \in Seconds /\ Rollback(job[j].rb) # Live
          /\ \A q \in Places \ {Rollback(job[j].rb)} : at'[q] = at[q]
      BY <1>0, <2>1, JobPlaces DEF DataOK
    <2>3. CASE newest \subseteq LivePieces
      BY <2>1, <2>2, <2>3, PlacesApart DEF Kept, LivePieces, Exists
    <2>4. ASSUME NEW s \in Seconds, Exists(Rollback(s)), newest \subseteq tree[at[Rollback(s)]],
                 \A k \in Jobs : pc[k] = "clean" => job[k].rb # s
          PROVE  Kept'
      <3>1. s # job[j].rb
        BY <2>1, <2>4
      <3>2. at'[Rollback(s)] = at[Rollback(s)]
        BY <1>p, <2>2, <3>1, PlacesApart
      <3> QED
        BY <1>k, <2>1, <2>4, <3>2 DEF Kept, Exists
    <2> QED
      BY <2>3, <2>4 DEF Kept
  <1> QED
    BY <1>1, <1>2, <1>3, <1>4, <1>5, <1>6, <1>7, <1>8 DEF Restore

LEMMA KeptOwner ==
  ASSUME TypeOK, KeptInv, StopClick \/ UnitEnds \/ Edit \/ RemoveInstaller \/ Advance \/ Crash \/ UNCHANGED vars
  PROVE  KeptInv'
  <1>0. DataOK /\ RestOK /\ ("twins" \notin mess' => "twins" \notin mess)
    BY Types, OwnerKeeps, CrashType
  <1>1. CASE StopClick \/ UnitEnds \/ RemoveInstaller \/ Advance \/ UNCHANGED vars
    <2>1. /\ UNCHANGED <<pc, job, mess, at>> /\ newest' = newest
      BY <1>1, OwnerKeeps DEF StopClick, UnitEnds, RemoveInstaller, Advance, vars, placeVars, historyVars
    <2>2. Holds
      <3>1. CASE RemoveInstaller
        <4>1. tree' = [tree EXCEPT ![at[Live]] = tree[at[Live]] \ {Installer, Broken}]
          BY <3>1 DEF RemoveInstaller
        <4>2. Installer \notin Gens /\ Broken \notin Gens
          BY BoundsAssumption DEF Gens, Installer, Broken
        <4> QED
          BY <1>0, <4>1, <4>2 DEF Holds, DataOK, Exists
      <3>2. CASE UNCHANGED tree
        BY <3>2 DEF Holds
      <3> QED
        BY <1>1, <3>1, <3>2 DEF StopClick, UnitEnds, Advance, vars, placeVars
    <2>3. Kept => Kept'
      BY <2>1, <2>2, KeptFrame
    <2> QED
      BY <1>0, <2>1, <2>3 DEF KeptInv, RbApart, Placed
  <1>2. CASE Edit
    <2>1. /\ UNCHANGED <<pc, job, at, mess>> /\ newest' = {edits + 1} /\ Exists(Live)
          /\ edits + 1 \in tree'[at[Live]]
      BY <1>0, <1>2, LiveType DEF Edit, jobVars, DataOK
    <2>2. newest' \subseteq LivePieces'
      BY <2>1 DEF LivePieces, Exists
    <2> QED
      BY <1>0, <2>1, <2>2 DEF KeptInv, RbApart, Placed, Kept
  <1>3. CASE Crash
    BY <1>0, <1>3, CrashType DEF KeptInv, RbApart, Placed, Kept, LivePieces, Exists
  <1> QED
    BY <1>1, <1>2, <1>3

LEMMA KeptNext ==
  ASSUME TypeOK, KeptInv, [Next]_vars
  PROVE  KeptInv'
  <1>1. ASSUME NEW j \in Jobs, Update(j) \/ Restore(j) \/ Start(j), "twins" \notin mess'
        PROVE  RbApart' /\ Kept'
    <2>1. mess \subseteq mess'
      BY <1>1, UpdateKeeps, RestoreKeeps, StartKeeps
    <2>2. RbApart /\ Kept
      BY <1>1, <2>1 DEF KeptInv
    <2>3. RbApart'
      BY <1>1, <2>2, RollbacksApart DEF Step
    <2>4. CASE Update(j) \/ Start(j)
      <3>1. Holds /\ newest' = newest /\ \A q \in Places : Exists(q) => at'[q] = at[q]
        BY <2>4, UpdateHolds, StartHolds
      <3>2. pc'[j] # "clean"
        BY <2>4, UpdateKeeps, StartKeeps DEF UpdatePcs, StartPcs
      <3>3. \A k \in Jobs \ {j} : pc'[k] = pc[k] /\ job'[k] = job[k]
        BY <1>1, StepType DEF Step
      <3>4. Kept'
        BY <2>2, <3>1, <3>2, <3>3, PlacesApart, KeptFrame
      <3> QED
        BY <2>3, <3>4
    <2> QED
      BY <1>1, <2>2, <2>3, <2>4, KeptRestore
  <1> QED
    BY <1>1, NextCases, KeptOwner DEF KeptInv

\* No order of updates, restores, starts, uploads and deaths of the panel loses
\* the App's files: the newest are in their place, or set aside where no restore
\* in its last step will remove them, unless two restores of one second shared
\* their directories.
THEOREM NothingLostHolds == Spec => []NothingLost
  <1>1. Init => TypeOK /\ KeptInv
    BY TypeInit, KeptInit
  <1>2. TypeOK /\ KeptInv /\ [Next]_vars => (TypeOK /\ KeptInv)'
    BY TypeNext, KeptNext
  <1>3. TypeOK /\ KeptInv => NothingLost
    <2> SUFFICES ASSUME TypeOK, Kept
                 PROVE  \E p \in Places : (Exists(p) /\ newest \subseteq tree[at[p]]) \/ newest = {}
      BY DEF KeptInv, NothingLost
    <2> QED
      BY PlacesApart DEF Kept, LivePieces
  <1> QED
    BY <1>1, <1>2, <1>3, PTL DEF Spec

-----------------------------------------------------------------------------
(* No mixture                                                                 *)

Staged(j) == pc[j] \in {"extract", "look", "away", "in"}
\* A restore that unpacks has a directory of its own, without files at first.
Stages ==
    /\ \A j \in Jobs : Staged(j) => Exists(Staging(job[j].stg))
    /\ \A j \in Jobs, k \in Jobs : Staged(j) /\ Staged(k) /\ job[j].stg = job[k].stg => j = k
    /\ \A j \in Jobs : pc[j] = "extract" => tree[at[Staging(job[j].stg)]] \cap Gens = {}
StageInv == "twins" \notin mess => Stages

\* What is no restore's own leaves the staging directories alone.
Aside == \A s \in Seconds : Exists(Staging(s)) =>
    at'[Staging(s)] = at[Staging(s)] /\ tree'[at[Staging(s)]] = tree[at[Staging(s)]]
\* What is no restore's step leaves all but the App's own directory alone.
Beside == \A p \in Places \ {Live} :
    at'[p] = at[p] /\ (Exists(p) => tree'[at[p]] = tree[at[p]])

LEMMA BesideAside == Beside => Aside
  BY PlacesApart DEF Beside, Aside

LEMMA StagesFrame ==
  ASSUME TypeOK, Stages, Aside,
         \A k \in Jobs : Staged(k)' => /\ Staged(k) /\ job'[k].stg = job[k].stg
                                       /\ pc'[k] = "extract" => pc[k] = "extract"
  PROVE  Stages'
  <1>1. ASSUME NEW k \in Jobs, Staged(k)'
        PROVE  /\ at'[Staging(job'[k].stg)] # NoDir
               /\ pc'[k] = "extract" => tree'[at'[Staging(job'[k].stg)]] \cap Gens = {}
    BY <1>1, JobPlaces DEF Stages, Aside, Exists
  <1>2. \A j \in Jobs, k \in Jobs :
           Staged(j)' /\ Staged(k)' /\ job'[j].stg = job'[k].stg => j = k
    BY DEF Stages
  <1> QED
    BY <1>1, <1>2 DEF Stages, Staged, Exists

LEMMA LiveWrite ==
  ASSUME TypeOK, Apart, Exists(Live), UNCHANGED at, NEW S, tree' = [tree EXCEPT ![at[Live]] = S]
  PROVE  Beside
  BY PlacesApart DEF Beside, Apart, TypeOK, Exists

LEMMA MadeAside ==
  ASSUME TypeOK, NEW p \in Places, MakeDir(p)
  PROVE  Aside
  BY Made, NewDirIn, PlacesApart DEF Aside, Exists, TypeOK

LEMMA LiveMade ==
  ASSUME TypeOK, MakeDir(Live)
  PROVE  Beside
  BY Made, NewDirIn, PlacesApart DEF Beside, Exists, TypeOK

LEMMA StillAside ==
  ASSUME UNCHANGED <<at, tree>> PROVE Aside /\ Beside
  BY DEF Aside, Beside

LEMMA UpdateBeside ==
  ASSUME TypeOK, Apart, NEW j \in Jobs, Update(j)
  PROVE  Beside
  <1>1. CASE AppDir(j) \/ ChangeCms(j)
    BY <1>1, LiveMade DEF AppDir, ChangeCms
  <1>2. CASE CopyInstaller(j)
    <2>1. PICK S : tree' = [tree EXCEPT ![at[Live]] = S]
      BY <1>2 DEF CopyInstaller
    <2> QED
      BY <1>2, <2>1, LiveWrite DEF CopyInstaller
  <1>3. CASE ChangeFails(j)
    <2>1. CASE UNCHANGED tree
      BY <1>3, <2>1, StillAside DEF ChangeFails
    <2>2. CASE Exists(Live) /\ tree' = [tree EXCEPT ![at[Live]] = (@ \ {Installer}) \cup {Broken}]
      <3>1. PICK S : tree' = [tree EXCEPT ![at[Live]] = S]
        BY <2>2
      <3> QED
        BY <1>3, <2>2, <3>1, LiveWrite DEF ChangeFails
    <2> QED
      BY <1>3, <2>1, <2>2 DEF ChangeFails
  <1>4. CASE UpdateBegin(j) \/ TarStart(j) \/ TarEnd(j) \/ TarFails(j) \/ Keep(j) \/ ChangePackage(j)
    BY <1>4, StillAside DEF UpdateBegin, TarStart, TarEnd, TarFails, Keep, ChangePackage, placeVars
  <1> QED
    BY <1>1, <1>2, <1>3, <1>4 DEF Update

LEMMA StartBeside ==
  ASSUME TypeOK, Apart, NEW j \in Jobs, Start(j)
  PROVE  Beside
  <1>1. CASE StartPrepare(j) /\ Exists(Live)
    <2>1. PICK S : at' = [at EXCEPT ![Live] = at[Live]] /\ tree' = [tree EXCEPT ![at[Live]] = S]
      BY <1>1 DEF StartPrepare
    <2>2. at' = at
      BY <2>1, PlacesApart DEF TypeOK
    <2> QED
      BY <1>1, <2>1, <2>2, LiveWrite
  <1>2. CASE StartPrepare(j) /\ ~Exists(Live)
    <2>1. PICK S : at' = [at EXCEPT ![Live] = NewDir] /\ tree' = [tree EXCEPT ![NewDir] = S]
      BY <1>2 DEF StartPrepare
    <2> QED
      BY <2>1, PlacesApart, NewDirIn DEF Beside, Exists, TypeOK
  <1>3. CASE StartBegin(j) \/ StartNeedless(j) \/ Run(j) \/ StartFails(j)
    BY <1>3, StillAside DEF StartBegin, StartNeedless, Run, StartFails, placeVars
  <1> QED
    BY <1>1, <1>2, <1>3 DEF Start

LEMMA OwnerBeside ==
  ASSUME TypeOK, Apart, StopClick \/ UnitEnds \/ Edit \/ RemoveInstaller \/ Advance \/ Crash \/ UNCHANGED vars
  PROVE  Beside
  <1>1. CASE Edit \/ RemoveInstaller
    <2>1. PICK S : tree' = [tree EXCEPT ![at[Live]] = S]
      BY <1>1 DEF Edit, RemoveInstaller
    <2>2. Exists(Live) /\ UNCHANGED at
      BY <1>1 DEF Edit, RemoveInstaller, LivePieces
    <2> QED
      BY <2>1, <2>2, LiveWrite
  <1>2. CASE StopClick \/ UnitEnds \/ Advance \/ Crash \/ UNCHANGED vars
    BY <1>2, StillAside DEF StopClick, UnitEnds, Advance, Crash, vars, placeVars
  <1> QED
    BY <1>1, <1>2

LEMMA StagesRestore ==
  ASSUME TypeOK, Apart, Stages, NEW j \in Jobs, Restore(j), "twins" \notin mess'
  PROVE  Stages'
  <1>0. JobsOK /\ DataOK
    BY Types
  <1>k. \A k \in Jobs \ {j} : pc'[k] = pc[k] /\ job'[k] = job[k]
    BY StepType DEF Step
  <1> DEFINE d(k) == Staging(job[k].stg)
  <1>d. \A k \in Jobs : d(k) \in Places /\ job[k].stg \in Seconds
    BY JobPlaces
  <1>o. ASSUME \A s \in Seconds \ {job[j].stg} : Exists(Staging(s)) =>
                  at'[Staging(s)] = at[Staging(s)] /\ tree'[at[Staging(s)]] = tree[at[Staging(s)]],
               Staged(j)
        PROVE  \A k \in Jobs \ {j} : Staged(k)' =>
                  /\ Staged(k) /\ job'[k].stg # job[j].stg /\ at'[Staging(job'[k].stg)] # NoDir
                  /\ pc'[k] = "extract" => tree'[at'[Staging(job'[k].stg)]] \cap Gens = {}
    <2> SUFFICES ASSUME NEW k \in Jobs \ {j}, Staged(k)'
                 PROVE  /\ Staged(k) /\ job[k].stg # job[j].stg
                        /\ at'[Staging(job[k].stg)] # NoDir
                        /\ pc[k] = "extract" => tree'[at'[Staging(job[k].stg)]] \cap Gens = {}
      BY <1>k
    <2>1. Staged(k) /\ job[k].stg # job[j].stg
      BY <1>o, <1>k DEF Stages, Staged
    <2> QED
      BY <1>o, <1>d, <2>1 DEF Stages, Exists
  <1>1. CASE RestoreBegin(j) \/ StopFirst(j) \/ Select(j) \/ AwayFails(j) \/ PutBackFails(j) \/ InFails(j)
    <2>1. pc'[j] \in {"stop", "select", "stage", "failed", "putback"} /\ UNCHANGED <<at, tree>>
      BY <1>0, <1>1 DEF RestoreBegin, StopFirst, Select, AwayFails, PutBackFails, InFails, Goto, Fail, JobsOK,
         placeVars
    <2> QED
      BY <1>k, <2>1, StillAside, StagesFrame DEF Staged
  <1>2. CASE Look(j)
    <2>1. /\ pc[j] = "look" /\ pc'[j] \in {"away", "in"} /\ job' = job /\ UNCHANGED <<at, tree>>
      BY <1>0, <1>2 DEF Look, Goto, JobsOK, placeVars
    <2> QED
      BY <1>k, <2>1, StillAside, StagesFrame DEF Staged
  <1>3. CASE Away(j)
    <2>1. /\ pc[j] = "away" /\ pc'[j] = "in" /\ job' = job /\ tree' = tree
      BY <1>0, <1>3 DEF Away, Goto, JobsOK
    <2>2. Aside
      BY <1>0, <1>3, <2>1, PlacesApart, JobPlaces DEF Away, Aside, DataOK
    <2> QED
      BY <1>k, <2>1, <2>2, StagesFrame DEF Staged
  <1>4. CASE PutBack(j) \/ Clean(j)
    <2>1. pc'[j] \in {"failed", "start", "done"} /\ job' = job /\ tree' = tree
      BY <1>0, <1>4 DEF PutBack, Clean, Fail, Goto, JobsOK
    <2>2. Aside
      BY <1>0, <1>4, <2>1, PlacesApart, JobPlaces DEF PutBack, Clean, Aside, DataOK
    <2> QED
      BY <1>k, <2>1, <2>2, StagesFrame DEF Staged
  <1>5. CASE Stage(j)
    <2>1. /\ ~Exists(d(j)) /\ MakeDir(d(j)) /\ pc'[j] = "extract" /\ job'[j].stg = job[j].stg
      BY <1>0, <1>5 DEF Stage, Goto, JobsOK, JobRecords
    <2>2. at'[d(j)] = NewDir /\ tree'[NewDir] = {} /\ NewDir # NoDir
      BY <1>d, <2>1, Made, NewDirIn DEF Exists
    <2>3. \A k \in Jobs \ {j} : Staged(k)' => Staged(k) /\ job'[k].stg # job[j].stg
      BY <1>k, <2>1 DEF Stages, Staged
    <2>4. Aside
      BY <1>d, <2>1, MadeAside
    <2>5. ASSUME NEW k \in Jobs, Staged(k)'
          PROVE  /\ at'[Staging(job'[k].stg)] # NoDir
                 /\ pc'[k] = "extract" => tree'[at'[Staging(job'[k].stg)]] \cap Gens = {}
      <3>1. CASE k = j
        BY <2>1, <2>2, <3>1
      <3>2. CASE k # j
        <4>1. Staged(k) /\ job'[k] = job[k] /\ pc'[k] = pc[k] /\ Exists(d(k))
          BY <1>k, <2>3, <2>5, <3>2 DEF Stages
        <4>2. at'[d(k)] = at[d(k)] /\ tree'[at[d(k)]] = tree[at[d(k)]]
          BY <1>d, <2>4, <4>1 DEF Aside
        <4> QED
          BY <4>1, <4>2 DEF Stages, Exists
      <3> QED
        BY <3>1, <3>2
    <2>6. \A i \in Jobs, k \in Jobs :
             Staged(i)' /\ Staged(k)' /\ job'[i].stg = job'[k].stg => i = k
      BY <1>k, <2>1, <2>3 DEF Stages
    <2> QED
      BY <2>5, <2>6 DEF Stages, Staged, Exists
  <1>6. CASE Extract(j)
    <2>1. /\ pc[j] = "extract" /\ pc'[j] = "look" /\ job' = job /\ at' = at /\ Exists(d(j))
      BY <1>0, <1>6 DEF Extract, Goto, JobsOK
    <2>2. PICK S : tree' = [tree EXCEPT ![at[d(j)]] = S]
      BY <1>6 DEF Extract
    <2>3. \A s \in Seconds \ {job[j].stg} : Exists(Staging(s)) =>
             at'[Staging(s)] = at[Staging(s)] /\ tree'[at[Staging(s)]] = tree[at[Staging(s)]]
      BY <1>0, <1>d, <2>1, <2>2, PlacesApart DEF DataOK, Apart
    <2>4. \A k \in Jobs \ {j} : Staged(k)' =>
                  /\ Staged(k) /\ job'[k].stg # job[j].stg /\ at'[Staging(job'[k].stg)] # NoDir
                  /\ pc'[k] = "extract" => tree'[at'[Staging(job'[k].stg)]] \cap Gens = {}
      BY <1>o, <2>1, <2>3 DEF Staged
    <2> QED
      BY <1>k, <2>1, <2>4 DEF Stages, Staged, Exists
  <1>7. CASE RestoreRefused(j)
    <2>1. pc'[j] = "failed" /\ job' = job /\ tree' = tree
      BY <1>0, <1>7 DEF RestoreRefused, Fail, Goto, JobsOK
    <2>2. CASE at' = at
      BY <1>k, <2>1, <2>2, StillAside, StagesFrame DEF Staged
    <2>3. CASE pc[j] = "extract" /\ at' = [at EXCEPT ![d(j)] = NoDir]
      <3>1. \A s \in Seconds \ {job[j].stg} : Exists(Staging(s)) =>
               at'[Staging(s)] = at[Staging(s)] /\ tree'[at[Staging(s)]] = tree[at[Staging(s)]]
        BY <1>0, <1>d, <2>1, <2>3, PlacesApart DEF DataOK
      <3>2. \A k \in Jobs \ {j} : Staged(k)' =>
                  /\ Staged(k) /\ job'[k].stg # job[j].stg /\ at'[Staging(job'[k].stg)] # NoDir
                  /\ pc'[k] = "extract" => tree'[at'[Staging(job'[k].stg)]] \cap Gens = {}
        BY <1>o, <2>3, <3>1 DEF Staged
      <3> QED
        BY <1>k, <2>1, <3>2 DEF Stages, Staged, Exists
    <2> QED
      BY <1>7, <2>2, <2>3 DEF RestoreRefused
  <1>8. CASE In(j)
    <2>1. pc[j] = "in" /\ pc'[j] = "clean" /\ job' = job /\ tree' = tree
      BY <1>0, <1>8 DEF In, Goto, JobsOK
    <2>2. \A s \in Seconds \ {job[j].stg} : Exists(Staging(s)) =>
             at'[Staging(s)] = at[Staging(s)] /\ tree'[at[Staging(s)]] = tree[at[Staging(s)]]
      BY <1>0, <1>8, <1>d, <2>1, PlacesApart DEF In, DataOK
    <2>3. \A k \in Jobs \ {j} : Staged(k)' =>
                  /\ Staged(k) /\ job'[k].stg # job[j].stg /\ at'[Staging(job'[k].stg)] # NoDir
                  /\ pc'[k] = "extract" => tree'[at'[Staging(job'[k].stg)]] \cap Gens = {}
      BY <1>o, <2>1, <2>2 DEF Staged
    <2> QED
      BY <1>k, <2>1, <2>3 DEF Stages, Staged, Exists
  <1> QED
    BY <1>1, <1>2, <1>3, <1>4, <1>5, <1>6, <1>7, <1>8 DEF Restore

LEMMA StagesNext ==
  ASSUME TypeOK, Apart, StageInv, [Next]_vars
  PROVE  StageInv'
  <1>1. ASSUME NEW j \in Jobs, Restore(j), "twins" \notin mess' PROVE Stages'
    <2>1. Stages
      BY <1>1, RestoreKeeps DEF StageInv
    <2> QED
      BY <1>1, <2>1, StagesRestore
  <1>2. ASSUME NEW j \in Jobs, Update(j) \/ Start(j), "twins" \notin mess' PROVE Stages'
    <2>1. Stages
      BY <1>2, UpdateKeeps, StartKeeps DEF StageInv
    <2>2. ~Staged(j)' /\ \A k \in Jobs \ {j} : pc'[k] = pc[k] /\ job'[k] = job[k]
      BY <1>2, UpdateKeeps, StartKeeps, StepType DEF Step, Staged, UpdatePcs, StartPcs
    <2>3. Aside
      BY <1>2, UpdateBeside, StartBeside, BesideAside
    <2> QED
      BY <2>1, <2>2, <2>3, StagesFrame DEF Staged
  <1>3. ASSUME StopClick \/ UnitEnds \/ Edit \/ RemoveInstaller \/ Advance \/ UNCHANGED vars,
               "twins" \notin mess'
        PROVE  Stages'
    <2>1. UNCHANGED <<pc, job, mess>> /\ Aside
      BY <1>3, OwnerKeeps, OwnerBeside, BesideAside
    <2> QED
      BY <1>3, <2>1, StagesFrame DEF StageInv, Staged
  <1>4. ASSUME Crash PROVE Stages'
    BY <1>4, CrashType DEF Stages, Staged
  <1> QED
    BY <1>1, <1>2, <1>3, <1>4, NextCases DEF StageInv

\* Pieces of one generation at most.
One(S) == \A x \in S \cap Gens, y \in S \cap Gens : x = y
Pure ==
    /\ \A d \in Dirs : One(tree[d])
    /\ \A s \in Seconds : /\ archive[s].state = "whole" => One(archive[s].pieces)
                          /\ tmp[s].state = "whole" => One(tmp[s].pieces)
    /\ \A j \in Jobs : pc[j] = "tarring" => One(job[j].got)
PureInv == mess \cap {"twins", "torn"} = {} => Pure

LEMMA PureFrame ==
  ASSUME Pure, UNCHANGED <<archive, tmp>>, \A d \in Dirs : One(tree'[d]),
         \A k \in Jobs : pc'[k] = "tarring" => pc[k] = "tarring" /\ job'[k] = job[k]
  PROVE  Pure'
  BY DEF Pure

\* No step but an upload and an unpacking puts a generation into a directory.
Thins == \A d \in Dirs : tree'[d] \cap Gens \subseteq tree[d]

LEMMA ThinsPure ==
  ASSUME Pure, Thins PROVE \A d \in Dirs : One(tree'[d])
  BY DEF Pure, Thins, One

LEMMA StillThins ==
  ASSUME UNCHANGED tree PROVE Thins
  BY DEF Thins

LEMMA MadeThins ==
  ASSUME TypeOK, NEW p \in Places, MakeDir(p)
  PROVE  Thins
  BY Made DEF Thins

LEMMA NoGens == Installer \notin Gens /\ Broken \notin Gens /\ Stub \notin Gens
  BY BoundsAssumption DEF Gens, Installer, Broken, Stub

LEMMA UpdateThins ==
  ASSUME TypeOK, NEW j \in Jobs, Update(j)
  PROVE  Thins
  <1>0. DataOK
    BY Types
  <1>1. CASE AppDir(j) \/ ChangeCms(j)
    BY <1>1, MadeThins, PlacesApart DEF AppDir, ChangeCms
  <1>2. CASE CopyInstaller(j)
    BY <1>0, <1>2, NoGens DEF CopyInstaller, Thins, DataOK
  <1>3. CASE ChangeFails(j)
    BY <1>0, <1>3, NoGens DEF ChangeFails, Thins, DataOK
  <1>4. CASE UpdateBegin(j) \/ TarStart(j) \/ TarEnd(j) \/ TarFails(j) \/ Keep(j) \/ ChangePackage(j)
    BY <1>4, StillThins DEF UpdateBegin, TarStart, TarEnd, TarFails, Keep, ChangePackage, placeVars
  <1> QED
    BY <1>1, <1>2, <1>3, <1>4 DEF Update

LEMMA StartThins ==
  ASSUME TypeOK, NEW j \in Jobs, Start(j)
  PROVE  Thins
  <1>0. DataOK
    BY Types
  <1>1. CASE StartPrepare(j)
    <2> DEFINE d == IF Exists(Live) THEN at[Live] ELSE NewDir
               S == IF LivePieces \cap (Gens \cup {Stub}) = {} THEN LivePieces \cup {Stub}
                                                               ELSE LivePieces
    <2>1. tree' = [tree EXCEPT ![d] = S]
      BY <1>1 DEF StartPrepare
    <2>2. S \cap Gens \subseteq LivePieces
      BY NoGens
    <2>3. LivePieces \subseteq tree[d]
      BY DEF LivePieces
    <2> HIDE DEF d, S
    <2> QED
      BY <1>0, <2>1, <2>2, <2>3 DEF DataOK, Thins
  <1>2. CASE StartBegin(j) \/ StartNeedless(j) \/ Run(j) \/ StartFails(j)
    BY <1>2, StillThins DEF StartBegin, StartNeedless, Run, StartFails, placeVars
  <1> QED
    BY <1>1, <1>2 DEF Start

LEMMA PureUpdate ==
  ASSUME TypeOK, Pure, NEW j \in Jobs, Update(j), "torn" \notin mess'
  PROVE  Pure'
  <1>0. JobsOK /\ DataOK /\ RestOK
    BY Types
  <1>k. \A k \in Jobs \ {j} : pc'[k] = pc[k] /\ job'[k] = job[k]
    BY StepType DEF Step
  <1>t. \A d \in Dirs : One(tree'[d])
    BY UpdateThins, ThinsPure
  <1>1. CASE UpdateBegin(j) \/ AppDir(j) \/ ChangePackage(j) \/ ChangeCms(j) \/ CopyInstaller(j)
             \/ ChangeFails(j)
    <2>1. pc'[j] # "tarring" /\ UNCHANGED <<archive, tmp>>
      BY <1>0, <1>1 DEF UpdateBegin, AppDir, ChangePackage, ChangeCms, CopyInstaller, ChangeFails,
         Goto, JobsOK, backupVars
    <2> QED
      BY <1>k, <1>t, <2>1, PureFrame
  <1>2. CASE TarStart(j)
    <2>1. archive' = archive /\ job'[j].got = tree[at[Live]] /\ Exists(Live)
      BY <1>0, <1>2 DEF TarStart, JobsOK, JobRecords
    <2>2. One(tree[at[Live]])
      BY <2>1, LiveType DEF Pure
    <2>3. \A s \in Seconds : tmp'[s] = tmp[s] \/ tmp'[s].state # "whole"
      <3>1. PICK state \in {"partial", "garbled"} : tmp' = [tmp EXCEPT ![now].state = state]
        BY <1>2 DEF TarStart
      <3> QED
        BY <1>0, <3>1 DEF DataOK, RestOK, Files
    <2>4. ASSUME NEW s \in Seconds
          PROVE  /\ archive'[s].state = "whole" => One(archive'[s].pieces)
                 /\ tmp'[s].state = "whole" => One(tmp'[s].pieces)
      BY <2>1, <2>3 DEF Pure
    <2>5. \A k \in Jobs : pc'[k] = "tarring" => One(job'[k].got)
      BY <1>k, <2>1, <2>2 DEF Pure
    <2> QED
      BY <1>t, <2>4, <2>5 DEF Pure
  <1>3. CASE TarEnd(j)
    <2>1. /\ archive' = archive /\ pc'[j] = "keep" /\ pc[j] = "tarring"
          /\ job'[j].got = job[j].got
      BY <1>0, <1>3 DEF TarEnd, Goto, JobsOK
    <2>2. \A s \in Seconds : tmp'[s] = tmp[s] \/ tmp'[s].pieces = job[j].got
      BY <1>0, <1>3, <2>1 DEF TarEnd, DataOK
    <2>3. ASSUME NEW s \in Seconds
          PROVE  /\ archive'[s].state = "whole" => One(archive'[s].pieces)
                 /\ tmp'[s].state = "whole" => One(tmp'[s].pieces)
      BY <2>1, <2>2 DEF Pure
    <2>4. \A k \in Jobs : pc'[k] = "tarring" => One(job'[k].got)
      BY <1>k, <2>1 DEF Pure
    <2> QED
      BY <1>t, <2>3, <2>4 DEF Pure
  <1>4. CASE TarFails(j)
    <2>1. archive' = archive /\ pc'[j] = "failed"
      BY <1>0, <1>4 DEF TarFails, Goto, JobsOK
    <2>2. \A s \in Seconds : tmp'[s] = tmp[s] \/ tmp'[s].state # "whole"
      BY <1>0, <1>4 DEF TarFails, DataOK, NoFile
    <2>3. ASSUME NEW s \in Seconds
          PROVE  /\ archive'[s].state = "whole" => One(archive'[s].pieces)
                 /\ tmp'[s].state = "whole" => One(tmp'[s].pieces)
      BY <2>1, <2>2 DEF Pure
    <2>4. \A k \in Jobs : pc'[k] = "tarring" => One(job'[k].got)
      BY <1>k, <2>1 DEF Pure
    <2> QED
      BY <1>t, <2>3, <2>4 DEF Pure
  <1>5. CASE Keep(j)
    <2>1. /\ pc'[j] \in {"failed", "change"} /\ job[j].id \in Seconds
      BY <1>0, <1>5, JobPlaces DEF Keep, Goto, JobsOK
    <2>2. \A s \in Seconds : /\ tmp'[s] = tmp[s] \/ tmp'[s].state # "whole"
                             /\ archive'[s] = archive[s] \/ archive'[s] = tmp[s]
      BY <1>0, <1>5, <2>1 DEF Keep, DataOK, NoFile, backupVars
    <2>3. ASSUME NEW s \in Seconds
          PROVE  /\ archive'[s].state = "whole" => One(archive'[s].pieces)
                 /\ tmp'[s].state = "whole" => One(tmp'[s].pieces)
      BY <2>2 DEF Pure
    <2>4. \A k \in Jobs : pc'[k] = "tarring" => One(job'[k].got)
      BY <1>k, <2>1 DEF Pure
    <2> QED
      BY <1>t, <2>3, <2>4 DEF Pure
  <1> QED
    BY <1>1, <1>2, <1>3, <1>4, <1>5 DEF Update

LEMMA PureRestore ==
  ASSUME TypeOK, Stages, Pure, NEW j \in Jobs, Restore(j)
  PROVE  Pure'
  <1>0. DataOK
    BY Types
  <1>k. /\ pc'[j] # "tarring" /\ UNCHANGED <<archive, tmp>>
        /\ \A k \in Jobs \ {j} : pc'[k] = pc[k] /\ job'[k] = job[k]
    BY RestoreKeeps, StepType DEF Step, RestorePcs
  <1>1. CASE Stage(j)
    BY <1>k, <1>1, JobPlaces, MadeThins, ThinsPure, PureFrame DEF Stage
  <1>2. CASE Extract(j)
    <2> DEFINE d == at[Staging(job[j].stg)]
               a == archive[job[j].pick]
    <2>1. /\ pc[j] = "extract" /\ a.state = "whole"
          /\ tree' = [tree EXCEPT ![d] = tree[d] \cup a.pieces]
      BY <1>2 DEF Extract
    <2>2. tree[d] \cap Gens = {} /\ One(a.pieces)
      BY <2>1, JobPlaces DEF Stages, Pure
    <2>3. \A e \in Dirs : tree'[e] = tree[e] \/ tree'[e] \cap Gens \subseteq a.pieces
      BY <1>0, <2>1, <2>2 DEF DataOK
    <2>4. \A e \in Dirs : One(tree'[e])
      BY <2>2, <2>3 DEF Pure, One
    <2> QED
      BY <1>k, <2>4, PureFrame
  <1>3. CASE ~Stage(j) /\ ~Extract(j)
    <2>1. tree' = tree
      BY <1>3 DEF Restore, RestoreBegin, StopFirst, Select, RestoreRefused, Look, Away, AwayFails, PutBackFails,
         In, InFails, PutBack, Clean, placeVars
    <2> QED
      BY <1>k, <2>1, PureFrame DEF Pure
  <1> QED
    BY <1>1, <1>2, <1>3

LEMMA PureNext ==
  ASSUME TypeOK, StageInv, PureInv, [Next]_vars
  PROVE  PureInv'
  <1> SUFFICES ASSUME mess' \cap {"twins", "torn"} = {} PROVE Pure'
    BY DEF PureInv
  <1>0. mess \subseteq mess'
    BY NextCases, UpdateKeeps, RestoreKeeps, StartKeeps, OwnerKeeps, CrashType
  <1>1. Pure /\ Stages
    BY <1>0 DEF PureInv, StageInv
  <1>2. ASSUME NEW j \in Jobs, Start(j) PROVE Pure'
    <2>1. /\ pc'[j] # "tarring" /\ UNCHANGED <<archive, tmp>>
          /\ \A k \in Jobs \ {j} : pc'[k] = pc[k] /\ job'[k] = job[k]
      BY <1>2, StartKeeps, StepType DEF Step, StartPcs
    <2> QED
      BY <1>1, <1>2, <2>1, StartThins, ThinsPure, PureFrame
  <1>3. CASE StopClick \/ UnitEnds \/ Edit \/ RemoveInstaller \/ Advance \/ UNCHANGED vars
    <2>1. \A d \in Dirs : One(tree'[d])
      <3>1. CASE Edit
        <4>1. \A d \in Dirs : tree'[d] = tree[d] \/ tree'[d] \cap Gens \subseteq {edits + 1}
          BY <3>1, PlacesApart DEF TypeOK, Edit
        <4> QED
          BY <1>1, <4>1 DEF Pure, One
      <3>2. CASE RemoveInstaller
        <4>1. Thins
          BY <3>2, PlacesApart DEF TypeOK, RemoveInstaller, Thins
        <4> QED
          BY <1>1, <4>1, ThinsPure
      <3>3. CASE UNCHANGED tree
        BY <1>1, <3>3 DEF Pure
      <3> QED
        BY <1>3, <3>1, <3>2, <3>3 DEF StopClick, UnitEnds, Advance, vars, placeVars
    <2> QED
      BY <1>1, <1>3, <2>1, OwnerKeeps, PureFrame
  <1>4. CASE Crash
    <2>1. UNCHANGED <<tree, archive, tmp>> /\ \A k \in Jobs : pc'[k] # "tarring"
      BY <1>4, CrashType
    <2> QED
      BY <1>1, <2>1, PureFrame DEF Pure
  <1> QED
    BY <1>1, <1>2, <1>3, <1>4, NextCases, PureUpdate, PureRestore

LEMMA PureInit == Init => StageInv /\ PureInv
  <1> SUFFICES ASSUME Init PROVE Stages /\ Pure
    BY DEF StageInv, PureInv
  <1>1. \A d \in Dirs : One(tree[d])
    BY DEF Init, One
  <1>2. \A s \in Seconds : One(archive[s].pieces) /\ One(tmp[s].pieces)
    BY DEF Init, One, NoFile
  <1> QED
    BY <1>1, <1>2 DEF Init, Stages, Staged, Pure

\* The App is never put together from two generations of its files, nor is any
\* directory or archive: an archive that two jobs have written is not whole, and
\* a restore unpacks into an empty directory of its own, unless two restores of
\* one second shared theirs, or the owner wrote while tar was reading.
THEOREM NoMixtureHolds == Spec => []NoMixture
  <1>1. Init => TypeOK /\ Apart /\ StageInv /\ PureInv
    BY TypeInit, ApartInit, PureInit
  <1>2. TypeOK /\ Apart /\ StageInv /\ PureInv /\ [Next]_vars
           => (TypeOK /\ Apart /\ StageInv /\ PureInv)'
    BY TypeNext, ApartNext, StagesNext, PureNext
  <1>3. TypeOK /\ PureInv => NoMixture
    <2> SUFFICES ASSUME TypeOK, Pure PROVE Cardinality(LivePieces \cap Gens) <= 1
      BY DEF PureInv, NoMixture
    <2>1. One(LivePieces)
      <3>1. CASE Exists(Live)
        BY <3>1, LiveType DEF Pure
      <3>2. CASE ~Exists(Live)
        BY <3>2, LiveType DEF One
      <3> QED
        BY <3>1, <3>2
    <2>2. CASE LivePieces \cap Gens = {}
      BY <2>2, FS_EmptySet
    <2>3. CASE LivePieces \cap Gens # {}
      <3>1. PICK x : LivePieces \cap Gens = {x}
        BY <2>1, <2>3 DEF One
      <3> QED
        BY <3>1, FS_Singleton
    <2> QED
      BY <2>2, <2>3
  <1> QED
    BY <1>1, <1>2, <1>3, PTL DEF Spec

-----------------------------------------------------------------------------
(* A failed restore changes nothing                                           *)

\* What a restore finds, until it swaps, and what it has set aside when it has.
Untouched(j) ==
    /\ pc[j] \in RestorePcs \ {"in", "putback", "clean"} /\ clean[j]
          => LivePieces = job[j].before
    /\ pc[j] \in {"extract", "look", "away"} /\ "twins" \notin mess
          => ~Exists(Rollback(job[j].rb))
    /\ pc[j] \in {"in", "putback"} /\ clean[j] /\ "twins" \notin mess =>
         /\ ~Exists(Live)
         /\ Exists(Rollback(job[j].rb)) => tree[at[Rollback(job[j].rb)]] = job[j].before
         /\ ~Exists(Rollback(job[j].rb)) => job[j].before = {}
UntouchedInv == \A j \in Jobs : Untouched(j)

LEMMA UntouchedInit == Init => UntouchedInv
  BY DEF Init, UntouchedInv, Untouched, RestorePcs

\* The step of one job does not disturb the others.
LEMMA UntouchedFrame ==
  ASSUME TypeOK, NEW k \in Jobs, Untouched(k), pc'[k] = pc[k], job'[k] = job[k],
         mess \subseteq mess',
         clean'[k] => /\ clean[k] /\ LivePieces' = LivePieces
                      /\ Exists(Live)' <=> Exists(Live),
         "twins" \notin mess' /\ Placed(k) =>
            /\ at'[Rollback(job[k].rb)] = at[Rollback(job[k].rb)]
            /\ Exists(Rollback(job[k].rb)) =>
                  tree'[at[Rollback(job[k].rb)]] = tree[at[Rollback(job[k].rb)]]
  PROVE  Untouched(k)'
  <1>1. pc'[k] \in RestorePcs \ {"in", "putback", "clean"} /\ clean'[k]
           => LivePieces' = job'[k].before
    BY DEF Untouched
  <1>2. pc'[k] \in {"extract", "look", "away"} /\ "twins" \notin mess'
           => at'[Rollback(job'[k].rb)] = NoDir
    BY DEF Untouched, Placed, Exists
  <1>3. pc'[k] \in {"in", "putback"} /\ clean'[k] /\ "twins" \notin mess' =>
         /\ ~Exists(Live)'
         /\ at'[Rollback(job'[k].rb)] # NoDir => tree'[at'[Rollback(job'[k].rb)]] = job'[k].before
         /\ at'[Rollback(job'[k].rb)] = NoDir => job'[k].before = {}
    BY DEF Untouched, Placed, Exists
  <1> QED
    BY <1>1, <1>2, <1>3 DEF Untouched, Exists

\* A restore leaves the rollback directories of the others alone.
LEMMA RestoreBeside ==
  ASSUME TypeOK, Apart, NEW j \in Jobs, Restore(j),
         NEW s \in Seconds, Placed(j) => s # job[j].rb
  PROVE  /\ at'[Rollback(s)] = at[Rollback(s)]
         /\ Exists(Rollback(s)) => tree'[at[Rollback(s)]] = tree[at[Rollback(s)]]
  <1>0. DataOK
    BY Types
  <1>1. CASE Stage(j)
    BY <1>0, <1>1, JobPlaces, PlacesApart, Made, NewDirIn DEF Stage, Exists, DataOK
  <1>2. CASE Extract(j)
    <2>1. PICK S : /\ tree' = [tree EXCEPT ![at[Staging(job[j].stg)]] = S] /\ at' = at
                   /\ Exists(Staging(job[j].stg))
      BY <1>2 DEF Extract
    <2>2. Exists(Rollback(s)) => at[Rollback(s)] # at[Staging(job[j].stg)]
      BY <2>1, JobPlaces, PlacesApart DEF Apart
    <2> QED
      BY <1>0, <2>1, <2>2, PlacesApart DEF DataOK, Exists
  <1>3. CASE RestoreRefused(j) \/ In(j)
    BY <1>0, <1>3, JobPlaces, PlacesApart DEF RestoreRefused, In, DataOK
  <1>4. CASE Away(j) \/ PutBack(j) \/ Clean(j)
    <2>1. Placed(j)
      BY <1>4 DEF Away, PutBack, Clean, Placed
    <2> QED
      BY <1>0, <1>4, <2>1, JobPlaces, PlacesApart DEF Away, PutBack, Clean, DataOK
  <1>5. CASE RestoreBegin(j) \/ StopFirst(j) \/ Select(j) \/ Look(j) \/ AwayFails(j) \/ PutBackFails(j) \/ InFails(j)
    BY <1>5 DEF RestoreBegin, StopFirst, Select, Look, AwayFails, PutBackFails, InFails, placeVars
  <1> QED
    BY <1>1, <1>2, <1>3, <1>4, <1>5 DEF Restore

\* Up to the swap, a restore does not touch the App.
LEMMA BeforeSwap ==
  ASSUME TypeOK, Apart, NEW j \in Jobs,
         RestoreBegin(j) \/ StopFirst(j) \/ Select(j) \/ Stage(j) \/ Extract(j) \/ RestoreRefused(j)
         \/ Look(j) \/ AwayFails(j) \/ PutBackFails(j) \/ InFails(j)
  PROVE  LivePieces' = LivePieces /\ (Exists(Live)' <=> Exists(Live))
  <1>0. DataOK
    BY Types
  <1>1. CASE Stage(j)
    <2>1. at'[Live] = at[Live] /\ (Exists(Live) => tree'[at[Live]] = tree[at[Live]])
      BY <1>0, <1>1, JobPlaces, Made, NewDirIn DEF Stage, Exists, DataOK
    <2> QED
      BY <2>1, Elsewhere
  <1>2. CASE Extract(j)
    <2>1. at' = at /\ (Exists(Live) => tree'[at[Live]] = tree[at[Live]])
      BY <1>0, <1>2, JobPlaces DEF Extract, Exists, Apart, DataOK
    <2> QED
      BY <2>1, Elsewhere
  <1>3. CASE RestoreRefused(j)
    <2>1. at'[Live] = at[Live] /\ tree' = tree
      BY <1>0, <1>3, JobPlaces DEF RestoreRefused, DataOK
    <2> QED
      BY <2>1, Elsewhere
  <1>4. CASE RestoreBegin(j) \/ StopFirst(j) \/ Select(j) \/ Look(j) \/ AwayFails(j) \/ PutBackFails(j) \/ InFails(j)
    BY <1>4, Elsewhere DEF RestoreBegin, StopFirst, Select, Look, AwayFails, PutBackFails, InFails, placeVars
  <1> QED
    BY <1>1, <1>2, <1>3, <1>4

LEMMA UntouchedOwn ==
  ASSUME TypeOK, Apart, NEW j \in Jobs, Untouched(j), Restore(j)
  PROVE  Untouched(j)'
  <1>0. JobsOK /\ DataOK /\ mess \subseteq mess'
    BY Types, RestoreKeeps
  <1>p. /\ Rollback(job[j].rb) \in Places /\ Rollback(job[j].rb) # Live /\ Live \in Places
    BY JobPlaces
  <1>1. CASE RestoreBegin(j)
    <2>1. pc'[j] \in {"stop", "select"} /\ job'[j].before = LivePieces /\ LivePieces' = LivePieces
      BY <1>0, <1>1, BeforeSwap DEF RestoreBegin, Goto, JobsOK, Fresh
    <2> QED
      BY <2>1 DEF Untouched
  <1>2. CASE StopFirst(j) \/ Select(j)
    <2>1. /\ pc[j] \in {"stop", "select"} /\ pc'[j] \in {"select", "stage"}
          /\ job'[j].before = job[j].before /\ LivePieces' = LivePieces /\ clean' = clean
      BY <1>0, <1>2, BeforeSwap DEF StopFirst, Select, Goto, JobsOK, JobRecords, historyVars
    <2> QED
      BY <2>1 DEF Untouched, RestorePcs
  <1>3. CASE Stage(j)
    <2>1. /\ pc[j] = "stage" /\ pc'[j] = "extract" /\ job'[j].rb = now
          /\ job'[j].before = job[j].before /\ LivePieces' = LivePieces /\ clean' = clean
          /\ MakeDir(Staging(job[j].stg)) /\ now \in Seconds
      BY <1>0, <1>3, BeforeSwap DEF Stage, Goto, JobsOK, JobRecords, TypeOK
    <2>2. "twins" \notin mess' => ~Exists(Rollback(now))
      BY <1>3 DEF Stage
    <2>3. at'[Rollback(now)] = at[Rollback(now)]
      BY <2>1, JobPlaces, PlacesApart, Made
    <2>4. "twins" \notin mess' => at'[Rollback(job'[j].rb)] = NoDir
      BY <2>1, <2>2, <2>3 DEF Exists
    <2>5. clean'[j] => LivePieces' = job'[j].before
      BY <2>1 DEF Untouched, RestorePcs
    <2> QED
      BY <2>1, <2>4, <2>5 DEF Untouched, Exists
  <1>4. CASE Extract(j)
    <2>1. /\ pc[j] = "extract" /\ pc'[j] = "look" /\ job' = job /\ LivePieces' = LivePieces
          /\ at' = at /\ clean' = clean /\ mess' = mess
      BY <1>0, <1>4, BeforeSwap DEF Extract, Goto, JobsOK, historyVars
    <2> QED
      BY <2>1 DEF Untouched, RestorePcs, Exists
  <1>5. CASE Look(j)
    <2>1. /\ pc[j] = "look" /\ pc'[j] = (IF Exists(Live) THEN "away" ELSE "in") /\ job' = job
          /\ LivePieces' = LivePieces /\ at' = at /\ tree' = tree /\ clean' = clean /\ mess' = mess
      BY <1>0, <1>5, BeforeSwap DEF Look, Goto, JobsOK, historyVars, placeVars
    <2>2. ~Exists(Live) => LivePieces = {}
      BY DEF LivePieces
    <2>3. /\ clean[j] => LivePieces = job[j].before
          /\ "twins" \notin mess => ~Exists(Rollback(job[j].rb))
      BY <2>1 DEF Untouched, RestorePcs
    <2> QED
      BY <2>1, <2>2, <2>3 DEF Untouched, Exists
  <1>6. CASE Away(j)
    <2>1. /\ pc[j] = "away" /\ pc'[j] = "in" /\ job' = job /\ tree' = tree /\ mess' = mess
          /\ Exists(Live) /\ LivePieces = tree[at[Live]]
          /\ at' = [at EXCEPT ![Live] = NoDir, ![Rollback(job[j].rb)] = at[Live]]
          /\ (clean'[j] => clean[j])
      BY <1>0, <1>6, Touched DEF Away, Goto, JobsOK, LivePieces
    <2>2. at'[Rollback(job[j].rb)] = at[Live] /\ at'[Live] = NoDir
      BY <1>0, <1>p, <2>1 DEF DataOK
    <2>3. clean[j] => tree[at[Live]] = job[j].before
      BY <2>1 DEF Untouched, RestorePcs
    <2> QED
      BY <2>1, <2>2, <2>3 DEF Untouched, Exists
  <1>7. CASE InFails(j)
    <2>1. /\ pc[j] = "in" /\ pc'[j] = "putback" /\ job' = job /\ at' = at /\ tree' = tree
          /\ clean' = clean /\ mess' = mess
      BY <1>0, <1>7 DEF InFails, Goto, JobsOK, historyVars, placeVars
    <2> QED
      BY <2>1 DEF Untouched, Exists
  <1>8. CASE RestoreRefused(j) \/ AwayFails(j) \/ PutBackFails(j) \/ In(j) \/ PutBack(j) \/ Clean(j)
    <2>1. pc'[j] \in {"failed", "clean", "done", "start"}
      BY <1>0, <1>8 DEF RestoreRefused, AwayFails, PutBackFails, In, PutBack, Clean, Fail, Goto, JobsOK
    <2> QED
      BY <2>1 DEF Untouched, RestorePcs
  <1> QED
    BY <1>1, <1>2, <1>3, <1>4, <1>5, <1>6, <1>7, <1>8 DEF Restore

LEMMA UntouchedNext ==
  ASSUME TypeOK, Apart, KeptInv, UntouchedInv, [Next]_vars
  PROVE  UntouchedInv'
  <1>0. \A k \in Jobs : Untouched(k)
    BY DEF UntouchedInv
  <1>r. \A k \in Jobs : job[k].rb \in Seconds /\ Rollback(job[k].rb) \in Places \ {Live}
    BY JobPlaces
  <1>1. ASSUME NEW j \in Jobs, Restore(j), NEW k \in Jobs PROVE Untouched(k)'
    <2>1. CASE k = j
      BY <1>0, <1>1, <2>1, UntouchedOwn
    <2>2. CASE k # j
      <3>1. /\ pc'[k] = pc[k] /\ job'[k] = job[k] /\ mess \subseteq mess' /\ Leaves({j})
        BY <1>1, <2>2, StepType, RestoreKeeps, RestoreLeaves DEF Step
      <3>2. "twins" \notin mess' /\ Placed(k) => (Placed(j) => job[k].rb # job[j].rb)
        BY <2>2, <3>1 DEF KeptInv, RbApart
      <3>3. "twins" \notin mess' /\ Placed(k) =>
            /\ at'[Rollback(job[k].rb)] = at[Rollback(job[k].rb)]
            /\ Exists(Rollback(job[k].rb)) =>
                  tree'[at[Rollback(job[k].rb)]] = tree[at[Rollback(job[k].rb)]]
        BY <1>1, <1>r, <3>2, RestoreBeside
      <3>4. clean'[k] => clean[k] /\ LivePieces' = LivePieces /\ (Exists(Live)' <=> Exists(Live))
        BY <2>2, <3>1 DEF Leaves
      <3> QED
        BY <1>0, <3>1, <3>3, <3>4, UntouchedFrame
    <2> QED
      BY <2>1, <2>2
  <1>2. ASSUME NEW j \in Jobs, Update(j) \/ Start(j), NEW k \in Jobs PROVE Untouched(k)'
    <2>1. CASE k = j
      BY <1>2, <2>1, UpdateKeeps, StartKeeps DEF Untouched, UpdatePcs, StartPcs, RestorePcs
    <2>2. CASE k # j
      <3>1. /\ pc'[k] = pc[k] /\ job'[k] = job[k] /\ mess \subseteq mess' /\ Leaves({j}) /\ Beside
        BY <1>2, <2>2, StepType, UpdateKeeps, StartKeeps, UpdateLeaves, StartLeaves,
           UpdateBeside, StartBeside DEF Step
      <3>2. clean'[k] => clean[k] /\ LivePieces' = LivePieces /\ (Exists(Live)' <=> Exists(Live))
        BY <2>2, <3>1 DEF Leaves
      <3> QED
        BY <1>0, <1>r, <3>1, <3>2, UntouchedFrame DEF Beside
    <2> QED
      BY <2>1, <2>2
  <1>3. ASSUME StopClick \/ UnitEnds \/ Edit \/ RemoveInstaller \/ Advance \/ UNCHANGED vars, NEW k \in Jobs
        PROVE  Untouched(k)'
    <2>1. /\ UNCHANGED <<pc, job, mess>> /\ Leaves({}) /\ Beside
      BY <1>3, OwnerKeeps, OthersLeave, OwnerBeside
    <2>2. clean'[k] => clean[k] /\ LivePieces' = LivePieces /\ (Exists(Live)' <=> Exists(Live))
      BY <2>1 DEF Leaves
    <2> QED
      BY <1>0, <1>r, <2>1, <2>2, UntouchedFrame DEF Beside
  <1>4. ASSUME Crash, NEW k \in Jobs PROVE Untouched(k)'
    BY <1>4, CrashType DEF Untouched, RestorePcs
  <1> QED
    BY <1>1, <1>2, <1>3, <1>4, NextCases DEF UntouchedInv

LEMMA FailsAsItWas ==
  ASSUME TypeOK, Apart, UntouchedInv, [Next]_vars, NEW j \in Jobs,
         pc[j] \in RestorePcs, pc'[j] = "failed", clean'[j], "twins" \notin mess
  PROVE  LivePieces' = job[j].before \/ ("stuck" \in mess' /\ SetAside(j)')
  <1>0. JobsOK /\ DataOK /\ Untouched(j) /\ pc'[j] # pc[j]
    BY Types DEF UntouchedInv, RestorePcs
  <1>1. Restore(j)
    <2>1. \A k \in Jobs : Step(k) => k = j
      BY <1>0, StepType
    <2>2. ~Update(j) /\ ~Start(j)
      BY UpdateKeeps, StartKeeps DEF UpdatePcs, StartPcs, RestorePcs
    <2>3. ~(StopClick \/ UnitEnds \/ Edit \/ RemoveInstaller \/ Advance \/ UNCHANGED vars) /\ ~Crash
      BY <1>0, OwnerKeeps, CrashType
    <2> QED
      BY <2>1, <2>2, <2>3, NextCases DEF Step
  <1>2. CASE RestoreRefused(j) \/ AwayFails(j)
    <2>1. /\ pc[j] \in {"select", "stage", "extract", "away"} /\ clean' = clean
          /\ LivePieces' = LivePieces
      BY <1>2, BeforeSwap DEF RestoreRefused, AwayFails
    <2> QED
      BY <1>0, <2>1 DEF Untouched, RestorePcs
  <1>3. CASE PutBack(j)
    <2> DEFINE r == Rollback(job[j].rb)
    <2>1. pc[j] = "putback" /\ clean[j] /\ tree' = tree
      BY <1>3, Touched DEF PutBack
    <2>2. /\ ~Exists(Live) /\ Vacant(Live)
          /\ Exists(r) => tree[at[r]] = job[j].before
          /\ ~Exists(r) => job[j].before = {}
      BY <1>0, <2>1 DEF Untouched, Vacant
    <2>3. CASE Exists(r)
      <3>1. at' = [at EXCEPT ![r] = NoDir, ![Live] = at[r]]
        BY <1>3, <2>2, <2>3 DEF PutBack
      <3>2. at'[Live] = at[r] /\ at[r] # NoDir
        BY <1>0, <2>3, <3>1, JobPlaces DEF DataOK, Exists
      <3> QED
        BY <2>1, <2>2, <2>3, <3>2 DEF LivePieces, Exists
    <2>4. CASE ~Exists(r)
      <3>1. at' = at
        BY <1>3, <2>4 DEF PutBack
      <3> QED
        BY <2>2, <2>4, <3>1 DEF LivePieces, Exists
    <2> QED
      BY <2>3, <2>4
  <1>5. CASE PutBackFails(j)
    <2>1. /\ pc[j] = "putback" /\ clean[j] /\ Exists(Rollback(job[j].rb))
          /\ UNCHANGED <<at, tree, job>> /\ "stuck" \in mess'
      BY <1>5 DEF PutBackFails, placeVars
    <2>2. tree[at[Rollback(job[j].rb)]] = job[j].before
      BY <1>0, <2>1 DEF Untouched
    <2>3. SetAside(j)'
      BY <2>1, <2>2 DEF SetAside, Exists
    <2> QED
      BY <2>1, <2>3
  <1>4. CASE ~(RestoreRefused(j) \/ AwayFails(j) \/ PutBackFails(j) \/ PutBack(j))
    <2>1. pc'[j] # "failed"
      BY <1>0, <1>1, <1>4 DEF Restore, RestoreBegin, StopFirst, Select, Stage, Extract, Look, Away,
         In, InFails, Clean, Goto, JobsOK
    <2> QED
      BY <2>1
  <1> QED
    BY <1>2, <1>3, <1>4, <1>5

\* restore_app_backup leaves the App's files as they were when it does not
\* succeed, wherever it stops and whatever other jobs do, if nobody else touched
\* the App and no second restore of the same second shared its directories; when
\* the rename back fails as well, they are whole in the rollback directory.
THEOREM FailedRestore == Spec => FailedRestoreChangesNothing
  <1>1. Init => TypeOK /\ Apart /\ KeptInv /\ UntouchedInv
    BY TypeInit, ApartInit, KeptInit, UntouchedInit
  <1>2. TypeOK /\ Apart /\ KeptInv /\ UntouchedInv /\ [Next]_vars
           => (TypeOK /\ Apart /\ KeptInv /\ UntouchedInv)'
    BY TypeNext, ApartNext, KeptNext, UntouchedNext
  <1>3. TypeOK /\ Apart /\ UntouchedInv /\ [Next]_vars =>
           [\A j \in Jobs : pc[j] \in RestorePcs /\ pc'[j] = "failed" /\ clean'[j]
                 /\ "twins" \notin mess
            => \/ LivePieces' = job[j].before
               \/ "stuck" \in mess' /\ SetAside(j)']_vars
    BY FailsAsItWas
  <1> QED
    BY <1>1, <1>2, <1>3, PTL DEF Spec, FailedRestoreChangesNothing
=============================================================================
