--------------------------- MODULE Resellers_proofs ---------------------------
(* Proofs about Resellers for any accounts, requests, packages and caps.       *)
EXTENDS Resellers, FiniteSetTheorems, TLAPS

Marks == {"stale", "cut", "package", "orphans", "unread", "renamed"}
JobRecords == [op : Ops, user : Users \cup {None}, target : Users \cup {None},
               limit : Limits, reseller : BOOLEAN, copy : Pools]

-----------------------------------------------------------------------------
(* Type correctness                                                           *)

LEMMA NoPoolType == [u \in Users |-> NoPool] \in Pools /\ NoPool \notin Limits
  BY BoundsAssumption DEF Pools, NoPool, Limits, Unlimited

LEMMA FreshType ==
  /\ Fresh \in JobRecords
  /\ Fresh.op = "demote" /\ Fresh.user = None /\ Fresh.target = None
  /\ Fresh.limit = 0 /\ ~Fresh.reseller /\ Fresh.copy = [u \in Users |-> NoPool]
  BY NoPoolType, BoundsAssumption DEF Fresh, JobRecords, Ops, Limits

LEMMA AbsentType ==
  Absent \in Fields /\ ~Absent.there /\ ~Absent.reseller /\ Absent.parent = None
  BY DEF Absent, Fields

LEMMA TypeInit == Init => TypeOK
  <1> SUFFICES ASSUME Init PROVE TypeOK
    OBVIOUS
  <1>1. account \in [Users -> Fields] /\ \A u \in Users : There(u)
    BY DEF Init, Absent, Fields, There
  <1>2. store \in [torn : BOOLEAN, pool : Pools]
    BY NoPoolType DEF Init
  <1>3. job \in [Requests -> JobRecords] /\ pc \in [Requests -> Pcs]
    BY FreshType DEF Init, Pcs
  <1>4. \A j \in Requests : pc[j] = "idle"
    BY DEF Init
  <1>5. cap \in [Packages -> Limits] /\ package \in [Users -> Packages]
    BY UsersAssumption DEF Init
  <1>6. asks \in 0..MaxAsks /\ stale = {} /\ mess = {}
    BY BoundsAssumption DEF Init
  <1> QED
    BY <1>1, <1>2, <1>3, <1>4, <1>5, <1>6 DEF TypeOK, JobRecords

\* A request that begins is the only one to change.
LEMMA Begun ==
  ASSUME TypeOK, NEW j \in Requests, NEW label \in Pcs \ {"undo", "assign"},
         NEW local \in JobRecords, Start(j, label, local),
         UNCHANGED mess \/ Unread
  PROVE  /\ TypeOK'
         /\ \A k \in Requests : /\ pc'[k] = IF k = j THEN label ELSE pc[k]
                                /\ job'[k] = IF k = j THEN local ELSE job[k]
  <1>1. asks' \in 0..MaxAsks
    BY BoundsAssumption DEF Start, Ask, TypeOK
  <1>2. /\ pc' \in [Requests -> Pcs]
        /\ \A k \in Requests : pc'[k] = IF k = j THEN label ELSE pc[k]
    BY DEF Start, Goto, TypeOK
  <1>3. /\ job' \in [Requests -> JobRecords]
        /\ \A k \in Requests : job'[k] = IF k = j THEN local ELSE job[k]
    BY DEF Start, TypeOK, JobRecords
  <1>4. \A k \in Requests : pc'[k] \in {"assign", "undo"} => job'[k].op = "create"
    BY <1>2, <1>3 DEF TypeOK
  <1>5. mess' \subseteq Marks
    BY DEF Unread, TypeOK, Marks
  <1>6. UNCHANGED <<account, store, cap, package, stale>>
    BY DEF Start, dataVars, packageVars
  <1>7. QED
    BY <1>1, <1>2, <1>3, <1>4, <1>5, <1>6 DEF TypeOK, JobRecords, There, Marks

\* What an operation leaves of the requests it overtakes.
LEMMA Overtaken ==
  ASSUME TypeOK, NEW j, NEW us, NEW saved, Overtakes(j, us, saved)
  PROVE  /\ stale' \subseteq InFlight' /\ stale' \subseteq Requests
         /\ \A k \in Requests : pc'[k] # "idle" /\ k \notin stale' =>
               /\ k \notin stale
               /\ k # j => /\ job[k].user \notin us /\ job[k].target \notin us
                          /\ ~(saved /\ Holds(k))
  BY DEF Overtakes, InFlight, TypeOK

LEMMA OvertakenUsers ==
  ASSUME TypeOK, NEW j, NEW us, Overtakes(j, us, FALSE)
  PROVE  \A k \in Requests \ {j} : pc'[k] # "idle" /\ k \notin stale' =>
           k \notin stale /\ job[k].user \notin us /\ job[k].target \notin us
  BY DEF Overtakes, InFlight, TypeOK

LEMMA OvertakenSaved ==
  ASSUME TypeOK, NEW j, NEW us, Overtakes(j, us, TRUE)
  PROVE  \A k \in Requests \ {j} : pc'[k] # "idle" /\ k \notin stale' =>
           k \notin stale /\ ~Holds(k) /\ job[k].user \notin us /\ job[k].target \notin us
  BY DEF Overtakes, InFlight, TypeOK

LEMMA Settled ==
  ASSUME TypeOK, Settle
  PROVE  /\ stale' \subseteq InFlight' /\ stale' \subseteq stale
         /\ \A k \in Requests : pc'[k] # "idle" /\ k \notin stale' => k \notin stale
  BY DEF Settle, InFlight, TypeOK

\* A request that goes on to another step.
LEMMA Went ==
  ASSUME TypeOK, NEW j \in Requests, NEW label \in Pcs, Goto(j, label), UNCHANGED job,
         label \in {"assign", "undo"} => job[j].op = "create"
  PROVE  /\ pc' \in [Requests -> Pcs] /\ job' \in [Requests -> JobRecords]
         /\ \A k \in Requests : /\ pc'[k] = IF k = j THEN label ELSE pc[k]
                                /\ job'[k] = job[k]
                                /\ pc'[k] \in {"assign", "undo"} => job'[k].op = "create"
  BY DEF Goto, TypeOK, JobRecords

\* A request that ends.
LEMMA Ended ==
  ASSUME TypeOK, NEW j \in Requests, End(j)
  PROVE  /\ pc' \in [Requests -> Pcs] /\ job' \in [Requests -> JobRecords]
         /\ \A k \in Requests : /\ pc'[k] = IF k = j THEN "idle" ELSE pc[k]
                                /\ job'[k] = IF k = j THEN Fresh ELSE job[k]
                                /\ pc'[k] \in {"assign", "undo"} => job'[k].op = "create"
  <1>1. /\ pc' \in [Requests -> Pcs]
        /\ \A k \in Requests : pc'[k] = IF k = j THEN "idle" ELSE pc[k]
    BY DEF End, Goto, TypeOK, Pcs
  <1>2. /\ job' \in [Requests -> JobRecords]
        /\ \A k \in Requests : job'[k] = IF k = j THEN Fresh ELSE job[k]
    BY FreshType DEF End, TypeOK, JobRecords
  <1> QED
    BY <1>1, <1>2 DEF TypeOK

\* An account that is made, changed or removed is the only one.
LEMMA Stored ==
  ASSUME TypeOK, NEW u \in Users, NEW fields \in Fields,
         account' = [account EXCEPT ![u] = fields], fields.there \/ fields = Absent
  PROVE  /\ account' \in [Users -> Fields]
         /\ \A v \in Users : /\ account'[v] = IF v = u THEN fields ELSE account[v]
                             /\ account'[v].there \/ account'[v] = Absent
  BY DEF TypeOK, There

LEMMA AskType == TypeOK /\ Ask => asks' \in 0..MaxAsks
  BY BoundsAssumption DEF TypeOK, Ask

-----------------------------------------------------------------------------
(* What each step does                                                        *)

LEMMA Types ==
  ASSUME account' \in [Users -> Fields],
         \A v \in Users : account'[v].there \/ account'[v] = Absent,
         store' \in [torn : BOOLEAN, pool : Pools],
         cap' \in [Packages -> Limits],
         package' \in [Users -> Packages],
         pc' \in [Requests -> Pcs], job' \in [Requests -> JobRecords],
         \A k \in Requests : pc'[k] \in {"assign", "undo"} => job'[k].op = "create",
         asks' \in 0..MaxAsks, stale' \subseteq Requests,
         mess' \subseteq Marks
  PROVE  TypeOK'
  BY DEF TypeOK, JobRecords, There, Marks

CreateJob(c, r) == [Fresh EXCEPT !.op = "create", !.user = c, !.target = r]
Created == [Absent EXCEPT !.there = TRUE]

LEMMA CreateUserType ==
  ASSUME TypeOK, NEW j \in Requests, NEW c \in Users, NEW r \in Users, CreateUser(j, c, r)
  PROVE  /\ TypeOK'
         /\ \A v \in Users : account'[v] = IF v = c THEN Created ELSE account[v]
         /\ Created.there /\ ~Created.reseller /\ Created.parent = None
         /\ \A k \in Requests :
               /\ pc'[k] = IF k = j THEN "assign" ELSE pc[k]
               /\ job'[k] = IF k = j THEN CreateJob(c, r) ELSE job[k]
         /\ CreateJob(c, r).op = "create" /\ CreateJob(c, r).user = c
         /\ CreateJob(c, r).target = r /\ ~CreateJob(c, r).reseller
  <1>1. /\ CreateJob(c, r) \in JobRecords
        /\ CreateJob(c, r).op = "create" /\ CreateJob(c, r).user = c
        /\ CreateJob(c, r).target = r /\ ~CreateJob(c, r).reseller
    BY FreshType DEF JobRecords, Ops, CreateJob
  <1>2. Created \in Fields /\ Created.there /\ ~Created.reseller /\ Created.parent = None
    BY AbsentType DEF Fields, Created
  <1>3. /\ account' \in [Users -> Fields]
        /\ \A v \in Users : /\ account'[v] = IF v = c THEN Created ELSE account[v]
                            /\ account'[v].there \/ account'[v] = Absent
    <2>1. account' = [account EXCEPT ![c] = Created]
      BY DEF CreateUser, Created
    <2> QED
      BY <1>2, <2>1, Stored
  <1>4. /\ pc' \in [Requests -> Pcs] /\ job' \in [Requests -> JobRecords]
        /\ \A k \in Requests : /\ pc'[k] = IF k = j THEN "assign" ELSE pc[k]
                               /\ job'[k] = IF k = j THEN CreateJob(c, r) ELSE job[k]
    <2>1. job' = [job EXCEPT ![j] = CreateJob(c, r)]
      BY DEF CreateUser, CreateJob
    <2>2. pc' = [pc EXCEPT ![j] = "assign"] /\ "assign" \in Pcs
      BY DEF CreateUser, Goto, Pcs
    <2>3. job \in [Requests -> JobRecords] /\ pc \in [Requests -> Pcs]
      BY DEF TypeOK, JobRecords
    <2> QED
      BY <1>1, <2>1, <2>2, <2>3
  <1>5. \A k \in Requests : pc'[k] \in {"assign", "undo"} => job'[k].op = "create"
    BY <1>1, <1>4 DEF TypeOK
  <1>6. /\ asks' \in 0..MaxAsks /\ stale' \subseteq Requests
        /\ store' = store /\ cap' = cap /\ package' = package /\ mess' = mess
    BY AskType, Overtaken DEF CreateUser, packageVars
  <1>7. TypeOK'
    BY <1>3, <1>4, <1>5, <1>6, Types DEF TypeOK, Marks
  <1> QED
    BY <1>1, <1>2, <1>3, <1>4, <1>7

\* What a request writes of the account, and where it stands then.
NewParent(j) == IF job[j].op \in {"assign", "create"} THEN job[j].target ELSE None
NewFields(j) == [account[job[j].user] EXCEPT !.reseller = job[j].reseller,
                                             !.parent = NewParent(j)]
NextPc(j) == IF job[j].op \in {"promote", "demote"} THEN "load"
             ELSE IF job[j].op = "quotas" THEN "save" ELSE "idle"

LEMMA SetFieldsType ==
  ASSUME TypeOK, NEW j \in Requests, SetFields(j), job[j].user \in Users
  PROVE  /\ TypeOK'
         /\ NewFields(j) \in Fields
         /\ \A v \in Users : account'[v] = IF v = job[j].user THEN NewFields(j) ELSE account[v]
         /\ \A k \in Requests :
               /\ pc'[k] = IF k = j THEN NextPc(j) ELSE pc[k]
               /\ job'[k] = IF k = j /\ NextPc(j) = "idle" THEN Fresh ELSE job[k]
  <1> DEFINE u == job[j].user
             op == job[j].op
  <1>1. NewFields(j) \in Fields /\ NewFields(j).there
    <2>1. account[u] \in Fields /\ account[u].there
      BY DEF TypeOK, SetFields, There
    <2>2. NewParent(j) \in Users \cup {None} /\ job[j].reseller \in BOOLEAN
      BY DEF TypeOK, NewParent
    <2> QED
      BY <2>1, <2>2 DEF NewFields, Fields
  <1>2. account' = [account EXCEPT ![u] = NewFields(j)]
    BY DEF SetFields, TypeOK, NewFields, NewParent
  <1>3. /\ account' \in [Users -> Fields]
        /\ \A v \in Users : /\ account'[v] = IF v = u THEN NewFields(j) ELSE account[v]
                            /\ account'[v].there \/ account'[v] = Absent
    BY <1>1, <1>2, Stored
  <1>4. /\ pc' \in [Requests -> Pcs] /\ job' \in [Requests -> JobRecords]
        /\ \A k \in Requests :
              /\ pc'[k] = IF k = j THEN NextPc(j) ELSE pc[k]
              /\ job'[k] = IF k = j /\ NextPc(j) = "idle" THEN Fresh ELSE job[k]
              /\ pc'[k] \in {"assign", "undo"} => job'[k].op = "create"
    <2>1. CASE op \in {"promote", "demote"}
      BY <2>1, Went DEF SetFields, Pcs, NextPc
    <2>2. CASE op = "quotas"
      BY <2>2, Went DEF SetFields, Pcs, NextPc
    <2>3. CASE op \notin {"promote", "demote", "quotas"}
      BY <2>3, Ended DEF SetFields, NextPc
    <2> QED
      BY <2>1, <2>2, <2>3
  <1>5. /\ asks' = asks /\ stale' \subseteq Requests
        /\ store' = store /\ cap' = cap /\ package' = package
        /\ mess' \subseteq mess \cup {"stale"}
    BY Overtaken DEF SetFields, packageVars, Stain
  <1>6. TypeOK'
    BY <1>3, <1>4, <1>5, Types DEF TypeOK, Marks
  <1> QED
    BY <1>1, <1>3, <1>4, <1>6

\* The account is removed, by its request or by delete_account.
LEMMA Removed ==
  ASSUME TypeOK, NEW u \in Users, Remove(u)
  PROVE  /\ account' \in [Users -> Fields]
         /\ \A v \in Users : /\ account'[v] = IF v = u THEN Absent ELSE account[v]
                             /\ account'[v].there \/ account'[v] = Absent
  BY AbsentType, Stored DEF Remove

\* What a request makes of the store it has read.
LoadedCopy(j) == [store.pool EXCEPT ![job[j].user] =
                     IF job[j].op = "promote" THEN job[j].limit ELSE NoPool]

LEMMA LoadType ==
  ASSUME TypeOK, NEW j \in Requests, Load(j), job[j].user \in Users
  PROVE  /\ TypeOK'
         /\ LoadedCopy(j) \in Pools
         /\ \A v \in Users : LoadedCopy(j)[v] =
               IF v # job[j].user THEN store.pool[v]
               ELSE IF job[j].op = "promote" THEN job[j].limit ELSE NoPool
         /\ \A k \in Requests :
               /\ pc'[k] = IF k = j THEN "save" ELSE pc[k]
               /\ k # j => job'[k] = job[k]
               /\ job'[k].op = job[k].op /\ job'[k].user = job[k].user
               /\ job'[k].target = job[k].target /\ job'[k].limit = job[k].limit
               /\ job'[k].reseller = job[k].reseller
               /\ job'[k].copy = IF k = j THEN LoadedCopy(j) ELSE job[k].copy
  <1>1. /\ LoadedCopy(j) \in Pools
        /\ \A v \in Users : LoadedCopy(j)[v] =
              IF v # job[j].user THEN store.pool[v]
              ELSE IF job[j].op = "promote" THEN job[j].limit ELSE NoPool
    BY DEF TypeOK, Pools, JobRecords, LoadedCopy
  <1>2. /\ pc' \in [Requests -> Pcs]
        /\ \A k \in Requests : pc'[k] = IF k = j THEN "save" ELSE pc[k]
    BY DEF Load, Goto, TypeOK, Pcs
  <1>3. job' = [job EXCEPT ![j] = [job[j] EXCEPT !.copy = LoadedCopy(j)]]
    BY DEF Load, TypeOK, LoadedCopy
  <1>4. /\ job' \in [Requests -> JobRecords]
        /\ \A k \in Requests :
              /\ job'[k] = IF k = j THEN [job[j] EXCEPT !.copy = LoadedCopy(j)] ELSE job[k]
              /\ job'[k].op = job[k].op /\ job'[k].user = job[k].user
              /\ job'[k].target = job[k].target /\ job'[k].limit = job[k].limit
              /\ job'[k].reseller = job[k].reseller
              /\ job'[k].copy = IF k = j THEN LoadedCopy(j) ELSE job[k].copy
    <2>1. job \in [Requests -> JobRecords]
      BY DEF TypeOK, JobRecords
    <2>2. [job[j] EXCEPT !.copy = LoadedCopy(j)] \in JobRecords
      BY <1>1, <2>1 DEF JobRecords
    <2>3. \A k \in Requests :
            job'[k] = IF k = j THEN [job[j] EXCEPT !.copy = LoadedCopy(j)] ELSE job[k]
      BY <1>3, <2>1
    <2>4. job' \in [Requests -> JobRecords]
      BY <1>3, <2>1, <2>2
    <2> QED
      BY <2>1, <2>3, <2>4 DEF JobRecords
  <1>5. TypeOK'
    <2>1. \A k \in Requests : pc'[k] \in {"assign", "undo"} => job'[k].op = "create"
      BY <1>2, <1>4 DEF TypeOK
    <2> QED
      BY <1>2, <1>4, <2>1, Types DEF TypeOK, Marks, Load, dataVars, packageVars, There
  <1>6. \A k \in Requests \ {j} : job'[k] = job[k]
    BY <1>4
  <1> QED
    BY <1>1, <1>2, <1>4, <1>5, <1>6

LEMMA WriteType ==
  ASSUME TypeOK, NEW j \in Requests, Write(j)
  PROVE  /\ TypeOK'
         /\ ~store'.torn /\ store'.pool = job[j].copy
         /\ \A k \in Requests : /\ pc'[k] = IF k = j THEN "idle" ELSE pc[k]
                                /\ job'[k] = IF k = j THEN Fresh ELSE job[k]
  <1>1. /\ store' \in [torn : BOOLEAN, pool : Pools]
        /\ ~store'.torn /\ store'.pool = job[j].copy
    BY DEF Write, TypeOK
  <1>2. mess' \subseteq mess \cup {"stale"}
    BY DEF Write, Stain
  <1>3. /\ account' = account /\ cap' = cap /\ package' = package /\ asks' = asks
        /\ stale' \subseteq Requests /\ End(j)
    BY Overtaken DEF Write, packageVars
  <1>4. TypeOK'
    <2>1. /\ account' \in [Users -> Fields]
          /\ \A v \in Users : account'[v].there \/ account'[v] = Absent
      BY <1>3 DEF TypeOK, There
    <2>2. mess' \subseteq Marks
      BY <1>2 DEF TypeOK, Marks
    <2> QED
      BY <2>1, <2>2, <1>1, <1>3, Ended, Types DEF TypeOK
  <1> QED
    BY <1>1, <1>3, <1>4, Ended

\* Steps that leave the accounts, the store and the packages alone, or tear it.
LEMMA KeptType ==
  ASSUME TypeOK, UNCHANGED account, UNCHANGED store \/ store' = NoStore,
         UNCHANGED packageVars, asks' = asks,
         pc' \in [Requests -> Pcs], job' \in [Requests -> JobRecords],
         \A k \in Requests : pc'[k] \in {"assign", "undo"} => job'[k].op = "create",
         stale' \subseteq Requests, mess' \subseteq mess \cup {"cut", "unread"}
  PROVE  TypeOK'
  <1>1. /\ account' \in [Users -> Fields]
        /\ \A v \in Users : account'[v].there \/ account'[v] = Absent
    BY DEF TypeOK, There
  <1>2. mess' \subseteq Marks
    BY DEF TypeOK, Marks
  <1>3. store' \in [torn : BOOLEAN, pool : Pools]
    <2>1. NoStore \in [torn : BOOLEAN, pool : Pools]
      BY NoPoolType DEF NoStore
    <2> QED
      BY <2>1 DEF TypeOK
  <1> QED
    BY <1>1, <1>2, <1>3, Types DEF TypeOK, packageVars

LEMMA TruncateType ==
  ASSUME TypeOK, NEW j \in Requests, Truncate(j)
  PROVE  /\ TypeOK'
         /\ store'.torn
         /\ \A k \in Requests : /\ pc'[k] = IF k = j THEN "write" ELSE pc[k]
                                /\ job'[k] = job[k]
  <1>1. store' \in [torn : BOOLEAN, pool : Pools] /\ store'.torn
    BY NoPoolType DEF Truncate, NoStore
  <1>2. UNCHANGED job /\ Goto(j, "write") /\ "write" \in Pcs
    BY DEF Truncate, Pcs
  <1>3. /\ TypeOK'
        /\ \A k \in Requests : /\ pc'[k] = IF k = j THEN "write" ELSE pc[k]
                               /\ job'[k] = job[k]
    <2>1. /\ stale' \subseteq Requests /\ account' = account /\ asks' = asks
          /\ UNCHANGED packageVars /\ store' = NoStore /\ mess' = mess
      BY DEF Truncate, TypeOK
    <2> QED
      BY <1>2, <2>1, Went, KeptType
  <1> QED
    BY <1>1, <1>3

LEMMA RemovalType ==
  ASSUME TypeOK, NEW u \in Users, Remove(u),
         UNCHANGED store, UNCHANGED packageVars, asks' \in 0..MaxAsks,
         pc' \in [Requests -> Pcs], job' \in [Requests -> JobRecords],
         \A k \in Requests : pc'[k] \in {"assign", "undo"} => job'[k].op = "create",
         stale' \subseteq Requests, mess' \subseteq mess \cup {"orphans", "stale"}
  PROVE  TypeOK'
  <1>1. mess' \subseteq Marks
    BY DEF TypeOK, Marks
  <1> QED
    BY <1>1, Removed, Types DEF TypeOK, packageVars

\* The other steps of a request: it ends, or goes on to label.
LEMMA EndsOrGoes ==
  ASSUME TypeOK, NEW j \in Requests,
         AssignCreated(j) \/ SetFieldsFails(j) \/ LoadFails(j) \/ SaveFails(j)
  PROVE  /\ TypeOK'
         /\ stale \subseteq InFlight => stale' \subseteq InFlight'
         /\ \A k \in Requests : pc'[k] # "idle" /\ k \notin stale' => k \notin stale
         /\ \E label \in {"idle", "role", "undo"} :
               /\ label = "role" => /\ pc[j] = "assign"
                                   /\ MayAssign(job[j].user, job[j].target)
               /\ label = "undo" => pc[j] \in {"assign", "role"} /\ job[j].op = "create"
               /\ \A k \in Requests :
                     /\ pc'[k] = IF k = j THEN label ELSE pc[k]
                     /\ job'[k] = IF k = j /\ label = "idle" THEN Fresh ELSE job[k]
  <1>1. CASE AssignCreated(j)
    <2> DEFINE label == IF MayAssign(job[j].user, job[j].target) THEN "role" ELSE "undo"
    <2>1. /\ job[j].op = "create" /\ label \in Pcs /\ Goto(j, label)
          /\ UNCHANGED job /\ pc[j] = "assign"
      BY <1>1 DEF AssignCreated, TypeOK, Pcs
    <2>2. /\ pc' \in [Requests -> Pcs] /\ job' \in [Requests -> JobRecords]
          /\ \A k \in Requests : /\ pc'[k] = IF k = j THEN label ELSE pc[k]
                                 /\ job'[k] = job[k]
                                 /\ pc'[k] \in {"assign", "undo"} => job'[k].op = "create"
      <3> HIDE DEF label
      <3> QED
        BY <2>1, Went
    <2>3. TypeOK'
      <3> HIDE DEF label
      <3>1. stale' \subseteq Requests
        BY <1>1 DEF AssignCreated, TypeOK
      <3> QED
        BY <1>1, <2>2, <3>1, KeptType DEF AssignCreated, dataVars
    <2>4. stale \subseteq InFlight => stale' \subseteq InFlight'
      BY <1>1, <2>1, <2>2 DEF AssignCreated, InFlight
    <2>5. label = "role" => MayAssign(job[j].user, job[j].target)
      OBVIOUS
    <2>6. \A k \in Requests : pc'[k] # "idle" /\ k \notin stale' => k \notin stale
      BY <1>1 DEF AssignCreated
    <2>7. label \in {"idle", "role", "undo"} /\ label # "idle"
      OBVIOUS
    <2> HIDE DEF label
    <2> QED
      BY <2>1, <2>2, <2>3, <2>4, <2>5, <2>6, <2>7
  <1>2. CASE End(j) /\ (SetFieldsFails(j) \/ LoadFails(j) \/ SaveFails(j))
    <2>1. /\ Settle /\ UNCHANGED <<asks, dataVars, packageVars>>
          /\ mess' \subseteq mess \cup {"cut"}
      BY <1>2 DEF SetFieldsFails, LoadFails, SaveFails
    <2>2. TypeOK'
      <3>1. stale' \subseteq Requests
        BY <2>1, Settled DEF TypeOK
      <3> QED
        BY <1>2, <2>1, <3>1, Ended, KeptType DEF dataVars
    <2> QED
      BY <1>2, <2>1, <2>2, Ended, Settled
  <1>3. CASE SetFieldsFails(j) /\ ~End(j)
    <2>1. /\ job[j].op = "create" /\ Goto(j, "undo") /\ "undo" \in Pcs
          /\ UNCHANGED job /\ pc[j] = "role" /\ Settle
          /\ UNCHANGED <<asks, dataVars, packageVars, mess>>
      BY <1>3 DEF SetFieldsFails, Pcs
    <2>2. TypeOK'
      <3>1. stale' \subseteq Requests
        BY <2>1, Settled DEF TypeOK
      <3> QED
        BY <2>1, <3>1, Went, KeptType DEF dataVars
    <2> QED
      BY <2>1, <2>2, Went, Settled
  <1> QED
    BY <1>1, <1>2, <1>3 DEF LoadFails, SaveFails

LEMMA AssignUnreadType ==
  ASSUME TypeOK, NEW j \in Requests, AssignUnread(j)
  PROVE  /\ TypeOK' /\ UNCHANGED <<stale, job>>
         /\ \A k \in Requests : pc'[k] = IF k = j THEN "role" ELSE pc[k]
  <1>1. /\ Goto(j, "role") /\ UNCHANGED job /\ "role" \in Pcs
        /\ mess' \subseteq mess \cup {"cut", "unread"}
        /\ UNCHANGED <<asks, account, store, packageVars, stale>>
    BY DEF AssignUnread, Unread, Pcs, dataVars
  <1>2. stale' \subseteq Requests
    BY <1>1 DEF TypeOK
  <1> QED
    BY <1>1, <1>2, Went, KeptType

LEMMA CrashType ==
  ASSUME TypeOK, Crash
  PROVE  /\ TypeOK'
         /\ \A k \in Requests : pc'[k] = "idle" /\ job'[k] = Fresh
  <1>1. /\ pc' \in [Requests -> Pcs] /\ job' \in [Requests -> JobRecords]
        /\ \A k \in Requests : pc'[k] = "idle" /\ job'[k] = Fresh
    BY FreshType DEF Crash, Pcs
  <1>2. /\ stale' \subseteq Requests /\ mess' \subseteq mess \cup {"cut"}
        /\ UNCHANGED <<asks, account, store, packageVars>>
    BY DEF Crash, dataVars
  <1> QED
    BY <1>1, <1>2, KeptType

\* A package changes: the accounts, the store and the requests do not.
LEMMA RepackageType ==
  ASSUME TypeOK, NEW us, NEW old, NEW new, Repackage(us, old, new),
         cap' \in [Packages -> Limits], package' \in [Users -> Packages]
  PROVE  TypeOK'
  <1>1. /\ asks' \in 0..MaxAsks /\ UNCHANGED <<account, store, pc, job>>
        /\ mess' \subseteq Marks
    BY AskType DEF Repackage, dataVars, jobVars, TypeOK, Marks
  <1>2. stale' \subseteq Requests
    BY Overtaken DEF Repackage
  <1>3. /\ pc' \in [Requests -> Pcs] /\ job' \in [Requests -> JobRecords]
        /\ \A k \in Requests : pc'[k] \in {"assign", "undo"} => job'[k].op = "create"
    BY <1>1 DEF TypeOK, JobRecords
  <1>4. /\ account' \in [Users -> Fields]
        /\ \A v \in Users : account'[v].there \/ account'[v] = Absent
        /\ store' \in [torn : BOOLEAN, pool : Pools]
    BY <1>1 DEF TypeOK, There
  <1> QED
    BY <1>1, <1>2, <1>3, <1>4, Types

\* What a request that begins has checked, and takes along.
Checked(label, l) ==
    /\ l.user \in Users /\ There(l.user)
    /\ label = IF l.op = "branding" THEN "save" ELSE "role"
    /\ l.op # "assign" => l.target = None
    /\ CASE l.op = "promote" ->
              /\ l.reseller /\ l.limit \in Limits
              /\ account[l.user].parent = None
              /\ Summable(Children(l.user)) => Allows(l.limit, Children(l.user))
         [] l.op = "demote" -> ~l.reseller /\ Children(l.user) = {}
         [] l.op = "quotas" ->
              /\ l.reseller /\ HasRecord(l.user)
              /\ l.copy[l.user] \in Limits /\ Covers(l.copy[l.user], Children(l.user))
              /\ \A v \in Users \ {l.user} : l.copy[v] = store.pool[v]
         [] l.op = "branding" -> HasRecord(l.user) /\ l.copy = store.pool
         [] l.op = "assign" ->
              /\ ~l.reseller /\ l.target \in Users /\ MayAssign(l.user, l.target)
         [] l.op = "unassign" -> l.reseller = account[l.user].reseller
         [] OTHER -> FALSE

\* The form of it, which it has when a file could not be read, too.
Formed(label, l) ==
    /\ l.user \in Users
    /\ label = IF l.op = "branding" THEN "save" ELSE "role"
    /\ l.op \in Ops \ {"create"}
    /\ IF l.op = "assign" THEN l.target \in Users ELSE l.target = None
    /\ l.op \in {"promote", "quotas"} => l.reseller
    /\ l.op \in {"assign", "demote"} => ~l.reseller

LEMMA CheckedForm ==
  ASSUME NEW label, NEW l \in JobRecords, Checked(label, l)
  PROVE  Formed(label, l)
  BY DEF Checked, Formed, JobRecords, Ops

LEMMA PromotionType ==
  ASSUME NEW u \in Users, NEW limit \in Limits
  PROVE  /\ Promotion(u, limit) \in JobRecords
         /\ Promotion(u, limit).op = "promote" /\ Promotion(u, limit).user = u
         /\ Promotion(u, limit).limit = limit /\ Promotion(u, limit).reseller
         /\ Promotion(u, limit).target = None
  BY FreshType DEF Promotion, JobRecords, Ops

LEMMA DemotionType ==
  ASSUME NEW u \in Users
  PROVE  /\ Demotion(u) \in JobRecords
         /\ Demotion(u).op = "demote" /\ Demotion(u).user = u
         /\ ~Demotion(u).reseller /\ Demotion(u).target = None
  BY FreshType DEF Demotion, JobRecords, Ops

LEMMA AssignmentType ==
  ASSUME NEW c \in Users, NEW r \in Users
  PROVE  /\ Assignment(c, r) \in JobRecords
         /\ Assignment(c, r).op = "assign" /\ Assignment(c, r).user = c
         /\ Assignment(c, r).target = r /\ ~Assignment(c, r).reseller
  BY FreshType DEF Assignment, JobRecords, Ops

LEMMA NewQuotasType ==
  ASSUME TypeOK, NEW u \in Users, NEW limit \in Limits
  PROVE  /\ NewQuotas(u, limit) \in JobRecords
         /\ NewQuotas(u, limit).op = "quotas" /\ NewQuotas(u, limit).user = u
         /\ NewQuotas(u, limit).reseller /\ NewQuotas(u, limit).target = None
         /\ NewQuotas(u, limit).copy[u] = limit
         /\ \A v \in Users \ {u} : NewQuotas(u, limit).copy[v] = store.pool[v]
  <1> DEFINE c == [store.pool EXCEPT ![u] = limit]
             l == [Fresh EXCEPT !.op = "quotas", !.user = u, !.reseller = TRUE, !.copy = c]
  <1>1. store.pool \in [Users -> Limits \cup {NoPool}]
    BY DEF TypeOK, Pools
  <1>2. /\ c \in Pools /\ c[u] = limit
        /\ \A v \in Users \ {u} : c[v] = store.pool[v]
    BY <1>1 DEF Pools
  <1>3. NewQuotas(u, limit) = l
    BY DEF NewQuotas
  <1> HIDE DEF c
  <1>4. l \in JobRecords /\ l.op = "quotas" /\ l.user = u /\ l.reseller
        /\ l.target = None /\ l.copy = c
    BY FreshType, <1>2 DEF JobRecords, Ops
  <1> HIDE DEF l
  <1> QED
    BY <1>2, <1>3, <1>4

LEMMA UnreadCases ==
  ASSUME TypeOK, NEW j \in Requests, CheckUnread(j)
  PROVE  \E local \in JobRecords :
           Start(j, "role", local) /\ Formed("role", local) /\ Unread
  <1>1. ASSUME NEW u \in Users, NEW limit \in Limits, Start(j, "role", Promotion(u, limit))
        PROVE  \E local \in JobRecords : Start(j, "role", local) /\ Formed("role", local)
    BY <1>1, PromotionType DEF Formed, Ops
  <1>2. ASSUME NEW u \in Users, NEW limit \in Limits, Start(j, "role", NewQuotas(u, limit))
        PROVE  \E local \in JobRecords : Start(j, "role", local) /\ Formed("role", local)
    BY <1>2, NewQuotasType DEF Formed, Ops
  <1>3. ASSUME NEW u \in Users, Start(j, "role", Demotion(u))
        PROVE  \E local \in JobRecords : Start(j, "role", local) /\ Formed("role", local)
    BY <1>3, DemotionType DEF Formed, Ops
  <1>4. ASSUME NEW u \in Users, NEW r \in Users, Start(j, "role", Assignment(u, r))
        PROVE  \E local \in JobRecords : Start(j, "role", local) /\ Formed("role", local)
    BY <1>4, AssignmentType DEF Formed, Ops
  <1> QED
    BY <1>1, <1>2, <1>3, <1>4 DEF CheckUnread

LEMMA RequestCases ==
  ASSUME TypeOK, NEW j \in Requests, Request(j)
  PROVE  \/ \E label \in {"role", "save"}, local \in JobRecords :
                Begin(j, label, local) /\ Checked(label, local)
         \/ CheckUnread(j)
         \/ \E u \in Users : Delete(j, u)
         \/ \E c, r \in Users : CreateUser(j, c, r)
  <1>f. /\ Fresh \in JobRecords /\ Fresh.op = "demote" /\ Fresh.target = None
        /\ ~Fresh.reseller
    BY FreshType
  <1>p. store.pool \in [Users -> Limits \cup {NoPool}]
    BY DEF TypeOK, Pools
  <1>1. ASSUME NEW u \in Users, NEW limit \in Limits, Promote(j, u, limit)
        PROVE  \E local \in JobRecords : Begin(j, "role", local) /\ Checked("role", local)
    <2> DEFINE l == Promotion(u, limit)
    <2>1. l \in JobRecords /\ l.op = "promote" /\ l.user = u /\ l.limit = limit
          /\ l.reseller /\ l.target = None
      BY PromotionType
    <2>2. Begin(j, "role", l)
      BY <1>1 DEF Promote
    <2> HIDE DEF l
    <2> QED
      BY <1>1, <2>1, <2>2 DEF Promote, Checked
  <1>2. ASSUME NEW u \in Users, Demote(j, u)
        PROVE  \E local \in JobRecords : Begin(j, "role", local) /\ Checked("role", local)
    <2> DEFINE l == Demotion(u)
    <2>1. l \in JobRecords /\ l.op = "demote" /\ l.user = u /\ ~l.reseller /\ l.target = None
      BY DemotionType
    <2>2. Begin(j, "role", l)
      BY <1>2 DEF Demote
    <2> HIDE DEF l
    <2> QED
      BY <1>2, <2>1, <2>2 DEF Demote, Checked
  <1>3. ASSUME NEW u \in Users, NEW limit \in Limits, Quotas(j, u, limit)
        PROVE  \E local \in JobRecords : Begin(j, "role", local) /\ Checked("role", local)
    <2> DEFINE l == NewQuotas(u, limit)
    <2>1. /\ l \in JobRecords /\ l.op = "quotas" /\ l.user = u /\ l.reseller
          /\ l.target = None /\ l.copy[u] = limit
          /\ \A v \in Users \ {u} : l.copy[v] = store.pool[v]
      BY NewQuotasType
    <2>2. Begin(j, "role", l)
      BY <1>3 DEF Quotas
    <2> HIDE DEF l
    <2> QED
      BY <1>3, <2>1, <2>2 DEF Quotas, Checked
  <1>4. ASSUME NEW u \in Users, Branding(j, u)
        PROVE  \E local \in JobRecords : Begin(j, "save", local) /\ Checked("save", local)
    <2> DEFINE l == [Fresh EXCEPT !.op = "branding", !.user = u, !.copy = store.pool]
    <2>1. l \in JobRecords /\ l.op = "branding" /\ l.user = u /\ l.target = None
          /\ l.copy = store.pool
      BY <1>f, <1>p DEF JobRecords, Ops, Pools
    <2>2. Begin(j, "save", l)
      BY <1>4 DEF Branding
    <2> HIDE DEF l
    <2> QED
      BY <1>4, <2>1, <2>2 DEF Branding, Checked
  <1>5. ASSUME NEW c \in Users, NEW r \in Users, Assign(j, c, r)
        PROVE  \E local \in JobRecords : Begin(j, "role", local) /\ Checked("role", local)
    <2> DEFINE l == Assignment(c, r)
    <2>1. l \in JobRecords /\ l.op = "assign" /\ l.user = c /\ l.target = r /\ ~l.reseller
      BY AssignmentType
    <2>2. Begin(j, "role", l) /\ MayAssign(c, r) /\ There(c)
      BY <1>5 DEF Assign, MayAssign
    <2> HIDE DEF l
    <2> QED
      BY <2>1, <2>2 DEF Checked
  <1>6. ASSUME NEW c \in Users, Unassign(j, c)
        PROVE  \E local \in JobRecords : Begin(j, "role", local) /\ Checked("role", local)
    <2> DEFINE l == [Fresh EXCEPT !.op = "unassign", !.user = c,
                                  !.reseller = account[c].reseller]
    <2>1. l \in JobRecords /\ l.op = "unassign" /\ l.user = c /\ l.target = None
          /\ l.reseller = account[c].reseller
      BY <1>f DEF JobRecords, Ops, TypeOK, Fields
    <2>2. Begin(j, "role", l) /\ There(c)
      BY <1>6 DEF Unassign
    <2> HIDE DEF l
    <2> QED
      BY <2>1, <2>2 DEF Checked
  <1> QED
    BY <1>1, <1>2, <1>3, <1>4, <1>5, <1>6 DEF Request

-----------------------------------------------------------------------------
(* The shape of a request's local variables                                   *)

Sure(j)      == pc[j] # "idle" /\ j \notin stale
Holder(k)    == Holds(k) /\ k \notin stale
Assigning(j) == Sure(j) /\ pc[j] = "role" /\ job[j].op \in {"assign", "create"}
Promoting(k) == Sure(k) /\ job[k].op = "promote"

Shape(j) ==
    LET op == job[j].op IN
    /\ pc[j] \in {"assign", "undo"} => op = "create"
    /\ pc[j] = "load" => op \in {"promote", "demote"}
    /\ pc[j] = "role" => op # "branding"
    /\ pc[j] \in {"save", "write"} => op \in {"promote", "demote", "quotas", "branding"}
    /\ pc[j] # "idle" => /\ job[j].user \in Users
                         /\ op \in {"assign", "create"} <=> job[j].target # None
    /\ op \in {"promote", "quotas"} => job[j].reseller
    /\ op \in {"assign", "create", "demote"} => ~job[j].reseller
    /\ pc[j] \in {"save", "write"} =>
          /\ op = "promote" => job[j].copy[job[j].user] = job[j].limit
          /\ op = "demote" => job[j].copy[job[j].user] = NoPool
Shapes == (\A j \in Requests : Shape(j)) /\ stale \subseteq InFlight


LEMMA ShapesInit == Init => Shapes
  <1> SUFFICES ASSUME Init PROVE Shapes
    OBVIOUS
  <1>1. \A j \in Requests : pc[j] = "idle" /\ job[j] = Fresh
    BY DEF Init
  <1>2. stale \subseteq InFlight
    BY DEF Init
  <1> QED
    BY <1>1, <1>2, FreshType DEF Shapes, Shape

LEMMA OneShape ==
  ASSUME Shapes, NEW j \in Requests, Shape(j)', stale' \subseteq InFlight',
         \A k \in Requests \ {j} : pc'[k] = pc[k] /\ job'[k] = job[k]
  PROVE  Shapes'
  <1>1. ASSUME NEW k \in Requests PROVE Shape(k)'
    BY DEF Shapes, Shape
  <1> QED
    BY <1>1 DEF Shapes

\* A request that runs is about an account.
LEMMA UserOf ==
  ASSUME TypeOK, Shapes, NEW j \in Requests, pc[j] # "idle"
  PROVE  job[j].user \in Users /\ job[j].user # None
  BY UsersAssumption DEF Shapes, Shape

LEMMA ShapesStep ==
  ASSUME TypeOK, Shapes, NEW j \in Requests, Step(j)
  PROVE  TypeOK' /\ Shapes'
  <1>s. Shape(j)
    BY DEF Shapes
  <1>1. CASE AssignCreated(j) \/ SetFieldsFails(j) \/ LoadFails(j) \/ SaveFails(j)
    <2>1. PICK label \in {"idle", "role", "undo"} :
               /\ label = "role" => pc[j] = "assign"
               /\ label = "undo" => pc[j] \in {"assign", "role"} /\ job[j].op = "create"
               /\ \A k \in Requests :
                     /\ pc'[k] = IF k = j THEN label ELSE pc[k]
                     /\ job'[k] = IF k = j /\ label = "idle" THEN Fresh ELSE job[k]
      BY <1>1, EndsOrGoes
    <2>2. Shape(j)'
      BY <1>s, <2>1, FreshType DEF Shape
    <2> QED
      BY <1>1, <2>1, <2>2, EndsOrGoes, OneShape DEF Shapes
  <1>2. CASE UndoCreate(j)
    <2>1. /\ End(j) /\ Remove(job[j].user) /\ job[j].user \in Users
          /\ Overtakes(j, {job[j].user}, FALSE)
          /\ UNCHANGED <<asks, store, packageVars>>
          /\ mess' \subseteq mess \cup {"orphans", "stale"}
      BY <1>2, UserOf DEF UndoCreate, Orphans
    <2>2. stale' \subseteq InFlight' /\ stale' \subseteq Requests
      BY <2>1, Overtaken
    <2>3. TypeOK'
      <3>1. asks' \in 0..MaxAsks /\ UNCHANGED store /\ UNCHANGED packageVars
        BY <2>1 DEF TypeOK
      <3> QED
        BY <2>1, <2>2, <3>1, RemovalType, Ended
    <2>4. Shape(j)'
      BY <2>1, Ended, FreshType DEF Shape
    <2> QED
      BY <2>1, <2>2, <2>3, <2>4, Ended, OneShape
  <1>3. CASE SetFields(j)
    <2>1. job[j].user \in Users
      BY <1>3, UserOf DEF SetFields
    <2>2. Shape(j)'
      BY <1>3, <1>s, <2>1, SetFieldsType, FreshType DEF Shape, SetFields, NextPc
    <2>3. stale' \subseteq InFlight'
      BY <1>3, Overtaken DEF SetFields
    <2> QED
      BY <1>3, <2>1, <2>2, <2>3, SetFieldsType, OneShape
  <1>4. CASE Load(j)
    <2>1. pc[j] = "load" /\ stale' = stale /\ job[j].user \in Users
      BY <1>4, UserOf DEF Load
    <2>2. Shape(j)'
      BY <1>4, <1>s, <2>1, LoadType DEF Shape
    <2>3. stale' \subseteq InFlight'
      BY <1>4, <2>1, LoadType DEF Shapes, InFlight
    <2> QED
      BY <1>4, <2>1, <2>2, <2>3, LoadType, OneShape
  <1>5. CASE Truncate(j)
    <2>1. Shape(j)'
      BY <1>5, <1>s, TruncateType DEF Shape, Truncate
    <2>2. stale' \subseteq InFlight'
      BY <1>5, TruncateType DEF Truncate, Shapes, InFlight
    <2> QED
      BY <1>5, <2>1, <2>2, TruncateType, OneShape
  <1>6. CASE Write(j)
    <2>1. Shape(j)'
      BY <1>6, WriteType, FreshType DEF Shape
    <2>2. stale' \subseteq InFlight'
      BY <1>6, Overtaken DEF Write
    <2> QED
      BY <1>6, <2>1, <2>2, WriteType, OneShape
  <1>7. CASE AssignUnread(j)
    <2>1. job[j].op = "create" /\ pc[j] = "assign"
      BY <1>7 DEF AssignUnread, TypeOK
    <2>2. Shape(j)'
      BY <1>7, <1>s, <2>1, AssignUnreadType DEF Shape
    <2>3. stale' \subseteq InFlight'
      BY <1>7, AssignUnreadType DEF Shapes, InFlight
    <2> QED
      BY <1>7, <2>2, <2>3, AssignUnreadType, OneShape
  <1> QED
    BY <1>1, <1>2, <1>3, <1>4, <1>5, <1>6, <1>7 DEF Step

\* What delete_account leaves; another request of that account is overtaken.
LEMMA DeleteType ==
  ASSUME TypeOK, Shapes, NEW j \in Requests, NEW u \in Users, Delete(j, u)
  PROVE  /\ TypeOK' /\ Shapes'
         /\ Remove(u) /\ UNCHANGED <<store, cap, package, pc, job>>
         /\ mess' = mess \cup Orphans(u)
  <1>1. /\ Remove(u) /\ UNCHANGED store /\ UNCHANGED packageVars /\ pc' = pc /\ job' = job
        /\ asks' \in 0..MaxAsks /\ mess' = mess \cup Orphans(u)
        /\ stale' \subseteq InFlight' /\ stale' \subseteq Requests
    BY AskType, Overtaken DEF Delete, jobVars
  <1>2. mess' \subseteq mess \cup {"orphans", "stale"}
    BY <1>1 DEF Orphans
  <1>3. /\ pc' \in [Requests -> Pcs] /\ job' \in [Requests -> JobRecords]
        /\ \A k \in Requests : pc'[k] \in {"assign", "undo"} => job'[k].op = "create"
    BY <1>1 DEF TypeOK, JobRecords
  <1>4. TypeOK'
    BY <1>1, <1>2, <1>3, RemovalType
  <1>5. Shapes'
    BY <1>1 DEF Shapes, Shape
  <1> QED
    BY <1>1, <1>4, <1>5 DEF packageVars

LEMMA ShapesRequest ==
  ASSUME TypeOK, Shapes, NEW j \in Requests, Request(j)
  PROVE  TypeOK' /\ Shapes'
  <1>1. ASSUME NEW label \in {"role", "save"}, NEW local \in JobRecords,
               Start(j, label, local), Formed(label, local), UNCHANGED mess \/ Unread
        PROVE  TypeOK' /\ Shapes'
    <2>1. label \in Pcs \ {"undo", "assign"}
      BY DEF Pcs
    <2>2. /\ TypeOK'
          /\ \A k \in Requests : /\ pc'[k] = IF k = j THEN label ELSE pc[k]
                                 /\ job'[k] = IF k = j THEN local ELSE job[k]
      BY <1>1, <2>1, Begun
    <2>3. Shape(j)'
      BY <1>1, <2>2, UsersAssumption DEF Formed, Shape, JobRecords, Ops
    <2>4. stale' \subseteq InFlight'
      BY <1>1, <2>2 DEF Start, Shapes, InFlight
    <2> QED
      BY <2>2, <2>3, <2>4, OneShape
  <1>2. ASSUME NEW u \in Users, Delete(j, u) PROVE TypeOK' /\ Shapes'
    BY <1>2, DeleteType
  <1>3. ASSUME NEW c \in Users, NEW r \in Users, CreateUser(j, c, r) PROVE TypeOK' /\ Shapes'
    <2>1. Shape(j)'
      BY <1>3, CreateUserType, FreshType, UsersAssumption DEF Shape
    <2>2. stale' \subseteq InFlight'
      BY <1>3, Overtaken DEF CreateUser
    <2> QED
      BY <1>3, <2>1, <2>2, CreateUserType, OneShape
  <1>4. ASSUME NEW label \in {"role", "save"}, NEW local \in JobRecords,
               Begin(j, label, local), Checked(label, local)
        PROVE  TypeOK' /\ Shapes'
    BY <1>1, <1>4, CheckedForm DEF Begin
  <1>5. CASE CheckUnread(j)
    BY <1>1, <1>5, UnreadCases
  <1> QED
    BY <1>2, <1>3, <1>4, <1>5, RequestCases

\* The packages that change, and the users whose slices do.
LEMMA PackageCases ==
  ASSUME TypeOK,
         \/ \E u \in Users, p \in Packages : AssignPackage(u, p)
         \/ \E p \in Packages, limit \in Limits : UpdatePackage(p, limit)
  PROVE  /\ cap' \in [Packages -> Limits] /\ package' \in [Users -> Packages]
         /\ \E us \in SUBSET Users, old \in Limits, new \in Limits :
               /\ Repackage(us, old, new)
               /\ \A u \in us : Slice(u) = old /\ Slice(u)' = new
               /\ \A u \in Users \ us : Slice(u)' = Slice(u)
  <1>1. ASSUME NEW u \in Users, NEW p \in Packages, AssignPackage(u, p)
        PROVE  /\ cap' \in [Packages -> Limits] /\ package' \in [Users -> Packages]
               /\ Slice(u) \in Limits /\ cap[p] \in Limits
               /\ Repackage({u}, Slice(u), cap[p])
               /\ \A v \in {u} : Slice(v) = Slice(u) /\ Slice(v)' = cap[p]
               /\ \A v \in Users \ {u} : Slice(v)' = Slice(v)
    BY <1>1 DEF AssignPackage, TypeOK, Slice
  <1>2. ASSUME NEW p \in Packages, NEW limit \in Limits, UpdatePackage(p, limit)
        PROVE  /\ cap' \in [Packages -> Limits] /\ package' \in [Users -> Packages]
               /\ cap[p] \in Limits
               /\ Repackage({u \in Users : package[u] = p}, cap[p], limit)
               /\ \A u \in {u \in Users : package[u] = p} : Slice(u) = cap[p] /\ Slice(u)' = limit
               /\ \A v \in Users \ {u \in Users : package[u] = p} : Slice(v)' = Slice(v)
    BY <1>2 DEF UpdatePackage, TypeOK, Slice
  <1>3. CASE \E u \in Users, p \in Packages : AssignPackage(u, p)
    <2>1. PICK u \in Users, p \in Packages : AssignPackage(u, p)
      BY <1>3
    <2>2. cap' \in [Packages -> Limits] /\ package' \in [Users -> Packages]
      BY <1>1, <2>1
    <2>3. \E us \in SUBSET Users, old \in Limits, new \in Limits :
            /\ Repackage(us, old, new)
            /\ \A v \in us : Slice(v) = old /\ Slice(v)' = new
            /\ \A v \in Users \ us : Slice(v)' = Slice(v)
      <3> {u} \in SUBSET Users /\ Slice(u) \in Limits /\ cap[p] \in Limits
        BY <1>1, <2>1
      <3> WITNESS {u} \in SUBSET Users, Slice(u) \in Limits, cap[p] \in Limits
      <3> QED
        BY <1>1, <2>1
    <2> QED
      BY <2>2, <2>3
  <1>4. CASE \E p \in Packages, limit \in Limits : UpdatePackage(p, limit)
    <2>1. PICK p \in Packages, limit \in Limits : UpdatePackage(p, limit)
      BY <1>4
    <2> DEFINE us == {u \in Users : package[u] = p}
    <2>2. cap' \in [Packages -> Limits] /\ package' \in [Users -> Packages]
      BY <1>2, <2>1
    <2>3. \E ws \in SUBSET Users, old \in Limits, new \in Limits :
            /\ Repackage(ws, old, new)
            /\ \A v \in ws : Slice(v) = old /\ Slice(v)' = new
            /\ \A v \in Users \ ws : Slice(v)' = Slice(v)
      <3> us \in SUBSET Users /\ cap[p] \in Limits
        BY <1>2, <2>1
      <3> WITNESS us \in SUBSET Users, cap[p] \in Limits, limit \in Limits
      <3> QED
        BY <1>2, <2>1
    <2> QED
      BY <2>2, <2>3
  <1> QED
    BY <1>3, <1>4

\* What rename_own_account changes.
LEMMA Renamed ==
  ASSUME TypeOK, NEW u \in Users, NEW v \in Users, Rename(u, v)
  PROVE  /\ There(u) /\ ~There(v) /\ u # v
         /\ account' \in [Users -> Fields]
         /\ account'[v] = account[u] /\ account'[u] = Absent
         /\ \A w \in Users \ {u, v} : account'[w] = account[w]
         /\ package' \in [Users -> Packages]
         /\ \A w \in Users \ {u, v} : package'[w] = package[w]
         /\ UNCHANGED <<store, cap, pc, job>>
  <1>1. There(u) /\ ~There(v) /\ u # v
    BY DEF Rename
  <1>2. account' = [account EXCEPT ![u] = Absent, ![v] = account[u]]
    BY DEF Rename
  <1>3. package' \in Moved(u, v) /\ package \in [Users -> Packages] /\ Default \in Packages
    BY UsersAssumption DEF Rename, TypeOK
  <1>4. /\ package' \in [Users -> Packages]
        /\ \A w \in Users \ {u, v} : package'[w] = package[w]
    BY <1>1, <1>3 DEF Moved
  <1>5. /\ account' \in [Users -> Fields]
        /\ account'[v] = account[u] /\ account'[u] = Absent
        /\ \A w \in Users \ {u, v} : account'[w] = account[w]
    BY <1>1, <1>2, AbsentType DEF TypeOK
  <1> QED
    BY <1>1, <1>4, <1>5 DEF Rename, jobVars

\* The requests about it, and about its reseller, are overtaken.
LEMMA RenameOvertakes ==
  ASSUME TypeOK, NEW u \in Users, NEW v \in Users, Rename(u, v)
  PROVE  /\ stale' \subseteq InFlight' /\ stale' \subseteq Requests
         /\ \A k \in Requests : pc'[k] # "idle" /\ k \notin stale' =>
               /\ k \notin stale
               /\ job[k].user # u /\ job[k].target # u
               /\ job[k].user # v /\ job[k].target # v
               /\ account[u].parent # None =>
                     /\ job[k].user # account[u].parent
                     /\ job[k].target # account[u].parent
  <1> DEFINE us == {u, v, account[u].parent} \ {None}
  <1>1. Overtakes(None, us, FALSE)
    BY DEF Rename
  <1>2. /\ u \in us /\ v \in us
        /\ account[u].parent # None => account[u].parent \in us
    BY UsersAssumption
  <1> HIDE DEF us
  <1>3. \A k \in Requests \ {None} : pc'[k] # "idle" /\ k \notin stale' =>
           k \notin stale /\ job[k].user \notin us /\ job[k].target \notin us
    BY <1>1, OvertakenUsers
  <1>4. stale' \subseteq InFlight' /\ stale' \subseteq Requests
    BY <1>1, Overtaken
  <1> QED
    BY <1>2, <1>3, <1>4, UsersAssumption

LEMMA RenameType ==
  ASSUME TypeOK, Shapes, NEW u \in Users, NEW v \in Users, Rename(u, v)
  PROVE  TypeOK' /\ Shapes'
  <1>1. asks' \in 0..MaxAsks
    BY AskType DEF Rename
  <1>2. mess' \subseteq Marks
    BY DEF Rename, Orphans, TypeOK, Marks
  <1>3. /\ pc' \in [Requests -> Pcs] /\ job' \in [Requests -> JobRecords]
        /\ \A k \in Requests : pc'[k] \in {"assign", "undo"} => job'[k].op = "create"
    BY Renamed DEF TypeOK, JobRecords
  <1>4. /\ account' \in [Users -> Fields]
        /\ \A w \in Users : account'[w].there \/ account'[w] = Absent
    BY Renamed DEF TypeOK, There
  <1>5. /\ store' \in [torn : BOOLEAN, pool : Pools]
        /\ cap' \in [Packages -> Limits] /\ package' \in [Users -> Packages]
    BY Renamed DEF TypeOK
  <1>6. stale' \subseteq InFlight' /\ stale' \subseteq Requests
    BY RenameOvertakes
  <1>7. TypeOK'
    BY <1>1, <1>2, <1>3, <1>4, <1>5, <1>6, Types
  <1>8. Shapes'
    BY <1>6, Renamed DEF Shapes, Shape
  <1> QED
    BY <1>7, <1>8

\* A request that neither begins nor writes: it stays, ends, is about to undo
\* or has emptied the store.
Fades(k) ==
    pc'[k] # "idle" /\ k \notin stale' =>
        /\ k \notin stale /\ pc[k] # "idle"
        /\ job'[k] = job[k]
        /\ \/ pc'[k] = pc[k]
           \/ pc'[k] = "undo" /\ job[k].op = "create"
           \/ pc'[k] = "write" /\ pc[k] = "save"
AllFade == /\ \A k \in Requests : Fades(k)
           /\ UNCHANGED account
           /\ UNCHANGED store \/ store'.torn
           /\ mess \subseteq mess'

LEMMA PackagesTornType ==
  ASSUME TypeOK, Shapes, PackagesTorn
  PROVE  TypeOK' /\ Shapes' /\ AllFade /\ "package" \in mess'
  <1>1. asks' \in 0..MaxAsks /\ UNCHANGED <<account, store, pc, job>>
        /\ mess' = mess \cup {"package"}
    BY AskType DEF PackagesTorn, dataVars, jobVars
  <1>2. mess' \subseteq Marks
    BY <1>1 DEF TypeOK, Marks
  <1>3. cap' \in [Packages -> Limits] /\ package' \in [Users -> Packages]
    <2>1. 0 \in Limits /\ MaxCap \in Limits /\ Default \in Packages
      BY BoundsAssumption, UsersAssumption DEF Limits
    <2> QED
      BY <2>1 DEF PackagesTorn, TypeOK
  <1>4. /\ pc' \in [Requests -> Pcs] /\ job' \in [Requests -> JobRecords]
        /\ \A k \in Requests : pc'[k] \in {"assign", "undo"} => job'[k].op = "create"
    BY <1>1 DEF TypeOK, JobRecords
  <1>5. /\ account' \in [Users -> Fields]
        /\ \A w \in Users : account'[w].there \/ account'[w] = Absent
        /\ store' \in [torn : BOOLEAN, pool : Pools]
    BY <1>1 DEF TypeOK, There
  <1>6. /\ stale' \subseteq InFlight' /\ stale' \subseteq Requests
        /\ \A k \in Requests : pc'[k] # "idle" /\ k \notin stale' => k \notin stale
    BY Overtaken DEF PackagesTorn
  <1>7. TypeOK'
    BY <1>1, <1>2, <1>3, <1>4, <1>5, <1>6, Types
  <1>8. Shapes'
    BY <1>1, <1>6 DEF Shapes, Shape
  <1>9. AllFade
    BY <1>1, <1>6 DEF AllFade, Fades
  <1> QED
    BY <1>1, <1>7, <1>8, <1>9

LEMMA ShapesNext == TypeOK /\ Shapes /\ [Next]_vars => TypeOK' /\ Shapes'
  <1> SUFFICES ASSUME TypeOK, Shapes, [Next]_vars PROVE TypeOK' /\ Shapes'
    OBVIOUS
  <1>1. CASE \E j \in Requests : Request(j) \/ Step(j)
    BY <1>1, ShapesRequest, ShapesStep
  <1>2. CASE Crash
    <2>1. stale' = {}
      BY <1>2 DEF Crash
    <2> QED
      BY <1>2, <2>1, CrashType, FreshType DEF Shapes, Shape
  <1>3. CASE \/ \E u \in Users, p \in Packages : AssignPackage(u, p)
             \/ \E p \in Packages, limit \in Limits : UpdatePackage(p, limit)
    <2>1. /\ cap' \in [Packages -> Limits] /\ package' \in [Users -> Packages]
          /\ \E us, old, new : Repackage(us, old, new)
      BY <1>3, PackageCases
    <2>2. TypeOK'
      BY <2>1, RepackageType
    <2>3. stale' \subseteq InFlight' /\ UNCHANGED <<pc, job>>
      BY <2>1, Overtaken DEF Repackage, jobVars
    <2> QED
      BY <2>2, <2>3 DEF Shapes, Shape
  <1>4. CASE UNCHANGED vars
    BY <1>4 DEF vars, dataVars, packageVars, jobVars, TypeOK, Shapes, Shape, InFlight, There
  <1>5. CASE \E u, v \in Users : Rename(u, v)
    BY <1>5, RenameType
  <1>6. CASE PackagesTorn
    BY <1>6, PackagesTornType
  <1> QED
    BY <1>1, <1>2, <1>3, <1>4, <1>5, <1>6 DEF Next

\* Every variable always has its type, an account that is not there has no
\* fields, and only the request that made an account may go on to remove it.
THEOREM TypeCorrect == Spec => []TypeOK
  <1>1. Init => TypeOK /\ Shapes
    BY TypeInit, ShapesInit
  <1>2. TypeOK /\ Shapes /\ [Next]_vars => (TypeOK /\ Shapes)'
    BY ShapesNext
  <1> QED
    BY <1>1, <1>2, PTL DEF Spec

-----------------------------------------------------------------------------
(* The steps, as the invariants see them                                      *)

\* Account c is made or removed: no request about it goes on unmarked.
Resets(c, f) ==
    /\ f.parent = None /\ ~f.reseller
    /\ \A v \in Users : account'[v] = IF v = c THEN f ELSE account[v]
    /\ UNCHANGED <<store, cap, package>>
    /\ mess \subseteq mess'
    /\ f.there \/ ("orphans" \notin mess' => Children(c) = {})
    /\ \A k \in Requests :
          \/ Fades(k) /\ (Sure(k)' => job[k].user # c /\ job[k].target # c)
          \/ pc'[k] = "assign" /\ job'[k].op = "create"

\* create-user goes on to its assignment.
GoesOn(j) ==
    /\ pc[j] = "assign"
    /\ MayAssign(job[j].user, job[j].target)
    /\ UNCHANGED <<account, store, cap, package, mess, stale, job>>
    /\ \A k \in Requests : pc'[k] = IF k = j THEN "role" ELSE pc[k]

LEMMA CreateResets ==
  ASSUME TypeOK, Shapes, NEW j \in Requests, NEW c \in Users, NEW r \in Users,
         CreateUser(j, c, r)
  PROVE  Resets(c, Created)
  <1>1. /\ UNCHANGED <<store, cap, package, mess>> /\ Overtakes(j, {c}, FALSE)
    BY DEF CreateUser, packageVars
  <1>2. \A k \in Requests \ {j} : pc'[k] # "idle" /\ k \notin stale' =>
           k \notin stale /\ job[k].user \notin {c} /\ job[k].target \notin {c}
    BY <1>1, OvertakenUsers
  <1>3. \A k \in Requests \ {j} : pc'[k] = pc[k] /\ job'[k] = job[k]
    BY CreateUserType
  <1>4. /\ pc'[j] = "assign" /\ job'[j].op = "create"
        /\ Created.there /\ ~Created.reseller /\ Created.parent = None
        /\ \A v \in Users : account'[v] = IF v = c THEN Created ELSE account[v]
    BY CreateUserType
  <1> QED
    BY <1>1, <1>2, <1>3, <1>4 DEF Resets, Fades, Sure

LEMMA DeleteResets ==
  ASSUME TypeOK, Shapes, NEW j \in Requests, NEW u \in Users, Delete(j, u)
  PROVE  Resets(u, Absent)
  <1>1. /\ UNCHANGED <<store, cap, package, pc, job>>
        /\ mess' = mess \cup Orphans(u)
        /\ \A v \in Users : account'[v] = IF v = u THEN Absent ELSE account[v]
    BY DeleteType, Removed
  <1>2. PICK us : Overtakes(j, us, FALSE) /\ u \in us
    <2>1. u \in {u, account[u].parent} \ {None}
      BY UsersAssumption
    <2> QED
      BY <2>1 DEF Delete
  <1>3. \A k \in Requests \ {j} : pc'[k] # "idle" /\ k \notin stale' =>
           k \notin stale /\ job[k].user \notin us /\ job[k].target \notin us
    BY <1>2, OvertakenUsers
  <1>4. \A k \in Requests : Fades(k) /\ (Sure(k)' => job[k].user # u /\ job[k].target # u)
    BY <1>1, <1>2, <1>3 DEF Fades, Sure, Delete
  <1>5. "orphans" \notin mess' => Children(u) = {}
    BY <1>1 DEF Orphans
  <1> QED
    BY <1>1, <1>4, <1>5, AbsentType DEF Resets

LEMMA UndoResets ==
  ASSUME TypeOK, Shapes, NEW j \in Requests, UndoCreate(j)
  PROVE  job[j].user \in Users /\ Resets(job[j].user, Absent)
  <1>1. job[j].user \in Users
    BY UserOf DEF UndoCreate
  <1>2. /\ \A v \in Users : account'[v] = IF v = job[j].user THEN Absent ELSE account[v]
        /\ UNCHANGED <<store, cap, package>>
        /\ Overtakes(j, {job[j].user}, FALSE) /\ End(j)
        /\ mess \subseteq mess'
        /\ "orphans" \notin mess' => Children(job[j].user) = {}
    BY <1>1, Removed DEF UndoCreate, packageVars, Orphans
  <1>3. \A k \in Requests \ {j} : pc'[k] # "idle" /\ k \notin stale' =>
           /\ k \notin stale
           /\ job[k].user \notin {job[j].user} /\ job[k].target \notin {job[j].user}
    BY <1>2, OvertakenUsers
  <1>4. /\ pc'[j] = "idle"
        /\ \A k \in Requests \ {j} : pc'[k] = pc[k] /\ job'[k] = job[k]
    BY <1>2, Ended
  <1>5. \A k \in Requests :
          Fades(k) /\ (Sure(k)' => job[k].user # job[j].user /\ job[k].target # job[j].user)
    BY <1>3, <1>4 DEF Fades, Sure
  <1> QED
    BY <1>1, <1>2, <1>5, AbsentType DEF Resets

\* Requests that end or have failed leave everything as it is.
LEMMA EndsOrGoesOn ==
  ASSUME TypeOK, Shapes, NEW j \in Requests,
         AssignCreated(j) \/ SetFieldsFails(j) \/ LoadFails(j) \/ SaveFails(j)
  PROVE  (AllFade /\ UNCHANGED <<cap, package>>) \/ GoesOn(j)
  <1>1. PICK label \in {"idle", "role", "undo"} :
               /\ label = "role" => /\ pc[j] = "assign"
                                   /\ MayAssign(job[j].user, job[j].target)
               /\ label = "undo" => pc[j] \in {"assign", "role"} /\ job[j].op = "create"
               /\ \A k \in Requests :
                     /\ pc'[k] = IF k = j THEN label ELSE pc[k]
                     /\ job'[k] = IF k = j /\ label = "idle" THEN Fresh ELSE job[k]
    BY EndsOrGoes
  <1>2. \A k \in Requests : pc'[k] # "idle" /\ k \notin stale' => k \notin stale
    BY EndsOrGoes
  <1>3. UNCHANGED <<account, store, cap, package>> /\ mess \subseteq mess'
    BY DEF AssignCreated, SetFieldsFails, LoadFails, SaveFails, dataVars, packageVars
  <1>4. CASE label # "role"
    BY <1>1, <1>2, <1>3, <1>4 DEF AllFade, Fades
  <1>5. CASE label = "role"
    <2>1. AssignCreated(j)
      BY <1>1, <1>5 DEF SetFieldsFails, LoadFails, SaveFails
    <2> QED
      BY <1>1, <1>3, <1>5, <2>1 DEF GoesOn, AssignCreated
  <1> QED
    BY <1>4, <1>5

LEMMA PackagesFade ==
  ASSUME TypeOK, Shapes, NEW us, NEW old, NEW new, Repackage(us, old, new)
  PROVE  AllFade
  <1>1. UNCHANGED <<account, store, pc, job>> /\ mess \subseteq mess'
    BY DEF Repackage, dataVars, jobVars
  <1>2. \A k \in Requests : pc'[k] # "idle" /\ k \notin stale' => k \notin stale
    BY Overtaken DEF Repackage
  <1> QED
    BY <1>1, <1>2 DEF AllFade, Fades

\* What SetFields and Write do to the other requests.
LEMMA SetFieldsOvertakes ==
  ASSUME TypeOK, Shapes, NEW j \in Requests, SetFields(j)
  PROVE  /\ job[j].user \in Users
         /\ \A k \in Requests \ {j} : Sure(k)' =>
               /\ Sure(k) /\ pc'[k] = pc[k] /\ job'[k] = job[k]
               /\ job[k].user # job[j].user /\ job[k].target # job[j].user
               /\ NewParent(j) # None =>
                     job[k].user # NewParent(j) /\ job[k].target # NewParent(j)
               /\ account[job[j].user].parent # None =>
                     /\ job[k].user # account[job[j].user].parent
                     /\ job[k].target # account[job[j].user].parent
  <1> DEFINE us == {job[j].user, account[job[j].user].parent, NewParent(j)} \ {None}
  <1>1. job[j].user \in Users /\ job[j].user # None
    BY UserOf DEF SetFields
  <1>2. Overtakes(j, us, FALSE)
    BY DEF SetFields, NewParent
  <1>3. /\ job[j].user \in us
        /\ NewParent(j) # None => NewParent(j) \in us
        /\ account[job[j].user].parent # None => account[job[j].user].parent \in us
    BY <1>1
  <1> HIDE DEF us
  <1>4. \A k \in Requests \ {j} : pc'[k] # "idle" /\ k \notin stale' =>
           k \notin stale /\ job[k].user \notin us /\ job[k].target \notin us
    BY <1>2, OvertakenUsers
  <1>5. \A k \in Requests \ {j} : pc'[k] = pc[k] /\ job'[k] = job[k]
    BY <1>1, SetFieldsType
  <1> QED
    BY <1>1, <1>3, <1>4, <1>5 DEF Sure

LEMMA WriteOvertakes ==
  ASSUME TypeOK, NEW j \in Requests, Write(j)
  PROVE  /\ \A k \in Requests : ~Holder(k)'
         /\ \A k \in Requests : Sure(k)' =>
               /\ k # j /\ Sure(k) /\ pc'[k] = pc[k] /\ job'[k] = job[k]
               /\ job[k].user # job[j].user /\ job[k].target # job[j].user
  <1>1. /\ \A k \in Requests \ {j} : pc'[k] = pc[k] /\ job'[k] = job[k]
        /\ pc'[j] = "idle"
    BY WriteType
  <1>2. \A k \in Requests \ {j} : pc'[k] # "idle" /\ k \notin stale' =>
           /\ k \notin stale /\ ~Holds(k)
           /\ job[k].user \notin {job[j].user} /\ job[k].target \notin {job[j].user}
    BY OvertakenSaved DEF Write
  <1>3. \A k \in Requests : Holds(k)' => k # j /\ Holds(k) /\ pc'[k] # "idle"
    BY <1>1 DEF Holds
  <1> QED
    BY <1>1, <1>2, <1>3 DEF Holder, Sure

LEMMA NextCases ==
  ASSUME TypeOK, Shapes, [Next]_vars
  PROVE  \/ AllFade /\ UNCHANGED <<cap, package>>
         \/ \E u \in Users, p \in Packages : AssignPackage(u, p)
         \/ \E p \in Packages, limit \in Limits : UpdatePackage(p, limit)
         \/ \E c \in Users, f \in Fields : Resets(c, f)
         \/ \E j \in Requests :
               \/ \E label \in {"role", "save"}, local \in JobRecords :
                     Begin(j, label, local) /\ Checked(label, local)
               \/ GoesOn(j) \/ SetFields(j) \/ Load(j) \/ Write(j)
         \/ \E u, v \in Users : Rename(u, v)
         \/ "unread" \in mess'
         \/ AllFade /\ "package" \in mess'
  <1>1. ASSUME NEW j \in Requests, Request(j)
        PROVE  \/ "unread" \in mess'
               \/ \E label \in {"role", "save"}, local \in JobRecords :
                     Begin(j, label, local) /\ Checked(label, local)
               \/ \E c \in Users, f \in Fields : Resets(c, f)
    <2>1. Created \in Fields /\ Absent \in Fields
      BY AbsentType DEF Fields, Created
    <2> QED
      BY <1>1, <2>1, RequestCases, CreateResets, DeleteResets DEF CheckUnread, Unread
  <1>2. CASE Crash
    <2>1. UNCHANGED <<account, store, cap, package>> /\ mess \subseteq mess'
      BY <1>2 DEF Crash, dataVars, packageVars
    <2> QED
      BY <1>2, <2>1, CrashType DEF AllFade, Fades
  <1>3. ASSUME NEW j \in Requests, Step(j)
        PROVE  \/ "unread" \in mess'
               \/ AllFade /\ UNCHANGED <<cap, package>>
               \/ \E c \in Users, f \in Fields : Resets(c, f)
               \/ GoesOn(j) \/ SetFields(j) \/ Load(j) \/ Write(j)
    <2>1. CASE AssignCreated(j) \/ SetFieldsFails(j) \/ LoadFails(j) \/ SaveFails(j)
      BY <2>1, EndsOrGoesOn
    <2>2. CASE UndoCreate(j)
      BY <2>2, UndoResets, AbsentType
    <2>3. CASE Truncate(j)
      <3>1. /\ UNCHANGED <<account, cap, package, mess, stale, job>> /\ pc[j] = "save"
            /\ store'.torn
        BY <2>3, TruncateType DEF Truncate, packageVars
      <3>2. \A k \in Requests : pc'[k] = IF k = j THEN "write" ELSE pc[k]
        BY <2>3, TruncateType
      <3> QED
        BY <3>1, <3>2 DEF AllFade, Fades
    <2>4. CASE AssignUnread(j)
      BY <2>4 DEF AssignUnread, Unread
    <2> QED
      BY <1>3, <2>1, <2>2, <2>3, <2>4 DEF Step
  <1>4. CASE UNCHANGED vars
    BY <1>4 DEF vars, dataVars, packageVars, jobVars, AllFade, Fades
  <1>5. CASE PackagesTorn
    BY <1>5, PackagesTornType
  <1> QED
    BY <1>1, <1>2, <1>3, <1>4, <1>5 DEF Next

-----------------------------------------------------------------------------
(* One level                                                                  *)

Level == \A u \in Users :
    HasRecord(u) \/ account[u].reseller => account[u].parent = None
LevelCopies == \A k \in Requests : Holder(k) =>
    \A v \in Users : job[k].copy[v] # NoPool => account[v].parent = None
Copies == \A k \in Requests : Holder(k) /\ ~store.torn =>
        /\ \A v \in Users \ {job[k].user} : job[k].copy[v] = store.pool[v]
        /\ job[k].op \in {"quotas", "branding"} => store.pool[job[k].user] # NoPool
Promoted == \A k \in Requests :
    Promoting(k) /\ pc[k] # "role" => account[job[k].user].reseller
Clear == \A j \in Requests : Assigning(j) =>
    /\ ~store.torn => store.pool[job[j].user] = NoPool
    /\ \A k \in Requests : Holder(k) => job[k].copy[job[j].user] = NoPool
    /\ \A k \in Requests : Promoting(k) /\ pc[k] = "load" => job[k].user # job[j].user
LevelInv == mess \cap {"stale", "unread"} = {} =>
    /\ Copies /\ Promoted /\ Clear
    /\ "renamed" \notin mess => Level /\ LevelCopies

LEMMA LevelInit == Init => LevelInv
  <1> SUFFICES ASSUME Init PROVE LevelInv
    OBVIOUS
  <1>1. \A k \in Requests : pc[k] = "idle"
    BY DEF Init
  <1>2. \A u \in Users : account[u].parent = None
    BY DEF Init, Absent
  <1> QED
    BY <1>1, <1>2 DEF LevelInv, Level, LevelCopies, Copies, Promoted, Clear, Holder, Holds, Promoting,
       Assigning, Sure

LEMMA LevelFade ==
  ASSUME LevelInv, AllFade
  PROVE  LevelInv'
  <1> SUFFICES ASSUME mess' \cap {"stale", "unread"} = {}
               PROVE  /\ Copies' /\ Promoted' /\ Clear'
                      /\ "renamed" \notin mess' => Level' /\ LevelCopies'
    BY DEF LevelInv
  <1>0. /\ Copies /\ Promoted /\ Clear
        /\ "renamed" \notin mess' => Level /\ LevelCopies
    BY DEF LevelInv, AllFade
  <1>h. \A k \in Requests :
          /\ Holder(k)' => Holder(k) /\ job'[k] = job[k]
          /\ Assigning(k)' => Assigning(k) /\ job'[k] = job[k]
          /\ Promoting(k)' => Promoting(k) /\ job'[k] = job[k]
                              /\ (pc'[k] = "load" => pc[k] = "load")
                              /\ (pc'[k] # "role" => pc[k] # "role")
    BY DEF AllFade, Fades, Holder, Holds, Assigning, Promoting, Sure
  <1>a. account' = account /\ (store' = store \/ store'.torn)
    BY DEF AllFade
  <1>1. ASSUME "renamed" \notin mess' PROVE Level' /\ LevelCopies'
    <2>1. Level'
      BY <1>0, <1>1, <1>a DEF Level, HasRecord
    <2>2. LevelCopies'
      BY <1>0, <1>1, <1>a, <1>h DEF LevelCopies
    <2> QED
      BY <2>1, <2>2
  <1>2. Copies'
    BY <1>0, <1>a, <1>h DEF Copies
  <1>3. Promoted'
    BY <1>0, <1>a, <1>h DEF Promoted
  <1>4. Clear'
    BY <1>0, <1>a, <1>h DEF Clear
  <1> QED
    BY <1>1, <1>2, <1>3, <1>4

\* A user that may be assigned is no reseller, and no request makes it one.
LEMMA ClearOf ==
  ASSUME TypeOK, Shapes, LevelInv, mess \cap {"stale", "unread"} = {},
         NEW c \in Users, NEW r \in Users, MayAssign(c, r)
  PROVE  /\ ~store.torn /\ store.pool[c] = NoPool
         /\ \A k \in Requests : Holder(k) => job[k].copy[c] = NoPool
         /\ \A k \in Requests : Promoting(k) /\ pc[k] = "load" => job[k].user # c
  <1>0. Copies /\ Promoted
    BY DEF LevelInv
  <1>1. ~store.torn /\ store.pool[c] = NoPool /\ ~account[c].reseller
    BY DEF MayAssign, HasRecord, IsReseller
  <1>2. ASSUME NEW k \in Requests, Holder(k) PROVE job[k].copy[c] = NoPool
    <2>1. \A v \in Users \ {job[k].user} : job[k].copy[v] = store.pool[v]
      BY <1>0, <1>1, <1>2 DEF Copies
    <2>2. CASE job[k].user = c
      <3>1. job[k].op \notin {"quotas", "branding"}
        BY <1>0, <1>1, <1>2, <2>2 DEF Copies
      <3>2. Shape(k) /\ pc[k] \in {"save", "write"}
        BY <1>2, <3>1 DEF Shapes, Holder, Holds
      <3>3. job[k].op # "promote"
        BY <1>0, <1>1, <1>2, <2>2, <3>2 DEF Promoted, Promoting, Sure, Holder
      <3> QED
        BY <2>2, <3>1, <3>2, <3>3 DEF Shape
    <2> QED
      BY <1>1, <2>1, <2>2
  <1>3. \A k \in Requests : Promoting(k) /\ pc[k] = "load" => job[k].user # c
    BY <1>0, <1>1 DEF Promoted
  <1> QED
    BY <1>1, <1>2, <1>3

\* A request begins, with what it has checked.
LEMMA LevelBegin ==
  ASSUME TypeOK, Shapes, LevelInv, NEW j \in Requests, NEW label \in {"role", "save"},
         NEW l \in JobRecords, Begin(j, label, l), Checked(label, l)
  PROVE  LevelInv'
  <1> SUFFICES ASSUME mess' \cap {"stale", "unread"} = {}
               PROVE  /\ Copies' /\ Promoted' /\ Clear'
                      /\ "renamed" \notin mess' => Level' /\ LevelCopies'
    BY DEF LevelInv
  <1>b. /\ account' = account /\ store' = store /\ stale' = stale /\ mess' = mess
        /\ pc[j] = "idle" /\ j \notin stale
    BY DEF Begin, Start, dataVars, Shapes, InFlight
  <1>c. \A k \in Requests : /\ pc'[k] = IF k = j THEN label ELSE pc[k]
                            /\ job'[k] = IF k = j THEN l ELSE job[k]
    <2>1. label \in Pcs \ {"undo", "assign"} /\ Start(j, label, l) /\ UNCHANGED mess
      BY DEF Pcs, Begin
    <2> QED
      BY <2>1, Begun
  <1>0. /\ Copies /\ Promoted /\ Clear
        /\ "renamed" \notin mess' => Level /\ LevelCopies
    BY <1>b DEF LevelInv
  <1>u. l.user \in Users /\ l.op \in Ops /\ NoPool \notin Limits
    BY NoPoolType DEF Checked, JobRecords
  <1>h. /\ Holder(j)' => l.op \in {"quotas", "branding"}
        /\ Assigning(j)' => l.op = "assign"
        /\ Promoting(j)' => label = "role"
        /\ \A k \in Requests \ {j} : /\ Holder(k)' <=> Holder(k)
                                     /\ Assigning(k)' <=> Assigning(k)
                                     /\ Promoting(k)' <=> Promoting(k)
    BY <1>b, <1>c DEF Holder, Holds, Assigning, Promoting, Sure, Checked
  \* The copy of the new request is the store's, but for its own pool.
  <1>q. l.op \in {"quotas", "branding"} =>
          /\ ~store.torn /\ store.pool[l.user] # NoPool /\ l.copy[l.user] # NoPool
          /\ \A v \in Users \ {l.user} : l.copy[v] = store.pool[v]
    BY <1>u DEF Checked, HasRecord
  <1>r. l.op = "assign" =>
          /\ ~store.torn /\ store.pool[l.user] = NoPool /\ ~account[l.user].reseller
    BY <1>u DEF Checked, MayAssign, HasRecord, IsReseller
  <1>1. ASSUME "renamed" \notin mess' PROVE Level' /\ LevelCopies'
    <2>1. Level'
      BY <1>0, <1>1, <1>b DEF Level, HasRecord
    <2>2. ASSUME NEW k \in Requests, Holder(k)', NEW v \in Users, job'[k].copy[v] # NoPool
          PROVE  account'[v].parent = None
      <3>1. CASE k = j
        BY <2>2, <3>1, <1>0, <1>1, <1>b, <1>c, <1>h, <1>q DEF Level, HasRecord
      <3>2. CASE k # j
        BY <2>2, <3>2, <1>0, <1>1, <1>b, <1>c, <1>h DEF LevelCopies
      <3> QED
        BY <3>1, <3>2
    <2> QED
      BY <2>1, <2>2 DEF LevelCopies
  <1>2. Copies'
    <2> SUFFICES ASSUME NEW k \in Requests, Holder(k)'
                 PROVE  ~store'.torn =>
                              /\ \A v \in Users \ {job'[k].user} : job'[k].copy[v] = store'.pool[v]
                              /\ job'[k].op \in {"quotas", "branding"} =>
                                    store'.pool[job'[k].user] # NoPool
      BY DEF Copies
    <2>1. CASE k = j
      BY <2>1, <1>b, <1>c, <1>h, <1>q
    <2>2. CASE k # j
      BY <2>2, <1>0, <1>b, <1>c, <1>h DEF Copies
    <2> QED
      BY <2>1, <2>2
  <1>3. Promoted'
    BY <1>0, <1>b, <1>c, <1>h DEF Promoted
  <1>4. Clear'
    <2> SUFFICES ASSUME NEW i \in Requests, Assigning(i)'
                 PROVE  /\ ~store'.torn => store'.pool[job'[i].user] = NoPool
                        /\ \A k \in Requests : Holder(k)' => job'[k].copy[job'[i].user] = NoPool
                        /\ \A k \in Requests : Promoting(k)' /\ pc'[k] = "load" =>
                                                job'[k].user # job'[i].user
      BY DEF Clear
    <2>1. CASE i = j
      <3>1. job'[i] = l /\ l.op = "assign"
        BY <2>1, <1>c, <1>h
      <3>2. MayAssign(l.user, l.target) /\ l.user \in Users /\ l.target \in Users
        BY <3>1 DEF Checked
      <3>3. /\ \A k \in Requests : Holder(k) => job[k].copy[l.user] = NoPool
            /\ \A k \in Requests : Promoting(k) /\ pc[k] = "load" => job[k].user # l.user
        BY <3>2, <1>b, ClearOf
      <3> QED
        BY <3>1, <3>3, <1>b, <1>c, <1>h, <1>r
    <2>2. CASE i # j
      <3>1. /\ Assigning(i) /\ job'[i] = job[i]
            /\ ~store.torn => store.pool[job[i].user] = NoPool
        BY <2>2, <1>0, <1>c, <1>h DEF Clear
      <3>2. ASSUME NEW k \in Requests, Holder(k)' PROVE job'[k].copy[job[i].user] = NoPool
        <4>1. CASE k = j
          <5>1. job[i].user \in Users
            BY <3>1, UserOf DEF Assigning, Sure
          <5> QED
            BY <3>1, <3>2, <4>1, <5>1, <1>c, <1>h, <1>q
        <4>2. CASE k # j
          BY <3>1, <3>2, <4>2, <1>0, <1>c, <1>h DEF Clear
        <4> QED
          BY <4>1, <4>2
      <3>3. ASSUME NEW k \in Requests, Promoting(k)', pc'[k] = "load"
            PROVE  job'[k].user # job[i].user
        BY <3>1, <3>3, <1>0, <1>c, <1>h DEF Clear
      <3> QED
        BY <3>1, <3>2, <3>3, <1>b
    <2> QED
      BY <2>1, <2>2
  <1> QED
    BY <1>1, <1>2, <1>3, <1>4

LEMMA LevelReset ==
  ASSUME TypeOK, Shapes, LevelInv, NEW c \in Users, NEW f \in Fields, Resets(c, f)
  PROVE  LevelInv'
  <1> SUFFICES ASSUME mess' \cap {"stale", "unread"} = {}
               PROVE  /\ Copies' /\ Promoted' /\ Clear'
                      /\ "renamed" \notin mess' => Level' /\ LevelCopies'
    BY DEF LevelInv
  <1>r. /\ f.parent = None /\ ~f.reseller /\ store' = store /\ mess \subseteq mess'
        /\ \A v \in Users : account'[v] = IF v = c THEN f ELSE account[v]
    BY DEF Resets
  <1>0. /\ Copies /\ Promoted /\ Clear
        /\ "renamed" \notin mess' => Level /\ LevelCopies
    BY <1>r DEF LevelInv
  <1>h. \A k \in Requests :
          /\ Holder(k)' => Holder(k) /\ job'[k] = job[k]
          /\ Assigning(k)' => Assigning(k) /\ job'[k] = job[k]
          /\ Promoting(k)' => /\ Promoting(k) /\ job'[k] = job[k] /\ job[k].user # c
                              /\ pc'[k] = "load" => pc[k] = "load"
                              /\ pc'[k] # "role" => pc[k] # "role"
    BY DEF Resets, Fades, Holder, Holds, Assigning, Promoting, Sure
  <1>1. ASSUME "renamed" \notin mess' PROVE Level' /\ LevelCopies'
    <2>1. Level'
      BY <1>0, <1>1, <1>r DEF Level, HasRecord
    <2>2. LevelCopies'
      BY <1>0, <1>1, <1>h, <1>r DEF LevelCopies
    <2> QED
      BY <2>1, <2>2
  <1>2. Copies'
    BY <1>0, <1>h, <1>r DEF Copies
  <1>3. Promoted'
    <2> SUFFICES ASSUME NEW k \in Requests, Promoting(k)', pc'[k] # "role"
                 PROVE  account'[job'[k].user].reseller
      BY DEF Promoted
    <2>1. account[job[k].user].reseller /\ job[k].user \in Users /\ job[k].user # c
      BY <1>0, <1>h, UserOf DEF Promoted, Promoting, Sure
    <2> QED
      BY <1>h, <1>r, <2>1
  <1>4. Clear'
    BY <1>0, <1>h, <1>r DEF Clear
  <1> QED
    BY <1>1, <1>2, <1>3, <1>4

LEMMA LevelGoesOn ==
  ASSUME TypeOK, Shapes, LevelInv, NEW j \in Requests, GoesOn(j)
  PROVE  LevelInv'
  <1> SUFFICES ASSUME mess' \cap {"stale", "unread"} = {}
               PROVE  /\ Copies' /\ Promoted' /\ Clear'
                      /\ "renamed" \notin mess' => Level' /\ LevelCopies'
    BY DEF LevelInv
  <1>g. /\ pc[j] = "assign" /\ MayAssign(job[j].user, job[j].target)
        /\ UNCHANGED <<account, store, mess, stale, job>>
        /\ \A k \in Requests : pc'[k] = IF k = j THEN "role" ELSE pc[k]
    BY DEF GoesOn
  <1>0. /\ mess \cap {"stale", "unread"} = {} /\ Copies /\ Promoted /\ Clear
        /\ "renamed" \notin mess' => Level /\ LevelCopies
    BY <1>g DEF LevelInv
  <1>j. /\ job[j].op = "create" /\ job[j].user \in Users /\ job[j].target \in Users
    BY <1>g DEF Shapes, Shape, TypeOK
  <1>h. \A k \in Requests :
          /\ Holder(k)' => Holder(k)
          /\ Assigning(k)' => Assigning(k) \/ k = j
          /\ Promoting(k)' => Promoting(k) /\ pc'[k] = pc[k]
    BY <1>g, <1>j DEF Holder, Holds, Assigning, Promoting, Sure
  <1>1. Promoted' /\ ("renamed" \notin mess' => Level' /\ LevelCopies')
    BY <1>0, <1>g, <1>h DEF Level, LevelCopies, HasRecord, Promoted
  <1>2. Copies'
    BY <1>0, <1>g, <1>h DEF Copies
  <1>3. /\ ~store.torn /\ store.pool[job[j].user] = NoPool
        /\ \A k \in Requests : Holder(k) => job[k].copy[job[j].user] = NoPool
        /\ \A k \in Requests : Promoting(k) /\ pc[k] = "load" => job[k].user # job[j].user
    BY <1>0, <1>g, <1>j, ClearOf
  <1>4. Clear'
    BY <1>0, <1>3, <1>g, <1>h DEF Clear
  <1> QED
    BY <1>1, <1>2, <1>4

LEMMA LevelSetFields ==
  ASSUME TypeOK, Shapes, LevelInv, NEW j \in Requests, SetFields(j)
  PROVE  LevelInv'
  <1> SUFFICES ASSUME mess' \cap {"stale", "unread"} = {}
               PROVE  /\ Copies' /\ Promoted' /\ Clear'
                      /\ "renamed" \notin mess' => Level' /\ LevelCopies'
    BY DEF LevelInv
  <1>p. pc[j] = "role" /\ store' = store
    BY DEF SetFields
  <1>u. PICK u \in Users : u = job[j].user
    BY <1>p, UserOf
  <1>0. /\ mess \cap {"stale", "unread"} = {} /\ j \notin stale
        /\ Copies /\ Promoted /\ Clear
        /\ "renamed" \notin mess' => Level /\ LevelCopies
    BY DEF SetFields, Stain, LevelInv
  <1>t. /\ \A v \in Users : account'[v] = IF v = u THEN NewFields(j) ELSE account[v]
        /\ \A k \in Requests :
              /\ pc'[k] = IF k = j THEN NextPc(j) ELSE pc[k]
              /\ job'[k] = IF k = j /\ NextPc(j) = "idle" THEN Fresh ELSE job[k]
    BY <1>u, SetFieldsType
  <1>f. NewFields(j).reseller = job[j].reseller /\ NewFields(j).parent = NewParent(j)
    BY <1>u DEF NewFields, TypeOK, Fields
  <1>s. Shape(j)
    BY DEF Shapes
  <1>o. \A k \in Requests \ {j} : pc'[k] # "idle" /\ k \notin stale' =>
          k \notin stale /\ job[k].user # u /\ job[k].target # u
    BY <1>u, SetFieldsOvertakes DEF Sure
  <1>a. Assigning(j) <=> job[j].op \in {"assign", "create"}
    BY <1>p, <1>0 DEF Assigning, Sure
  <1>n. NewParent(j) # None => Assigning(j) /\ ~job[j].reseller
    BY <1>a, <1>s DEF NewParent, Shape
  <1>h. \A k \in Requests :
          /\ Holder(k)' => Holder(k) /\ job'[k] = job[k]
          /\ Assigning(k)' => k # j /\ Assigning(k) /\ job'[k] = job[k]
          /\ Promoting(k)' => /\ Promoting(k) /\ job'[k] = job[k]
                              /\ k # j => pc'[k] = pc[k]
    <2> SUFFICES ASSUME NEW k \in Requests
                 PROVE  /\ Holder(k)' => Holder(k) /\ job'[k] = job[k]
                        /\ Assigning(k)' => k # j /\ Assigning(k) /\ job'[k] = job[k]
                        /\ Promoting(k)' => /\ Promoting(k) /\ job'[k] = job[k]
                                            /\ k # j => pc'[k] = pc[k]
      OBVIOUS
    <2>1. CASE k = j
      BY <2>1, <1>0, <1>p, <1>t DEF NextPc, Holder, Holds, Assigning, Promoting, Sure
    <2>2. CASE k # j
      BY <2>2, <1>o, <1>t DEF Holder, Holds, Assigning, Promoting, Sure
    <2> QED
      BY <2>1, <2>2
  <1>1. ASSUME "renamed" \notin mess' PROVE Level'
    <2>1. HasRecord(u)' \/ account'[u].reseller => account'[u].parent = None
      <3>1. /\ account'[u].reseller = job[j].reseller
            /\ account'[u].parent = NewParent(j)
        BY <1>u, <1>t, <1>f
      <3>2. HasRecord(u)' <=> HasRecord(u)
        BY <1>p DEF HasRecord
      <3>3. Assigning(j) => ~HasRecord(u)
        BY <1>0, <1>u DEF HasRecord, Clear
      <3> QED
        BY <3>1, <3>2, <3>3, <1>n
    <2>2. \A v \in Users \ {u} : HasRecord(v)' \/ account'[v].reseller => account'[v].parent = None
      BY <1>0, <1>1, <1>p, <1>t DEF HasRecord, Level
    <2> QED
      BY <2>1, <2>2 DEF Level
  <1>2. Copies'
    BY <1>0, <1>h, <1>p DEF Copies
  <1>5. ASSUME "renamed" \notin mess' PROVE LevelCopies'
    <2>1. \A k \in Requests : Holder(k)' => \A v \in Users :
            job'[k].copy[v] # NoPool => account'[v].parent = None
      <3> SUFFICES ASSUME NEW k \in Requests, Holder(k)', NEW v \in Users,
                          job'[k].copy[v] # NoPool
                   PROVE  account'[v].parent = None
        OBVIOUS
      <3>1. Holder(k) /\ job[k].copy[v] # NoPool
        BY <1>h
      <3>2. CASE v = u
        BY <3>1, <3>2, <1>0, <1>u, <1>t, <1>f, <1>n DEF Clear
      <3>3. CASE v # u
        BY <3>1, <3>3, <1>0, <1>5, <1>t DEF LevelCopies
      <3> QED
        BY <3>2, <3>3
    <2> QED
      BY <2>1 DEF LevelCopies
  <1>3. Promoted'
    <2> SUFFICES ASSUME NEW k \in Requests, Promoting(k)', pc'[k] # "role"
                 PROVE  account'[job'[k].user].reseller
      BY DEF Promoted
    <2>1. CASE k = j
      BY <2>1, <1>h, <1>s, <1>u, <1>t, <1>f DEF Shape, Promoting
    <2>2. CASE k # j
      <3>1. /\ account[job[k].user].reseller /\ job[k].user # u /\ job'[k] = job[k]
            /\ job[k].user \in Users
        BY <2>2, <1>0, <1>h, <1>o, <1>t, UserOf DEF Promoted, Promoting, Sure
      <3> QED
        BY <3>1, <1>t
    <2> QED
      BY <2>1, <2>2
  <1>4. Clear'
    <2> SUFFICES ASSUME NEW i \in Requests, Assigning(i)'
                 PROVE  /\ ~store'.torn => store'.pool[job'[i].user] = NoPool
                        /\ \A k \in Requests : Holder(k)' => job'[k].copy[job'[i].user] = NoPool
                        /\ \A k \in Requests : Promoting(k)' /\ pc'[k] = "load" =>
                                                job'[k].user # job'[i].user
      BY DEF Clear
    <2>1. i # j /\ Assigning(i) /\ job'[i] = job[i] /\ job[i].user # u
      BY <1>h, <1>o DEF Assigning, Sure
    <2>2. ASSUME NEW k \in Requests, Promoting(k)', pc'[k] = "load"
          PROVE  job'[k].user # job[i].user
      BY <2>1, <2>2, <1>0, <1>h, <1>u DEF Clear
    <2> QED
      BY <2>1, <2>2, <1>0, <1>h, <1>p DEF Clear
  <1> QED
    BY <1>1, <1>2, <1>3, <1>4, <1>5

LEMMA LevelLoad ==
  ASSUME TypeOK, Shapes, LevelInv, NEW j \in Requests, Load(j)
  PROVE  LevelInv'
  <1> DEFINE u == job[j].user
  <1> SUFFICES ASSUME mess' \cap {"stale", "unread"} = {}
               PROVE  /\ Copies' /\ Promoted' /\ Clear'
                      /\ "renamed" \notin mess' => Level' /\ LevelCopies'
    BY DEF LevelInv
  <1>p. pc[j] = "load" /\ ~store.torn /\ UNCHANGED <<account, store, stale, mess>>
    BY DEF Load, dataVars
  <1>u. u \in Users
    BY <1>p, UserOf
  <1>0. /\ Copies /\ Promoted /\ Clear
        /\ "renamed" \notin mess' => Level /\ LevelCopies
    BY <1>p DEF LevelInv
  <1>t. /\ \A v \in Users : LoadedCopy(j)[v] =
              IF v # u THEN store.pool[v]
              ELSE IF job[j].op = "promote" THEN job[j].limit ELSE NoPool
        /\ \A k \in Requests :
              /\ pc'[k] = IF k = j THEN "save" ELSE pc[k]
              /\ k # j => job'[k] = job[k]
              /\ job'[k].op = job[k].op /\ job'[k].user = job[k].user
              /\ job'[k].copy = IF k = j THEN LoadedCopy(j) ELSE job[k].copy
    BY <1>u, LoadType
  <1>j. job[j].op \in {"promote", "demote"}
    BY <1>p DEF Shapes, Shape
  <1>h. \A k \in Requests :
          /\ Holder(k)' => k = j \/ (Holder(k) /\ job'[k] = job[k])
          /\ Assigning(k)' => k # j /\ Assigning(k) /\ job'[k] = job[k]
          /\ Promoting(k)' => /\ Promoting(k)
                              /\ k # j => pc'[k] = pc[k]
    BY <1>p, <1>t DEF Holder, Holds, Assigning, Promoting, Sure
  <1>s. Sure(j)' => Sure(j)
    BY <1>p, <1>t DEF Sure
  \* What is promoted has its role, and so no parent.
  <1>l. "renamed" \notin mess' /\ Sure(j)' /\ LoadedCopy(j)[u] # NoPool
          => account[u].parent = None
    <2> SUFFICES ASSUME "renamed" \notin mess', Sure(j)', LoadedCopy(j)[u] # NoPool
                 PROVE  account[u].parent = None
      OBVIOUS
    <2>1. Promoting(j)
      BY <1>s, <1>t, <1>u DEF Promoting
    <2>2. account[u].reseller
      BY <2>1, <1>0, <1>p DEF Promoted
    <2> QED
      BY <2>2, <1>0, <1>u DEF Level
  <1>1. ASSUME "renamed" \notin mess' PROVE Level' /\ LevelCopies'
    <2>1. Level'
      BY <1>0, <1>1, <1>p DEF Level, HasRecord
    <2>2. ASSUME NEW k \in Requests, Holder(k)', NEW v \in Users, job'[k].copy[v] # NoPool
          PROVE  account'[v].parent = None
      <3>1. CASE k = j
        <4>1. Sure(j)'
          BY <2>2, <3>1, <1>p, <1>t DEF Holder, Sure
        <4>2. CASE v = u
          BY <2>2, <3>1, <4>1, <4>2, <1>1, <1>l, <1>p, <1>t
        <4>3. CASE v # u
          BY <2>2, <3>1, <4>3, <1>0, <1>1, <1>p, <1>t DEF Level, HasRecord
        <4> QED
          BY <4>2, <4>3
      <3>2. CASE k # j
        BY <2>2, <3>2, <1>0, <1>1, <1>h, <1>p DEF LevelCopies
      <3> QED
        BY <3>1, <3>2
    <2> QED
      BY <2>1, <2>2 DEF LevelCopies
  <1>2. Copies'
    <2> SUFFICES ASSUME NEW k \in Requests, Holder(k)'
                 PROVE  ~store'.torn =>
                              /\ \A v \in Users \ {job'[k].user} : job'[k].copy[v] = store'.pool[v]
                              /\ job'[k].op \in {"quotas", "branding"} =>
                                    store'.pool[job'[k].user] # NoPool
      BY DEF Copies
    <2>1. CASE k = j
      BY <2>1, <1>j, <1>p, <1>t, <1>u
    <2>2. CASE k # j
      BY <2>2, <1>0, <1>h, <1>p DEF Copies
    <2> QED
      BY <2>1, <2>2
  <1>3. Promoted'
    BY <1>0, <1>h, <1>p, <1>t DEF Promoted
  <1>4. Clear'
    <2> SUFFICES ASSUME NEW i \in Requests, Assigning(i)'
                 PROVE  /\ ~store'.torn => store'.pool[job'[i].user] = NoPool
                        /\ \A k \in Requests : Holder(k)' => job'[k].copy[job'[i].user] = NoPool
                        /\ \A k \in Requests : Promoting(k)' /\ pc'[k] = "load" =>
                                                job'[k].user # job'[i].user
      BY DEF Clear
    <2>1. /\ i # j /\ Assigning(i) /\ job'[i] = job[i] /\ job[i].user \in Users
          /\ store.pool[job[i].user] = NoPool
      BY <1>0, <1>h, <1>p, UserOf DEF Assigning, Sure, Clear
    <2>2. ASSUME NEW k \in Requests, Holder(k)' PROVE job'[k].copy[job[i].user] = NoPool
      <3>1. CASE k = j
        <4>1. Sure(j)
          BY <2>2, <3>1, <1>p, <1>t DEF Holder, Sure
        <4>2. job[j].op = "promote" => u # job[i].user
          BY <2>1, <4>1, <1>0, <1>p DEF Clear, Promoting
        <4> QED
          BY <2>1, <3>1, <4>2, <1>t
      <3>2. CASE k # j
        BY <2>1, <2>2, <3>2, <1>0, <1>h DEF Clear
      <3> QED
        BY <3>1, <3>2
    <2>3. ASSUME NEW k \in Requests, Promoting(k)', pc'[k] = "load"
          PROVE  job'[k].user # job[i].user
      BY <2>1, <2>3, <1>0, <1>h, <1>t DEF Clear
    <2> QED
      BY <2>1, <2>2, <2>3, <1>p
  <1> QED
    BY <1>1, <1>2, <1>3, <1>4

LEMMA LevelWrite ==
  ASSUME TypeOK, Shapes, LevelInv, NEW j \in Requests, Write(j)
  PROVE  LevelInv'
  <1> SUFFICES ASSUME mess' \cap {"stale", "unread"} = {}
               PROVE  /\ Copies' /\ Promoted' /\ Clear'
                      /\ "renamed" \notin mess' => Level' /\ LevelCopies'
    BY DEF LevelInv
  <1>p. pc[j] = "write" /\ account' = account
    BY DEF Write
  <1>0. /\ mess \cap {"stale", "unread"} = {} /\ j \notin stale
        /\ Copies /\ Promoted /\ Clear
        /\ "renamed" \notin mess' => Level /\ LevelCopies
    BY DEF Write, Stain, LevelInv
  <1>t. /\ ~store'.torn /\ store'.pool = job[j].copy
        /\ \A k \in Requests : /\ pc'[k] = IF k = j THEN "idle" ELSE pc[k]
                               /\ job'[k] = IF k = j THEN Fresh ELSE job[k]
    BY WriteType
  <1>j. Holder(j)
    BY <1>0, <1>p DEF Holder, Holds
  <1>h. \A k \in Requests :
          /\ ~Holder(k)'
          /\ Assigning(k)' => Assigning(k) /\ job'[k] = job[k]
          /\ Promoting(k)' => Promoting(k) /\ job'[k] = job[k] /\ pc'[k] = pc[k]
    BY WriteOvertakes DEF Assigning, Promoting, Sure
  <1>1. ASSUME "renamed" \notin mess' PROVE Level' /\ LevelCopies'
    <2>1. Level'
      BY <1>0, <1>1, <1>j, <1>p, <1>t DEF Level, HasRecord, LevelCopies
    <2>2. LevelCopies'
      BY <1>h DEF LevelCopies
    <2> QED
      BY <2>1, <2>2
  <1>2. Copies'
    BY <1>h DEF Copies
  <1>3. Promoted'
    BY <1>0, <1>h, <1>p DEF Promoted
  <1>4. Clear'
    BY <1>0, <1>h, <1>j, <1>t DEF Clear
  <1> QED
    BY <1>1, <1>2, <1>3, <1>4

\* The new name of an account under a reseller has no record, or is marked.
LEMMA LevelRename ==
  ASSUME TypeOK, Shapes, LevelInv, NEW u \in Users, NEW v \in Users, Rename(u, v)
  PROVE  LevelInv'
  <1> SUFFICES ASSUME mess' \cap {"stale", "unread"} = {}
               PROVE  /\ Copies' /\ Promoted' /\ Clear'
                      /\ "renamed" \notin mess' => Level' /\ LevelCopies'
    BY DEF LevelInv
  <1>m. mess \subseteq mess' /\ (account[u].parent # None /\ Recorded(v) => "renamed" \in mess')
    BY DEF Rename
  <1>0. /\ Copies /\ Promoted /\ Clear
        /\ "renamed" \notin mess' => Level /\ LevelCopies
    BY <1>m DEF LevelInv
  <1>t. /\ account'[v] = account[u] /\ account'[u] = Absent /\ u # v
        /\ \A w \in Users \ {u, v} : account'[w] = account[w]
        /\ UNCHANGED <<store, pc, job>>
    BY Renamed
  <1>o. \A k \in Requests : Sure(k)' => Sure(k) /\ job[k].user # u /\ job[k].user # v
    BY <1>t, RenameOvertakes DEF Sure
  <1>h. \A k \in Requests :
          /\ Holder(k)' => Holder(k)
          /\ Assigning(k)' => Assigning(k)
          /\ Promoting(k)' => Promoting(k)
    <2>1. \A k \in Requests : Holds(k)' => Holds(k) /\ pc'[k] # "idle"
      BY <1>t DEF Holds
    <2> QED
      BY <2>1, <1>o, <1>t, RenameOvertakes DEF Holder, Assigning, Promoting
  <1>1. ASSUME "renamed" \notin mess' PROVE Level'
    <2>1. HasRecord(v)' \/ account'[v].reseller => account'[v].parent = None
      BY <1>0, <1>1, <1>m, <1>t DEF Level, HasRecord, Recorded
    <2>2. ~account'[u].reseller /\ account'[u].parent = None
      BY <1>t, AbsentType
    <2>3. \A w \in Users \ {u, v} :
            HasRecord(w)' \/ account'[w].reseller => account'[w].parent = None
      BY <1>0, <1>1, <1>t DEF Level, HasRecord
    <2> QED
      BY <2>1, <2>2, <2>3 DEF Level
  <1>2. ASSUME "renamed" \notin mess' PROVE LevelCopies'
    <2> SUFFICES ASSUME NEW k \in Requests, Holder(k)', NEW w \in Users,
                        job'[k].copy[w] # NoPool
                 PROVE  account'[w].parent = None
      BY DEF LevelCopies
    <2>1. CASE w = v
      BY <2>1, <1>1, <1>2, <1>m, <1>t DEF Recorded
    <2>2. CASE w = u
      BY <2>2, <1>t, AbsentType
    <2>3. CASE w \notin {u, v}
      BY <2>3, <1>0, <1>2, <1>h, <1>t DEF LevelCopies
    <2> QED
      BY <2>1, <2>2, <2>3
  <1>3. Copies'
    BY <1>0, <1>h, <1>t DEF Copies
  <1>4. Promoted'
    <2> SUFFICES ASSUME NEW k \in Requests, Promoting(k)', pc'[k] # "role"
                 PROVE  account'[job'[k].user].reseller
      BY DEF Promoted
    <2>1. /\ account[job[k].user].reseller /\ job[k].user \in Users
          /\ job[k].user # u /\ job[k].user # v
      BY <1>0, <1>h, <1>o, <1>t, UserOf DEF Promoted, Promoting, Sure
    <2> QED
      BY <1>t, <2>1
  <1>5. Clear'
    BY <1>0, <1>h, <1>t DEF Clear
  <1> QED
    BY <1>1, <1>2, <1>3, <1>4, <1>5

LEMMA LevelNext ==
  ASSUME TypeOK, Shapes, LevelInv, [Next]_vars
  PROVE  LevelInv'
  <1>1. CASE \/ \E u \in Users, p \in Packages : AssignPackage(u, p)
             \/ \E p \in Packages, limit \in Limits : UpdatePackage(p, limit)
    BY <1>1, PackageCases, PackagesFade, LevelFade
  <1>2. CASE "unread" \in mess'
    BY <1>2 DEF LevelInv
  <1>3. CASE \E u, v \in Users : Rename(u, v)
    BY <1>3, LevelRename
  <1> QED
    BY <1>1, <1>2, <1>3, NextCases, LevelFade, LevelReset, LevelBegin, LevelGoesOn, LevelSetFields,
       LevelLoad, LevelWrite

\* In every execution in which no request wrote on the strength of an overtaken
\* check or of a file it could not read, and no user of a reseller took a name
\* that has a record, no reseller is under a reseller, and no record of a pool
\* names an account under one: not after a crash between the role and the record,
\* not when a name is used again, not when an account changes its name.
THEOREM OneLevelHolds == Spec => []OneLevel
  <1>1. Init => TypeOK /\ Shapes /\ LevelInv
    BY TypeInit, ShapesInit, LevelInit
  <1>2. TypeOK /\ Shapes /\ LevelInv /\ [Next]_vars => (TypeOK /\ Shapes /\ LevelInv)'
    BY ShapesNext, LevelNext
  <1>3. LevelInv => OneLevel
    BY DEF LevelInv, Level, OneLevel
  <1> QED
    BY <1>1, <1>2, <1>3, PTL DEF Spec

-----------------------------------------------------------------------------
(* The users of a reseller have one                                           *)

Parents == \A u \in Users : account[u].parent # None =>
    /\ There(account[u].parent)
    /\ ~store.torn => HasRecord(account[u].parent)
    /\ \A k \in Requests : Holder(k) => job[k].copy[account[u].parent] # NoPool
Targets == \A j \in Requests : Assigning(j) =>
    /\ There(job[j].target)
    /\ ~store.torn => HasRecord(job[j].target)
    /\ \A k \in Requests : Holder(k) /\ job[k].user # job[j].target
                              => job[k].copy[job[j].target] # NoPool
Childless == \A j \in Requests : Sure(j) /\ job[j].op = "demote" => Children(job[j].user) = {}
FamilyInv == mess \cap {"stale", "unread"} = {} =>
    Targets /\ Childless /\ ("orphans" \notin mess => Parents)

LEMMA FamilyInit == Init => FamilyInv
  <1> SUFFICES ASSUME Init PROVE FamilyInv
    OBVIOUS
  <1>1. \A k \in Requests : pc[k] = "idle"
    BY DEF Init
  <1>2. \A u \in Users : account[u].parent = None
    BY DEF Init, Absent
  <1> QED
    BY <1>1, <1>2 DEF FamilyInv, Parents, Targets, Childless, Assigning, Sure

LEMMA FamilyFade ==
  ASSUME FamilyInv, AllFade
  PROVE  FamilyInv'
  <1> SUFFICES ASSUME mess' \cap {"stale", "unread"} = {}
               PROVE  Targets' /\ Childless' /\ ("orphans" \notin mess' => Parents')
    BY DEF FamilyInv
  <1>0. Targets /\ Childless /\ ("orphans" \notin mess' => Parents)
    BY DEF FamilyInv, AllFade
  <1>h. \A k \in Requests :
          /\ Holder(k)' => Holder(k) /\ job'[k] = job[k]
          /\ Assigning(k)' => Assigning(k) /\ job'[k] = job[k]
          /\ Sure(k)' => Sure(k) /\ job'[k] = job[k]
    BY DEF AllFade, Fades, Holder, Holds, Assigning, Sure
  <1>a. account' = account /\ (store' = store \/ store'.torn)
    BY DEF AllFade
  <1>1. Targets'
    BY <1>0, <1>a, <1>h DEF Targets, There, HasRecord
  <1>2. Childless'
    BY <1>0, <1>a, <1>h DEF Childless, Children, There
  <1>3. "orphans" \notin mess' => Parents'
    BY <1>0, <1>a, <1>h DEF Parents, There, HasRecord
  <1> QED
    BY <1>1, <1>2, <1>3

\* The reseller of an assignment has a pool, in every copy that is to be saved.
LEMMA TargetOf ==
  ASSUME TypeOK, LevelInv, mess \cap {"stale", "unread"} = {},
         NEW c \in Users, NEW r \in Users, MayAssign(c, r)
  PROVE  /\ There(r) /\ HasRecord(r) /\ c # r
         /\ \A k \in Requests : Holder(k) /\ job[k].user # r =>
               job[k].copy[r] = store.pool[r] /\ job[k].copy[r] # NoPool
  BY DEF MayAssign, HasRecord, LevelInv, Copies

LEMMA FamilyBegin ==
  ASSUME TypeOK, Shapes, LevelInv, FamilyInv, NEW j \in Requests,
         NEW label \in {"role", "save"}, NEW l \in JobRecords,
         Begin(j, label, l), Checked(label, l)
  PROVE  FamilyInv'
  <1> SUFFICES ASSUME mess' \cap {"stale", "unread"} = {}
               PROVE  Targets' /\ Childless' /\ ("orphans" \notin mess' => Parents')
    BY DEF FamilyInv
  <1>b. /\ account' = account /\ store' = store /\ stale' = stale /\ mess' = mess
        /\ pc[j] = "idle" /\ j \notin stale
    BY DEF Begin, Start, dataVars, Shapes, InFlight
  <1>c. \A k \in Requests : /\ pc'[k] = IF k = j THEN label ELSE pc[k]
                            /\ job'[k] = IF k = j THEN l ELSE job[k]
    <2>1. label \in Pcs \ {"undo", "assign"} /\ Start(j, label, l) /\ UNCHANGED mess
      BY DEF Pcs, Begin
    <2> QED
      BY <2>1, Begun
  <1>0. /\ mess \cap {"stale", "unread"} = {} /\ Targets /\ Childless
        /\ "orphans" \notin mess' => Parents
    BY <1>b DEF FamilyInv
  <1>u. l.user \in Users /\ l.op \in Ops /\ NoPool \notin Limits
    BY NoPoolType DEF Checked, JobRecords
  <1>h. /\ Holder(j)' => l.op \in {"quotas", "branding"}
        /\ Assigning(j)' => l.op = "assign"
        /\ \A k \in Requests \ {j} : /\ Holder(k)' <=> Holder(k)
                                     /\ Assigning(k)' <=> Assigning(k)
                                     /\ Sure(k)' <=> Sure(k)
    BY <1>b, <1>c DEF Holder, Holds, Assigning, Sure, Checked
  <1>q. l.op \in {"quotas", "branding"} =>
          /\ ~store.torn /\ l.copy[l.user] # NoPool
          /\ \A v \in Users \ {l.user} : l.copy[v] = store.pool[v]
    BY <1>u DEF Checked, HasRecord
  <1>1. Targets'
    <2> SUFFICES ASSUME NEW i \in Requests, Assigning(i)'
                 PROVE  /\ account'[job'[i].target].there
                        /\ ~store'.torn => store'.pool[job'[i].target] # NoPool
                        /\ \A k \in Requests : Holder(k)' /\ job'[k].user # job'[i].target
                                              => job'[k].copy[job'[i].target] # NoPool
      BY DEF Targets, There, HasRecord
    <2>1. CASE i = j
      <3>1. /\ job'[i] = l /\ l.user \in Users /\ l.target \in Users
            /\ MayAssign(l.user, l.target)
        BY <2>1, <1>c, <1>h DEF Checked
      <3>2. /\ There(l.target) /\ HasRecord(l.target)
            /\ \A k \in Requests : Holder(k) /\ job[k].user # l.target =>
                  job[k].copy[l.target] # NoPool
        BY <3>1, <1>0, TargetOf
      <3>3. \A k \in Requests : Holder(k)' => k # j /\ Holder(k) /\ job'[k] = job[k]
        BY <2>1, <1>c, <1>h
      <3> QED
        BY <3>1, <3>2, <3>3, <1>b DEF There, HasRecord
    <2>2. CASE i # j
      <3>1. /\ Assigning(i) /\ job'[i] = job[i] /\ There(job[i].target)
            /\ ~store.torn => HasRecord(job[i].target)
        BY <2>2, <1>0, <1>c, <1>h DEF Targets
      <3>2. job[i].target \in Users
        BY <3>1 DEF Assigning, Sure, Shapes, Shape, TypeOK
      <3>3. ASSUME NEW k \in Requests, Holder(k)', job'[k].user # job[i].target
            PROVE  job'[k].copy[job[i].target] # NoPool
        <4>1. CASE k = j
          BY <3>1, <3>2, <3>3, <4>1, <1>c, <1>h, <1>q DEF HasRecord
        <4>2. CASE k # j
          BY <3>1, <3>3, <4>2, <1>0, <1>c, <1>h DEF Targets
        <4> QED
          BY <4>1, <4>2
      <3> QED
        BY <3>1, <3>3, <1>b DEF There, HasRecord
    <2> QED
      BY <2>1, <2>2
  <1>2. Childless'
    BY <1>0, <1>b, <1>c, <1>h DEF Childless, Children, There, Checked
  <1>3. ASSUME "orphans" \notin mess' PROVE Parents'
    <2> SUFFICES ASSUME NEW u \in Users, account[u].parent # None
                 PROVE  /\ account[account[u].parent].there
                        /\ ~store.torn => store.pool[account[u].parent] # NoPool
                        /\ \A k \in Requests : Holder(k)' =>
                              job'[k].copy[account[u].parent] # NoPool
      BY <1>b DEF Parents, There, HasRecord
    <2>1. /\ There(account[u].parent) /\ account[u].parent \in Users
          /\ ~store.torn => HasRecord(account[u].parent)
      BY <1>0, <1>3 DEF Parents, TypeOK, Fields
    <2>2. ASSUME NEW k \in Requests, Holder(k)'
          PROVE  job'[k].copy[account[u].parent] # NoPool
      <3>1. CASE k = j
        BY <2>1, <2>2, <3>1, <1>c, <1>h, <1>q DEF HasRecord
      <3>2. CASE k # j
        BY <2>2, <3>2, <1>0, <1>3, <1>c, <1>h DEF Parents
      <3> QED
        BY <3>1, <3>2
    <2> QED
      BY <2>1, <2>2, <1>b DEF There, HasRecord
  <1> QED
    BY <1>1, <1>2, <1>3

LEMMA FamilyReset ==
  ASSUME TypeOK, Shapes, FamilyInv, NEW c \in Users, NEW f \in Fields, Resets(c, f)
  PROVE  FamilyInv'
  <1> SUFFICES ASSUME mess' \cap {"stale", "unread"} = {}
               PROVE  Targets' /\ Childless' /\ ("orphans" \notin mess' => Parents')
    BY DEF FamilyInv
  <1>r. /\ f.parent = None /\ store' = store /\ mess \subseteq mess'
        /\ \A v \in Users : account'[v] = IF v = c THEN f ELSE account[v]
        /\ f.there \/ ("orphans" \notin mess' => Children(c) = {})
    BY DEF Resets
  <1>0. Targets /\ Childless /\ ("orphans" \notin mess' => Parents)
    BY <1>r DEF FamilyInv
  <1>h. \A k \in Requests :
          /\ Holder(k)' => Holder(k) /\ job'[k] = job[k]
          /\ Assigning(k)' => /\ Assigning(k) /\ job'[k] = job[k]
                              /\ job[k].target # c
          /\ Sure(k)' => /\ job'[k].op = "create" \/ (Sure(k) /\ job'[k] = job[k])
    BY DEF Resets, Fades, Holder, Holds, Assigning, Sure
  <1>t. \A k \in Requests : Assigning(k) => job[k].target \in Users
    BY DEF Assigning, Sure, Shapes, Shape, TypeOK
  <1>1. Targets'
    BY <1>0, <1>h, <1>r, <1>t DEF Targets, There, HasRecord
  <1>2. Childless'
    <2> SUFFICES ASSUME NEW k \in Requests, Sure(k)', job'[k].op = "demote"
                 PROVE  \A v \in Users : ~(account'[v].there /\ account'[v].parent = job'[k].user)
      BY DEF Childless, Children, There
    <2>1. Sure(k) /\ job'[k] = job[k] /\ Children(job[k].user) = {} /\ job[k].user # None
      BY <1>0, <1>h, UserOf DEF Childless, Sure
    <2>2. \A v \in Users : ~(account[v].there /\ account[v].parent = job[k].user)
      BY <2>1 DEF Children, There
    <2>3. \A v \in Users : ~(account'[v].there /\ account'[v].parent = job[k].user)
      BY <2>1, <2>2, <1>r
    <2> QED
      BY <2>1, <2>3
  <1>3. ASSUME "orphans" \notin mess' PROVE Parents'
    <2> SUFFICES ASSUME NEW u \in Users, account'[u].parent # None
                 PROVE  /\ account'[account'[u].parent].there
                        /\ ~store'.torn => store'.pool[account'[u].parent] # NoPool
                        /\ \A k \in Requests : Holder(k)' =>
                              job'[k].copy[account'[u].parent] # NoPool
      BY DEF Parents, There, HasRecord
    <2>1. u # c /\ account'[u] = account[u]
      BY <1>r
    <2>2. There(u) /\ account[u].parent \in Users
      BY <2>1, AbsentType DEF TypeOK, Fields
    <2>3. /\ There(account[u].parent)
          /\ ~store.torn => HasRecord(account[u].parent)
      BY <2>1, <1>0, <1>3 DEF Parents
    <2>4. account[u].parent = c => f.there
      BY <2>2, <1>3, <1>r DEF Children
    <2>5. account'[account[u].parent].there
      BY <2>1, <2>2, <2>3, <2>4, <1>r DEF There
    <2>6. ~store'.torn => store'.pool[account'[u].parent] # NoPool
      BY <2>1, <2>3, <1>r DEF HasRecord
    <2>7. \A k \in Requests : Holder(k)' => job'[k].copy[account'[u].parent] # NoPool
      BY <2>1, <1>0, <1>3, <1>h DEF Parents
    <2> QED
      BY <2>1, <2>5, <2>6, <2>7
  <1> QED
    BY <1>1, <1>2, <1>3

LEMMA FamilyGoesOn ==
  ASSUME TypeOK, Shapes, LevelInv, FamilyInv, NEW j \in Requests, GoesOn(j)
  PROVE  FamilyInv'
  <1> SUFFICES ASSUME mess' \cap {"stale", "unread"} = {}
               PROVE  Targets' /\ Childless' /\ ("orphans" \notin mess' => Parents')
    BY DEF FamilyInv
  <1>g. /\ pc[j] = "assign" /\ MayAssign(job[j].user, job[j].target)
        /\ UNCHANGED <<account, store, mess, stale, job>>
        /\ \A k \in Requests : pc'[k] = IF k = j THEN "role" ELSE pc[k]
    BY DEF GoesOn
  <1>0. /\ mess \cap {"stale", "unread"} = {} /\ Targets /\ Childless
        /\ "orphans" \notin mess' => Parents
    BY <1>g DEF FamilyInv
  <1>j. /\ job[j].op = "create" /\ job[j].user \in Users /\ job[j].target \in Users
    BY <1>g DEF Shapes, Shape, TypeOK
  <1>h. \A k \in Requests :
          /\ Holder(k)' => Holder(k)
          /\ Assigning(k)' => Assigning(k) \/ k = j
          /\ Sure(k)' => Sure(k)
    BY <1>g, <1>j DEF Holder, Holds, Assigning, Sure
  <1>1. /\ There(job[j].target) /\ HasRecord(job[j].target)
        /\ \A k \in Requests : Holder(k) /\ job[k].user # job[j].target =>
              job[k].copy[job[j].target] # NoPool
    BY <1>0, <1>g, <1>j, TargetOf
  <1>2. Targets'
    BY <1>0, <1>1, <1>g, <1>h DEF Targets, There, HasRecord
  <1>3. Childless'
    BY <1>0, <1>g, <1>h DEF Childless, Children, There
  <1>4. "orphans" \notin mess' => Parents'
    BY <1>0, <1>g, <1>h DEF Parents, There, HasRecord
  <1> QED
    BY <1>2, <1>3, <1>4

LEMMA FamilySetFields ==
  ASSUME TypeOK, Shapes, FamilyInv, NEW j \in Requests, SetFields(j)
  PROVE  FamilyInv'
  <1> SUFFICES ASSUME mess' \cap {"stale", "unread"} = {}
               PROVE  Targets' /\ Childless' /\ ("orphans" \notin mess' => Parents')
    BY DEF FamilyInv
  <1>p. /\ pc[j] = "role" /\ store' = store /\ There(job[j].user)
        /\ mess \subseteq mess'
    BY DEF SetFields, Stain
  <1>u. PICK u \in Users : u = job[j].user
    BY <1>p, UserOf
  <1>0. /\ mess \cap {"stale", "unread"} = {} /\ j \notin stale /\ Targets /\ Childless
        /\ "orphans" \notin mess' => Parents
    BY <1>p DEF SetFields, Stain, FamilyInv
  <1>t. /\ \A v \in Users : account'[v] = IF v = u THEN NewFields(j) ELSE account[v]
        /\ \A k \in Requests :
              /\ pc'[k] = IF k = j THEN NextPc(j) ELSE pc[k]
              /\ job'[k] = IF k = j /\ NextPc(j) = "idle" THEN Fresh ELSE job[k]
    BY <1>u, SetFieldsType
  <1>f. NewFields(j).there /\ NewFields(j).parent = NewParent(j)
    BY <1>p, <1>u DEF NewFields, TypeOK, Fields, There
  \* Nobody leaves, and only the user of the request moves.
  <1>v. \A v \in Users : /\ account[v].there => account'[v].there
                         /\ account'[v].parent = IF v = u THEN NewParent(j) ELSE account[v].parent
    BY <1>t, <1>f
  <1>o. \A k \in Requests \ {j} : Sure(k)' =>
          /\ Sure(k) /\ pc'[k] = pc[k] /\ job'[k] = job[k]
          /\ job[k].user # u
          /\ NewParent(j) # None => job[k].user # NewParent(j)
    BY <1>u, SetFieldsOvertakes
  <1>n. NewParent(j) # None => Assigning(j) /\ NewParent(j) = job[j].target
    BY <1>0, <1>p DEF Assigning, Sure, NewParent
  <1>w. NewParent(j) # None => NextPc(j) = "idle"
    BY DEF NewParent, NextPc
  <1>h. \A k \in Requests :
          /\ Holder(k)' => Holder(k) /\ job'[k] = job[k]
          /\ Assigning(k)' => k # j /\ Assigning(k) /\ job'[k] = job[k]
    <2> SUFFICES ASSUME NEW k \in Requests
                 PROVE  /\ Holder(k)' => Holder(k) /\ job'[k] = job[k]
                        /\ Assigning(k)' => k # j /\ Assigning(k) /\ job'[k] = job[k]
      OBVIOUS
    <2>1. CASE k = j
      BY <2>1, <1>0, <1>p, <1>t DEF NextPc, Holder, Holds, Assigning, Sure
    <2>2. CASE k # j
      BY <2>2, <1>o, <1>t DEF Holder, Holds, Assigning, Sure
    <2> QED
      BY <2>1, <2>2
  <1>1. Targets'
    <2>1. \A k \in Requests : Assigning(k) => job[k].target \in Users
      BY DEF Assigning, Sure, Shapes, Shape, TypeOK
    <2> QED
      BY <2>1, <1>0, <1>h, <1>p, <1>v DEF Targets, There, HasRecord
  <1>2. Childless'
    <2> SUFFICES ASSUME NEW k \in Requests, Sure(k)', job'[k].op = "demote"
                 PROVE  \A v \in Users : ~(account'[v].there /\ account'[v].parent = job'[k].user)
      BY DEF Childless, Children, There
    <2>1. CASE k = j
      <3>1. Sure(j) /\ job'[j] = job[j] /\ job[j].op = "demote"
        BY <2>1, <1>0, <1>p, <1>t DEF Sure
      <3>2. \A v \in Users : account[v].there => account[v].parent # u
        BY <3>1, <1>0, <1>u DEF Childless, Children, There
      <3>3. NewParent(j) = None /\ u # None
        BY <3>1, UsersAssumption DEF NewParent
      <3>4. \A v \in Users \ {u} : account'[v] = account[v]
        BY <1>t
      <3> QED
        BY <2>1, <3>1, <3>2, <3>3, <3>4, <1>u, <1>v
    <2>2. CASE k # j
      <3>1. /\ Sure(k) /\ job'[k] = job[k] /\ job[k].user # None
            /\ NewParent(j) # None => job[k].user # NewParent(j)
        BY <2>2, <1>o, UserOf DEF Sure
      <3>2. \A v \in Users : account[v].there => account[v].parent # job[k].user
        BY <2>2, <3>1, <1>0 DEF Childless, Children, There
      <3>3. \A v \in Users \ {u} : account'[v] = account[v]
        BY <1>t
      <3> QED
        BY <3>1, <3>2, <3>3, <1>v
    <2> QED
      BY <2>1, <2>2
  <1>3. ASSUME "orphans" \notin mess' PROVE Parents'
    <2> SUFFICES ASSUME NEW v \in Users, account'[v].parent # None
                 PROVE  /\ account'[account'[v].parent].there
                        /\ ~store'.torn => store'.pool[account'[v].parent] # NoPool
                        /\ \A k \in Requests : Holder(k)' =>
                              job'[k].copy[account'[v].parent] # NoPool
      BY DEF Parents, There, HasRecord
    <2>1. CASE v = u
      <3>1. /\ account'[v].parent = job[j].target /\ Assigning(j)
            /\ job[j].target \in Users
        BY <2>1, <1>v, <1>n DEF Assigning, Sure, Shapes, Shape, TypeOK
      <3>2. /\ account[job[j].target].there
            /\ ~store.torn => store.pool[job[j].target] # NoPool
            /\ \A k \in Requests : Holder(k) /\ job[k].user # job[j].target
                                  => job[k].copy[job[j].target] # NoPool
        BY <3>1, <1>0 DEF Targets, There, HasRecord
      <3>3. \A k \in Requests : Holder(k)' =>
              Holder(k) /\ job'[k] = job[k] /\ job[k].user # job[j].target
        <4>1. NewParent(j) = job[j].target /\ NextPc(j) = "idle"
          BY <2>1, <1>n, <1>v, <1>w
        <4>2. ~Holder(j)'
          BY <4>1, <1>t DEF Holder, Holds
        <4> QED
          BY <2>1, <4>1, <4>2, <1>h, <1>o, <1>v DEF Holder, Holds, Sure
      <3> QED
        BY <3>1, <3>2, <3>3, <1>p, <1>v
    <2>2. CASE v # u
      <3>1. account'[v].parent = account[v].parent /\ account[v].parent \in Users
        BY <2>2, <1>v DEF TypeOK, Fields
      <3>2. /\ account[account[v].parent].there
            /\ ~store.torn => store.pool[account[v].parent] # NoPool
            /\ \A k \in Requests : Holder(k) => job[k].copy[account[v].parent] # NoPool
        BY <3>1, <1>0, <1>3 DEF Parents, There, HasRecord
      <3> QED
        BY <3>1, <3>2, <1>h, <1>p, <1>v
    <2> QED
      BY <2>1, <2>2
  <1> QED
    BY <1>1, <1>2, <1>3

LEMMA FamilyLoad ==
  ASSUME TypeOK, Shapes, FamilyInv, NEW j \in Requests, Load(j)
  PROVE  FamilyInv'
  <1> SUFFICES ASSUME mess' \cap {"stale", "unread"} = {}
               PROVE  Targets' /\ Childless' /\ ("orphans" \notin mess' => Parents')
    BY DEF FamilyInv
  <1>p. pc[j] = "load" /\ ~store.torn /\ UNCHANGED <<account, store, stale, mess>>
    BY DEF Load, dataVars
  <1>u. PICK u \in Users : u = job[j].user
    BY <1>p, UserOf
  <1>0. /\ Targets /\ Childless
        /\ "orphans" \notin mess' => Parents
    BY <1>p DEF FamilyInv
  <1>t. /\ \A v \in Users : LoadedCopy(j)[v] =
              IF v # u THEN store.pool[v]
              ELSE IF job[j].op = "promote" THEN job[j].limit ELSE NoPool
        /\ \A k \in Requests :
              /\ pc'[k] = IF k = j THEN "save" ELSE pc[k]
              /\ k # j => job'[k] = job[k]
              /\ job'[k].op = job[k].op /\ job'[k].user = job[k].user
              /\ job'[k].copy = IF k = j THEN LoadedCopy(j) ELSE job[k].copy
    BY <1>u, LoadType
  <1>j. job[j].op \in {"promote", "demote"} /\ (Sure(j)' => Sure(j))
        /\ job[j].limit # NoPool
    BY <1>p, <1>t, NoPoolType DEF Shapes, Shape, Sure, TypeOK
  <1>h. \A k \in Requests :
          /\ Holder(k)' => (k = j /\ Sure(j)) \/ (Holder(k) /\ job'[k] = job[k])
          /\ Assigning(k)' => k # j /\ Assigning(k) /\ job'[k] = job[k]
          /\ Sure(k)' => Sure(k)
    BY <1>p, <1>t DEF Holder, Holds, Assigning, Sure
  <1>1. Targets'
    <2> SUFFICES ASSUME NEW i \in Requests, Assigning(i)'
                 PROVE  /\ account'[job'[i].target].there
                        /\ ~store'.torn => store'.pool[job'[i].target] # NoPool
                        /\ \A k \in Requests : Holder(k)' /\ job'[k].user # job'[i].target
                                              => job'[k].copy[job'[i].target] # NoPool
      BY DEF Targets, There, HasRecord
    <2>1. /\ i # j /\ Assigning(i) /\ job'[i] = job[i] /\ job[i].target \in Users
          /\ account[job[i].target].there /\ store.pool[job[i].target] # NoPool
      BY <1>0, <1>h, <1>p DEF Assigning, Sure, Shapes, Shape, TypeOK, Targets, There, HasRecord
    <2>2. ASSUME NEW k \in Requests, Holder(k)', job'[k].user # job[i].target
          PROVE  job'[k].copy[job[i].target] # NoPool
      <3>1. CASE k = j
        BY <2>1, <2>2, <3>1, <1>t, <1>u
      <3>2. CASE k # j
        BY <2>1, <2>2, <3>2, <1>0, <1>h DEF Targets
      <3> QED
        BY <3>1, <3>2
    <2> QED
      BY <2>1, <2>2, <1>p
  <1>2. Childless'
    BY <1>0, <1>h, <1>p, <1>t DEF Childless, Children, There
  <1>3. ASSUME "orphans" \notin mess' PROVE Parents'
    <2> SUFFICES ASSUME NEW v \in Users, account[v].parent # None
                 PROVE  /\ account[account[v].parent].there
                        /\ store.pool[account[v].parent] # NoPool
                        /\ \A k \in Requests : Holder(k)' =>
                              job'[k].copy[account[v].parent] # NoPool
      BY <1>p DEF Parents, There, HasRecord
    <2>1. /\ account[account[v].parent].there /\ account[v].parent \in Users
          /\ store.pool[account[v].parent] # NoPool /\ There(v)
      BY <1>0, <1>3, <1>p, AbsentType DEF Parents, There, HasRecord, TypeOK, Fields
    <2>2. ASSUME NEW k \in Requests, Holder(k)'
          PROVE  job'[k].copy[account[v].parent] # NoPool
      <3>1. CASE k = j /\ Sure(j)
        <4>1. job[j].op = "demote" => account[v].parent # u
          BY <2>1, <3>1, <1>0, <1>u DEF Childless, Children
        <4> QED
          BY <2>1, <3>1, <4>1, <1>j, <1>t
      <3>2. CASE Holder(k) /\ job'[k] = job[k]
        BY <3>2, <1>0, <1>3 DEF Parents
      <3> QED
        BY <2>2, <3>1, <3>2, <1>h
    <2> QED
      BY <2>1, <2>2
  <1> QED
    BY <1>1, <1>2, <1>3

LEMMA FamilyWrite ==
  ASSUME TypeOK, Shapes, FamilyInv, NEW j \in Requests, Write(j)
  PROVE  FamilyInv'
  <1> SUFFICES ASSUME mess' \cap {"stale", "unread"} = {}
               PROVE  Targets' /\ Childless' /\ ("orphans" \notin mess' => Parents')
    BY DEF FamilyInv
  <1>p. pc[j] = "write" /\ account' = account /\ mess \subseteq mess'
    BY DEF Write, Stain
  <1>0. /\ mess \cap {"stale", "unread"} = {} /\ j \notin stale /\ Targets /\ Childless
        /\ "orphans" \notin mess' => Parents
    BY <1>p DEF Write, Stain, FamilyInv
  <1>t. ~store'.torn /\ store'.pool = job[j].copy
    BY WriteType
  <1>j. Holder(j)
    BY <1>0, <1>p DEF Holder, Holds
  <1>h. \A k \in Requests :
          /\ ~Holder(k)'
          /\ Sure(k)' => Sure(k) /\ job'[k] = job[k] /\ job[k].target # job[j].user
          /\ Assigning(k)' => /\ Assigning(k) /\ job'[k] = job[k]
                              /\ job[k].target # job[j].user
    BY WriteOvertakes DEF Assigning, Sure
  <1>1. Targets'
    BY <1>0, <1>h, <1>j, <1>p, <1>t DEF Targets, There, HasRecord
  <1>2. Childless'
    BY <1>0, <1>h, <1>p DEF Childless, Children, There
  <1>3. "orphans" \notin mess' => Parents'
    BY <1>0, <1>h, <1>j, <1>p, <1>t DEF Parents, There, HasRecord
  <1> QED
    BY <1>1, <1>2, <1>3

\* The users of an account that changes its name are left behind, and marked.
LEMMA FamilyRename ==
  ASSUME TypeOK, Shapes, FamilyInv, NEW u \in Users, NEW v \in Users, Rename(u, v)
  PROVE  FamilyInv'
  <1> SUFFICES ASSUME mess' \cap {"stale", "unread"} = {}
               PROVE  Targets' /\ Childless' /\ ("orphans" \notin mess' => Parents')
    BY DEF FamilyInv
  <1>m. mess \subseteq mess' /\ ("orphans" \notin mess' => Children(u) = {})
    BY DEF Rename, Orphans
  <1>0. Targets /\ Childless /\ ("orphans" \notin mess' => Parents)
    BY <1>m DEF FamilyInv
  <1>t. /\ account'[v] = account[u] /\ account'[u] = Absent
        /\ There(u) /\ ~There(v) /\ u # v
        /\ \A w \in Users \ {u, v} : account'[w] = account[w]
        /\ UNCHANGED <<store, pc, job>>
    BY Renamed
  <1>o. \A k \in Requests : Sure(k)' =>
          /\ Sure(k) /\ job[k].user # u /\ job[k].user # v
          /\ job[k].target # u /\ job[k].target # v
          /\ account[u].parent # None => job[k].user # account[u].parent
    BY <1>t, RenameOvertakes DEF Sure
  <1>h. \A k \in Requests :
          /\ Holder(k)' => Holder(k)
          /\ Assigning(k)' => Assigning(k) /\ Sure(k)' /\ job[k].target \in Users
    <2>1. \A k \in Requests : Holds(k)' => Holds(k) /\ pc'[k] # "idle"
      BY <1>t DEF Holds
    <2>2. \A k \in Requests : Assigning(k) => job[k].target \in Users
      BY DEF Assigning, Sure, Shapes, Shape, TypeOK
    <2> QED
      BY <2>1, <2>2, <1>o, <1>t, RenameOvertakes DEF Holder, Assigning
  <1>1. Targets'
    <2> SUFFICES ASSUME NEW i \in Requests, Assigning(i)'
                 PROVE  /\ account'[job'[i].target].there
                        /\ ~store'.torn => store'.pool[job'[i].target] # NoPool
                        /\ \A k \in Requests : Holder(k)' /\ job'[k].user # job'[i].target
                                              => job'[k].copy[job'[i].target] # NoPool
      BY DEF Targets, There, HasRecord
    <2>1. /\ Assigning(i) /\ job[i].target \in Users \ {u, v}
      BY <1>h, <1>o
    <2>2. account'[job[i].target].there
      BY <2>1, <1>0, <1>t DEF Targets, There
    <2> QED
      BY <2>1, <2>2, <1>0, <1>h, <1>t DEF Targets, HasRecord
  <1>2. Childless'
    <2> SUFFICES ASSUME NEW k \in Requests, Sure(k)', job'[k].op = "demote", NEW w \in Users
                 PROVE  ~(account'[w].there /\ account'[w].parent = job'[k].user)
      BY DEF Childless, Children, There
    <2>1. /\ Sure(k) /\ job'[k] = job[k] /\ Children(job[k].user) = {} /\ job[k].user # None
          /\ account[u].parent # job[k].user
      BY <1>0, <1>o, <1>t, UserOf DEF Childless, Sure
    <2>2. CASE w \in {u, v}
      BY <2>1, <2>2, <1>t, AbsentType
    <2>3. CASE w \notin {u, v}
      BY <2>1, <2>3, <1>t DEF Children, There
    <2> QED
      BY <2>2, <2>3
  <1>3. ASSUME "orphans" \notin mess' PROVE Parents'
    <2> SUFFICES ASSUME NEW w \in Users, account'[w].parent # None
                 PROVE  /\ account'[account'[w].parent].there
                        /\ ~store'.torn => store'.pool[account'[w].parent] # NoPool
                        /\ \A k \in Requests : Holder(k)' =>
                              job'[k].copy[account'[w].parent] # NoPool
      BY DEF Parents, There, HasRecord
    <2>1. PICK x \in Users : account'[w] = account[x] /\ There(x)
      <3>1. w # u
        BY <1>t, AbsentType
      <3>2. CASE w = v
        BY <3>2, <1>t
      <3>3. CASE w # v
        BY <3>1, <3>3, <1>t, AbsentType DEF TypeOK
      <3> QED
        BY <3>2, <3>3
    <2>2. PICK p \in Users : p = account[x].parent
      BY <2>1 DEF TypeOK, Fields
    <2>3. /\ There(p) /\ (~store.torn => HasRecord(p))
          /\ \A k \in Requests : Holder(k) => job[k].copy[p] # NoPool
      BY <2>1, <2>2, <1>0, <1>3 DEF Parents
    <2>4. p # u /\ p # v
      BY <2>1, <2>2, <2>3, <1>3, <1>m, <1>t DEF Children
    <2>5. account'[p].there
      BY <2>3, <2>4, <1>t DEF There
    <2> QED
      BY <2>1, <2>2, <2>3, <2>5, <1>h, <1>t DEF HasRecord
  <1> QED
    BY <1>1, <1>2, <1>3

LEMMA FamilyNext ==
  ASSUME TypeOK, Shapes, LevelInv, FamilyInv, [Next]_vars
  PROVE  FamilyInv'
  <1>1. CASE \/ \E u \in Users, p \in Packages : AssignPackage(u, p)
             \/ \E p \in Packages, limit \in Limits : UpdatePackage(p, limit)
    BY <1>1, PackageCases, PackagesFade, FamilyFade
  <1>2. CASE "unread" \in mess'
    BY <1>2 DEF FamilyInv
  <1>3. CASE \E u, v \in Users : Rename(u, v)
    BY <1>3, FamilyRename
  <1> QED
    BY <1>1, <1>2, <1>3, NextCases, FamilyFade, FamilyReset, FamilyBegin, FamilyGoesOn, FamilySetFields,
       FamilyLoad, FamilyWrite

\* As long as no reseller's account was deleted or renamed under its users, and
\* no request wrote on the strength of an overtaken check or of a file it could
\* not read, every account under a parent is under one that is there and has a
\* pool in resellers.json when that can be read: no demotion, new quota, branding
\* or save of an older copy loses it, nor does a user that changes its own name.
THEOREM ChildrenHold == Spec => []ChildrenHaveReseller
  <1>1. Init => TypeOK /\ Shapes /\ LevelInv /\ FamilyInv
    BY TypeInit, ShapesInit, LevelInit, FamilyInit
  <1>2. TypeOK /\ Shapes /\ LevelInv /\ FamilyInv /\ [Next]_vars
          => (TypeOK /\ Shapes /\ LevelInv /\ FamilyInv)'
    BY ShapesNext, LevelNext, FamilyNext
  <1>3. FamilyInv => ChildrenHaveReseller
    BY DEF FamilyInv, Parents, HasRecord, ChildrenHaveReseller
  <1> QED
    BY <1>1, <1>2, <1>3, PTL DEF Spec

-----------------------------------------------------------------------------
(* Sums over finite sets: the fold picks its elements one by one              *)

Pick(s) == CHOOSE x \in s : TRUE
Iterate(g, f, A) == [s \in SUBSET A |-> IF s = {} THEN 0
                                       ELSE f[Pick(s)] + g[s \ {Pick(s)}]]
IterOf(f, A) == CHOOSE g : g = Iterate(g, f, A)

LEMMA Unfold == ASSUME NEW f, NEW A PROVE SumFunctionOnSet(f, A) = IterOf(f, A)[A]
  BY DEF SumFunctionOnSet, FoldFunctionOnSet, MapThenFoldSet, IterOf, Iterate, Pick

LEMMA PickIn == ASSUME NEW s, s # {} PROVE Pick(s) \in s
  BY DEF Pick

\* Induction over the subsets of a finite set, stated with the set of the good ones.
LEMMA SubsetInduction ==
  ASSUME NEW U, IsFiniteSet(U), NEW G \in SUBSET (SUBSET U), {} \in G,
         \A A \in SUBSET U : A # {} /\ (\A x \in A : A \ {x} \in G) => A \in G
  PROVE  G = SUBSET U
  <1> DEFINE Bad == (SUBSET U) \ G
  <1> SUFFICES ASSUME Bad # {} PROVE FALSE
    OBVIOUS
  <1>1. IsWellFoundedOn(StrictSubsetOrdering(U), SUBSET U)
    <2>1. FiniteSubsetsOf(U) = SUBSET U
      BY FS_FiniteSubsetsOfFinite
    <2>2. IsWellFoundedOn(StrictSubsetOrdering(U), FiniteSubsetsOf(U))
      BY FS_StrictSubsetOrderingWellFounded
    <2> QED
      BY <2>1, <2>2
  <1>2. PICK A \in Bad : \A B \in Bad : ~(<<B, A>> \in StrictSubsetOrdering(U))
    <2>1. Bad \subseteq SUBSET U
      OBVIOUS
    <2> HIDE DEF Bad
    <2> QED
      BY <1>1, <2>1, WFMin
  <1>3. A # {}
    OBVIOUS
  <1>4. ASSUME NEW x \in A PROVE A \ {x} \in G
    <2>1. <<A \ {x}, A>> \in StrictSubsetOrdering(U)
      BY <1>4 DEF StrictSubsetOrdering
    <2> QED
      BY <1>2, <2>1
  <1> QED
    BY <1>3, <1>4

\* The equation that defines the sum, at one set.
SumsAt(g, f, s) == g[s] = IF s = {} THEN 0 ELSE f[Pick(s)] + g[s \ {Pick(s)}]

LEMMA IterExists ==
  ASSUME NEW U, IsFiniteSet(U), NEW f \in [U -> Int], NEW A \in SUBSET U
  PROVE  \E g : g = Iterate(g, f, A)
  <1> DEFINE G == {B \in SUBSET A : \E g \in [SUBSET A -> Int] : \A s \in SUBSET A :
                      Cardinality(s) <= Cardinality(B) => SumsAt(g, f, s)}
  <1>f. IsFiniteSet(A) /\ \A s \in SUBSET A : IsFiniteSet(s) /\ Cardinality(s) \in Nat
    BY FS_Subset, FS_CardinalityType
  <1>e. Cardinality({}) = 0 /\ \A s \in SUBSET A : Cardinality(s) = 0 => s = {}
    BY <1>f, FS_EmptySet
  <1>1. {} \in G
    <2> DEFINE g0 == [s \in SUBSET A |-> 0]
    <2>1. g0 \in [SUBSET A -> Int] /\ \A s \in SUBSET A :
             Cardinality(s) <= Cardinality({}) => SumsAt(g0, f, s)
      BY <1>f, <1>e DEF SumsAt
    <2> QED
      BY <2>1
  <1>2. ASSUME NEW B \in SUBSET A, B # {}, \A x \in B : B \ {x} \in G
        PROVE  B \in G
    <2>1. PICK x \in B : TRUE
      BY <1>2
    <2>2. Cardinality(B) = Cardinality(B \ {x}) + 1
      BY <1>f, <2>1, FS_RemoveElement
    <2>3. PICK g \in [SUBSET A -> Int] : \A s \in SUBSET A :
             Cardinality(s) <= Cardinality(B \ {x}) => SumsAt(g, f, s)
      BY <1>2, <2>1
    <2> DEFINE h == [s \in SUBSET A |-> IF s = {} THEN 0
                                        ELSE f[Pick(s)] + g[s \ {Pick(s)}]]
    <2>4. h \in [SUBSET A -> Int]
      <3>1. \A s \in SUBSET A : s # {} => Pick(s) \in s /\ f[Pick(s)] \in Int
                                        /\ s \ {Pick(s)} \in SUBSET A
        BY PickIn
      <3> QED
        BY <2>3, <3>1
    <2>5. ASSUME NEW s \in SUBSET A, Cardinality(s) <= Cardinality(B) PROVE SumsAt(h, f, s)
      <3>1. CASE s = {}
        BY <3>1 DEF SumsAt
      <3>2. CASE s # {}
        <4> DEFINE t == s \ {Pick(s)}
        <4>1. t \in SUBSET A /\ Cardinality(t) <= Cardinality(B \ {x})
          <5>1. Pick(s) \in s /\ t \in SUBSET A
            BY <3>2, PickIn
          <5>2. Cardinality(t) = Cardinality(s) - 1
            BY <1>f, <5>1, FS_RemoveElement
          <5>3. Cardinality(s) \in Nat /\ Cardinality(B \ {x}) \in Nat
            BY <1>f
          <5> HIDE DEF t
          <5> QED
            BY <2>2, <2>5, <5>1, <5>2, <5>3
        <4>2. h[t] = g[t]
          BY <2>3, <4>1 DEF SumsAt
        <4>3. h[s] = f[Pick(s)] + g[t]
          BY <3>2
        <4> QED
          BY <3>2, <4>2, <4>3 DEF SumsAt
      <3> QED
        BY <3>1, <3>2
    <2> HIDE DEF h
    <2> QED
      BY <2>4, <2>5
  <1>3. A \in G
    <2>1. G \in SUBSET (SUBSET A)
      OBVIOUS
    <2> HIDE DEF G
    <2>2. G = SUBSET A
      BY <1>f, <1>1, <1>2, <2>1, SubsetInduction
    <2> QED
      BY <2>2
  <1>4. PICK g \in [SUBSET A -> Int] : \A s \in SUBSET A : SumsAt(g, f, s)
    <2>1. \A s \in SUBSET A : Cardinality(s) <= Cardinality(A)
      BY <1>f, FS_Subset
    <2> QED
      BY <1>3, <2>1
  <1>5. g = Iterate(g, f, A)
    BY <1>4 DEF SumsAt, Iterate
  <1> QED
    BY <1>5

LEMMA IterSums ==
  ASSUME NEW U, IsFiniteSet(U), NEW f \in [U -> Int], NEW A \in SUBSET U, NEW s \in SUBSET A
  PROVE  SumsAt(IterOf(f, A), f, s)
  <1>1. IterOf(f, A) = Iterate(IterOf(f, A), f, A)
    BY IterExists DEF IterOf
  <1> QED
    BY <1>1 DEF SumsAt, Iterate

\* The sum over a part does not depend on the whole.
LEMMA IterPart ==
  ASSUME NEW U, IsFiniteSet(U), NEW f \in [U -> Int], NEW A \in SUBSET U, NEW B \in SUBSET A
  PROVE  IterOf(f, A)[B] \in Int /\ IterOf(f, A)[B] = IterOf(f, B)[B]
  <1> DEFINE G == {s \in SUBSET B : /\ IterOf(f, A)[s] \in Int
                                    /\ IterOf(f, A)[s] = IterOf(f, B)[s]}
  <1>f. IsFiniteSet(B) /\ B \in SUBSET U
    BY FS_Subset
  <1>s. \A s \in SUBSET B : SumsAt(IterOf(f, A), f, s) /\ SumsAt(IterOf(f, B), f, s)
    BY <1>f, IterSums
  <1>1. {} \in G
    <2>1. {} \in SUBSET B
      OBVIOUS
    <2>2. IterOf(f, A)[{}] = 0 /\ IterOf(f, B)[{}] = 0
      BY <1>s, <2>1 DEF SumsAt
    <2> QED
      BY <2>1, <2>2
  <1>2. ASSUME NEW s \in SUBSET B, s # {}, \A x \in s : s \ {x} \in G PROVE s \in G
    <2>1. Pick(s) \in s /\ f[Pick(s)] \in Int
      BY <1>2, PickIn
    <2>2. s \ {Pick(s)} \in G
      BY <1>2, <2>1
    <2>3. /\ IterOf(f, A)[s] = f[Pick(s)] + IterOf(f, A)[s \ {Pick(s)}]
          /\ IterOf(f, B)[s] = f[Pick(s)] + IterOf(f, B)[s \ {Pick(s)}]
      BY <1>2, <1>s DEF SumsAt
    <2> QED
      BY <2>1, <2>2, <2>3
  <1>3. G \in SUBSET (SUBSET B)
    OBVIOUS
  <1>4. G = SUBSET B
    <2> HIDE DEF G
    <2> QED
      BY <1>f, <1>1, <1>2, <1>3, SubsetInduction
  <1> QED
    BY <1>4

Sum(f, A) == SumFunctionOnSet(f, A)

LEMMA SumPick ==
  ASSUME NEW U, IsFiniteSet(U), NEW f \in [U -> Int], NEW A \in SUBSET U
  PROVE  /\ Sum(f, A) \in Int
         /\ A = {} => Sum(f, A) = 0
         /\ A # {} => Sum(f, A) = f[Pick(A)] + Sum(f, A \ {Pick(A)})
  <1>1. SumsAt(IterOf(f, A), f, A) /\ IterOf(f, A)[A] \in Int
    BY IterSums, IterPart
  <1>2. IterOf(f, A)[A \ {Pick(A)}] = IterOf(f, A \ {Pick(A)})[A \ {Pick(A)}]
    BY IterPart
  <1> QED
    BY <1>1, <1>2, Unfold DEF Sum, SumsAt

\* Any element may be taken out first.
LEMMA SumRemove ==
  ASSUME NEW U, IsFiniteSet(U), NEW f \in [U -> Int], NEW A \in SUBSET U, NEW x \in A
  PROVE  Sum(f, A) = f[x] + Sum(f, A \ {x})
  <1> DEFINE G == {B \in SUBSET U : \A y \in B : Sum(f, B) = f[y] + Sum(f, B \ {y})}
  <1>1. {} \in G
    OBVIOUS
  <1>2. ASSUME NEW B \in SUBSET U, B # {}, \A y \in B : B \ {y} \in G PROVE B \in G
    <2> SUFFICES ASSUME NEW y \in B PROVE Sum(f, B) = f[y] + Sum(f, B \ {y})
      OBVIOUS
    <2> DEFINE p == Pick(B)
    <2>1. p \in B /\ Sum(f, B) = f[p] + Sum(f, B \ {p})
      BY <1>2, PickIn, SumPick
    <2>2. CASE p = y
      BY <2>1, <2>2
    <2>3. CASE p # y
      <3>1. B \ {p} \in G /\ B \ {y} \in G
        BY <1>2, <2>1
      <3>2. Sum(f, B \ {p}) = f[y] + Sum(f, (B \ {p}) \ {y})
        BY <2>3, <3>1
      <3>3. Sum(f, B \ {y}) = f[p] + Sum(f, (B \ {y}) \ {p})
        BY <2>1, <2>3, <3>1
      <3>4. (B \ {p}) \ {y} = (B \ {y}) \ {p}
        OBVIOUS
      <3>5. f[p] \in Int /\ f[y] \in Int /\ Sum(f, (B \ {p}) \ {y}) \in Int
        BY <2>1, SumPick
      <3>6. PICK c \in Int : /\ Sum(f, B \ {p}) = f[y] + c
                             /\ Sum(f, B \ {y}) = f[p] + c
        BY <3>2, <3>3, <3>4, <3>5
      <3> HIDE DEF p
      <3> QED
        BY <2>1, <3>5, <3>6
    <2> QED
      BY <2>2, <2>3
  <1>3. G \in SUBSET (SUBSET U)
    OBVIOUS
  <1>4. G = SUBSET U
    <2> HIDE DEF G
    <2> QED
      BY <1>1, <1>2, <1>3, SubsetInduction
  <1> QED
    BY <1>4

\* Fewer and smaller summands make no larger sum.
LEMMA SumMono ==
  ASSUME NEW U, IsFiniteSet(U), NEW f \in [U -> Int], NEW g \in [U -> Int],
         NEW B \in SUBSET U, NEW A \in SUBSET B,
         \A x \in A : f[x] <= g[x], \A x \in B \ A : g[x] >= 0
  PROVE  Sum(f, A) <= Sum(g, B)
  <1> DEFINE G == {D \in SUBSET U : \A C \in SUBSET D :
                     (\A x \in C : f[x] <= g[x]) /\ (\A x \in D \ C : g[x] >= 0)
                        => Sum(f, C) <= Sum(g, D)}
  <1>1. {} \in G
    <2>1. Sum(f, {}) = 0 /\ Sum(g, {}) = 0
      BY SumPick
    <2>2. \A C \in SUBSET {} : C = {}
      OBVIOUS
    <2> QED
      BY <2>1, <2>2
  <1>2. ASSUME NEW D \in SUBSET U, D # {}, \A y \in D : D \ {y} \in G PROVE D \in G
    <2> SUFFICES ASSUME NEW C \in SUBSET D, \A x \in C : f[x] <= g[x],
                        \A x \in D \ C : g[x] >= 0
                 PROVE  Sum(f, C) <= Sum(g, D)
      OBVIOUS
    <2>1. PICK x \in D : TRUE
      BY <1>2
    <2>2. D \ {x} \in G
      BY <1>2
    <2>3. Sum(g, D) = g[x] + Sum(g, D \ {x}) /\ Sum(g, D \ {x}) \in Int /\ g[x] \in Int
      <3>1. Sum(g, D) = g[x] + Sum(g, D \ {x})
        BY SumRemove
      <3>2. Sum(g, D \ {x}) \in Int
        BY SumPick
      <3> QED
        BY <3>1, <3>2
    <2>4. CASE x \in C
      <3>1. Sum(f, C) = f[x] + Sum(f, C \ {x}) /\ Sum(f, C \ {x}) \in Int /\ f[x] \in Int
        <4>1. C \in SUBSET U /\ C \ {x} \in SUBSET U
          OBVIOUS
        <4>2. Sum(f, C) = f[x] + Sum(f, C \ {x})
          BY <2>4, <4>1, SumRemove
        <4>3. Sum(f, C \ {x}) \in Int
          BY <4>1, SumPick
        <4> QED
          BY <4>2, <4>3
      <3>2. Sum(f, C \ {x}) <= Sum(g, D \ {x})
        BY <2>2, <2>4
      <3> QED
        BY <2>3, <2>4, <3>1, <3>2
    <2>5. CASE x \notin C
      <3>1. Sum(f, C) \in Int
        BY SumPick
      <3>2. Sum(f, C) <= Sum(g, D \ {x})
        BY <2>2, <2>5
      <3> QED
        BY <2>3, <2>5, <3>1, <3>2
    <2> QED
      BY <2>4, <2>5
  <1>3. G \in SUBSET (SUBSET U)
    OBVIOUS
  <1>4. G = SUBSET U
    <2> HIDE DEF G
    <2> QED
      BY <1>1, <1>2, <1>3, SubsetInduction
  <1> QED
    BY <1>4

-----------------------------------------------------------------------------
(* What the pools allow                                                       *)

SlicesOK(f) == f \in [Users -> Int] /\ \A u \in Users : f[u] # Unlimited => f[u] >= 0

LEMMA SlicesType == (TypeOK => SlicesOK(Slices)) /\ (TypeOK' => SlicesOK(Slices'))
  BY BoundsAssumption DEF TypeOK, Slices, Slice, SlicesOK, Limits, Unlimited

AllowsIn(f, pool, us) == pool = Unlimited \/ Sum(f, us) <= pool
Kids(acc, r) == {u \in Users : acc[u].there /\ acc[u].parent = r}

LEMMA AllowsSame ==
  \A pool, us : Allows(pool, us) <=> AllowsIn(Slices, pool, us)
  BY DEF Allows, AllowsIn, Committed, Sum

LEMMA KidsSame == \A r : Children(r) = Kids(account, r)
  BY DEF Children, Kids, There

\* What a pool allows some users to have, it allows fewer of them, or the same
\* with no more in their packages.
LEMMA AllowsLess ==
  ASSUME NEW f, SlicesOK(f), NEW g, SlicesOK(g),
         NEW us \in SUBSET Users, NEW ws \in SUBSET us, NEW pool \in Limits \cup {NoPool},
         \A u \in us : f[u] # Unlimited, \A u \in ws : g[u] <= f[u],
         AllowsIn(f, pool, us)
  PROVE  AllowsIn(g, pool, ws)
  <1>1. /\ f \in [Users -> Int] /\ g \in [Users -> Int]
        /\ \A u \in us : f[u] >= 0
    BY DEF SlicesOK
  <1>2. Sum(g, ws) <= Sum(f, us)
    <2>1. \A u \in ws : g[u] <= f[u]
      OBVIOUS
    <2>2. \A u \in us \ ws : f[u] >= 0
      BY <1>1
    <2> QED
      BY <1>1, <2>1, <2>2, UsersAssumption, SumMono
  <1>3. Sum(g, ws) \in Int /\ Sum(f, us) \in Int
    <2>1. ws \in SUBSET Users
      OBVIOUS
    <2> QED
      BY <1>1, <2>1, UsersAssumption, SumPick
  <1>4. pool \in Int
    BY BoundsAssumption DEF Limits, Unlimited, NoPool
  <1> QED
    BY <1>2, <1>3, <1>4 DEF AllowsIn

\* Every user of a reseller has a limited package.
Limited == \A u \in Users : account[u].parent # None => Slices[u] # Unlimited
\* The pools on disk cover the users, and so do those in every copy to be saved.
PoolsHold == \A r \in Users :
    ~store.torn /\ store.pool[r] # NoPool => AllowsIn(Slices, store.pool[r], Kids(account, r))
CopiesHold == \A k \in Requests : Holder(k) => \A r \in Users :
    job[k].copy[r] # NoPool => AllowsIn(Slices, job[k].copy[r], Kids(account, r))
\* There is room for the user of an assignment that is on its way.
RoomFor == \A j \in Requests : Assigning(j) =>
    LET us == Kids(account, job[j].target) \cup {job[j].user} IN
    /\ Slices[job[j].user] # Unlimited
    /\ ~store.torn => AllowsIn(Slices, store.pool[job[j].target], us)
    /\ \A k \in Requests : Holder(k) /\ job[k].user # job[j].target =>
          AllowsIn(Slices, job[k].copy[job[j].target], us)
\* A promotion brings a pool that its users fit in.
LimitsHold == \A k \in Requests : Promoting(k) /\ pc[k] \in {"role", "load"} =>
    AllowsIn(Slices, job[k].limit, Kids(account, job[k].user))
PoolInv == mess \cap {"stale", "package", "unread"} = {} =>
    Limited /\ PoolsHold /\ CopiesHold /\ RoomFor /\ LimitsHold

LEMMA PoolInit == Init => PoolInv
  <1> SUFFICES ASSUME Init PROVE PoolInv
    OBVIOUS
  <1>1. \A k \in Requests : pc[k] = "idle"
    BY DEF Init
  <1>2. /\ \A u \in Users : account[u].parent = None
        /\ \A r \in Users : store.pool[r] = NoPool
    BY DEF Init, Absent
  <1> QED
    BY <1>1, <1>2 DEF PoolInv, Limited, PoolsHold, CopiesHold, RoomFor, LimitsHold,
       Holder, Holds, Assigning, Promoting, Sure

\* What a request has in hand.
LEMMA JobOf ==
  ASSUME TypeOK, Shapes, NEW j \in Requests
  PROVE  /\ \A r \in Users : job[j].copy[r] \in Limits \cup {NoPool}
         /\ job[j].limit \in Limits
         /\ Assigning(j) => job[j].user \in Users /\ job[j].target \in Users
         /\ Promoting(j) => job[j].user \in Users
  BY DEF TypeOK, Pools, Assigning, Promoting, Sure, Shapes, Shape

LEMMA KidsLimited ==
  ASSUME TypeOK, Limited, NEW r \in Users
  PROVE  Kids(account, r) \in SUBSET Users /\ \A u \in Kids(account, r) : Slices[u] # Unlimited
  BY UsersAssumption DEF Kids, Limited

\* Steps that let nobody in and no package grow.
LEMMA PoolShrinks ==
  ASSUME TypeOK, TypeOK', Shapes, PoolInv, mess \subseteq mess',
         UNCHANGED store \/ store'.torn,
         \A v \in Users : account'[v].parent # None =>
             /\ account'[v].parent = account[v].parent
             /\ account'[v].there => account[v].there,
         mess' \cap {"stale", "package", "unread"} = {} => \A v \in Users : account[v].parent # None =>
             Slices'[v] # Unlimited /\ Slices'[v] <= Slices[v],
         \A k \in Requests :
             /\ Holder(k)' => Holder(k) /\ job'[k] = job[k]
             /\ Assigning(k)' => /\ Assigning(k) /\ job'[k] = job[k]
                                 /\ Slices'[job[k].user] = Slices[job[k].user]
             /\ Promoting(k)' /\ pc'[k] \in {"role", "load"} =>
                   Promoting(k) /\ pc[k] \in {"role", "load"} /\ job'[k] = job[k]
  PROVE  PoolInv'
  <1> SUFFICES ASSUME mess' \cap {"stale", "package", "unread"} = {}
               PROVE  Limited' /\ PoolsHold' /\ CopiesHold' /\ RoomFor' /\ LimitsHold'
    BY DEF PoolInv
  <1>0. Limited /\ PoolsHold /\ CopiesHold /\ RoomFor /\ LimitsHold
    BY DEF PoolInv
  <1>k. \A r \in Users : /\ Kids(account', r) \subseteq Kids(account, r)
                         /\ \A u \in Kids(account, r) : Slices'[u] <= Slices[u]
    BY UsersAssumption DEF Kids
  \* The general case: the same pool, and fewer or the same users.
  <1>a. ASSUME NEW r \in Users, NEW pool \in Limits \cup {NoPool},
               AllowsIn(Slices, pool, Kids(account, r))
        PROVE  AllowsIn(Slices', pool, Kids(account', r))
    <2>1. /\ Kids(account, r) \in SUBSET Users
          /\ \A u \in Kids(account, r) : Slices[u] # Unlimited
      BY <1>0, KidsLimited
    <2>2. /\ Kids(account', r) \in SUBSET Kids(account, r)
          /\ \A u \in Kids(account', r) : Slices'[u] <= Slices[u]
      BY <1>k
    <2>3. SlicesOK(Slices) /\ SlicesOK(Slices')
      BY SlicesType
    <2> QED
      BY <1>a, <2>1, <2>2, <2>3, AllowsLess
  <1>1. Limited'
    BY DEF Limited
  <1>2. PoolsHold'
    <2>1. ~store'.torn => store' = store
      OBVIOUS
    <2>2. \A r \in Users : store.pool[r] \in Limits \cup {NoPool}
      BY DEF TypeOK, Pools
    <2> QED
      BY <1>0, <1>a, <2>1, <2>2 DEF PoolsHold
  <1>3. CopiesHold'
    BY <1>0, <1>a, JobOf DEF CopiesHold
  <1>4. RoomFor'
    <2> SUFFICES ASSUME NEW j \in Requests, Assigning(j)'
                 PROVE  /\ Slices'[job'[j].user] # Unlimited
                        /\ ~store'.torn => AllowsIn(Slices', store'.pool[job'[j].target],
                                                    Kids(account', job'[j].target) \cup {job'[j].user})
                        /\ \A k \in Requests : Holder(k)' /\ job'[k].user # job'[j].target =>
                              AllowsIn(Slices', job'[k].copy[job'[j].target],
                                       Kids(account', job'[j].target) \cup {job'[j].user})
      BY DEF RoomFor
    <2>1. /\ Assigning(j) /\ job'[j] = job[j]
          /\ Slices'[job[j].user] = Slices[job[j].user]
          /\ job[j].user \in Users /\ job[j].target \in Users
      BY JobOf
    <2>2. PICK u \in Users : u = job[j].user
      BY <2>1
    <2>3. PICK r \in Users : r = job[j].target
      BY <2>1
    <2>4. Slices[u] # Unlimited
      BY <1>0, <2>1, <2>2 DEF RoomFor
    <2>5. ASSUME NEW pool \in Limits \cup {NoPool},
                 AllowsIn(Slices, pool, Kids(account, r) \cup {u})
          PROVE  AllowsIn(Slices', pool, Kids(account', r) \cup {u})
      <3>1. \A v \in Kids(account, r) \cup {u} : Slices[v] # Unlimited
        BY <1>0, <2>4, KidsLimited
      <3>2. /\ Kids(account, r) \cup {u} \in SUBSET Users
            /\ Kids(account', r) \cup {u} \in SUBSET (Kids(account, r) \cup {u})
        BY <1>0, <1>k, KidsLimited
      <3>3. \A v \in Kids(account', r) \cup {u} : Slices'[v] <= Slices[v]
        <4>1. Slices[u] \in Int
          BY SlicesType DEF SlicesOK
        <4> QED
          BY <1>k, <2>1, <2>2, <4>1
      <3>4. SlicesOK(Slices) /\ SlicesOK(Slices')
        BY SlicesType
      <3> QED
        BY <2>5, <3>1, <3>2, <3>3, <3>4, AllowsLess
    <2>6. ~store'.torn => AllowsIn(Slices', store'.pool[r], Kids(account', r) \cup {u})
      <3>1. store.pool[r] \in Limits \cup {NoPool}
        BY DEF TypeOK, Pools
      <3> QED
        BY <1>0, <2>1, <2>2, <2>3, <2>5, <3>1 DEF RoomFor
    <2>7. ASSUME NEW k \in Requests, Holder(k)', job'[k].user # r
          PROVE  AllowsIn(Slices', job'[k].copy[r], Kids(account', r) \cup {u})
      <3>1. Holder(k) /\ job'[k] = job[k] /\ job[k].copy[r] \in Limits \cup {NoPool}
        BY <2>7, JobOf
      <3>2. AllowsIn(Slices, job[k].copy[r], Kids(account, r) \cup {u})
        BY <1>0, <2>1, <2>2, <2>3, <2>7, <3>1 DEF RoomFor
      <3> QED
        BY <2>5, <3>1, <3>2
    <2> QED
      BY <2>1, <2>2, <2>3, <2>4, <2>6, <2>7
  <1>5. LimitsHold'
    <2> SUFFICES ASSUME NEW k \in Requests, Promoting(k)', pc'[k] \in {"role", "load"}
                 PROVE  AllowsIn(Slices', job'[k].limit, Kids(account', job'[k].user))
      BY DEF LimitsHold
    <2>1. /\ Promoting(k) /\ pc[k] \in {"role", "load"} /\ job'[k] = job[k]
          /\ job[k].user \in Users /\ job[k].limit \in Limits
      BY JobOf
    <2>2. AllowsIn(Slices, job[k].limit, Kids(account, job[k].user))
      BY <1>0, <2>1 DEF LimitsHold
    <2> QED
      BY <1>a, <2>1, <2>2
  <1> QED
    BY <1>1, <1>2, <1>3, <1>4, <1>5

LEMMA PoolFade ==
  ASSUME TypeOK, TypeOK', Shapes, PoolInv, AllFade, UNCHANGED <<cap, package>>
  PROVE  PoolInv'
  <1>1. \A k \in Requests :
          /\ Holder(k)' => Holder(k) /\ job'[k] = job[k]
          /\ Assigning(k)' => Assigning(k) /\ job'[k] = job[k]
          /\ Promoting(k)' /\ pc'[k] \in {"role", "load"} =>
                Promoting(k) /\ pc[k] \in {"role", "load"} /\ job'[k] = job[k]
    BY DEF AllFade, Fades, Holder, Holds, Assigning, Promoting, Sure
  <1>2. Slices' = Slices
    BY DEF Slices, Slice
  <1>3. account' = account /\ (UNCHANGED store \/ store'.torn) /\ mess \subseteq mess'
    BY DEF AllFade
  <1>4. mess' \cap {"stale", "package", "unread"} = {} => \A v \in Users : account[v].parent # None =>
             Slices'[v] # Unlimited /\ Slices'[v] <= Slices[v]
    <2>1. mess' \cap {"stale", "package", "unread"} = {} => Limited
      BY <1>3 DEF PoolInv
    <2> QED
      BY <1>2, <2>1, SlicesType DEF Limited, SlicesOK
  <1> QED
    BY <1>1, <1>2, <1>3, <1>4, PoolShrinks

\* An account that is made has no parent, and one that is removed no longer.
LEMMA PoolReset ==
  ASSUME TypeOK, TypeOK', Shapes, PoolInv, NEW c \in Users, NEW f \in Fields, Resets(c, f)
  PROVE  PoolInv'
  <1>1. \A k \in Requests :
          /\ Holder(k)' => Holder(k) /\ job'[k] = job[k]
          /\ Assigning(k)' => Assigning(k) /\ job'[k] = job[k]
          /\ Promoting(k)' /\ pc'[k] \in {"role", "load"} =>
                Promoting(k) /\ pc[k] \in {"role", "load"} /\ job'[k] = job[k]
    BY DEF Resets, Fades, Holder, Holds, Assigning, Promoting, Sure
  <1>2. Slices' = Slices
    BY DEF Resets, Slices, Slice
  <1>3. /\ UNCHANGED store /\ mess \subseteq mess'
        /\ \A v \in Users : account'[v].parent # None => account'[v] = account[v]
    BY DEF Resets
  <1>4. mess' \cap {"stale", "package", "unread"} = {} => \A v \in Users : account[v].parent # None =>
             Slices'[v] # Unlimited /\ Slices'[v] <= Slices[v]
    <2>1. mess' \cap {"stale", "package", "unread"} = {} => Limited
      BY <1>3 DEF PoolInv
    <2> QED
      BY <1>2, <2>1, SlicesType DEF Limited, SlicesOK
  <1> QED
    BY <1>1, <1>2, <1>3, <1>4, PoolShrinks

\* A package that changes: what its users may use does not grow, or the step is
\* marked, and the checks of their requests and their reseller's are overtaken.
LEMMA PoolPackage ==
  ASSUME TypeOK, TypeOK', Shapes, PoolInv,
         \/ \E u \in Users, p \in Packages : AssignPackage(u, p)
         \/ \E p \in Packages, limit \in Limits : UpdatePackage(p, limit)
  PROVE  PoolInv'
  <1>1. PICK us \in SUBSET Users, old \in Limits, new \in Limits :
           /\ Repackage(us, old, new)
           /\ \A u \in us : Slice(u) = old /\ Slice(u)' = new
           /\ \A u \in Users \ us : Slice(u)' = Slice(u)
    BY PackageCases
  <1>2. AllFade
    BY <1>1, PackagesFade
  <1>3. account' = account /\ (UNCHANGED store \/ store'.torn) /\ mess \subseteq mess'
    BY <1>2 DEF AllFade
  <1>4. /\ \A u \in us : Slices[u] = old /\ Slices'[u] = new
        /\ \A u \in Users \ us : Slices'[u] = Slices[u]
    BY <1>1 DEF Slices
  <1>5. mess' \cap {"stale", "package", "unread"} = {} => \A v \in Users : account[v].parent # None =>
             Slices'[v] # Unlimited /\ Slices'[v] <= Slices[v]
    <2> SUFFICES ASSUME mess' \cap {"stale", "package", "unread"} = {},
                        NEW v \in Users, account[v].parent # None
                 PROVE  Slices'[v] # Unlimited /\ Slices'[v] <= Slices[v]
      OBVIOUS
    <2>1. Slices[v] # Unlimited /\ Slices[v] \in Int
      BY <1>3, SlicesType DEF PoolInv, Limited, SlicesOK
    <2>2. CASE v \in us
      <3>1. ~Grows(old, new)
        BY <1>1, <2>2 DEF Repackage
      <3>2. old \in Int /\ new \in Int
        BY BoundsAssumption DEF Limits, Unlimited
      <3> QED
        BY <1>4, <2>1, <2>2, <3>1, <3>2 DEF Grows
    <2>3. CASE v \notin us
      BY <1>4, <2>1, <2>3
    <2> QED
      BY <2>2, <2>3
  <1>6. \A k \in Requests : Sure(k)' => job[k].user \notin us
    <2> DEFINE ws == (us \cup {account[u].parent : u \in us}) \ {None}
    <2>1. Overtakes(None, ws, FALSE)
      BY <1>1 DEF Repackage
    <2>2. us \subseteq ws
      BY UsersAssumption
    <2> HIDE DEF ws
    <2>3. \A k \in Requests \ {None} : pc'[k] # "idle" /\ k \notin stale' =>
             k \notin stale /\ job[k].user \notin ws /\ job[k].target \notin ws
      BY <2>1, OvertakenUsers
    <2> QED
      BY <2>2, <2>3, UsersAssumption DEF Sure
  <1>7. \A k \in Requests :
          /\ Holder(k)' => Holder(k) /\ job'[k] = job[k]
          /\ Assigning(k)' => Assigning(k) /\ job'[k] = job[k] /\ job[k].user \notin us
          /\ Promoting(k)' /\ pc'[k] \in {"role", "load"} =>
                Promoting(k) /\ pc[k] \in {"role", "load"} /\ job'[k] = job[k]
    BY <1>2, <1>6 DEF AllFade, Fades, Holder, Holds, Assigning, Promoting, Sure
  <1>8. \A k \in Requests : Assigning(k)' => Slices'[job[k].user] = Slices[job[k].user]
    BY <1>4, <1>7, JobOf
  <1> QED
    BY <1>3, <1>5, <1>7, <1>8, PoolShrinks

Clean == mess \cap {"stale", "package", "unread"} = {}

\* A user that may be assigned has room, in every copy that is to be saved.
Room(u, r, pool) == AllowsIn(Slices, pool, Kids(account, r) \cup {u})

LEMMA RoomOf ==
  ASSUME TypeOK, LevelInv, PoolInv, Clean, NEW c \in Users, NEW r \in Users, MayAssign(c, r)
  PROVE  /\ Slices[c] # Unlimited /\ ~store.torn /\ Room(c, r, store.pool[r])
         /\ \A k \in Requests : Holder(k) /\ job[k].user # r => Room(c, r, job[k].copy[r])
  <1>1. Covers(store.pool[r], Children(r) \cup {c}) /\ ~store.torn
    BY DEF MayAssign, HasRecord
  <1>2. Slices[c] # Unlimited /\ Room(c, r, store.pool[r])
    <2>1. Children(r) = Kids(account, r)
      BY KidsSame
    <2>2. Slice(c) # Unlimited
      BY <1>1 DEF Covers, Summable
    <2>3. Allows(store.pool[r], Kids(account, r) \cup {c})
      BY <1>1, <2>1 DEF Covers
    <2> QED
      BY <2>2, <2>3, AllowsSame DEF Slices, Room
  <1>3. \A k \in Requests : Holder(k) /\ job[k].user # r => job[k].copy[r] = store.pool[r]
    BY TargetOf DEF Clean
  <1> QED
    BY <1>1, <1>2, <1>3

\* A request begins, with what it has checked.
LEMMA PoolBegin ==
  ASSUME TypeOK, Shapes, LevelInv, PoolInv, NEW j \in Requests,
         NEW label \in {"role", "save"}, NEW l \in JobRecords,
         Begin(j, label, l), Checked(label, l)
  PROVE  PoolInv'
  <1> SUFFICES ASSUME Clean'
               PROVE  Limited' /\ PoolsHold' /\ CopiesHold' /\ RoomFor' /\ LimitsHold'
    BY DEF PoolInv, Clean
  <1>b. /\ account' = account /\ store' = store /\ stale' = stale /\ mess' = mess
        /\ Slices' = Slices /\ pc[j] = "idle" /\ j \notin stale
    BY DEF Begin, Start, dataVars, packageVars, Shapes, InFlight, Slices, Slice
  <1>c. \A k \in Requests : /\ pc'[k] = IF k = j THEN label ELSE pc[k]
                            /\ job'[k] = IF k = j THEN l ELSE job[k]
    <2>1. label \in Pcs \ {"undo", "assign"} /\ Start(j, label, l) /\ UNCHANGED mess
      BY DEF Pcs, Begin
    <2> QED
      BY <2>1, Begun
  <1>m. Clean
    BY <1>b DEF Clean
  <1>0. Limited /\ PoolsHold /\ CopiesHold /\ RoomFor /\ LimitsHold
    BY <1>m DEF PoolInv, Clean
  <1>u. l.user \in Users /\ l.op \in Ops /\ NoPool \notin Limits
    BY NoPoolType DEF Checked, JobRecords
  <1>h. /\ Holder(j)' => l.op \in {"quotas", "branding"}
        /\ Assigning(j)' => l.op = "assign"
        /\ Promoting(j)' => l.op = "promote"
        /\ \A k \in Requests \ {j} : /\ Holder(k)' <=> Holder(k)
                                     /\ Assigning(k)' <=> Assigning(k)
                                     /\ Promoting(k)' <=> Promoting(k)
    BY <1>b, <1>c DEF Holder, Holds, Assigning, Promoting, Sure, Checked
  <1>k. \A r \in Users : Children(r) = Kids(account, r)
    BY KidsSame
  \* The copy of the new request is the store's, but for a pool that covers.
  <1>q. l.op \in {"quotas", "branding"} =>
          /\ ~store.torn /\ store.pool[l.user] # NoPool
          /\ \A v \in Users \ {l.user} : l.copy[v] = store.pool[v]
          /\ AllowsIn(Slices, l.copy[l.user], Kids(account, l.user))
    <2>1. CASE l.op = "quotas"
      <3>1. /\ HasRecord(l.user) /\ Covers(l.copy[l.user], Children(l.user))
            /\ \A v \in Users \ {l.user} : l.copy[v] = store.pool[v]
        BY <2>1 DEF Checked
      <3>2. Allows(l.copy[l.user], Kids(account, l.user))
        BY <3>1, <1>k, <1>u DEF Covers
      <3> QED
        BY <3>1, <3>2, AllowsSame DEF HasRecord
    <2>2. CASE l.op = "branding"
      <3>1. HasRecord(l.user) /\ l.copy = store.pool
        BY <2>2 DEF Checked
      <3> QED
        BY <3>1, <1>0, <1>u DEF HasRecord, PoolsHold
    <2> QED
      BY <2>1, <2>2
  <1>1. Limited'
    BY <1>0, <1>b DEF Limited
  <1>2. PoolsHold'
    BY <1>0, <1>b DEF PoolsHold
  <1>3. CopiesHold'
    <2> SUFFICES ASSUME NEW k \in Requests, Holder(k)', NEW r \in Users,
                        job'[k].copy[r] # NoPool
                 PROVE  AllowsIn(Slices', job'[k].copy[r], Kids(account', r))
      BY DEF CopiesHold
    <2>1. CASE k = j
      <3>1. CASE r = l.user
        BY <2>1, <3>1, <1>b, <1>c, <1>h, <1>q
      <3>2. CASE r # l.user
        BY <2>1, <3>2, <1>0, <1>b, <1>c, <1>h, <1>q DEF PoolsHold
      <3> QED
        BY <3>1, <3>2
    <2>2. CASE k # j
      BY <2>2, <1>0, <1>b, <1>c, <1>h DEF CopiesHold
    <2> QED
      BY <2>1, <2>2
  <1>4. RoomFor'
    <2> SUFFICES ASSUME NEW i \in Requests, Assigning(i)'
                 PROVE  /\ Slices[job'[i].user] # Unlimited
                        /\ ~store.torn => Room(job'[i].user, job'[i].target,
                                               store.pool[job'[i].target])
                        /\ \A k \in Requests : Holder(k)' /\ job'[k].user # job'[i].target =>
                              Room(job'[i].user, job'[i].target, job'[k].copy[job'[i].target])
      BY <1>b DEF RoomFor, Room
    <2>1. CASE i = j
      <3>1. job'[i] = l /\ l.op = "assign"
        BY <2>1, <1>c, <1>h
      <3>2. MayAssign(l.user, l.target) /\ l.target \in Users
        BY <3>1 DEF Checked
      <3>3. /\ Slices[l.user] # Unlimited
            /\ Room(l.user, l.target, store.pool[l.target])
            /\ \A k \in Requests : Holder(k) /\ job[k].user # l.target =>
                  Room(l.user, l.target, job[k].copy[l.target])
        BY <3>2, <1>u, <1>m, RoomOf
      <3>4. ~Holder(j)'
        BY <3>1, <1>h
      <3> QED
        BY <3>1, <3>3, <3>4, <1>c, <1>h
    <2>2. CASE i # j
      <3>1. Assigning(i) /\ job'[i] = job[i] /\ job[i].target \in Users
        BY <2>2, <1>c, <1>h, JobOf
      <3>2. /\ Slices[job[i].user] # Unlimited
            /\ ~store.torn => Room(job[i].user, job[i].target, store.pool[job[i].target])
            /\ \A k \in Requests : Holder(k) /\ job[k].user # job[i].target =>
                  Room(job[i].user, job[i].target, job[k].copy[job[i].target])
        BY <3>1, <1>0 DEF RoomFor, Room
      <3>3. ASSUME Holder(j)', l.user # job[i].target
            PROVE  Room(job[i].user, job[i].target, l.copy[job[i].target])
        BY <3>1, <3>2, <3>3, <1>h, <1>q
      <3> QED
        BY <3>1, <3>2, <3>3, <1>c, <1>h
    <2> QED
      BY <2>1, <2>2
  <1>5. LimitsHold'
    <2> SUFFICES ASSUME NEW k \in Requests, Promoting(k)', pc'[k] \in {"role", "load"}
                 PROVE  AllowsIn(Slices', job'[k].limit, Kids(account', job'[k].user))
      BY DEF LimitsHold
    <2>1. CASE k = j
      <3>1. job'[k] = l /\ (Summable(Children(l.user)) => Allows(l.limit, Children(l.user)))
        BY <2>1, <1>c, <1>h DEF Checked
      <3>2. Summable(Kids(account, l.user))
        <4>1. \A v \in Kids(account, l.user) : Slices[v] # Unlimited /\ v \in Users
          BY <1>0, <1>u, KidsLimited
        <4> QED
          BY <4>1 DEF Summable, Slices
      <3>3. Allows(l.limit, Kids(account, l.user))
        BY <3>1, <3>2, <1>k, <1>u
      <3> QED
        BY <3>1, <3>3, <1>b, AllowsSame
    <2>2. CASE k # j
      BY <2>2, <1>0, <1>b, <1>c, <1>h DEF LimitsHold
    <2> QED
      BY <2>1, <2>2
  <1> QED
    BY <1>1, <1>2, <1>3, <1>4, <1>5

LEMMA PoolGoesOn ==
  ASSUME TypeOK, Shapes, LevelInv, PoolInv, NEW j \in Requests, GoesOn(j)
  PROVE  PoolInv'
  <1> SUFFICES ASSUME Clean'
               PROVE  Limited' /\ PoolsHold' /\ CopiesHold' /\ RoomFor' /\ LimitsHold'
    BY DEF PoolInv, Clean
  <1>g. /\ pc[j] = "assign" /\ MayAssign(job[j].user, job[j].target)
        /\ UNCHANGED <<account, store, mess, stale, job>> /\ Slices' = Slices
        /\ \A k \in Requests : pc'[k] = IF k = j THEN "role" ELSE pc[k]
    BY DEF GoesOn, Slices, Slice
  <1>m. Clean
    BY <1>g DEF Clean
  <1>0. Limited /\ PoolsHold /\ CopiesHold /\ RoomFor /\ LimitsHold
    BY <1>m DEF PoolInv, Clean
  <1>j. /\ job[j].op = "create" /\ job[j].user \in Users /\ job[j].target \in Users
    BY <1>g DEF Shapes, Shape, TypeOK
  <1>h. \A k \in Requests :
          /\ Holder(k)' => Holder(k)
          /\ Assigning(k)' => Assigning(k) \/ k = j
          /\ Promoting(k)' => Promoting(k) /\ pc'[k] = pc[k]
    BY <1>g, <1>j DEF Holder, Holds, Assigning, Promoting, Sure
  <1>1. Limited' /\ PoolsHold'
    BY <1>0, <1>g DEF Limited, PoolsHold
  <1>2. CopiesHold'
    BY <1>0, <1>g, <1>h DEF CopiesHold
  <1>3. RoomFor'
    <2> SUFFICES ASSUME NEW i \in Requests, Assigning(i)'
                 PROVE  /\ Slices[job[i].user] # Unlimited
                        /\ ~store.torn => Room(job[i].user, job[i].target,
                                               store.pool[job[i].target])
                        /\ \A k \in Requests : Holder(k) /\ job[k].user # job[i].target =>
                              Room(job[i].user, job[i].target, job[k].copy[job[i].target])
      BY <1>g, <1>h DEF RoomFor, Room
    <2>1. CASE i = j
      BY <2>1, <1>g, <1>j, <1>m, RoomOf
    <2>2. CASE Assigning(i)
      BY <2>2, <1>0 DEF RoomFor, Room
    <2> QED
      BY <2>1, <2>2, <1>h
  <1>4. LimitsHold'
    BY <1>0, <1>g, <1>h DEF LimitsHold
  <1> QED
    BY <1>1, <1>2, <1>3, <1>4

LEMMA PoolWrite ==
  ASSUME TypeOK, Shapes, PoolInv, NEW j \in Requests, Write(j)
  PROVE  PoolInv'
  <1> SUFFICES ASSUME Clean'
               PROVE  Limited' /\ PoolsHold' /\ CopiesHold' /\ RoomFor' /\ LimitsHold'
    BY DEF PoolInv, Clean
  <1>p. /\ pc[j] = "write" /\ account' = account /\ Slices' = Slices
        /\ mess \subseteq mess' /\ j \notin stale
    BY DEF Write, Stain, Clean, packageVars, Slices, Slice
  <1>0. Limited /\ PoolsHold /\ CopiesHold /\ RoomFor /\ LimitsHold
    BY <1>p DEF PoolInv, Clean
  <1>t. /\ ~store'.torn /\ store'.pool = job[j].copy
        /\ \A k \in Requests \ {j} : pc'[k] = pc[k]
    BY WriteType
  <1>j. Holder(j)
    BY <1>p DEF Holder, Holds
  <1>h. \A k \in Requests :
          /\ ~Holder(k)'
          /\ Assigning(k)' => /\ Assigning(k) /\ job'[k] = job[k]
                              /\ job[k].target # job[j].user
          /\ Promoting(k)' => Promoting(k) /\ job'[k] = job[k] /\ pc'[k] = pc[k]
    BY WriteOvertakes DEF Assigning, Promoting, Sure
  <1>1. Limited'
    BY <1>0, <1>p DEF Limited
  <1>2. PoolsHold'
    BY <1>0, <1>j, <1>p, <1>t DEF PoolsHold, CopiesHold
  <1>3. CopiesHold'
    BY <1>h DEF CopiesHold
  <1>4. RoomFor'
    <2> SUFFICES ASSUME NEW i \in Requests, Assigning(i)'
                 PROVE  /\ Slices[job[i].user] # Unlimited
                        /\ Room(job[i].user, job[i].target, job[j].copy[job[i].target])
      BY <1>h, <1>p, <1>t DEF RoomFor, Room
    <2>1. Assigning(i) /\ job[j].user # job[i].target
      BY <1>h
    <2> QED
      BY <2>1, <1>0, <1>j DEF RoomFor, Room
  <1>5. LimitsHold'
    BY <1>0, <1>h, <1>p DEF LimitsHold
  <1> QED
    BY <1>1, <1>2, <1>3, <1>4, <1>5

\* A role and a parent are written: only the user of the request moves.
LEMMA PoolSetFields ==
  ASSUME TypeOK, Shapes, PoolInv, NEW j \in Requests, SetFields(j)
  PROVE  PoolInv'
  <1> SUFFICES ASSUME Clean'
               PROVE  Limited' /\ PoolsHold' /\ CopiesHold' /\ RoomFor' /\ LimitsHold'
    BY DEF PoolInv, Clean
  <1>p. /\ pc[j] = "role" /\ store' = store /\ There(job[j].user) /\ Slices' = Slices
        /\ mess \subseteq mess' /\ j \notin stale
    BY DEF SetFields, Stain, Clean, packageVars, Slices, Slice
  <1>u. PICK u \in Users : u = job[j].user
    BY <1>p, UserOf
  <1>0. Limited /\ PoolsHold /\ CopiesHold /\ RoomFor /\ LimitsHold
    BY <1>p DEF PoolInv, Clean
  <1>t. /\ \A v \in Users : account'[v] = IF v = u THEN NewFields(j) ELSE account[v]
        /\ \A k \in Requests :
              /\ pc'[k] = IF k = j THEN NextPc(j) ELSE pc[k]
              /\ job'[k] = IF k = j /\ NextPc(j) = "idle" THEN Fresh ELSE job[k]
    BY <1>u, SetFieldsType
  <1>f. NewFields(j).there /\ NewFields(j).parent = NewParent(j)
    BY <1>p, <1>u DEF NewFields, TypeOK, Fields, There
  <1>v. \A v \in Users : /\ account'[v].there => account[v].there
                         /\ account'[v].parent = IF v = u THEN NewParent(j) ELSE account[v].parent
    BY <1>t, <1>f, <1>p, <1>u DEF There
  <1>n. /\ NewParent(j) # None => /\ Assigning(j) /\ NewParent(j) = job[j].target
                                  /\ NextPc(j) = "idle"
        /\ job[j].op = "promote" => NewParent(j) = None
    BY <1>p DEF Assigning, Sure, NewParent, NextPc
  <1>o. \A k \in Requests \ {j} : Sure(k)' =>
          /\ Sure(k) /\ pc'[k] = pc[k] /\ job'[k] = job[k]
          /\ NewParent(j) # None =>
                job[k].user # NewParent(j) /\ job[k].target # NewParent(j)
    BY <1>u, SetFieldsOvertakes
  <1>h. \A k \in Requests :
          /\ Holder(k)' => /\ Holder(k) /\ job'[k] = job[k]
                           /\ NewParent(j) # None => job[k].user # NewParent(j)
          /\ Assigning(k)' => /\ k # j /\ Assigning(k) /\ job'[k] = job[k]
                              /\ NewParent(j) # None => job[k].target # NewParent(j)
          /\ Promoting(k)' /\ pc'[k] \in {"role", "load"} =>
                /\ Promoting(k) /\ pc[k] \in {"role", "load"} /\ job'[k] = job[k]
                /\ NewParent(j) # None => job[k].user # NewParent(j)
    <2> SUFFICES ASSUME NEW k \in Requests
                 PROVE  /\ Holder(k)' => /\ Holder(k) /\ job'[k] = job[k]
                                         /\ NewParent(j) # None => job[k].user # NewParent(j)
                        /\ Assigning(k)' => /\ k # j /\ Assigning(k) /\ job'[k] = job[k]
                                            /\ NewParent(j) # None => job[k].target # NewParent(j)
                        /\ Promoting(k)' /\ pc'[k] \in {"role", "load"} =>
                              /\ Promoting(k) /\ pc[k] \in {"role", "load"} /\ job'[k] = job[k]
                              /\ NewParent(j) # None => job[k].user # NewParent(j)
      OBVIOUS
    <2>1. CASE k = j
      BY <2>1, <1>p, <1>n, <1>t DEF NextPc, Holder, Holds, Assigning, Promoting, Sure
    <2>2. CASE k # j
      BY <2>2, <1>o, <1>t DEF Holder, Holds, Assigning, Promoting, Sure
    <2> QED
      BY <2>1, <2>2
  <1>s. SlicesOK(Slices)
    BY SlicesType
  <1>l. \A r \in Users : /\ Kids(account, r) \in SUBSET Users
                         /\ \A v \in Kids(account, r) : Slices[v] # Unlimited /\ Slices[v] \in Int
    BY <1>0, <1>s, KidsLimited DEF SlicesOK
  \* A reseller that gets no new user, and the one that does.
  <1>a. ASSUME NEW r \in Users, r # NewParent(j), NEW pool \in Limits \cup {NoPool},
               AllowsIn(Slices, pool, Kids(account, r))
        PROVE  AllowsIn(Slices, pool, Kids(account', r))
    <2>1. Kids(account', r) \in SUBSET Kids(account, r)
      BY <1>a, <1>v DEF Kids
    <2>2. \A v \in Kids(account', r) : Slices[v] <= Slices[v]
      BY <1>l, <2>1
    <2> QED
      BY <1>a, <1>l, <1>s, <2>1, <2>2, AllowsLess
  <1>b. ASSUME NEW w \in Users, Slices[w] # Unlimited,
               NEW r \in Users, r # NewParent(j) \/ w = u, NEW pool \in Limits \cup {NoPool},
               Room(w, r, pool)
        PROVE  AllowsIn(Slices, pool, Kids(account', r) \cup (IF r = NewParent(j) THEN {} ELSE {w}))
    <2> DEFINE us == Kids(account, r) \cup {w}
               ws == Kids(account', r) \cup (IF r = NewParent(j) THEN {} ELSE {w})
    <2>1. ws \in SUBSET us
      BY <1>b, <1>v DEF Kids
    <2>2. /\ us \in SUBSET Users
          /\ \A v \in us : Slices[v] # Unlimited /\ Slices[v] \in Int
      BY <1>b, <1>l, <1>s DEF SlicesOK
    <2>3. \A v \in ws : Slices[v] <= Slices[v]
      BY <2>1, <2>2
    <2>4. AllowsIn(Slices, pool, us)
      BY <1>b DEF Room
    <2> HIDE DEF us, ws
    <2>5. AllowsIn(Slices, pool, ws)
      BY <1>s, <2>1, <2>2, <2>3, <2>4, AllowsLess
    <2> QED
      BY <2>5 DEF ws
  <1>c. \A i \in Requests : Assigning(i) =>
          /\ job[i].user \in Users /\ job[i].target \in Users
          /\ Slices[job[i].user] # Unlimited
          /\ ~store.torn => Room(job[i].user, job[i].target, store.pool[job[i].target])
          /\ \A k \in Requests : Holder(k) /\ job[k].user # job[i].target =>
                Room(job[i].user, job[i].target, job[k].copy[job[i].target])
    BY <1>0, JobOf DEF RoomFor, Room
  <1>d. /\ \A r \in Users : store.pool[r] \in Limits \cup {NoPool}
        /\ \A k \in Requests, r \in Users : job[k].copy[r] \in Limits \cup {NoPool}
        /\ \A k \in Requests : job[k].limit \in Limits
    BY JobOf DEF TypeOK, Pools
  <1>1. Limited'
    BY <1>0, <1>c, <1>n, <1>p, <1>u, <1>v DEF Limited
  <1>2. PoolsHold'
    <2> SUFFICES ASSUME NEW r \in Users, ~store.torn, store.pool[r] # NoPool
                 PROVE  AllowsIn(Slices, store.pool[r], Kids(account', r))
      BY <1>p DEF PoolsHold
    <2>1. CASE r = NewParent(j)
      <3>1. Room(u, r, store.pool[r]) /\ Slices[u] # Unlimited
        BY <2>1, <1>c, <1>n, <1>u, UsersAssumption
      <3>2. Kids(account', r) = Kids(account', r) \cup (IF r = NewParent(j) THEN {} ELSE {u})
        BY <2>1
      <3> QED
        BY <3>1, <3>2, <1>b, <1>d
    <2>2. CASE r # NewParent(j)
      BY <2>2, <1>0, <1>a, <1>d DEF PoolsHold
    <2> QED
      BY <2>1, <2>2
  <1>3. CopiesHold'
    <2> SUFFICES ASSUME NEW k \in Requests, Holder(k)', NEW r \in Users, job'[k].copy[r] # NoPool
                 PROVE  AllowsIn(Slices, job'[k].copy[r], Kids(account', r))
      BY <1>p DEF CopiesHold
    <2>0. Holder(k) /\ job'[k] = job[k]
      BY <1>h
    <2>1. CASE r = NewParent(j)
      <3>1. NewParent(j) # None
        BY <2>1, UsersAssumption
      <3>2. Room(u, r, job[k].copy[r]) /\ Slices[u] # Unlimited
        BY <2>0, <2>1, <3>1, <1>c, <1>h, <1>n, <1>u
      <3>3. Kids(account', r) = Kids(account', r) \cup (IF r = NewParent(j) THEN {} ELSE {u})
        BY <2>1
      <3> QED
        BY <2>0, <3>2, <3>3, <1>b, <1>d
    <2>2. CASE r # NewParent(j)
      BY <2>0, <2>2, <1>0, <1>a, <1>d DEF CopiesHold
    <2> QED
      BY <2>1, <2>2
  <1>4. RoomFor'
    <2> SUFFICES ASSUME NEW i \in Requests, Assigning(i)'
                 PROVE  LET us == Kids(account', job[i].target) \cup {job[i].user} IN
                        /\ Slices[job[i].user] # Unlimited
                        /\ ~store.torn => AllowsIn(Slices, store.pool[job[i].target], us)
                        /\ \A k \in Requests : Holder(k) /\ job[k].user # job[i].target =>
                              AllowsIn(Slices, job[k].copy[job[i].target], us)
      BY <1>h, <1>p DEF RoomFor
    <2>1. PICK w \in Users, r \in Users :
             /\ w = job[i].user /\ r = job[i].target /\ Assigning(i) /\ r # NewParent(j)
             /\ Slices[w] # Unlimited
      BY <1>c, <1>h, UsersAssumption
    <2>2. ASSUME NEW pool \in Limits \cup {NoPool}, Room(w, r, pool)
          PROVE  AllowsIn(Slices, pool, Kids(account', r) \cup {w})
      <3>1. AllowsIn(Slices, pool, Kids(account', r) \cup (IF r = NewParent(j) THEN {} ELSE {w}))
        BY <2>1, <2>2, <1>b
      <3> QED
        BY <3>1, <2>1
    <2> QED
      BY <2>1, <2>2, <1>c, <1>d
  <1>5. LimitsHold'
    <2> SUFFICES ASSUME NEW k \in Requests, Promoting(k)', pc'[k] \in {"role", "load"}
                 PROVE  AllowsIn(Slices, job'[k].limit, Kids(account', job'[k].user))
      BY <1>p DEF LimitsHold
    <2>1. /\ Promoting(k) /\ pc[k] \in {"role", "load"} /\ job'[k] = job[k]
          /\ job[k].user \in Users /\ job[k].user # NewParent(j)
      BY <1>h, JobOf, UsersAssumption
    <2> QED
      BY <2>1, <1>0, <1>a, <1>d DEF LimitsHold
  <1> QED
    BY <1>1, <1>2, <1>3, <1>4, <1>5

\* The copy of a promotion or demotion: the store's, but for the pool of its user.
LEMMA PoolLoad ==
  ASSUME TypeOK, Shapes, PoolInv, NEW j \in Requests, Load(j)
  PROVE  PoolInv'
  <1> SUFFICES ASSUME Clean'
               PROVE  Limited' /\ PoolsHold' /\ CopiesHold' /\ RoomFor' /\ LimitsHold'
    BY DEF PoolInv, Clean
  <1>p. /\ pc[j] = "load" /\ ~store.torn /\ UNCHANGED <<account, store, stale, mess>>
        /\ Slices' = Slices
    BY DEF Load, dataVars, packageVars, Slices, Slice
  <1>u. PICK u \in Users : u = job[j].user
    BY <1>p, UserOf
  <1>0. Limited /\ PoolsHold /\ CopiesHold /\ RoomFor /\ LimitsHold
    BY <1>p DEF PoolInv, Clean
  <1>t. /\ \A v \in Users : LoadedCopy(j)[v] =
              IF v # u THEN store.pool[v]
              ELSE IF job[j].op = "promote" THEN job[j].limit ELSE NoPool
        /\ \A k \in Requests :
              /\ pc'[k] = IF k = j THEN "save" ELSE pc[k]
              /\ k # j => job'[k] = job[k]
              /\ job'[k].op = job[k].op /\ job'[k].user = job[k].user
              /\ job'[k].copy = IF k = j THEN LoadedCopy(j) ELSE job[k].copy
    BY <1>u, LoadType
  <1>h. \A k \in Requests :
          /\ Holder(k)' => (k = j /\ Sure(j)) \/ (k # j /\ Holder(k))
          /\ Assigning(k)' => k # j /\ Assigning(k) /\ job'[k] = job[k]
          /\ Promoting(k)' /\ pc'[k] \in {"role", "load"} =>
                Promoting(k) /\ pc[k] \in {"role", "load"} /\ job'[k] = job[k]
    BY <1>p, <1>t DEF Holder, Holds, Assigning, Promoting, Sure
  <1>1. Limited' /\ PoolsHold' /\ LimitsHold'
    BY <1>0, <1>h, <1>p DEF Limited, PoolsHold, LimitsHold
  <1>2. CopiesHold'
    <2> SUFFICES ASSUME NEW k \in Requests, Holder(k)', NEW r \in Users,
                        job'[k].copy[r] # NoPool
                 PROVE  AllowsIn(Slices, job'[k].copy[r], Kids(account, r))
      BY <1>p DEF CopiesHold
    <2>1. CASE k # j
      BY <2>1, <1>0, <1>h, <1>t DEF CopiesHold
    <2>2. CASE k = j /\ r # u
      BY <2>2, <1>0, <1>p, <1>t DEF PoolsHold
    <2>3. CASE k = j /\ r = u
      <3>1. job'[k].copy[r] = job[j].limit /\ job[j].op = "promote"
        BY <2>3, <1>t
      <3>2. Promoting(j)
        BY <2>3, <3>1, <1>h DEF Promoting
      <3> QED
        BY <2>3, <3>1, <3>2, <1>0, <1>p, <1>u DEF LimitsHold
    <2> QED
      BY <2>1, <2>2, <2>3
  <1>3. RoomFor'
    <2> SUFFICES ASSUME NEW i \in Requests, Assigning(i)'
                 PROVE  /\ Slices[job[i].user] # Unlimited
                        /\ Room(job[i].user, job[i].target, store.pool[job[i].target])
                        /\ \A k \in Requests : Holder(k)' /\ job[k].user # job[i].target =>
                              Room(job[i].user, job[i].target, job'[k].copy[job[i].target])
      BY <1>h, <1>p, <1>t DEF RoomFor, Room
    <2>1. Assigning(i) /\ job[i].target \in Users
      BY <1>h, JobOf
    <2>2. /\ Slices[job[i].user] # Unlimited
          /\ Room(job[i].user, job[i].target, store.pool[job[i].target])
          /\ \A k \in Requests : Holder(k) /\ job[k].user # job[i].target =>
                Room(job[i].user, job[i].target, job[k].copy[job[i].target])
      BY <2>1, <1>0, <1>p DEF RoomFor, Room
    <2>3. job[j].user # job[i].target => job'[j].copy[job[i].target] = store.pool[job[i].target]
      BY <2>1, <1>t, <1>u
    <2> QED
      BY <2>2, <2>3, <1>h, <1>t
  <1> QED
    BY <1>1, <1>2, <1>3

\* What a pool allows some users to have, it allows when one of them goes and
\* another comes with no more.
LEMMA AllowsSwap ==
  ASSUME NEW f, SlicesOK(f), NEW g, SlicesOK(g), NEW us \in SUBSET Users,
         NEW u \in us, NEW v \in Users \ us, NEW pool \in Limits \cup {NoPool},
         \A w \in us : f[w] # Unlimited, \A w \in us \ {u} : g[w] <= f[w],
         g[v] <= f[u],
         AllowsIn(f, pool, us)
  PROVE  AllowsIn(g, pool, (us \ {u}) \cup {v})
  <1> DEFINE ks == us \ {u}
             ws == ks \cup {v}
  <1>1. f \in [Users -> Int] /\ g \in [Users -> Int]
    BY DEF SlicesOK
  <1>2. ks \in SUBSET Users /\ ws \in SUBSET Users /\ v \in ws /\ ws \ {v} = ks
    OBVIOUS
  <1>3. Sum(g, ws) = g[v] + Sum(g, ks)
    BY <1>1, <1>2, UsersAssumption, SumRemove
  <1>4. Sum(f, us) = f[u] + Sum(f, ks)
    BY <1>1, UsersAssumption, SumRemove
  <1>5. Sum(g, ks) <= Sum(f, ks)
    <2>1. ks \in SUBSET ks /\ \A x \in ks : g[x] <= f[x]
      OBVIOUS
    <2>2. \A x \in ks \ ks : f[x] >= 0
      OBVIOUS
    <2> HIDE DEF ks
    <2> QED
      BY <1>1, <1>2, <2>1, <2>2, UsersAssumption, SumMono
  <1>6. /\ Sum(g, ks) \in Int /\ Sum(f, ks) \in Int
        /\ g[v] \in Int /\ f[u] \in Int /\ pool \in Int
    <2>1. Sum(g, ks) \in Int /\ Sum(f, ks) \in Int
      <3> HIDE DEF ks
      <3> QED
        BY <1>1, <1>2, UsersAssumption, SumPick
    <2> QED
      BY <1>1, <2>1, BoundsAssumption DEF Limits, Unlimited, NoPool
  <1> HIDE DEF ks, ws
  <1>7. Sum(g, ws) \in Int /\ Sum(f, us) \in Int /\ Sum(g, ws) <= Sum(f, us)
    BY <1>3, <1>4, <1>5, <1>6
  <1>8. AllowsIn(g, pool, ws)
    BY <1>6, <1>7 DEF AllowsIn
  <1> QED
    BY <1>8 DEF ws, ks

\* An account that changes its name takes a package with it that is no larger,
\* or the step is marked.
LEMMA PoolRename ==
  ASSUME TypeOK, TypeOK', Shapes, PoolInv, NEW u \in Users, NEW v \in Users, Rename(u, v)
  PROVE  PoolInv'
  <1> DEFINE p == account[u].parent
  <1> SUFFICES ASSUME mess' \cap {"stale", "package", "unread"} = {}
               PROVE  Limited' /\ PoolsHold' /\ CopiesHold' /\ RoomFor' /\ LimitsHold'
    BY DEF PoolInv
  <1>m. /\ mess \subseteq mess'
        /\ p # None /\ Grows(Slice(u), cap[package'[v]]) => "package" \in mess'
    BY DEF Rename
  <1>0. Limited /\ PoolsHold /\ CopiesHold /\ RoomFor /\ LimitsHold
    BY <1>m DEF PoolInv
  <1>t. /\ account'[v] = account[u] /\ account'[u] = Absent
        /\ There(u) /\ ~There(v) /\ u # v
        /\ \A w \in Users \ {u, v} : account'[w] = account[w]
        /\ \A w \in Users \ {u, v} : package'[w] = package[w]
        /\ UNCHANGED <<store, cap, pc, job>>
    BY Renamed
  <1>a. account \in [Users -> Fields] /\ account[v] = Absent
    BY <1>t DEF TypeOK
  <1>s. /\ SlicesOK(Slices) /\ SlicesOK(Slices')
        /\ \A w \in Users \ {u, v} : Slices'[w] = Slices[w]
    BY <1>t, SlicesType DEF Slices, Slice
  <1>i. \A w \in Users : Slices[w] \in Int /\ Slices'[w] \in Int
    BY <1>s DEF SlicesOK
  <1>g. p # None => Slices[u] # Unlimited /\ Slices'[v] # Unlimited /\ Slices'[v] <= Slices[u]
    <2> SUFFICES ASSUME p # None
                 PROVE  Slices[u] # Unlimited /\ Slices'[v] # Unlimited /\ Slices'[v] <= Slices[u]
      OBVIOUS
    <2>1. Slices[u] # Unlimited
      BY <1>0 DEF Limited
    <2>2. ~Grows(Slices[u], Slices'[v])
      BY <1>m, <1>t DEF Slices, Slice
    <2> QED
      BY <2>1, <2>2, <1>i DEF Grows
  <1>o. \A k \in Requests : Sure(k)' =>
          /\ Sure(k) /\ job[k].user # u /\ job[k].user # v
          /\ p # None => job[k].user # p /\ job[k].target # p
    BY <1>t, RenameOvertakes DEF Sure
  <1>h. \A k \in Requests :
          /\ Holder(k)' => Holder(k)
          /\ Assigning(k)' => Assigning(k) /\ Sure(k)'
          /\ Promoting(k)' => Promoting(k) /\ Sure(k)'
    <2>1. \A k \in Requests : Holds(k)' => Holds(k) /\ pc'[k] # "idle"
      BY <1>t DEF Holds
    <2> QED
      BY <2>1, <1>o, <1>t, RenameOvertakes DEF Holder, Assigning, Promoting
  <1>n. ASSUME NEW r \in Users
        PROVE  r # None
    BY UsersAssumption
  <1>k. ASSUME NEW r \in Users, r # p
        PROVE  /\ Kids(account', r) = Kids(account, r)
               /\ \A w \in Kids(account, r) : w # u /\ w # v
    <2>1. \A w \in Kids(account, r) : w # u /\ w # v
      BY <1>k, <1>t DEF Kids, There
    <2>2. ASSUME NEW w \in Users
          PROVE  account'[w].there /\ account'[w].parent = r
                    <=> account[w].there /\ account[w].parent = r
      <3>1. CASE w = u
        BY <3>1, <1>k, <1>t, AbsentType
      <3>2. CASE w = v
        BY <3>2, <1>k, <1>t, <1>a, AbsentType
      <3>3. CASE w \notin {u, v}
        BY <3>3, <1>t
      <3> QED
        BY <3>1, <3>2, <3>3
    <2> QED
      BY <2>1, <2>2 DEF Kids
  <1>p. ASSUME p \in Users
        PROVE  /\ u \in Kids(account, p) /\ v \notin Kids(account, p)
               /\ Kids(account', p) = (Kids(account, p) \ {u}) \cup {v}
    <2>1. u \in Kids(account, p) /\ v \notin Kids(account, p)
      BY <1>t DEF Kids, There
    <2>2. ASSUME NEW w \in Users
          PROVE  w \in Kids(account', p) <=> w \in (Kids(account, p) \ {u}) \cup {v}
      <3>1. CASE w = u
        BY <3>1, <1>t, AbsentType DEF Kids
      <3>2. CASE w = v
        BY <3>2, <1>t DEF Kids, There
      <3>3. CASE w \notin {u, v}
        BY <3>3, <1>t DEF Kids
      <3> QED
        BY <3>1, <3>2, <3>3
    <2>3. Kids(account', p) \subseteq Users /\ Kids(account, p) \subseteq Users
      BY DEF Kids
    <2> QED
      BY <2>1, <2>2, <2>3
  <1>b. ASSUME NEW r \in Users, NEW pool \in Limits \cup {NoPool},
               AllowsIn(Slices, pool, Kids(account, r))
        PROVE  AllowsIn(Slices', pool, Kids(account', r))
    <2>1. /\ Kids(account, r) \in SUBSET Users
          /\ \A w \in Kids(account, r) : Slices[w] # Unlimited
      BY <1>0, KidsLimited
    <2>2. CASE r = p
      <3>1. PICK us \in SUBSET Users : us = Kids(account, r)
        BY <2>1
      <3>2. /\ u \in us /\ v \in Users \ us /\ Kids(account', r) = (us \ {u}) \cup {v}
        BY <3>1, <2>2, <1>p
      <3>3. /\ \A w \in us : Slices[w] # Unlimited
            /\ \A w \in us \ {u} : Slices'[w] <= Slices[w]
        BY <2>1, <3>1, <3>2, <1>s, <1>i
      <3>4. Slices'[v] <= Slices[u]
        BY <2>2, <1>g, <1>n
      <3>5. AllowsIn(Slices', pool, (us \ {u}) \cup {v})
        BY <1>b, <3>1, <3>2, <3>3, <3>4, <1>s, AllowsSwap
      <3> QED
        BY <3>2, <3>5
    <2>3. CASE r # p
      <3>1. /\ Kids(account', r) = Kids(account, r)
            /\ \A w \in Kids(account, r) : Slices'[w] <= Slices[w]
        BY <2>1, <2>3, <1>k, <1>s, <1>i
      <3>2. Kids(account, r) \in SUBSET Kids(account, r)
        OBVIOUS
      <3> QED
        BY <1>b, <2>1, <3>1, <3>2, <1>s, AllowsLess
    <2> QED
      BY <2>2, <2>3
  <1>1. Limited'
    <2> SUFFICES ASSUME NEW w \in Users, account'[w].parent # None
                 PROVE  Slices'[w] # Unlimited
      BY DEF Limited
    <2>1. w # u
      BY <1>t, AbsentType
    <2>2. CASE w = v
      BY <2>2, <1>g, <1>t
    <2>3. CASE w # v
      BY <2>1, <2>3, <1>0, <1>s, <1>t DEF Limited
    <2> QED
      BY <2>2, <2>3
  <1>2. PoolsHold'
    <2>1. \A r \in Users : store.pool[r] \in Limits \cup {NoPool}
      BY DEF TypeOK, Pools
    <2> QED
      BY <1>0, <1>b, <1>t, <2>1 DEF PoolsHold
  <1>3. CopiesHold'
    BY <1>0, <1>b, <1>h, <1>t, JobOf DEF CopiesHold
  <1>4. RoomFor'
    <2> SUFFICES ASSUME NEW j \in Requests, Assigning(j)'
                 PROVE  /\ Slices'[job'[j].user] # Unlimited
                        /\ ~store'.torn => AllowsIn(Slices', store'.pool[job'[j].target],
                                                    Kids(account', job'[j].target) \cup {job'[j].user})
                        /\ \A k \in Requests : Holder(k)' /\ job'[k].user # job'[j].target =>
                              AllowsIn(Slices', job'[k].copy[job'[j].target],
                                       Kids(account', job'[j].target) \cup {job'[j].user})
      BY DEF RoomFor
    <2>1. /\ Assigning(j) /\ job'[j] = job[j]
          /\ job[j].user \in Users \ {u, v} /\ job[j].target \in Users
          /\ job[j].target # p
      BY <1>h, <1>o, <1>t, <1>n, JobOf
    <2>2. PICK c \in Users \ {u, v} : c = job[j].user
      BY <2>1
    <2>3. PICK r \in Users : r = job[j].target
      BY <2>1
    <2>4. Slices[c] # Unlimited /\ Slices'[c] = Slices[c]
      BY <1>0, <1>s, <2>1, <2>2 DEF RoomFor
    <2>5. ASSUME NEW pool \in Limits \cup {NoPool},
                 AllowsIn(Slices, pool, Kids(account, r) \cup {c})
          PROVE  AllowsIn(Slices', pool, Kids(account', r) \cup {c})
      <3>1. PICK us \in SUBSET Users : us = Kids(account, r) \cup {c}
        BY <1>0, KidsLimited
      <3>2. us = Kids(account', r) \cup {c} /\ us \in SUBSET us
        BY <2>1, <2>3, <3>1, <1>k
      <3>3. \A w \in us : Slices[w] # Unlimited
        BY <1>0, <2>4, <3>1, KidsLimited
      <3>4. \A w \in us : Slices'[w] <= Slices[w]
        BY <2>1, <2>3, <3>1, <1>k, <1>s, <1>i
      <3>5. AllowsIn(Slices', pool, us)
        BY <2>5, <3>1, <3>2, <3>3, <3>4, <1>s, AllowsLess
      <3> QED
        BY <3>2, <3>5
    <2>6. ~store'.torn => AllowsIn(Slices', store'.pool[r], Kids(account', r) \cup {c})
      <3>1. store.pool[r] \in Limits \cup {NoPool}
        BY DEF TypeOK, Pools
      <3> QED
        BY <1>0, <1>t, <2>1, <2>2, <2>3, <2>5, <3>1 DEF RoomFor
    <2>7. ASSUME NEW k \in Requests, Holder(k)', job'[k].user # r
          PROVE  AllowsIn(Slices', job'[k].copy[r], Kids(account', r) \cup {c})
      <3>1. Holder(k) /\ job'[k] = job[k] /\ job[k].copy[r] \in Limits \cup {NoPool}
        BY <2>7, <1>h, <1>t, JobOf
      <3>2. AllowsIn(Slices, job[k].copy[r], Kids(account, r) \cup {c})
        BY <1>0, <2>1, <2>2, <2>3, <2>7, <3>1 DEF RoomFor
      <3> QED
        BY <2>5, <3>1, <3>2
    <2> QED
      BY <2>1, <2>2, <2>3, <2>4, <2>6, <2>7
  <1>5. LimitsHold'
    <2> SUFFICES ASSUME NEW k \in Requests, Promoting(k)', pc'[k] \in {"role", "load"}
                 PROVE  AllowsIn(Slices', job'[k].limit, Kids(account', job'[k].user))
      BY DEF LimitsHold
    <2>1. /\ Promoting(k) /\ pc[k] \in {"role", "load"} /\ job'[k] = job[k]
          /\ job[k].user \in Users /\ job[k].limit \in Limits
      BY <1>h, <1>t, JobOf
    <2>2. AllowsIn(Slices, job[k].limit, Kids(account, job[k].user))
      BY <1>0, <2>1 DEF LimitsHold
    <2> QED
      BY <1>b, <2>1, <2>2
  <1> QED
    BY <1>1, <1>2, <1>3, <1>4, <1>5

LEMMA PoolNext ==
  ASSUME TypeOK, Shapes, LevelInv, PoolInv, [Next]_vars
  PROVE  PoolInv'
  <1>1. TypeOK'
    BY ShapesNext
  <1>2. CASE mess' \cap {"unread", "package"} # {}
    BY <1>2 DEF PoolInv
  <1>3. CASE \E u, v \in Users : Rename(u, v)
    BY <1>1, <1>3, PoolRename
  <1> QED
    BY <1>1, <1>2, <1>3, NextCases, PoolFade, PoolPackage, PoolReset, PoolBegin, PoolGoesOn,
       PoolSetFields, PoolLoad, PoolWrite

\* As long as no package of a reseller's user was made larger, or lost to a
\* larger one by a torn file or when the user changed its name, and no request wrote on the strength
\* of an overtaken check or of a file it could not read, the packages of the users
\* of every reseller fit its pool together: over every order of promotions, new
\* quotas, assignments, creations, deletions and renames, with other requests
\* between the check and the write of each, for any number of users and requests.
THEOREM PoolCoversHolds == Spec => []PoolCovers
  <1>1. Init => TypeOK /\ Shapes /\ LevelInv /\ PoolInv
    BY TypeInit, ShapesInit, LevelInit, PoolInit
  <1>2. TypeOK /\ Shapes /\ LevelInv /\ PoolInv /\ [Next]_vars
          => (TypeOK /\ Shapes /\ LevelInv /\ PoolInv)'
    BY ShapesNext, LevelNext, PoolNext
  <1>3. PoolInv => PoolCovers
    <2> SUFFICES ASSUME PoolInv, Clean, NEW r \in Users, HasRecord(r)
                 PROVE  Allows(store.pool[r], Children(r))
      BY DEF PoolCovers, Clean
    <2>1. AllowsIn(Slices, store.pool[r], Kids(account, r))
      BY DEF PoolInv, Clean, PoolsHold, HasRecord
    <2>2. Children(r) = Kids(account, r)
      BY KidsSame
    <2> QED
      BY <2>1, <2>2, AllowsSame
  <1> QED
    BY <1>1, <1>2, <1>3, PTL DEF Spec
=============================================================================
