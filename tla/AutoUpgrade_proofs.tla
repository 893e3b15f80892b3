------------------------- MODULE AutoUpgrade_proofs -------------------------
(* Proofs about AutoUpgrade for any number of checks and of Owner's saves.     *)
EXTENDS AutoUpgrade, TLAPS

\* A check that is going to start an upgrade has settings that allow it.
Armed ==
    \A t \in Tasks :
        /\ pc[t] = "start" => local[t].after = "start"
        /\ local[t].after = "start" =>
              /\ pc[t] \in {"create", "write", "rename", "start"}
              /\ local[t].cfg.enabled
              /\ local[t].cfg.security => local[t].security

\* Until it is spoilt, at most one save is under way and owns the temporary file, and
\* every check that is not misled has the settings that stand.
Orderly ==
    /\ Loaded = chosen
    /\ \A t \in Tasks :
          /\ pc[t] = "write" => fd[t] = "tmp" /\ tmp = Empty
          /\ pc[t] = "rename" => tmp = local[t].cfg
          /\ \A x \in Tasks : Saving(t) /\ Saving(x) => t = x
    /\ \A c \in Checks : pc[c] # "idle" /\ c \notin misled => local[c].cfg = chosen

IInv == TypeOK /\ Armed /\ (~spoilt => Orderly)

-----------------------------------------------------------------------------
(* Moves of one task                                                           *)

LEMMA GotoMoves ==
  ASSUME TypeOK, Armed, NEW t \in Tasks, NEW label \in Pcs, Goto(t, label),
         label = "start" => local[t].after = "start",
         label \in {"idle", "lookup"} => local[t].after # "start"
  PROVE  /\ pc' \in [Tasks -> Pcs] /\ local' \in [Tasks -> Locals] /\ Armed'
         /\ pc'[t] = label /\ local'[t] = local[t]
         /\ \A x \in Tasks \ {t} : pc'[x] = pc[x] /\ local'[x] = local[x]
  <1>1. /\ pc' \in [Tasks -> Pcs] /\ local' = local
        /\ pc'[t] = label
        /\ \A x \in Tasks \ {t} : pc'[x] = pc[x]
    BY DEF TypeOK, Goto
  <1>2. label = "start" \/ label = "create" \/ label = "write" \/ label = "rename"
        \/ local[t].after # "start"
    BY DEF Pcs
  <1>3. ASSUME NEW x \in Tasks, local[x].after = "start"
        PROVE  pc'[x] \in {"create", "write", "rename", "start"}
    BY <1>1, <1>2, <1>3 DEF Armed
  <1>4. Armed'
    BY <1>1, <1>3 DEF Armed
  <1> QED
    BY <1>1, <1>4 DEF TypeOK

LEMMA ReturnMoves ==
  ASSUME TypeOK, Armed, NEW t \in Tasks, Return(t)
  PROVE  /\ pc' \in [Tasks -> Pcs] /\ local' \in [Tasks -> Locals] /\ Armed'
         /\ pc'[t] = "idle"
         /\ \A x \in Tasks \ {t} : pc'[x] = pc[x] /\ local'[x] = local[x]
  <1>1. NoLocals \in Locals /\ NoLocals.after = "idle"
    BY DEF NoLocals, Locals, Settings, Default
  <1>2. /\ pc' \in [Tasks -> Pcs] /\ local' \in [Tasks -> Locals]
        /\ pc'[t] = "idle" /\ local'[t] = NoLocals
        /\ \A x \in Tasks \ {t} : pc'[x] = pc[x] /\ local'[x] = local[x]
    BY <1>1 DEF TypeOK, Return, Pcs
  <1>3. Armed'
    BY <1>1, <1>2 DEF Armed
  <1> QED
    BY <1>2, <1>3

LEMMA ContinueMoves ==
  ASSUME TypeOK, Armed, NEW t \in Tasks, Continue(t)
  PROVE  /\ pc' \in [Tasks -> Pcs] /\ local' \in [Tasks -> Locals] /\ Armed'
         /\ pc'[t] \in {"idle", "start"}
         /\ pc'[t] = "start" => local'[t] = local[t]
         /\ \A x \in Tasks \ {t} : pc'[x] = pc[x] /\ local'[x] = local[x]
  <1>1. CASE local[t].after = "idle"
    BY <1>1, ReturnMoves DEF Continue
  <1>2. CASE local[t].after = "start"
    <2>1. Goto(t, "start") /\ "start" \in Pcs
      BY <1>2 DEF Continue, Pcs
    <2> QED
      BY <1>2, <2>1, GotoMoves
  <1> QED
    BY <1>1, <1>2 DEF Continue

LEMMA ContentTypes ==
  /\ Settings \subseteq Contents /\ {Missing, Empty, Torn} \subseteq Contents
  /\ Empty \notin Settings /\ Missing \notin Settings /\ Default \in Settings
  BY ContentAssumption DEF Contents, Default, Settings

-----------------------------------------------------------------------------
(* The steps of a save                                                         *)

LEMMA SaveStep ==
  ASSUME IInv, NEW t \in Tasks, Save(t)
  PROVE  IInv'
  <1> USE DEF IInv, diskVars, panelVars, ghostVars
  <1>0. local[t] \in Locals /\ local[t].cfg \in Settings /\ fd[t] \in {"none", "tmp", "file", "gone"}
    BY DEF TypeOK, Locals
  <1>1. CASE SaveCreate(t)
    <2>1. Goto(t, "write") /\ pc[t] = "create" /\ "write" \in Pcs
      BY <1>1 DEF SaveCreate, Pcs
    <2>2. /\ pc' \in [Tasks -> Pcs] /\ local' \in [Tasks -> Locals] /\ Armed'
          /\ pc'[t] = "write" /\ local'[t] = local[t]
          /\ \A x \in Tasks \ {t} : pc'[x] = pc[x] /\ local'[x] = local[x]
      BY <2>1, GotoMoves
    <2>3. TypeOK'
      BY <1>1, <2>2, ContentTypes DEF SaveCreate, TypeOK
    <2>4. ASSUME ~spoilt' PROVE Orderly'
      <3>1. ~spoilt /\ \A x \in Tasks \ {t} : ~Saving(x)
        BY <1>1, <2>4 DEF SaveCreate, TypeOK
      <3>2. fd'[t] = "tmp" /\ tmp' = Empty
        BY <1>1 DEF SaveCreate, TypeOK
      <3>3. \A x \in Tasks \ {t} : pc'[x] \notin {"write", "rename"}
        BY <2>2, <3>1 DEF Saving
      <3>4. (Loaded = chosen)'
        BY <1>1, <3>1 DEF SaveCreate, Orderly, Loaded
      <3>5. \A c \in Checks : pc'[c] # "idle" /\ c \notin misled' => local'[c].cfg = chosen'
        BY <1>1, <2>1, <2>2, <3>1 DEF SaveCreate, Orderly, Tasks
      <3> QED
        BY <2>2, <3>2, <3>3, <3>4, <3>5 DEF Orderly, Saving
    <2> QED
      BY <2>2, <2>3, <2>4
  <1>2. CASE SaveWrite(t)
    <2>1. Goto(t, "rename") /\ pc[t] = "write" /\ "rename" \in Pcs
      BY <1>2 DEF SaveWrite, Pcs
    <2>2. /\ pc' \in [Tasks -> Pcs] /\ local' \in [Tasks -> Locals] /\ Armed'
          /\ pc'[t] = "rename" /\ local'[t] = local[t]
          /\ \A x \in Tasks \ {t} : pc'[x] = pc[x] /\ local'[x] = local[x]
      BY <2>1, GotoMoves
    <2>3. file' \in Contents /\ tmp' \in Contents
      BY <1>0, <1>2, ContentTypes DEF SaveWrite, TypeOK, Written
    <2>4. fd' \in [Tasks -> {"none", "tmp", "file", "gone"}]
      BY <1>2 DEF SaveWrite, TypeOK
    <2>5. TypeOK'
      BY <1>2, <2>2, <2>3, <2>4 DEF SaveWrite, TypeOK
    <2>6. ASSUME ~spoilt' PROVE Orderly'
      <3>1. Orderly /\ fd[t] = "tmp" /\ tmp = Empty
        BY <1>2, <2>1, <2>6 DEF SaveWrite, Orderly
      <3>2. tmp' = local[t].cfg /\ file' = file
        BY <1>2, <3>1 DEF SaveWrite, Written
      <3>3. \A x \in Tasks \ {t} : pc'[x] \notin {"write", "rename"}
        BY <2>1, <2>2, <3>1 DEF Orderly, Saving
      <3>4. (Loaded = chosen)'
        BY <1>2, <3>1, <3>2 DEF SaveWrite, Orderly, Loaded
      <3>5. \A c \in Checks : pc'[c] # "idle" /\ c \notin misled' => local'[c].cfg = chosen'
        BY <1>2, <2>1, <2>2, <3>1 DEF SaveWrite, Orderly, Tasks
      <3> QED
        BY <2>2, <3>2, <3>3, <3>4, <3>5 DEF Orderly, Saving
    <2> QED
      BY <2>2, <2>5, <2>6
  <1>3. CASE SaveRename(t)
    <2>1. Continue(t) /\ pc[t] = "rename" /\ file' = tmp /\ tmp' = Missing
      BY <1>3 DEF SaveRename
    <2>2. /\ pc' \in [Tasks -> Pcs] /\ local' \in [Tasks -> Locals] /\ Armed'
          /\ pc'[t] \in {"idle", "start"}
          /\ pc'[t] = "start" => local'[t] = local[t]
          /\ \A x \in Tasks \ {t} : pc'[x] = pc[x] /\ local'[x] = local[x]
      BY <2>1, ContinueMoves
    <2>3. fd' \in [Tasks -> {"none", "tmp", "file", "gone"}]
      BY <1>3 DEF SaveRename, TypeOK, Renamed
    <2>4. chosen' \in Settings /\ misled' \subseteq Checks /\ spoilt' \in BOOLEAN
      BY <1>0, <1>3 DEF SaveRename, TypeOK
    <2>5. TypeOK'
      BY <1>3, <2>1, <2>2, <2>3, <2>4, ContentTypes DEF SaveRename, TypeOK
    <2>6. ASSUME ~spoilt' PROVE Orderly'
      <3>1. ~spoilt /\ Orderly
        BY <1>3, <2>6 DEF SaveRename
      <3>2. file' = local[t].cfg
        BY <2>1, <3>1 DEF Orderly
      <3>3. \A x \in Tasks : pc'[x] \notin {"write", "rename"}
        BY <2>1, <2>2, <3>1 DEF Orderly, Saving
      <3>4. CASE t \in Owners
        <4>1. chosen' = local[t].cfg /\ misled' = {c \in Checks : pc[c] # "idle"}
          BY <1>3, <3>4 DEF SaveRename
        <4>2. \A c \in Checks : c # t
          BY <3>4, TasksAssumption
        <4>3. \A c \in Checks : pc'[c] # "idle" => c \in misled'
          BY <2>2, <4>1, <4>2 DEF Tasks
        <4>4. (Loaded = chosen)'
          BY <1>0, <3>2, <4>1 DEF Loaded
        <4> QED
          BY <3>3, <4>3, <4>4 DEF Orderly, Saving
      <3>5. CASE t \notin Owners
        <4>1. t \in Checks /\ t \notin misled /\ UNCHANGED <<chosen, misled>>
          BY <1>3, <2>6, <3>5 DEF SaveRename, Tasks, TypeOK
        <4>2. local[t].cfg = chosen
          BY <2>1, <3>1, <4>1 DEF Orderly
        <4>3. \A c \in Checks : pc'[c] # "idle" /\ c \notin misled' => local'[c].cfg = chosen'
          BY <2>2, <3>1, <4>1, <4>2 DEF Orderly, Tasks
        <4>4. (Loaded = chosen)'
          BY <1>0, <3>2, <4>1, <4>2 DEF Loaded
        <4> QED
          BY <3>3, <4>3, <4>4 DEF Orderly, Saving
      <3> QED
        BY <3>4, <3>5
    <2> QED
      BY <2>2, <2>5, <2>6
  <1>4. CASE SaveFails(t)
    <2>1. Continue(t) /\ pc[t] \in {"create", "write", "rename"} /\ UNCHANGED ghostVars
      BY <1>4 DEF SaveFails
    <2>2. /\ pc' \in [Tasks -> Pcs] /\ local' \in [Tasks -> Locals] /\ Armed'
          /\ pc'[t] \in {"idle", "start"}
          /\ pc'[t] = "start" => local'[t] = local[t]
          /\ \A x \in Tasks \ {t} : pc'[x] = pc[x] /\ local'[x] = local[x]
      BY <2>1, ContinueMoves
    <2>3. TypeOK'
      BY <1>4, <2>2, ContentTypes DEF SaveFails, TypeOK
    <2>4. ASSUME ~spoilt' PROVE Orderly'
      <3>1. Orderly
        BY <2>1, <2>4
      <3>2. file' = file
        BY <1>4, <3>1 DEF SaveFails, Orderly
      <3>3. \A x \in Tasks \ {t} : pc[x] \in {"write", "rename"} => pc[t] = "create"
        BY <2>1, <3>1 DEF Orderly, Saving
      <3>4. pc[t] = "create" => tmp' = tmp
        BY <1>4 DEF SaveFails
      <3>5. \A x \in Tasks \ {t} : fd'[x] = fd[x]
        BY <1>4 DEF SaveFails, TypeOK
      <3>6. \A x \in Tasks \ {t} : Saving(x)' <=> Saving(x)
        BY <2>2 DEF Saving
      <3>7. ASSUME NEW x \in Tasks
            PROVE  /\ pc'[x] = "write" => fd'[x] = "tmp" /\ tmp' = Empty
                   /\ pc'[x] = "rename" => tmp' = local'[x].cfg
                   /\ \A y \in Tasks : Saving(x)' /\ Saving(y)' => x = y
        BY <2>2, <3>1, <3>3, <3>4, <3>5 DEF Orderly, Saving
      <3>8. (Loaded = chosen)'
        BY <2>1, <3>1, <3>2 DEF Orderly, Loaded
      <3>9. \A c \in Checks : pc'[c] # "idle" /\ c \notin misled' => local'[c].cfg = chosen'
        BY <2>1, <2>2, <3>1 DEF Orderly, Tasks
      <3> QED
        BY <3>7, <3>8, <3>9 DEF Orderly
    <2> QED
      BY <2>2, <2>3, <2>4
  <1> QED
    BY <1>1, <1>2, <1>3, <1>4 DEF Save

-----------------------------------------------------------------------------
(* The other steps                                                             *)

LEMMA BeginStep ==
  ASSUME IInv,
         \/ \E o \in Owners, settings \in Settings : PostBegin(o, settings)
         \/ \E c \in Checks : (\E applying \in BOOLEAN : CheckBegin(c, applying))
                              \/ LookupEnds(c)
  PROVE  IInv'
  <1> USE DEF IInv, diskVars, panelVars, ghostVars
  <1>1. PICK t \in Tasks :
           /\ \/ /\ t \in Owners
                 /\ \E settings \in Settings : PostBegin(t, settings)
              \/ /\ t \in Checks
                 /\ \/ \E applying \in BOOLEAN : CheckBegin(t, applying)
                    \/ LookupEnds(t)
    BY DEF Tasks
  <1>2. /\ pc[t] \in {"idle", "lookup"}
        /\ local[t].after # "start"
    BY <1>1 DEF PostBegin, CheckBegin, LookupEnds, Armed
  <1>3. Loads \subseteq Settings
    BY ContentTypes DEF Loads, Loaded
  <1>4. /\ pc' \in [Tasks -> Pcs] /\ pc'[t] \in {"create", "lookup"}
        /\ \A x \in Tasks \ {t} : pc'[x] = pc[x] /\ local'[x] = local[x]
        /\ UNCHANGED <<file, tmp, fd, up, busy, chosen, spoilt>>
        /\ t \in Checks => misled' \in {misled, misled \ {t}, misled \cup {t}}
        /\ t \notin Checks => misled' = misled
    <2>1. CASE t \in Owners /\ \E settings \in Settings : PostBegin(t, settings)
      BY <2>1, TasksAssumption DEF PostBegin, TypeOK, Pcs
    <2>2. CASE t \in Checks /\ \E applying \in BOOLEAN : CheckBegin(t, applying)
      BY <2>2 DEF CheckBegin, TypeOK, Pcs
    <2>3. CASE t \in Checks /\ LookupEnds(t)
      BY <2>3 DEF LookupEnds, TypeOK, Pcs
    <2> QED
      BY <1>1, <2>1, <2>2, <2>3
  <1>5. local' \in [Tasks -> Locals]
    <2>1. CASE LookupEnds(t)
      <3>1. local[t] \in Locals /\ DOMAIN local = Tasks
        BY DEF TypeOK
      <3>2. ASSUME NEW security \in BOOLEAN,
                   local' = [local EXCEPT ![t].security = security, ![t].after = "start"]
            PROVE  local' \in [Tasks -> Locals]
        BY <3>1, <3>2 DEF TypeOK, Locals
      <3> QED
        BY <2>1, <3>2 DEF LookupEnds, TypeOK
    <2>2. CASE \E settings \in Settings : PostBegin(t, settings)
      BY <2>2 DEF PostBegin, TypeOK, Locals
    <2>3. CASE \E applying \in BOOLEAN : CheckBegin(t, applying)
      BY <2>3, <1>3 DEF CheckBegin, TypeOK, Locals
    <2> QED
      BY <1>1, <2>1, <2>2, <2>3
  <1>6. TypeOK'
    BY <1>4, <1>5 DEF TypeOK
  <1>7. local'[t].after = "start" =>
           /\ pc'[t] = "create" /\ local'[t].cfg.enabled
           /\ local'[t].cfg.security => local'[t].security
    <2>1. CASE LookupEnds(t)
      <3>1. pc'[t] = "create"
        BY <2>1 DEF LookupEnds, TypeOK
      <3>2. CASE UNCHANGED local
        BY <1>2, <3>2
      <3>3. CASE local' # local
        <4>1. PICK security \in BOOLEAN :
                 /\ local[t].cfg.enabled
                 /\ local[t].cfg.security => security
                 /\ local' = [local EXCEPT ![t].security = security,
                                         ![t].after = "start"]
          BY <2>1, <3>3 DEF LookupEnds
        <4>2. /\ local'[t].cfg = local[t].cfg
              /\ local'[t].security = security
          BY <4>1 DEF TypeOK, Locals
        <4> QED
          BY <3>1, <4>1, <4>2
      <3> QED
        BY <3>2, <3>3
    <2>2. ASSUME NEW settings \in Settings, PostBegin(t, settings)
          PROVE  local'[t].after = local[t].after
      BY <2>2 DEF PostBegin, TypeOK, Locals
    <2>3. ASSUME NEW applying \in BOOLEAN, CheckBegin(t, applying)
          PROVE  local'[t].after = local[t].after
      <3>1. PICK cfg \in Loads :
               local' = [local EXCEPT ![t].cfg = cfg, ![t].apply = applying]
        BY <2>3 DEF CheckBegin
      <3> QED
        BY <3>1 DEF TypeOK, Locals
    <2> QED
      BY <1>1, <1>2, <2>1, <2>2, <2>3
  <1>8. Armed'
    BY <1>4, <1>7 DEF Armed
  <1>9. ASSUME ~spoilt' PROVE Orderly'
    <2>1. Orderly
      BY <1>4, <1>9
    <2>2. (Loaded = chosen)'
      BY <1>4, <2>1 DEF Orderly, Loaded
    <2>3. \A x \in Tasks : Saving(x)' => Saving(x) /\ x # t
      BY <1>4 DEF Saving
    <2>4. ASSUME NEW c \in Checks, pc'[c] # "idle", c \notin misled'
          PROVE  local'[c].cfg = chosen'
      <3>1. CASE c # t
        BY <1>4, <2>1, <2>4, <3>1 DEF Orderly, Tasks
      <3>2. CASE c = t /\ LookupEnds(t)
        <4>1. pc[t] = "lookup" /\ misled' = misled
          BY <3>2 DEF LookupEnds
        <4>2. local'[t].cfg = local[t].cfg
          <5>1. local' = local
                \/ \E b \in BOOLEAN : local' = [local EXCEPT ![t].security = b,
                                                           ![t].after = "start"]
            BY <3>2 DEF LookupEnds
          <5>2. local[t] \in Locals /\ DOMAIN local = Tasks
            BY DEF TypeOK
          <5> QED
            BY <5>1, <5>2 DEF Locals
        <4> QED
          BY <1>4, <2>1, <2>4, <3>2, <4>1, <4>2 DEF Orderly
      <3>3. CASE c = t /\ ~LookupEnds(t)
        <4>1. PICK applying \in BOOLEAN : CheckBegin(t, applying)
          BY <1>1, <3>3, TasksAssumption
        <4>2. chosen = Loaded /\ chosen' = chosen
          BY <1>4, <2>1 DEF Orderly
        <4>3. local'[t].cfg = Loaded
          BY <2>4, <3>3, <4>1 DEF CheckBegin, TypeOK, Locals
        <4> QED
          BY <3>3, <4>2, <4>3
      <3> QED
        BY <3>1, <3>2, <3>3
    <2>5. ASSUME NEW x \in Tasks
          PROVE  /\ pc'[x] = "write" => fd'[x] = "tmp" /\ tmp' = Empty
                 /\ pc'[x] = "rename" => tmp' = local'[x].cfg
                 /\ \A y \in Tasks : Saving(x)' /\ Saving(y)' => x = y
      BY <1>4, <2>1, <2>3 DEF Orderly, Saving
    <2> QED
      BY <2>2, <2>4, <2>5 DEF Orderly
  <1> QED
    BY <1>6, <1>8, <1>9

LEMMA EndStep ==
  ASSUME IInv, NEW c \in Checks, BecameBusy(c) \/ Start(c)
  PROVE  IInv'
  <1> USE DEF IInv, diskVars, panelVars, ghostVars
  <1>1. /\ Return(c) /\ c \in Tasks /\ pc[c] = "start" /\ busy' \in BOOLEAN
        /\ UNCHANGED <<diskVars, up, ghostVars>>
    BY DEF BecameBusy, Start, Tasks, TypeOK
  <1>2. /\ pc' \in [Tasks -> Pcs] /\ local' \in [Tasks -> Locals] /\ Armed'
        /\ pc'[c] = "idle"
        /\ \A x \in Tasks \ {c} : pc'[x] = pc[x] /\ local'[x] = local[x]
    BY <1>1, ReturnMoves
  <1>3. TypeOK'
    BY <1>1, <1>2 DEF TypeOK
  <1>4. ASSUME ~spoilt' PROVE Orderly'
    BY <1>1, <1>2, <1>4 DEF Orderly, Saving, Loaded, Tasks
  <1> QED
    BY <1>2, <1>3, <1>4

LEMMA PanelStep ==
  ASSUME IInv, JobsChange \/ Boot \/ Crash
  PROVE  IInv'
  <1> USE DEF IInv, diskVars, panelVars, ghostVars
  <1>1. CASE JobsChange
    <2>1. UNCHANGED <<file, tmp, fd, up, pc, local, chosen, misled, spoilt>>
          /\ busy' \in BOOLEAN
      BY <1>1 DEF JobsChange, TypeOK
    <2>2. TypeOK'
      BY <2>1 DEF TypeOK
    <2> QED
      BY <2>1, <2>2 DEF Armed, Orderly, Saving, Loaded
  <1>2. CASE Boot
    <2>1. /\ UNCHANGED <<tmp, fd, busy, pc, local, chosen, misled>>
          /\ up' \in BOOLEAN /\ file' \in {file, Default}
          /\ \/ UNCHANGED spoilt /\ (file' = file \/ (file = Missing /\ file' = Default))
             \/ spoilt' = TRUE
      BY <1>2 DEF Boot
    <2>2. TypeOK'
      BY <2>1, ContentTypes DEF TypeOK
    <2>3. ~spoilt' => ~spoilt /\ Loaded' = Loaded
      BY <2>1, ContentTypes DEF Loaded
    <2> QED
      BY <2>1, <2>2, <2>3 DEF Armed, Orderly, Saving
  <1>3. CASE Crash
    <2>1. /\ pc' = [t \in Tasks |-> "idle"] /\ local' = [t \in Tasks |-> NoLocals]
          /\ fd' = [t \in Tasks |-> "none"] /\ up' = FALSE /\ busy' = FALSE
          /\ misled' = {} /\ UNCHANGED <<chosen, spoilt>>
          /\ file' \in {file, Torn} /\ tmp' \in {tmp, Torn}
          /\ file' # file => \E t \in Tasks : pc[t] = "write" /\ fd[t] = "file"
      BY <1>3 DEF Crash
    <2>2. NoLocals \in Locals /\ NoLocals.after = "idle"
      BY DEF NoLocals, Locals, Settings, Default
    <2>3. TypeOK'
      BY <2>1, <2>2, ContentTypes DEF TypeOK, Pcs
    <2>4. Armed'
      BY <2>1, <2>2 DEF Armed
    <2>5. ASSUME ~spoilt' PROVE Orderly'
      <3>1. Orderly
        BY <2>1, <2>5
      <3>2. file' = file
        BY <2>1, <3>1 DEF Orderly
      <3>3. (Loaded = chosen)'
        BY <2>1, <3>1, <3>2 DEF Orderly, Loaded
      <3>4. \A c \in Checks : pc'[c] = "idle"
        BY <2>1 DEF Tasks
      <3> QED
        BY <2>1, <3>3, <3>4 DEF Orderly, Saving
    <2> QED
      BY <2>3, <2>4, <2>5
  <1> QED
    BY <1>1, <1>2, <1>3

LEMMA InvInit == Init => IInv
  <1> SUFFICES ASSUME Init PROVE IInv
    OBVIOUS
  <1>1. NoLocals \in Locals /\ NoLocals.after = "idle"
    BY DEF NoLocals, Locals, Settings, Default
  <1>2. TypeOK
    BY <1>1, ContentTypes DEF Init, TypeOK, Loaded, Pcs, Contents
  <1>3. Armed
    BY <1>1 DEF Init, Armed
  <1>4. Orderly
    BY DEF Init, Orderly, Saving, Tasks
  <1> QED
    BY <1>2, <1>3, <1>4 DEF IInv

LEMMA InvInductive == Spec => []IInv
  <1>1. ASSUME IInv, Next PROVE IInv'
    BY <1>1, SaveStep, BeginStep, EndStep, PanelStep DEF Next, Check
  <1>2. ASSUME IInv, UNCHANGED vars PROVE IInv'
    BY <1>2 DEF IInv, vars, diskVars, panelVars, ghostVars, TypeOK, Armed, Orderly,
                Saving, Loaded
  <1> QED
    BY InvInit, <1>1, <1>2, PTL DEF Spec

\* Every reachable state of the settings file, its saves and checks is typed.
THEOREM TypeCorrect == Spec => []TypeOK
  BY InvInductive, PTL DEF IInv

\* save_auto_upgrade_config, remember and the seeding: what the Owner saved last is
\* what the code loads, unless a check with older settings, or with the defaults in
\* place of a file it could not read, saved, two saves overlapped, or the seeding could
\* not tell that the file is there.
THEOREM OwnerChoiceHolds == Spec => []OwnerChoiceStands
  <1>1. IInv => OwnerChoiceStands
    BY DEF IInv, Orderly, OwnerChoiceStands
  <1> QED
    BY <1>1, InvInductive, PTL

\* run_auto_upgrade_check: an upgrade starts on the settings that stand, unless they
\* changed while the check was under way, or its own read of the file failed.
THEOREM StartsAsChosenHolds == Spec => StartsAsChosen
  <1>1. ASSUME IInv, NEW c \in Checks, Start(c), c \notin misled, ~spoilt
        PROVE  chosen.enabled /\ (chosen.security => local[c].security)
    <2>1. pc[c] = "start" /\ c \in Tasks
      BY <1>1 DEF Start, Tasks
    <2>2. local[c].cfg = chosen
      BY <1>1, <2>1 DEF IInv, Orderly
    <2> QED
      BY <1>1, <2>1, <2>2 DEF IInv, Armed
  <1>2. IInv /\ [Next]_vars =>
          [\A c \in Checks : Start(c) /\ c \notin misled /\ ~spoilt =>
             chosen.enabled /\ (chosen.security => local[c].security)]_vars
    BY <1>1
  <1> QED
    BY <1>2, InvInductive, PTL DEF Spec, StartsAsChosen

=============================================================================
