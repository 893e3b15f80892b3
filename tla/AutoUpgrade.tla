----------------------------- MODULE AutoUpgrade -----------------------------
(* auto_upgrade.rs, auto_upgrade_run.rs, auto_upgrade_api.rs: the settings file *)
(* of the automatic upgrades, the Owner's saves, and the checks that load it,   *)
(* ask the release server, write their result back into the same file, and may  *)
(* start an upgrade.                                                            *)
(*                                                                              *)
(* Nothing locks the file.  Every save goes through the one name                *)
(* auto-upgrade.json.tmp: File::create truncates whatever another save has      *)
(* there, and a rename takes along what other saves have open.                  *)

CONSTANTS
    Checks,    \* checks that run at the same time: the worker's and the page's
    Owners,    \* saves of the Owner that run at the same time
    IOErrors,  \* whether file operations may fail
    Missing,   \* no such file
    Empty,     \* a file just created or truncated
    Torn       \* a file that does not parse

ASSUME IOAssumption == IOErrors \in BOOLEAN
ASSUME TasksAssumption == Checks \cap Owners = {}

\* The settings the code acts on; security stands for mode = Security.
Settings == [enabled : BOOLEAN, security : BOOLEAN]
Default  == [enabled |-> TRUE, security |-> FALSE]

ASSUME ContentAssumption == /\ {Missing, Empty, Torn} \cap Settings = {}
                            /\ Missing \notin {Empty, Torn}
                            /\ Empty # Torn

VARIABLES
    file,      \* auto-upgrade.json
    tmp,       \* auto-upgrade.json.tmp
    up,        \* the panel serves requests
    busy,      \* status.phase is busy, or a job is in flight
    pc,        \* where each check or save stands
    local,     \* its locals
    fd,        \* the file a save has open: tmp, file, or one that is gone
    chosen,    \* history: the settings the Owner saved last
    misled,    \* history: checks that do not work on the settings that stand: the
               \* Owner saved after they had loaded, or their read failed
    spoilt     \* history: a misled check has saved, two saves overlapped, or the
               \* seeding took the file for missing

diskVars  == <<file, tmp, fd>>
panelVars == <<up, busy>>
ghostVars == <<chosen, misled, spoilt>>
vars == <<diskVars, panelVars, pc, local, ghostVars>>

Tasks == Checks \cup Owners
Contents == Settings \cup {Missing, Empty, Torn}
Pcs == {"idle", "lookup", "create", "write", "rename", "start"}

\* cfg: the settings loaded, or to be saved; apply: a check may start an upgrade;
\* security: the release it has found is a security release; after: where it goes
\* once its result is saved.
Locals == [cfg : Settings, apply : BOOLEAN, security : BOOLEAN,
           after : {"idle", "start"}]
NoLocals == [cfg |-> Default, apply |-> FALSE, security |-> FALSE,
             after |-> "idle"]

Goto(t, label) == pc' = [pc EXCEPT ![t] = label] /\ UNCHANGED local

Return(t) == /\ pc' = [pc EXCEPT ![t] = "idle"]
             /\ local' = [local EXCEPT ![t] = NoLocals]

\* What follows a save.
Continue(t) == \/ local[t].after = "idle" /\ Return(t)
               \/ local[t].after = "start" /\ Goto(t, "start")

\* Mutant: no default for what is missing or torn.
LoadedRaw == file

\* load_auto_upgrade_config: what is missing or does not parse is the default ...
Loaded == IF file \in Settings THEN file ELSE Default

\* ... and so is a good file whose read fails, which nobody is told.
Loads == {Loaded} \cup (IF IOErrors THEN {Default} ELSE {})

-----------------------------------------------------------------------------
(* save_auto_upgrade_config                                                    *)

Saving(t) == pc[t] \in {"write", "rename"}

SaveCreate(t) ==
    /\ pc[t] = "create"
    /\ tmp' = Empty
    /\ fd' = [fd EXCEPT ![t] = "tmp"]
    /\ spoilt' = (spoilt \/ \E x \in Tasks \ {t} : Saving(x))
    /\ Goto(t, "write")
    /\ UNCHANGED <<file, panelVars, chosen, misled>>

\* The text written by t over old contents: over those of another save it may
\* leave the end of the longer text.
Written(t, old) == IF old = Empty THEN {local[t].cfg} ELSE {local[t].cfg, Torn}

SaveWrite(t) ==
    /\ pc[t] = "write"
    /\ \/ fd[t] = "tmp"  /\ tmp' \in Written(t, tmp) /\ UNCHANGED file
       \/ fd[t] = "file" /\ file' \in Written(t, file) /\ UNCHANGED tmp
       \/ fd[t] = "gone" /\ UNCHANGED <<file, tmp>>
    /\ fd' = [fd EXCEPT ![t] = "none"]
    /\ Goto(t, "rename")
    /\ UNCHANGED <<panelVars, ghostVars>>

Renamed(opened) == CASE opened = "tmp"  -> "file"
                     [] opened = "file" -> "gone"
                     [] OTHER           -> opened

\* The Owner's save is acknowledged; a check goes on.
SaveRename(t) ==
    /\ pc[t] = "rename"
    /\ tmp # Missing
    /\ file' = tmp
    /\ tmp' = Missing
    /\ fd' = [x \in Tasks |-> Renamed(fd[x])]
    /\ IF t \in Owners
       THEN /\ chosen' = local[t].cfg
            /\ misled' = {c \in Checks : pc[c] # "idle"}
            /\ UNCHANGED spoilt
       ELSE /\ spoilt' = (spoilt \/ t \in misled)
            /\ UNCHANGED <<chosen, misled>>
    /\ Continue(t)
    /\ UNCHANGED <<panelVars>>

\* Any step of a save fails, and the rename does when another save took the file
\* away.  The Owner is told; a check never looks at the result.
SaveFails(t) ==
    /\ pc[t] \in {"create", "write", "rename"}
    /\ IOErrors \/ (pc[t] = "rename" /\ tmp = Missing)
    /\ tmp' = IF pc[t] = "write" /\ fd[t] = "tmp" THEN Torn ELSE tmp
    /\ file' = IF pc[t] = "write" /\ fd[t] = "file" THEN Torn ELSE file
    /\ fd' = [fd EXCEPT ![t] = "none"]
    /\ Continue(t)
    /\ UNCHANGED <<panelVars, ghostVars>>

-----------------------------------------------------------------------------
(* POST /api/auto-upgrade: load, set every setting, save                       *)

PostBegin(o, settings) ==
    /\ up
    /\ pc[o] = "idle"
    /\ local' = [local EXCEPT ![o].cfg = settings]
    /\ pc' = [pc EXCEPT ![o] = "create"]
    /\ UNCHANGED <<diskVars, panelVars, ghostVars>>

-----------------------------------------------------------------------------
(* run_auto_upgrade_check.  The worker calls it with apply when the settings it *)
(* has just loaded are enabled; the page calls it with and without apply.       *)

\* A check saves a refusal (off, core services not healthy) or asks for releases.
\* One that goes no further (not root, busy, unknown guest) leaves no trace.
CheckBegin(c, applying) ==
    /\ up
    /\ pc[c] = "idle"
    /\ \E cfg \in Loads :
          /\ local' = [local EXCEPT ![c].cfg = cfg, ![c].apply = applying]
          /\ \/ applying /\ pc' = [pc EXCEPT ![c] = "create"]
             \/ /\ applying => cfg.enabled /\ ~busy
                /\ pc' = [pc EXCEPT ![c] = "lookup"]
          /\ misled' = IF cfg = Loaded THEN misled \ {c} ELSE misled \cup {c}
    /\ UNCHANGED <<diskVars, panelVars, chosen, spoilt>>

\* Mutant: the mode is not looked at.
LookupEndsUnfiltered(c) ==
    /\ pc[c] = "lookup"
    /\ \/ UNCHANGED local
       \/ /\ local[c].apply /\ local[c].cfg.enabled
          /\ \E security \in BOOLEAN :
                local' = [local EXCEPT ![c].security = security,
                                      ![c].after = "start"]
    /\ pc' = [pc EXCEPT ![c] = "create"]
    /\ UNCHANGED <<diskVars, panelVars, ghostVars>>

\* The release server answers: an error, nothing newer, a release the mode or the
\* settings do not allow, or one to start.  Each is written to the file.
LookupEnds(c) ==
    /\ pc[c] = "lookup"
    /\ \/ UNCHANGED local
       \/ /\ local[c].apply /\ local[c].cfg.enabled
          /\ \E security \in BOOLEAN :
                /\ local[c].cfg.security => security
                /\ local' = [local EXCEPT ![c].security = security,
                                         ![c].after = "start"]
    /\ pc' = [pc EXCEPT ![c] = "create"]
    /\ UNCHANGED <<diskVars, panelVars, ghostVars>>

\* Under the write lock of the status: became busy meanwhile ...
BecameBusy(c) ==
    /\ pc[c] = "start"
    /\ busy
    /\ Return(c)
    /\ UNCHANGED <<diskVars, panelVars, ghostVars>>

\* ... or the upgrade starts, on the settings loaded before the lookup.
Start(c) ==
    /\ pc[c] = "start"
    /\ ~busy
    /\ busy' = TRUE
    /\ Return(c)
    /\ UNCHANGED <<diskVars, up, ghostVars>>

-----------------------------------------------------------------------------
(* The rest of the panel                                                       *)

\* Other jobs begin, and jobs end.
JobsChange ==
    /\ up
    /\ busy' = ~busy
    /\ UNCHANGED <<diskVars, up, pc, local, ghostVars>>

\* The process ends, in the middle of a write to the live file too.
Crash ==
    /\ up
    /\ up' = FALSE
    /\ busy' = FALSE
    /\ file' \in {file} \cup
                 (IF \E t \in Tasks : pc[t] = "write" /\ fd[t] = "file"
                  THEN {Torn} ELSE {})
    /\ tmp' \in {tmp} \cup
                (IF \E t \in Tasks : pc[t] = "write" /\ fd[t] = "tmp"
                 THEN {Torn} ELSE {})
    /\ pc' = [t \in Tasks |-> "idle"]
    /\ local' = [t \in Tasks |-> NoLocals]
    /\ fd' = [t \in Tasks |-> "none"]
    /\ misled' = {}
    /\ UNCHANGED <<chosen, spoilt>>

\* Mutant: the seed is written whether or not there is a file.
BootSeedsAlways ==
    /\ ~up
    /\ up' = TRUE
    /\ file' = Default
    /\ UNCHANGED <<tmp, fd, busy, pc, local, ghostVars>>

\* spawn_auto_upgrade_worker seeds a missing file before the server runs; a
\* failure is ignored, and a file whose state cannot be asked for counts as missing.
Boot ==
    /\ ~up
    /\ up' = TRUE
    /\ \/ /\ file' = IF file = Missing THEN Default ELSE file
          /\ UNCHANGED spoilt
       \/ IOErrors /\ UNCHANGED <<file, spoilt>>
       \/ IOErrors /\ file' = Default /\ spoilt' = TRUE
    /\ UNCHANGED <<tmp, fd, busy, pc, local, chosen, misled>>

-----------------------------------------------------------------------------
Init ==
    /\ file \in Settings \cup {Missing}
    /\ tmp = Missing
    /\ up = FALSE
    /\ busy = FALSE
    /\ pc = [t \in Tasks |-> "idle"]
    /\ local = [t \in Tasks |-> NoLocals]
    /\ fd = [t \in Tasks |-> "none"]
    /\ chosen = Loaded
    /\ misled = {}
    /\ spoilt = FALSE

Save(t) == SaveCreate(t) \/ SaveWrite(t) \/ SaveRename(t) \/ SaveFails(t)

Check(c) == \/ \E applying \in BOOLEAN : CheckBegin(c, applying)
            \/ LookupEnds(c) \/ BecameBusy(c) \/ Start(c)

Next ==
    \/ \E t \in Tasks : Save(t)
    \/ \E o \in Owners, settings \in Settings : PostBegin(o, settings)
    \/ \E c \in Checks : Check(c)
    \/ JobsChange
    \/ Crash
    \/ Boot

Spec == Init /\ [][Next]_vars

-----------------------------------------------------------------------------
(* Properties *)

TypeOK ==
    /\ file \in Contents
    /\ tmp \in Contents
    /\ up \in BOOLEAN
    /\ busy \in BOOLEAN
    /\ pc \in [Tasks -> Pcs]
    /\ local \in [Tasks -> Locals]
    /\ fd \in [Tasks -> {"none", "tmp", "file", "gone"}]
    /\ chosen \in Settings
    /\ misled \subseteq Checks
    /\ spoilt \in BOOLEAN

\* Seeding, crashes in the middle of a save, failed saves and the results of the
\* checks never change what the Owner saved, except in three ways: a check saves what
\* it loaded before that save, or the defaults it took for a file it could not read;
\* two saves run at the same time; or the seeding cannot tell that the file is there.
OwnerChoiceStands == ~spoilt => Loaded = chosen

\* An upgrade starts on the settings that stand, unless the Owner saved while the
\* check was under way, the check could not read the file and went on with the
\* enabled defaults, or the settings were lost in one of the three ways above.
StartsAsChosen ==
    [][\A c \in Checks : Start(c) /\ c \notin misled /\ ~spoilt =>
          chosen.enabled /\ (chosen.security => local[c].security)]_vars

=============================================================================
