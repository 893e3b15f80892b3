------------------------------ MODULE Resellers ------------------------------
(* The hierarchy of the Reseller Center: accounts carry a role and the name of *)
(* their parent reseller, resellers.json the pool of each reseller, and the    *)
(* caps of the packages its users are on must fit that pool.  A request checks *)
(* first and then writes the account and the whole store, one after the other, *)
(* without a lock; module Accounts has the files of the accounts themselves.   *)
(*                                                                             *)
(* One limit stands for the six of a pool, which are checked alike.  The panel *)
(* owner and sub-users, which every operation refuses, are left out.           *)
EXTENDS Integers, FiniteSets, Functions

CONSTANTS
    Users,      \* names of accounts other than the owner's
    None,       \* no account
    Requests,   \* requests of the panel that may overlap
    Packages,   \* hosting packages
    Default,    \* the package of an account no package was given to
    MaxCap,     \* bound: the largest limited cap or pool
    MaxAsks     \* bound: requests served

ASSUME UsersAssumption ==
    IsFiniteSet(Users) /\ None \notin Users \cup Requests /\ Default \in Packages
ASSUME BoundsAssumption == MaxCap \in Nat /\ MaxAsks \in Nat

VARIABLES
    account,  \* whether each account exists, its role and its parent
    store,    \* resellers.json: the pool of each reseller, or a torn file
    cap,      \* the limit in each package
    package,  \* the package of each name; outlives the account
    pc,       \* where each request stands
    job,      \* the local variables of each request
    asks,     \* requests served so far
    stale,    \* history: requests whose checks were overtaken by another one
    mess      \* history: ways in which the hierarchy was got at

dataVars    == <<account, store>>
packageVars == <<cap, package>>
jobVars     == <<pc, job>>
vars == <<dataVars, packageVars, jobVars, asks, stale, mess>>

Unlimited == -1
Limits    == 0..MaxCap \cup {Unlimited}
NoPool    == -2
Pools     == [Users -> Limits \cup {NoPool}]
Fields    == [there : BOOLEAN, reseller : BOOLEAN, parent : Users \cup {None}]
Absent    == [there |-> FALSE, reseller |-> FALSE, parent |-> None]
Ops       == {"promote", "demote", "quotas", "branding", "assign", "unassign",
              "create"}
Pcs       == {"idle", "assign", "role", "load", "save", "write", "undo"}
NoStore   == [torn |-> TRUE, pool |-> [u \in Users |-> NoPool]]
Fresh     == [op |-> "demote", user |-> None, target |-> None, limit |-> 0,
              reseller |-> FALSE, copy |-> [u \in Users |-> NoPool]]

Goto(j, label) == pc' = [pc EXCEPT ![j] = label]
End(j) ==
    /\ Goto(j, "idle")
    /\ job' = [job EXCEPT ![j] = Fresh]

There(u)      == account[u].there
HasRecord(r)  == ~store.torn /\ store.pool[r] # NoPool
Children(r)   == {u \in Users : There(u) /\ account[u].parent = r}
Slice(u)      == cap[package[u]]
Slices        == [u \in Users |-> Slice(u)]

IsReseller(u) == HasRecord(u) \/ (There(u) /\ account[u].reseller)

\* add_limited refuses an unlimited child whatever the pool is.
Summable(us)  == \A u \in us : Slice(u) # Unlimited
Committed(us) == SumFunctionOnSet(Slices, us)
Allows(pool, us) == pool = Unlimited \/ Committed(us) <= pool
Covers(pool, us) == Summable(us) /\ Allows(pool, us)

\* Other requests about these accounts, or with a copy of the store in hand if
\* it is saved, have checked what no longer is so.
Holds(k) == pc[k] \in {"save", "write"} \/ (pc[k] = "role" /\ job[k].op = "quotas")
InFlight == {k \in Requests : pc[k] # "idle"}
Overtakes(j, us, saved) ==
    stale' = (stale \cup {k \in Requests \ {j} :
                  \/ {job[k].user, job[k].target} \cap us # {}
                  \/ saved /\ Holds(k)}) \cap InFlight'
Settle == stale' = stale \cap InFlight'

\* A write after a check that was overtaken.
Stain(j) == mess' = IF j \in stale THEN mess \cup {"stale"} ELSE mess

-----------------------------------------------------------------------------
(* What each operation checks before its first write                          *)

Ask == asks < MaxAsks /\ asks' = asks + 1

Start(j, label, local) ==
    /\ pc[j] = "idle"
    /\ Ask
    /\ Goto(j, label)
    /\ job' = [job EXCEPT ![j] = local]
    /\ UNCHANGED <<dataVars, packageVars, stale>>

Begin(j, label, local) == Start(j, label, local) /\ UNCHANGED mess

\* promote_reseller: a sum that fails counts as nothing (unwrap_or_default).
Promotion(u, limit) == [Fresh EXCEPT !.op = "promote", !.user = u,
                                     !.limit = limit, !.reseller = TRUE]

Promote(j, u, limit) ==
    /\ There(u) /\ account[u].parent = None
    /\ Summable(Children(u)) => Allows(limit, Children(u))
    /\ Begin(j, "role", Promotion(u, limit))

\* Mutant: a reseller may go before its users.
DemoteParent(j, u) ==
    /\ There(u)
    /\ Begin(j, "role", [Fresh EXCEPT !.op = "demote", !.user = u])

Demotion(u) == [Fresh EXCEPT !.op = "demote", !.user = u]

Demote(j, u) ==
    /\ There(u) /\ Children(u) = {}
    /\ Begin(j, "role", Demotion(u))

\* update_reseller_quotas loads the store before it writes the account.
NewQuotas(u, limit) == [Fresh EXCEPT !.op = "quotas", !.user = u,
                            !.reseller = TRUE,
                            !.copy = [store.pool EXCEPT ![u] = limit]]

Quotas(j, u, limit) ==
    /\ There(u) /\ Covers(limit, Children(u)) /\ HasRecord(u)
    /\ Begin(j, "role", NewQuotas(u, limit))

\* update_reseller_branding saves the pools as it has read them.
Branding(j, u) ==
    /\ There(u) /\ HasRecord(u)
    /\ Begin(j, "save", [Fresh EXCEPT !.op = "branding", !.user = u,
                                      !.copy = store.pool])

\* Mutant: the new user alone has to fit.
MayAssignAlone(c, r) ==
    /\ There(c) /\ There(r) /\ c # r
    /\ HasRecord(r) /\ ~IsReseller(c)
    /\ Covers(store.pool[r], {c})

\* Mutant: a reseller may be assigned.
MayAssignReseller(c, r) ==
    /\ There(c) /\ There(r) /\ c # r
    /\ HasRecord(r)
    /\ Covers(store.pool[r], Children(r) \cup {c})

\* assign_user_to_reseller, up to its write.
MayAssign(c, r) ==
    /\ There(c) /\ There(r) /\ c # r
    /\ HasRecord(r) /\ ~IsReseller(c)
    /\ Covers(store.pool[r], Children(r) \cup {c})

Assignment(c, r) == [Fresh EXCEPT !.op = "assign", !.user = c, !.target = r]

Assign(j, c, r) ==
    /\ MayAssign(c, r)
    /\ Begin(j, "role", Assignment(c, r))

\* A file that cannot be read, or is being written, is no error to a check: the
\* accounts, or one of them, count as no children, a package as no cap, and the
\* store, which assign loads twice, leaves account_is_reseller the role alone.
MayAssignUnread(c, r) ==
    /\ There(c) /\ There(r) /\ c # r
    /\ HasRecord(r) /\ ~account[c].reseller

Unread == mess' = mess \cup {"unread"}

CheckUnread(j) ==
    /\ \E u \in Users :
          \/ \E limit \in Limits :
                \/ /\ There(u) /\ account[u].parent = None
                   /\ ~Allows(limit, Children(u))
                   /\ Start(j, "role", Promotion(u, limit))
                \/ /\ There(u) /\ HasRecord(u) /\ ~Covers(limit, Children(u))
                   /\ Start(j, "role", NewQuotas(u, limit))
          \/ /\ There(u) /\ Children(u) # {}
             /\ Start(j, "role", Demotion(u))
          \/ \E r \in Users :
                /\ MayAssignUnread(u, r) /\ ~MayAssign(u, r)
                /\ Start(j, "role", Assignment(u, r))
    /\ Unread

\* unassign_user writes back the role it has read.
Unassign(j, c) ==
    /\ There(c)
    /\ Begin(j, "role", [Fresh EXCEPT !.op = "unassign", !.user = c,
                                      !.reseller = account[c].reseller])

-----------------------------------------------------------------------------
(* The writes                                                                 *)

\* create-user: the account first, of a name that may have a record or a package
\* from an earlier account, then its parent; the account goes if that fails.
CreateUser(j, c, r) ==
    /\ pc[j] = "idle"
    /\ Ask
    /\ ~There(c)
    /\ account' = [account EXCEPT ![c] = [Absent EXCEPT !.there = TRUE]]
    /\ Goto(j, "assign")
    /\ job' = [job EXCEPT ![j] = [Fresh EXCEPT !.op = "create", !.user = c,
                                               !.target = r]]
    /\ Overtakes(j, {c}, FALSE)
    /\ UNCHANGED <<store, packageVars, mess>>

AssignCreated(j) ==
    /\ pc[j] = "assign"
    /\ Goto(j, IF MayAssign(job[j].user, job[j].target) THEN "role" ELSE "undo")
    /\ UNCHANGED <<asks, dataVars, packageVars, job, stale, mess>>

AssignUnread(j) ==
    /\ pc[j] = "assign"
    /\ MayAssignUnread(job[j].user, job[j].target)
    /\ ~MayAssign(job[j].user, job[j].target)
    /\ Goto(j, "role")
    /\ Unread
    /\ UNCHANGED <<asks, dataVars, packageVars, job, stale>>

Remove(u) == account' = [account EXCEPT ![u] = Absent]
Orphans(u) == IF Children(u) # {} THEN {"orphans"} ELSE {}

UndoCreate(j) ==
    /\ pc[j] = "undo"
    /\ Remove(job[j].user)
    /\ mess' = mess \cup Orphans(job[j].user)
                    \cup (IF j \in stale THEN {"stale"} ELSE {})
    /\ End(j)
    /\ Overtakes(j, {job[j].user}, FALSE)
    /\ UNCHANGED <<asks, store, packageVars>>

\* delete_account knows nothing of the hierarchy.
Delete(j, u) ==
    /\ pc[j] = "idle"
    /\ Ask
    /\ There(u)
    /\ Remove(u)
    /\ mess' = mess \cup Orphans(u)
    /\ UNCHANGED <<store, packageVars, jobVars>>
    /\ Overtakes(j, {u, account[u].parent} \ {None}, FALSE)

\* set_account_fields, which reads the account again.
SetFields(j) ==
    LET u == job[j].user
        op == job[j].op
        new == IF op \in {"assign", "create"} THEN job[j].target ELSE None
    IN
    /\ pc[j] = "role"
    /\ There(u)
    /\ account' = [account EXCEPT ![u].reseller = job[j].reseller,
                                  ![u].parent = new]
    /\ CASE op \in {"promote", "demote"} -> Goto(j, "load") /\ UNCHANGED job
         [] op = "quotas" -> Goto(j, "save") /\ UNCHANGED job
         [] OTHER -> End(j)
    /\ Overtakes(j, {u, account[u].parent, new} \ {None}, FALSE)
    /\ Stain(j)
    /\ UNCHANGED <<asks, store, packageVars>>

\* Mutant: every request whose account has gone goes on to remove it.
SetFieldsUndone(j) ==
    /\ pc[j] = "role"
    /\ ~There(job[j].user)
    /\ Goto(j, "undo")
    /\ UNCHANGED <<asks, dataVars, packageVars, job, stale, mess>>

\* The account has gone; create-user then removes what it has made.
SetFieldsFails(j) ==
    /\ pc[j] = "role"
    /\ ~There(job[j].user)
    /\ IF job[j].op = "create" THEN Goto(j, "undo") /\ UNCHANGED job ELSE End(j)
    /\ Settle
    /\ UNCHANGED <<asks, dataVars, packageVars, mess>>

Load(j) ==
    LET pool == IF job[j].op = "promote" THEN job[j].limit ELSE NoPool IN
    /\ pc[j] = "load"
    /\ ~store.torn
    /\ Goto(j, "save")
    /\ job' = [job EXCEPT ![j].copy = [store.pool EXCEPT ![job[j].user] = pool]]
    /\ UNCHANGED <<asks, dataVars, packageVars, stale, mess>>

\* The account has its new role and the store does not follow.
LoadFails(j) ==
    /\ pc[j] = "load"
    /\ store.torn
    /\ End(j)
    /\ Settle
    /\ mess' = mess \cup {"cut"}
    /\ UNCHANGED <<asks, dataVars, packageVars>>

\* save_file truncates resellers.json in place, and then writes it.
Truncate(j) ==
    /\ pc[j] = "save"
    /\ store' = NoStore
    /\ Goto(j, "write")
    /\ UNCHANGED <<asks, account, packageVars, job, stale, mess>>

Write(j) ==
    /\ pc[j] = "write"
    /\ store' = [torn |-> FALSE, pool |-> job[j].copy]
    /\ End(j)
    /\ Overtakes(j, {job[j].user}, TRUE)
    /\ Stain(j)
    /\ UNCHANGED <<asks, account, packageVars>>

\* A full disk leaves the store empty: every operation that reads it now fails.
SaveFails(j) ==
    /\ pc[j] = "write"
    /\ End(j)
    /\ Settle
    /\ mess' = mess \cup {"cut"}
    /\ UNCHANGED <<asks, dataVars, packageVars>>

\* The panel dies: its requests end where they stand.
Crash ==
    /\ \E j \in Requests : pc[j] # "idle"
    /\ pc' = [j \in Requests |-> "idle"]
    /\ job' = [j \in Requests |-> Fresh]
    /\ mess' = IF \E j \in Requests : pc[j] \in {"load", "save", "write"}
               THEN mess \cup {"cut"} ELSE mess
    /\ stale' = {}
    /\ UNCHANGED <<asks, dataVars, packageVars>>

-----------------------------------------------------------------------------
(* Packages, whose caps know nothing of the pools                             *)

Grows(old, new) == new = Unlimited \/ (old # Unlimited /\ old < new)

Repackage(us, old, new) ==
    /\ Ask
    /\ mess' = IF \E u \in us : account[u].parent # None /\ Grows(old, new)
               THEN mess \cup {"package"} ELSE mess
    /\ UNCHANGED <<dataVars, jobVars>>
    /\ Overtakes(None, (us \cup {account[u].parent : u \in us}) \ {None}, FALSE)

AssignPackage(u, p) ==
    /\ There(u) /\ package[u] # p
    /\ package' = [package EXCEPT ![u] = p]
    /\ Repackage({u}, Slice(u), cap[p])
    /\ UNCHANGED cap

UpdatePackage(p, limit) ==
    /\ cap[p] # limit
    /\ cap' = [cap EXCEPT ![p] = limit]
    /\ Repackage({u \in Users : package[u] = p}, cap[p], limit)
    /\ UNCHANGED package

\* write_json truncates in place, and a torn file of packages or of assignments is
\* read as an empty one: only the Default package is left, or it is everybody's.
PackagesTorn ==
    /\ Ask
    /\ \/ /\ package' = [u \in Users |-> Default]
          /\ UNCHANGED cap
       \/ /\ cap' = [p \in Packages |-> IF p = Default THEN MaxCap ELSE 0]
          /\ UNCHANGED package
    /\ mess' = mess \cup {"package"}
    /\ UNCHANGED <<dataVars, jobVars>>
    /\ Overtakes(None, Users, FALSE)

\* rename_own_account, taken for one step here.  The package goes along, if the
\* assignments can be written; one left by an earlier account of the new name may
\* come first.  The record in resellers.json and the parent of the users of the
\* account stay under the old name.
Moved(u, v) == {package, [package EXCEPT ![u] = Default],
                [package EXCEPT ![u] = Default, ![v] = package[u]]}

\* A name that has a record, or gets one back with a copy of the store.
Recorded(v) == HasRecord(v) \/ \E k \in Requests : job[k].copy[v] # NoPool

Rename(u, v) ==
    LET child == account[u].parent # None IN
    /\ Ask
    /\ There(u) /\ ~There(v)
    /\ account' = [account EXCEPT ![u] = Absent, ![v] = account[u]]
    /\ package' \in Moved(u, v)
    /\ mess' = mess \cup Orphans(u)
          \cup (IF child /\ Grows(Slice(u), cap[package'[v]])
                THEN {"package"} ELSE {})
          \cup (IF child /\ Recorded(v) THEN {"renamed"} ELSE {})
    /\ UNCHANGED <<store, cap, jobVars>>
    /\ Overtakes(None, {u, v, account[u].parent} \ {None}, FALSE)

\* A panel that has its users and packages, and no reseller yet: the caps of the
\* Default package are limited on first boot.
Init ==
    /\ account = [u \in Users |-> [Absent EXCEPT !.there = TRUE]]
    /\ store = [torn |-> FALSE, pool |-> [u \in Users |-> NoPool]]
    /\ cap \in {c \in [Packages -> Limits] : c[Default] = MaxCap}
    /\ package = [u \in Users |-> Default]
    /\ pc = [j \in Requests |-> "idle"]
    /\ job = [j \in Requests |-> Fresh]
    /\ asks = 0
    /\ stale = {}
    /\ mess = {}

Request(j) ==
    \/ \E u \in Users, limit \in Limits : Promote(j, u, limit) \/ Quotas(j, u, limit)
    \/ \E u \in Users : Demote(j, u) \/ Branding(j, u) \/ Unassign(j, u) \/ Delete(j, u)
    \/ \E c, r \in Users : Assign(j, c, r) \/ CreateUser(j, c, r)
    \/ CheckUnread(j)

Step(j) ==
    \/ AssignCreated(j) \/ AssignUnread(j) \/ UndoCreate(j)
    \/ SetFields(j) \/ SetFieldsFails(j)
    \/ Load(j) \/ LoadFails(j)
    \/ Truncate(j) \/ Write(j) \/ SaveFails(j)

Next ==
    \/ \E j \in Requests : Request(j) \/ Step(j)
    \/ Crash
    \/ \E u \in Users, p \in Packages : AssignPackage(u, p)
    \/ \E p \in Packages, limit \in Limits : UpdatePackage(p, limit)
    \/ PackagesTorn
    \/ \E u, v \in Users : Rename(u, v)

Spec == Init /\ [][Next]_vars

-----------------------------------------------------------------------------
(* Properties                                                                 *)

\* Every variable has its type, an account that is not there has no fields, and
\* only the request that made an account may go on to remove it.
TypeOK ==
    /\ account \in [Users -> Fields]
    /\ store \in [torn : BOOLEAN, pool : Pools]
    /\ cap \in [Packages -> Limits]
    /\ package \in [Users -> Packages]
    /\ pc \in [Requests -> Pcs]
    /\ job \in [Requests -> [op : Ops, user : Users \cup {None},
                             target : Users \cup {None}, limit : Limits,
                             reseller : BOOLEAN, copy : Pools]]
    /\ asks \in 0..MaxAsks
    /\ stale \subseteq Requests
    /\ mess \subseteq {"stale", "cut", "package", "orphans", "unread", "renamed"}
    /\ \A u \in Users : There(u) \/ account[u] = Absent
    /\ \A j \in Requests : pc[j] \in {"assign", "undo"} => job[j].op = "create"

\* What a reseller's users may use together never exceeds its pool, over every
\* sequence of promotions, new quotas, assignments, deletions, re-creations and
\* renames.  It holds while no package of one of its users was enlarged, or lost
\* by a rename or a torn file, which never look at the pool, and no request wrote
\* on the strength of a check that was overtaken or took an unreadable file for
\* nothing.
PoolCovers ==
    mess \cap {"stale", "package", "unread"} = {} =>
        \A r \in Users : HasRecord(r) => Allows(store.pool[r], Children(r))

\* The users of a reseller have a reseller: no demotion, re-creation or stale
\* save of the store leaves an account under a name that is none.  Deleting or
\* renaming the account of a reseller does, and so does a check that was
\* overtaken or could not read all users.
ChildrenHaveReseller ==
    mess \cap {"stale", "orphans", "unread"} = {} /\ ~store.torn =>
        \A u \in Users : account[u].parent # None =>
            There(account[u].parent) /\ HasRecord(account[u].parent)

\* The hierarchy has one level: no reseller is under a reseller, though its role
\* and its record are written one after the other, a request may die between
\* them, a record outlives its account, and accounts change their names.  Left
\* out are a reseller's user that takes the name of such a record, and the checks
\* that were overtaken or could not read the store.
OneLevel ==
    mess \cap {"stale", "unread", "renamed"} = {} =>
        \A u \in Users :
            HasRecord(u) \/ account[u].reseller => account[u].parent = None
=============================================================================
