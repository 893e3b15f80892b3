------------------------------ MODULE Accounts ------------------------------
(* The panel accounts: one JSON file per account, rewritten in place by every  *)
(* request that edits one, without a lock; and the password reset links, whose *)
(* file is only touched under STORE_LOCK.                                      *)
(*                                                                             *)
(* A request finds an account, changes the copy it has loaded, empties the     *)
(* file and writes the copy.  Between any two of these steps other requests    *)
(* and the command line do the same.                                           *)
EXTENDS Naturals, FiniteSets

CONSTANTS
    Ids,        \* accounts, each created at most once
    Owner,      \* the account the panel starts with
    Names,      \* user names
    OwnerName,  \* the name of Owner at the start
    Fold,       \* [Names -> Names]: the name without its case
    Key,        \* [Names -> Names]: the name as it stands in a file name
    Passwords,  \* passwords
    Requests,   \* requests that run at the same time
    Links,      \* password reset links, each mailed at most once
    MaxStarts,  \* bound: requests started in all
    Boot,       \* the path of panel-bootstrap.json
    Absent,     \* no file
    Torn,       \* a file that is empty or does not parse
    Nobody      \* no account

ASSUME NamesAssumption ==
    /\ OwnerName \in Names
    /\ Fold \in [Names -> Names]
    /\ Key \in [Names -> Names]
    /\ Boot \notin Names
ASSUME BoundsAssumption == MaxStarts \in Nat
ASSUME IdsAssumption == Owner \in Ids /\ Nobody \notin Ids

\* An account file: the account, its name, its password, whether it is disabled.
Account == [id: Ids, name: Names, pw: Passwords, off: BOOLEAN]
ASSUME MarkersAssumption ==
    Absent \notin Account /\ Torn \notin Account /\ Absent # Torn

VARIABLES
    file,     \* [Paths -> file]: panel-bootstrap.json and accounts/*.json
    own,      \* what is filed by user name elsewhere: whose data, by name
    tokens,   \* password-reset-tokens.json: the links that work, by name
    req,      \* what each request is doing
    started,  \* requests started so far
    born,     \* accounts created so far
    mailed,   \* links mailed so far
    spent,    \* history: how often each link has set a password
    filed,    \* history: what has ever been filed for which account
    said,     \* history: what the last successful edit of an account said
    excused,  \* history: accounts two requests touched at once, or a request
              \* left half done
    alike     \* history: a name was given while another was in use that differs
              \* from it in case alone

stores  == <<file, own, tokens>>
history == <<started, born, mailed, spent, filed, said, excused, alike>>
vars == <<stores, req, history>>

Paths  == Names \cup {Boot}
Stores == {"files", "lists"}
File   == Account \cup {Absent, Torn}

\* MFA and passkeys are files named after the user; packages, the site ACL and
\* the sites are lists in which names are compared without their case.
Slot(s, n) == IF s = "files" THEN Key[n] ELSE Fold[n]

Pcs == {"idle", "place", "truncate", "write", "remove", "unlink", "files",
        "lists", "mint", "consume", "load", "drop"}
NoLink == "none"
ASSUME LinksAssumption == NoLink \notin Links
Idle == [pc |-> "idle", rec |-> Absent, path |-> Boot, from |-> OwnerName,
         to |-> OwnerName, next |-> "idle", link |-> NoLink, met |-> FALSE]

\* The account a request is at work on; the names it touches.
Holds(r) == IF req[r].rec \in Account THEN req[r].rec.id ELSE Nobody
Touched(r) == IF req[r].pc = "idle" THEN {}
              ELSE {Fold[req[r].from], Fold[req[r].to]}

Goto(r, label)  == req' = [req EXCEPT ![r].pc = label]
Answer(r)       == req' = [req EXCEPT ![r] = Idle]

-----------------------------------------------------------------------------
(* Finding an account *)

\* The bootstrap file first, whatever the case; then the file of that name.
Found(p, n) == file[p] \in Account /\ Fold[file[p].name] = Fold[n]
Exists(n)   == Found(Boot, n) \/ Found(Key[n], n)
PathOf(n)   == IF Found(Boot, n) THEN Boot ELSE Key[n]

\* A request sets out on an account.  When another is at work on one of the
\* names, both accounts are excused from the properties.
Meet(r, ns, i, job) ==
    LET others == {x \in Requests \ {r} :
                      Touched(x) \cap {Fold[n] : n \in ns} # {}}
    IN  /\ req' = [x \in Requests |->
              IF x = r THEN [job EXCEPT !.met = @ \/ others # {}]
              ELSE IF x \in others THEN [req[x] EXCEPT !.met = TRUE]
              ELSE req[x]]
        /\ excused' = IF others = {} THEN excused
                      ELSE (excused \cup {i} \cup {Holds(x) : x \in others})
                           \ {Nobody}

\* The names the files bear and the requests have in hand.
InUse == {n \in Names :
    \/ \E p \in Paths : file[p] \in Account /\ file[p].name = n
    \/ \E x \in Requests : req[x].pc # "idle" /\ n \in {req[x].from, req[x].to}
    \/ \E x \in Requests : req[x].rec \in Account /\ req[x].rec.name = n}
Apart(n) == \A m \in InUse : Fold[m] = Fold[n] => m = n

Begin(r, ns, i, job) ==
    /\ started < MaxStarts
    /\ started' = started + 1
    /\ alike' = (alike \/ \E n \in ns : ~Apart(n))
    /\ Meet(r, ns, i, job)

-----------------------------------------------------------------------------
(* create_account *)

CreateCheck(r, n) ==
    /\ req[r].pc = "idle"
    /\ ~Exists(n)
    /\ Begin(r, {n}, Nobody, [Idle EXCEPT !.pc = "place", !.from = n, !.to = n])
    /\ UNCHANGED <<stores, born, mailed, spent, filed, said>>

\* Without a readable bootstrap file the new account becomes the bootstrap one.
CreatePlace(r, i, w) ==
    /\ req[r].pc = "place"
    /\ i \notin born
    /\ req' = [req EXCEPT
          ![r].pc = "truncate",
          ![r].path = IF file[Boot] \in Account THEN Key[req[r].to] ELSE Boot,
          ![r].rec = [id |-> i, name |-> req[r].to, pw |-> w, off |-> FALSE]]
    /\ born' = born \cup {i}
    /\ excused' = IF req[r].met THEN excused \cup {i} ELSE excused
    /\ UNCHANGED <<stores, started, mailed, spent, filed, said, alike>>

\* The recovery address or the password is refused.
CreateRefused(r) ==
    /\ req[r].pc = "place"
    /\ Answer(r)
    /\ UNCHANGED <<stores, history>>

-----------------------------------------------------------------------------
(* persist_json_file: open with truncation, then write *)

\* Other accounts that lose their file to this one.
Victims(r, p) ==
    ({IF file[p] \in Account THEN file[p].id ELSE Nobody}
        \cup {Holds(x) : x \in {y \in Requests :
                 /\ req[y].pc \in {"truncate", "write"}
                 /\ req[y].path = p}})
    \ {Holds(r), Nobody}

Collide(r, p) ==
    excused' = IF Victims(r, p) = {} THEN excused
               ELSE (excused \cup Victims(r, p) \cup {Holds(r)}) \ {Nobody}

Truncate(r) ==
    /\ req[r].pc = "truncate"
    /\ file' = [file EXCEPT ![req[r].path] = Torn]
    /\ Goto(r, "write")
    /\ Collide(r, req[r].path)
    /\ UNCHANGED <<own, tokens, started, born, mailed, spent, filed, said, alike>>

Write(r) ==
    LET q == req[r] IN
    /\ q.pc = "write"
    /\ file' = [file EXCEPT ![q.path] = q.rec]
    /\ said' = [said EXCEPT ![q.rec.id] = [pw |-> q.rec.pw, off |-> q.rec.off,
                                           gone |-> FALSE]]
    /\ spent' = IF q.link \in Links /\ spent[q.link] < 2
                THEN [spent EXCEPT ![q.link] = @ + 1] ELSE spent
    /\ IF q.next = "idle" THEN Answer(r) ELSE Goto(r, q.next)
    /\ UNCHANGED <<own, tokens, started, born, mailed, filed, excused, alike>>

\* The open fails: nothing has changed.  The write fails: the file is empty.
SaveFails(r) ==
    /\ req[r].pc \in {"truncate", "write"}
    /\ Answer(r)
    /\ excused' = excused \cup {Holds(r)}
    /\ UNCHANGED <<stores, started, born, mailed, spent, filed, said, alike>>

-----------------------------------------------------------------------------
(* Edits: reset or change of the password, profile, deactivate, enable *)

EditLoad(r, n, w, o) ==
    /\ req[r].pc = "idle"
    /\ Exists(n)
    /\ LET a == file[PathOf(n)] IN
       Begin(r, {n}, a.id,
             [Idle EXCEPT !.pc = "truncate", !.path = PathOf(n), !.from = n,
                          !.to = n, !.rec = [a EXCEPT !.pw = w, !.off = o]])
    /\ UNCHANGED <<stores, born, mailed, spent, filed, said>>

DeleteLoad(r, n) ==
    /\ req[r].pc = "idle"
    /\ Exists(n)
    /\ Begin(r, {n}, file[PathOf(n)].id,
             [Idle EXCEPT !.pc = "remove", !.path = PathOf(n), !.from = n,
                          !.to = n, !.rec = file[PathOf(n)]])
    /\ UNCHANGED <<stores, born, mailed, spent, filed, said>>

Remove(r) ==
    /\ req[r].pc = "remove"
    /\ file[req[r].path] # Absent
    /\ file' = [file EXCEPT ![req[r].path] = Absent]
    /\ said' = [said EXCEPT ![Holds(r)].gone = TRUE]
    /\ Collide(r, req[r].path)
    /\ Answer(r)
    /\ UNCHANGED <<own, tokens, started, born, mailed, spent, filed, alike>>

RemoveFails(r) ==
    /\ req[r].pc = "remove"
    /\ Answer(r)
    /\ UNCHANGED <<stores, history>>

-----------------------------------------------------------------------------
(* rename_own_account *)

RenameLoad(r, n, m) ==
    /\ req[r].pc = "idle"
    /\ Exists(n)
    /\ Fold[file[PathOf(n)].name] # Fold[m]
    /\ ~Exists(m)
    /\ LET p == PathOf(n) IN
       Begin(r, {n, m}, file[p].id,
             [Idle EXCEPT !.pc = "truncate",
                          !.path = IF p = Boot THEN Boot ELSE Key[m],
                          !.next = IF p \in {Boot, Key[m]} THEN "files"
                                   ELSE "unlink",
                          !.from = n, !.to = m,
                          !.rec = [file[p] EXCEPT !.name = m]])
    /\ UNCHANGED <<stores, born, mailed, spent, filed, said>>

\* Mutant: the old file is left.
UnlinkForgotten(r) ==
    /\ req[r].pc = "unlink"
    /\ Goto(r, "files")
    /\ UNCHANGED <<stores, history>>

\* The old file goes; an error is ignored.
Unlink(r) ==
    /\ req[r].pc = "unlink"
    /\ file' = [file EXCEPT ![Key[req[r].from]] = Absent]
    /\ Collide(r, Key[req[r].from])
    /\ Goto(r, "files")
    /\ UNCHANGED <<own, tokens, started, born, mailed, spent, filed, said, alike>>

UnlinkFails(r) ==
    /\ req[r].pc = "unlink"
    /\ Goto(r, "files")
    /\ excused' = excused \cup {Holds(r)}
    /\ UNCHANGED <<stores, started, born, mailed, spent, filed, said, alike>>

\* One store after the other, best effort.  A file is written for the new name,
\* over the one there, and then the old one removed, even when both are one; a
\* list entry joins those of the new name.  The old name is the one the request
\* gave.  A rename does not touch the parent_reseller and parent_owner of other accounts
\* nor resellers.json: see Resellers.
\* Mutant: the lists are forgotten.
AfterFiles(s) == "idle"

After(s) == IF s = "files" THEN "lists" ELSE "idle"
Leave(r, s) == IF After(s) = "idle" THEN Answer(r) ELSE Goto(r, After(s))

Joined(s, slot) == IF s = "lists" THEN own[s][slot] ELSE {}

MoveStore(r, s) ==
    LET old == Slot(s, req[r].from)
        new == Slot(s, req[r].to)
        \* Whose file is overwritten, moved to another name or removed.
        lost == IF s = "lists" THEN {}
                ELSE IF old = new THEN own[s][old]
                ELSE own[s][new] \cup (own[s][old] \ {Holds(r)})
    IN  /\ req[r].pc = s
        /\ IF own[s][old] = {} THEN UNCHANGED <<own, excused>>
           ELSE /\ own' = [own EXCEPT
                       ![s][new] = own[s][old] \cup Joined(s, new),
                       ![s][old] = {}]
                /\ excused' = excused \cup lost
        /\ Leave(r, s)
        /\ UNCHANGED <<file, tokens, started, born, mailed, spent, filed, said, alike>>

MoveStoreFails(r, s) ==
    /\ req[r].pc = s
    /\ Leave(r, s)
    /\ excused' = (excused \cup {Holds(r)}) \ {Nobody}
    /\ UNCHANGED <<stores, started, born, mailed, spent, filed, said, alike>>

\* The user of an account sets up MFA, which replaces the file of that name, or
\* gets a package, a grant or a site.
FileUnder(s, p) ==
    LET i == file[p].id
        slot == Slot(s, file[p].name)
    IN  /\ file[p] \in Account
        /\ started < MaxStarts
        /\ started' = started + 1
        /\ own' = [own EXCEPT ![s][slot] = {i} \cup Joined(s, slot)]
        /\ filed' = filed \cup {<<s, i>>}
        /\ excused' = excused \cup (own[s][slot] \ (own'[s][slot] \cup {i}))
              \cup (IF \E x \in Requests : /\ req[x].from # req[x].to
                                         /\ Fold[file[p].name] \in Touched(x)
                    THEN {i} ELSE {})
        /\ UNCHANGED <<file, tokens, req, born, mailed, spent, said, alike>>

-----------------------------------------------------------------------------
(* Password reset: every call on the token file holds STORE_LOCK.  A save that *)
(* fails leaves the file as it was or without a link.                          *)

Without(ts, n) == {t \in ts : Fold[t.name] # Fold[n]}

\* forgot_password_submit lists all accounts, which one unreadable file under
\* accounts/ prevents.
Forgot(r, n) ==
    /\ req[r].pc = "idle"
    /\ \A p \in Names : file[p] # Torn
    /\ Exists(n)
    /\ LET a == file[PathOf(n)] IN
       Begin(r, {a.name}, Nobody, [Idle EXCEPT !.pc = "mint", !.from = a.name,
                                               !.to = a.name])
    /\ UNCHANGED <<stores, born, mailed, spent, filed, said>>

\* create_reset_token: one link per account, then the mail.
Mint(r, l) ==
    /\ req[r].pc = "mint"
    /\ Exists(req[r].to)
    /\ l \notin mailed
    /\ tokens' = Without(tokens, req[r].to) \cup {[link |-> l, name |-> req[r].to]}
    /\ mailed' = mailed \cup {l}
    /\ Answer(r)
    /\ UNCHANGED <<file, own, started, born, spent, filed, said, excused, alike>>

MintFails(r) ==
    /\ req[r].pc = "mint"
    /\ tokens' \in {tokens, {}}
    /\ Answer(r)
    /\ UNCHANGED <<file, own, history>>

\* reset_password_submit: a look, a second look, the account, then the link is
\* consumed, and only then the password written.
SubmitPeek(r, l) ==
    /\ req[r].pc = "idle"
    /\ \E t \in tokens :
          /\ t.link = l
          /\ Exists(t.name)
          /\ Begin(r, {t.name}, Nobody,
                   [Idle EXCEPT !.pc = "consume", !.from = t.name,
                                !.to = t.name, !.link = l])
    /\ UNCHANGED <<stores, born, mailed, spent, filed, said>>

\* Mutant: the look is trusted, the link is not looked for again.
ConsumeUnchecked(r) ==
    /\ req[r].pc = "consume"
    /\ tokens' = {t \in tokens : t.link # req[r].link}
    /\ Goto(r, "load")
    /\ UNCHANGED <<file, own, history>>

Consume(r) ==
    /\ req[r].pc = "consume"
    /\ \E t \in tokens :
          /\ t.link = req[r].link
          /\ tokens' = tokens \ {t}
    /\ Goto(r, "load")
    /\ UNCHANGED <<file, own, history>>

\* The link is gone, has expired, or the file could not be saved.
ConsumeFails(r) ==
    /\ req[r].pc = "consume"
    /\ tokens' \in {tokens, {}}
    /\ Answer(r)
    /\ UNCHANGED <<file, own, history>>

ResetLoad(r, w) ==
    LET n == req[r].to IN
    /\ req[r].pc = "load"
    /\ Exists(n)
    /\ LET a == file[PathOf(n)] IN
       Meet(r, {n}, a.id,
             [req[r] EXCEPT !.pc = "truncate", !.path = PathOf(n),
                            !.next = "drop", !.rec = [a EXCEPT !.pw = w]])
    /\ UNCHANGED <<stores, started, born, mailed, spent, filed, said, alike>>

\* Mutant: a failed reset is told apart by a label of its own.
ResetStops(r) ==
    /\ req[r].pc = "load"
    /\ ~Exists(req[r].to)
    /\ Goto(r, "failed")
    /\ UNCHANGED <<stores, history>>

\* The account has gone: the link is spent for nothing.
ResetFails(r) ==
    /\ req[r].pc = "load"
    /\ ~Exists(req[r].to)
    /\ Answer(r)
    /\ UNCHANGED <<stores, history>>

\* invalidate_tokens_for_user; an error of the save is ignored.
Drop(r) ==
    /\ req[r].pc = "drop"
    /\ tokens' \in {Without(tokens, req[r].to), tokens, {}}
    /\ Answer(r)
    /\ UNCHANGED <<file, own, history>>

\* An hour has passed.
Expire(l) ==
    /\ \E t \in tokens : t.link = l
    /\ tokens' = {t \in tokens : t.link # l}
    /\ UNCHANGED <<file, own, req, history>>

-----------------------------------------------------------------------------
(* The process ends.  What was being rewritten is torn; the token file may be. *)

Crash ==
    /\ \E r \in Requests : req[r].pc # "idle"
    /\ req' = [r \in Requests |-> Idle]
    /\ tokens' \in {tokens, {}}
    /\ excused' = (excused \cup {Holds(r) : r \in Requests}) \ {Nobody}
    /\ UNCHANGED <<file, own, started, born, mailed, spent, filed, said, alike>>

\* Not code: the instance has no requests left to start.
Rest ==
    /\ started = MaxStarts
    /\ \A r \in Requests : req[r].pc = "idle"
    /\ UNCHANGED vars

-----------------------------------------------------------------------------

Init ==
    /\ \E w \in Passwords :
          LET a == [id |-> Owner, name |-> OwnerName, pw |-> w, off |-> FALSE]
          IN  /\ file = [p \in Paths |-> IF p = Boot THEN a ELSE Absent]
              /\ said = [i \in Ids |-> [pw |-> w, off |-> FALSE, gone |-> FALSE]]
    /\ own = [s \in Stores |-> [n \in Names |-> {}]]
    /\ tokens = {}
    /\ req = [r \in Requests |-> Idle]
    /\ started = 0
    /\ born = {Owner}
    /\ mailed = {}
    /\ spent = [l \in Links |-> 0]
    /\ filed = {}
    /\ excused = {}
    /\ alike = FALSE

RequestStep(r) ==
    \/ \E n \in Names : CreateCheck(r, n) \/ DeleteLoad(r, n) \/ Forgot(r, n)
    \/ \E n, m \in Names : RenameLoad(r, n, m)
    \/ \E n \in Names, w \in Passwords, o \in BOOLEAN : EditLoad(r, n, w, o)
    \/ \E i \in Ids, w \in Passwords : CreatePlace(r, i, w)
    \/ CreateRefused(r) \/ Truncate(r) \/ Write(r) \/ SaveFails(r)
    \/ Remove(r) \/ RemoveFails(r)
    \/ Unlink(r) \/ UnlinkFails(r)
    \/ \E s \in Stores : MoveStore(r, s) \/ MoveStoreFails(r, s)
    \/ \E l \in Links : Mint(r, l) \/ SubmitPeek(r, l)
    \/ MintFails(r) \/ Consume(r) \/ ConsumeFails(r)
    \/ \E w \in Passwords : ResetLoad(r, w)
    \/ ResetFails(r) \/ Drop(r)

Next ==
    \/ \E r \in Requests : RequestStep(r)
    \/ \E s \in Stores, p \in Paths : FileUnder(s, p)
    \/ \E l \in Links : Expire(l)
    \/ Crash
    \/ Rest

Spec == Init /\ [][Next]_vars

-----------------------------------------------------------------------------
(* Properties *)

\* Every variable has its type.
TypeOK ==
    /\ file \in [Paths -> File]
    /\ own \in [Stores -> [Names -> SUBSET Ids]]
    /\ tokens \in SUBSET [link: Links, name: Names]
    /\ req \in [Requests -> [pc: Pcs, rec: Account \cup {Absent}, path: Paths,
                             from: Names, to: Names, next: Pcs,
                             link: Links \cup {NoLink}, met: BOOLEAN]]
    /\ started \in 0..MaxStarts
    /\ born \in SUBSET Ids
    /\ mailed \in SUBSET Links
    /\ spent \in [Links -> 0..2]
    /\ filed \in SUBSET (Stores \X Ids)
    /\ said \in [Ids -> [pw: Passwords, off: BOOLEAN, gone: BOOLEAN]]
    /\ excused \in SUBSET Ids
    /\ alike \in BOOLEAN

InHand(i) == \E r \in Requests : Holds(r) = i
PathsWith(i) == {p \in Paths : file[p] \in Account /\ file[p].id = i}

\* What the panel answered about an account holds: one file has it, with the
\* password and the disabled flag of its last successful edit, or none when it
\* was deleted - whatever requests on other accounts do at the same time, unless
\* two requests met on the account or one was left half done.
EditsStand ==
    \A i \in born \ excused :
        ~InHand(i) =>
            IF said[i].gone THEN PathsWith(i) = {}
            ELSE \E p \in Paths :
                    /\ PathsWith(i) = {p}
                    /\ file[p].pw = said[i].pw
                    /\ file[p].off = said[i].off

\* A mailed link sets a password at most once, however many requests submit it
\* at the same time and whatever is lost in a crash or a failed save.
LinkOnce == \A l \in Links : spent[l] <= 1

\* A rename takes along what rename_own_account moves - the MFA and passkey
\* files and the entries in the lists of packages, grants and sites: an account
\* has them under its present name and under no other, as long as no name was in
\* use in two spellings.  (A rename asked for under another spelling of the old
\* name leaves the files behind, and a list entry answers to every spelling.)
RefsFollow ==
    \A i \in born \ excused : \A s \in Stores :
        /\ ~alike
        /\ <<s, i>> \in filed
        /\ ~InHand(i)
        /\ ~said[i].gone
        => \E p \in PathsWith(i) :
              {n \in Names : i \in own[s][n]} = {Slot(s, file[p].name)}

=============================================================================
