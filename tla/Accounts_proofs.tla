---------------------------- MODULE Accounts_proofs ----------------------------
(* That what the panel answers about its accounts holds, for any number of      *)
(* accounts, names, requests and links.                                         *)
EXTENDS Accounts, TLAPS

ReqType == [pc: Pcs, rec: Account \cup {Absent}, path: Paths, from: Names, to: Names,
            next: Pcs, link: Links \cup {NoLink}, met: BOOLEAN]

At(r, labels) == req[r].pc \in labels

\* A request has the account it loaded from the load until its answer; a rename
\* that has an old file to remove writes another one; what is written has a name
\* the request touches.
Bare == {"idle", "place", "mint", "consume", "load"}
Shape(r) ==
  /\ At(r, Bare) <=> req[r].rec = Absent
  /\ At(r, Bare) => req[r].next = "idle" /\ req[r].from = req[r].to
  /\ req[r].next \in {"idle", "unlink", "files", "drop"}
  /\ At(r, {"truncate", "write", "unlink"}) /\ req[r].next = "unlink"
        => req[r].path # Key[req[r].from]
  /\ At(r, {"unlink"}) => req[r].next = "unlink"
  /\ At(r, {"truncate", "write"}) => Fold[req[r].rec.name] \in Touched(r)
ShapeOK == \A r \in Requests : Shape(r)

-----------------------------------------------------------------------------
(* Types                                                                      *)

ReqsOK   == req \in [Requests -> ReqType]
StoresOK == /\ file \in [Paths -> File]
            /\ own \in [Stores -> [Names -> SUBSET Ids]]
            /\ tokens \in SUBSET [link: Links, name: Names]
PastOK == /\ started \in 0..MaxStarts /\ born \in SUBSET Ids /\ mailed \in SUBSET Links
          /\ spent \in [Links -> 0..2] /\ filed \in SUBSET (Stores \X Ids)
          /\ said \in [Ids -> [pw: Passwords, off: BOOLEAN, gone: BOOLEAN]]
          /\ excused \in SUBSET Ids

\* The types of everything but the mark of two spellings.
TypedOK == ReqsOK /\ StoresOK /\ PastOK
AlikeOK == alike \in BOOLEAN

LEMMA Types == (TypedOK <=> ReqsOK /\ StoresOK /\ PastOK)
  BY DEF TypedOK

LEMMA TypesNext == ReqsOK' /\ StoresOK' /\ PastOK' => TypedOK'
  BY DEF TypedOK

LEMMA Markers ==
  /\ Boot \in Paths /\ Boot \notin Names /\ Names \subseteq Paths
  /\ OwnerName \in Names
  /\ \A n \in Names : Fold[n] \in Names /\ Key[n] \in Names /\ Key[n] \in Paths
  /\ \A n \in Names, s \in Stores : Slot(s, n) \in Names
  /\ Absent \notin Account /\ Torn \notin Account /\ Absent # Torn
  /\ Nobody \notin Ids /\ NoLink \notin Links
  /\ \A a \in Account : a.id \in Ids /\ a.name \in Names /\ a.pw \in Passwords /\ a.off \in BOOLEAN
  BY NamesAssumption, IdsAssumption, MarkersAssumption, LinksAssumption
     DEF Paths, Slot, Account

LEMMA IdleType ==
  /\ Idle \in ReqType /\ Idle.pc = "idle" /\ Idle.rec = Absent /\ Idle.path = Boot
  /\ Idle.from = OwnerName /\ Idle.to = OwnerName /\ Idle.next = "idle"
  /\ Idle.link = NoLink /\ Idle.met = FALSE
  BY Markers DEF Idle, ReqType, Pcs

LEMMA HoldsType ==
  ASSUME TypedOK, NEW r \in Requests
  PROVE  /\ Holds(r) \in Ids \cup {Nobody}
         /\ req[r] \in ReqType
         /\ req[r].rec \in Account <=> req[r].rec # Absent
         /\ req[r].rec \in Account <=> Holds(r) # Nobody
         /\ req[r].rec \in Account => Holds(r) = req[r].rec.id
  <1>1. req[r] \in ReqType
    BY Types DEF ReqsOK
  <1> QED
    BY <1>1, Markers DEF Holds, ReqType

\* Exists names a file with an account of that name.
LEMMA FoundAt ==
  ASSUME TypedOK, NEW n \in Names, Exists(n)
  PROVE  /\ PathOf(n) \in Paths /\ file[PathOf(n)] \in Account
         /\ Fold[file[PathOf(n)].name] = Fold[n]
         /\ PathOf(n) = Boot \/ PathOf(n) = Key[n]
  BY Markers DEF Exists, PathOf, Found

\* The local variables of a request that goes on, or ends.
LEMMA Went ==
  ASSUME TypedOK, NEW r \in Requests, NEW label \in Pcs, Goto(r, label)
  PROVE  /\ ReqsOK' /\ req'[r].pc = label /\ req'[r].rec = req[r].rec
         /\ req'[r].path = req[r].path /\ req'[r].from = req[r].from /\ req'[r].to = req[r].to
         /\ req'[r].next = req[r].next /\ req'[r].link = req[r].link /\ req'[r].met = req[r].met
         /\ \A x \in Requests \ {r} : req'[x] = req[x]
  <1>1. ReqsOK
    BY Types
  <1> QED
    BY <1>1 DEF Goto, ReqsOK, ReqType

LEMMA Answered ==
  ASSUME TypedOK, NEW r \in Requests, Answer(r)
  PROVE  /\ ReqsOK' /\ req'[r] = Idle /\ \A x \in Requests \ {r} : req'[x] = req[x]
  <1>1. ReqsOK
    BY Types
  <1> QED
    BY <1>1, IdleType DEF Answer, ReqsOK

\* The others a request meets learn of it, and nothing else.
Others(r, ns) == {x \in Requests \ {r} : Touched(x) \cap {Fold[n] : n \in ns} # {}}
Same(x) == /\ req'[x].pc = req[x].pc /\ req'[x].rec = req[x].rec
           /\ req'[x].path = req[x].path /\ req'[x].from = req[x].from
           /\ req'[x].to = req[x].to /\ req'[x].next = req[x].next
           /\ req'[x].link = req[x].link

Is(r, pc, rec, path, from, to, next, link) ==
  /\ req'[r].pc = pc /\ req'[r].rec = rec /\ req'[r].path = path /\ req'[r].from = from
  /\ req'[r].to = to /\ req'[r].next = next /\ req'[r].link = link

Meets(r, ns, i) ==
  /\ ReqsOK'
  /\ \A x \in Requests \ {r} : Same(x)
  /\ \A x \in Requests \ {r} : req'[x].met <=> req[x].met \/ x \in Others(r, ns)
  /\ excused' \subseteq Ids /\ excused \subseteq excused'
  /\ Others(r, ns) = {} => excused' = excused
  /\ Others(r, ns) # {} => /\ i \in excused' \cup {Nobody}
                           /\ \A x \in Others(r, ns) : Holds(x) \in excused' \cup {Nobody}

LEMMA Met ==
  ASSUME TypedOK, NEW r \in Requests, NEW ns, NEW i \in Ids \cup {Nobody}, NEW job \in ReqType,
         Meet(r, ns, i, job)
  PROVE  /\ Meets(r, ns, i)
         /\ Is(r, job.pc, job.rec, job.path, job.from, job.to, job.next, job.link)
         /\ req'[r].met <=> job.met \/ Others(r, ns) # {}
  <1>0. ReqsOK /\ excused \subseteq Ids /\ Nobody \notin Ids
    BY Types, Markers DEF PastOK
  <1> DEFINE o == Others(r, ns)
  <1>1. /\ req' = [x \in Requests |-> IF x = r THEN [job EXCEPT !.met = @ \/ o # {}]
                                      ELSE IF x \in o THEN [req[x] EXCEPT !.met = TRUE]
                                      ELSE req[x]]
        /\ excused' = IF o = {} THEN excused
                      ELSE (excused \cup {i} \cup {Holds(x) : x \in o}) \ {Nobody}
    BY DEF Meet, Others
  <1>2. \A x \in o : Holds(x) \in Ids \cup {Nobody}
    BY HoldsType DEF Others
  <1> HIDE DEF o
  <1>3. /\ req'[r] = [job EXCEPT !.met = @ \/ o # {}]
        /\ \A x \in Requests \ {r} : req'[x] = IF x \in o THEN [req[x] EXCEPT !.met = TRUE] ELSE req[x]
    BY <1>1
  <1>4. /\ req'[r] \in ReqType /\ req'[r].pc = job.pc /\ req'[r].rec = job.rec
        /\ req'[r].path = job.path /\ req'[r].from = job.from /\ req'[r].to = job.to
        /\ req'[r].next = job.next /\ req'[r].link = job.link
        /\ req'[r].met <=> job.met \/ o # {}
    BY <1>3 DEF ReqType
  <1>5. ASSUME NEW x \in Requests \ {r}
        PROVE  req'[x] \in ReqType /\ Same(x) /\ (req'[x].met <=> req[x].met \/ x \in o)
    <2>1. req[x] \in ReqType
      BY <1>0 DEF ReqsOK
    <2>2. CASE x \in o
      <3>1. req'[x] = [req[x] EXCEPT !.met = TRUE]
        BY <1>3, <2>2
      <3> QED
        BY <2>1, <2>2, <3>1 DEF ReqType, Same
    <2>3. CASE x \notin o
      <3>1. req'[x] = req[x]
        BY <1>3, <2>3
      <3> QED
        BY <2>1, <2>3, <3>1 DEF ReqType, Same
    <2> QED
      BY <2>2, <2>3
  <1>6. ReqsOK'
    BY <1>1, <1>4, <1>5 DEF ReqsOK
  <1>7. /\ excused' \subseteq Ids /\ excused \subseteq excused'
        /\ o = {} => excused' = excused
        /\ o # {} => i \in excused' \cup {Nobody} /\ \A x \in o : Holds(x) \in excused' \cup {Nobody}
    BY <1>0, <1>1, <1>2
  <1> QED
    BY <1>4, <1>5, <1>6, <1>7 DEF o, Meets, Is

\* What each request that starts takes with it.
Starts(r, ns, i) == /\ req[r].pc = "idle" /\ started' \in 0..MaxStarts /\ Meets(r, ns, i)
                    /\ req'[r].met <=> Others(r, ns) # {}
                    /\ UNCHANGED <<stores, born, mailed, spent, filed, said>>

LEMMA Begun ==
  ASSUME TypedOK, NEW r \in Requests, NEW ns, NEW i \in Ids \cup {Nobody}, NEW job \in ReqType,
         ~job.met, Begin(r, ns, i, job), req[r].pc = "idle",
         UNCHANGED <<stores, born, mailed, spent, filed, said>>
  PROVE  /\ Starts(r, ns, i)
         /\ Is(r, job.pc, job.rec, job.path, job.from, job.to, job.next, job.link)
  <1>1. started' \in 0..MaxStarts
    BY Types, BoundsAssumption DEF Begin, PastOK
  <1>2. Meet(r, ns, i, job)
    BY DEF Begin
  <1> QED
    BY <1>1, <1>2, Met DEF Starts

LEMMA Created ==
  ASSUME TypedOK, NEW r \in Requests, NEW n \in Names, CreateCheck(r, n)
  PROVE  /\ Starts(r, {n}, Nobody) /\ ~Exists(n)
         /\ Is(r, "place", Absent, Boot, n, n, "idle", NoLink)
  <1> DEFINE job == [Idle EXCEPT !.pc = "place", !.from = n, !.to = n]
  <1>1. /\ job \in ReqType /\ ~job.met /\ job.pc = "place" /\ job.rec = Absent /\ job.path = Boot
        /\ job.from = n /\ job.to = n /\ job.next = "idle" /\ job.link = NoLink
    BY IdleType DEF ReqType, Pcs
  <1>2. /\ Begin(r, {n}, Nobody, job) /\ req[r].pc = "idle" /\ ~Exists(n)
        /\ UNCHANGED <<stores, born, mailed, spent, filed, said>>
    BY DEF CreateCheck
  <1> HIDE DEF job
  <1> QED
    BY <1>1, <1>2, Begun

LEMMA Edited ==
  ASSUME TypedOK, NEW r \in Requests, NEW n \in Names, NEW w \in Passwords, NEW o \in BOOLEAN,
         EditLoad(r, n, w, o)
  PROVE  \E rec \in Account :
           LET a == file[PathOf(n)] IN
           /\ Starts(r, {n}, a.id) /\ Exists(n)
           /\ Is(r, "truncate", rec, PathOf(n), n, n, "idle", NoLink)
           /\ rec.id = a.id /\ rec.name = a.name
  <1>0. Exists(n)
    BY DEF EditLoad
  <1> DEFINE a == file[PathOf(n)]
             rec == [a EXCEPT !.pw = w, !.off = o]
             job == [Idle EXCEPT !.pc = "truncate", !.path = PathOf(n), !.from = n,
                                 !.to = n, !.rec = rec]
  <1>2. /\ Begin(r, {n}, a.id, job) /\ req[r].pc = "idle"
        /\ UNCHANGED <<stores, born, mailed, spent, filed, said>>
    BY DEF EditLoad
  <1>3. a \in Account /\ PathOf(n) \in Paths
    BY <1>0, FoundAt
  <1>4. rec \in Account /\ rec.id = a.id /\ rec.name = a.name
    BY <1>3 DEF Account
  <1>5. a.id \in Ids
    BY <1>3, Markers
  <1> HIDE DEF rec, a
  <1>1. /\ job \in ReqType /\ ~job.met /\ job.pc = "truncate" /\ job.rec = rec
        /\ job.path = PathOf(n)
        /\ job.from = n /\ job.to = n /\ job.next = "idle" /\ job.link = NoLink
    BY <1>3, <1>4, IdleType DEF ReqType, Pcs
  <1> HIDE DEF job
  <1>6. /\ Starts(r, {n}, a.id)
        /\ Is(r, "truncate", rec, PathOf(n), n, n, "idle", NoLink)
    BY <1>1, <1>2, <1>5, Begun
  <1> QED
    BY <1>0, <1>4, <1>6 DEF a

LEMMA Deleted ==
  ASSUME TypedOK, NEW r \in Requests, NEW n \in Names, DeleteLoad(r, n)
  PROVE  LET a == file[PathOf(n)] IN
         /\ Starts(r, {n}, a.id) /\ Exists(n)
         /\ Is(r, "remove", a, PathOf(n), n, n, "idle", NoLink)
  <1>0. Exists(n)
    BY DEF DeleteLoad
  <1> DEFINE a == file[PathOf(n)]
             job == [Idle EXCEPT !.pc = "remove", !.path = PathOf(n), !.from = n,
                                 !.to = n, !.rec = a]
  <1>2. /\ Begin(r, {n}, a.id, job) /\ req[r].pc = "idle"
        /\ UNCHANGED <<stores, born, mailed, spent, filed, said>>
    BY DEF DeleteLoad
  <1>3. a \in Account /\ PathOf(n) \in Paths
    BY <1>0, FoundAt
  <1>5. a.id \in Ids
    BY <1>3, Markers
  <1> HIDE DEF a
  <1>1. /\ job \in ReqType /\ ~job.met /\ job.pc = "remove" /\ job.rec = a
        /\ job.path = PathOf(n)
        /\ job.from = n /\ job.to = n /\ job.next = "idle" /\ job.link = NoLink
    BY <1>3, IdleType DEF ReqType, Pcs
  <1> HIDE DEF job
  <1>6. /\ Starts(r, {n}, a.id)
        /\ Is(r, "remove", a, PathOf(n), n, n, "idle", NoLink)
    BY <1>1, <1>2, <1>5, Begun
  <1> QED
    BY <1>0, <1>6 DEF a

\* A rename of the bootstrap account rewrites its file; any other is written to
\* the file of the new name, and the old one is removed when it is another one.
LEMMA Renamed ==
  ASSUME TypedOK, NEW r \in Requests, NEW n \in Names, NEW m \in Names, RenameLoad(r, n, m)
  PROVE  \E rec \in Account, p \in Paths :
           LET a == file[PathOf(n)]
               next == IF PathOf(n) \in {Boot, Key[m]} THEN "files" ELSE "unlink"
           IN
           /\ Starts(r, {n, m}, a.id) /\ Exists(n) /\ ~Exists(m) /\ Fold[a.name] # Fold[m]
           /\ p = IF PathOf(n) = Boot THEN Boot ELSE Key[m]
           /\ Is(r, "truncate", rec, p, n, m, next, NoLink)
           /\ rec.id = a.id /\ rec.name = m
  <1>0. /\ Exists(n) /\ ~Exists(m) /\ Fold[file[PathOf(n)].name] # Fold[m]
    BY DEF RenameLoad
  <1> DEFINE a == file[PathOf(n)]
             p == IF PathOf(n) = Boot THEN Boot ELSE Key[m]
             next == IF PathOf(n) \in {Boot, Key[m]} THEN "files" ELSE "unlink"
             rec == [a EXCEPT !.name = m]
             job == [Idle EXCEPT !.pc = "truncate", !.path = p, !.next = next,
                                 !.from = n, !.to = m, !.rec = rec]
  <1>2. /\ Begin(r, {n, m}, a.id, job) /\ req[r].pc = "idle"
        /\ UNCHANGED <<stores, born, mailed, spent, filed, said>>
    BY DEF RenameLoad
  <1>3. a \in Account /\ p \in Paths /\ next \in Pcs
    BY <1>0, FoundAt, Markers DEF Pcs
  <1>4. rec \in Account /\ rec.id = a.id /\ rec.name = m
    BY <1>3 DEF Account
  <1>5. a.id \in Ids
    BY <1>3, Markers
  <1>7. p = (IF PathOf(n) = Boot THEN Boot ELSE Key[m])
        /\ next = (IF PathOf(n) \in {Boot, Key[m]} THEN "files" ELSE "unlink")
    OBVIOUS
  <1> HIDE DEF rec, a, p, next
  <1>1. /\ job \in ReqType /\ ~job.met /\ job.pc = "truncate" /\ job.rec = rec
        /\ job.path = p
        /\ job.from = n /\ job.to = m /\ job.next = next /\ job.link = NoLink
    BY <1>3, <1>4, IdleType DEF ReqType, Pcs
  <1> HIDE DEF job
  <1>6. /\ Starts(r, {n, m}, a.id)
        /\ Is(r, "truncate", rec, p, n, m, next, NoLink)
    BY <1>1, <1>2, <1>5, Begun
  <1> QED
    BY <1>0, <1>3, <1>4, <1>6, <1>7 DEF a

LEMMA Forgotten ==
  ASSUME TypedOK, NEW r \in Requests, NEW n \in Names, Forgot(r, n)
  PROVE  LET a == file[PathOf(n)] IN
         /\ Starts(r, {a.name}, Nobody) /\ Exists(n)
         /\ Is(r, "mint", Absent, Boot, a.name, a.name, "idle", NoLink)
  <1>0. Exists(n)
    BY DEF Forgot
  <1> DEFINE a == file[PathOf(n)]
             job == [Idle EXCEPT !.pc = "mint", !.from = a.name, !.to = a.name]
  <1>2. /\ Begin(r, {a.name}, Nobody, job) /\ req[r].pc = "idle"
        /\ UNCHANGED <<stores, born, mailed, spent, filed, said>>
    BY DEF Forgot
  <1>3. a \in Account /\ a.name \in Names
    BY <1>0, FoundAt, Markers
  <1> HIDE DEF a
  <1>1. /\ job \in ReqType /\ ~job.met /\ job.pc = "mint" /\ job.rec = Absent
        /\ job.path = Boot
        /\ job.from = a.name /\ job.to = a.name /\ job.next = "idle" /\ job.link = NoLink
    BY <1>3, IdleType DEF ReqType, Pcs
  <1> HIDE DEF job
  <1>6. /\ Starts(r, {a.name}, Nobody)
        /\ Is(r, "mint", Absent, Boot, a.name, a.name, "idle", NoLink)
    BY <1>1, <1>2, Begun
  <1> QED
    BY <1>0, <1>6 DEF a

LEMMA Submitted ==
  ASSUME TypedOK, NEW r \in Requests, NEW l \in Links, SubmitPeek(r, l)
  PROVE  \E t \in tokens :
           /\ t.link = l /\ Exists(t.name) /\ t.name \in Names
           /\ Starts(r, {t.name}, Nobody)
           /\ Is(r, "consume", Absent, Boot, t.name, t.name, "idle", l)
           /\ ~alike' => Apart(t.name)
  <1>1. PICK t \in tokens :
          /\ t.link = l /\ Exists(t.name)
          /\ Begin(r, {t.name}, Nobody, [Idle EXCEPT !.pc = "consume", !.from = t.name,
                                                     !.to = t.name, !.link = l])
    BY DEF SubmitPeek
  <1>2. /\ req[r].pc = "idle"
        /\ UNCHANGED <<stores, born, mailed, spent, filed, said>>
    BY DEF SubmitPeek
  <1>3. t.name \in Names
    BY Types DEF StoresOK
  <1> DEFINE job == [Idle EXCEPT !.pc = "consume", !.from = t.name, !.to = t.name, !.link = l]
  <1>4. /\ job \in ReqType /\ ~job.met /\ job.pc = "consume" /\ job.rec = Absent
        /\ job.path = Boot
        /\ job.from = t.name /\ job.to = t.name /\ job.next = "idle" /\ job.link = l
    BY <1>3, IdleType DEF ReqType, Pcs
  <1>5. Begin(r, {t.name}, Nobody, job)
    BY <1>1
  <1> HIDE DEF job
  <1>6. /\ Starts(r, {t.name}, Nobody)
        /\ Is(r, "consume", Absent, Boot, t.name, t.name, "idle", l)
    BY <1>2, <1>4, <1>5, Begun
  <1>7. ~alike' => Apart(t.name)
    BY <1>5 DEF Begin
  <1> QED
    BY <1>1, <1>3, <1>6, <1>7

LEMMA Reloaded ==
  ASSUME TypedOK, NEW r \in Requests, NEW w \in Passwords, ResetLoad(r, w)
  PROVE  \E rec \in Account :
           LET n == req[r].to
               a == file[PathOf(n)]
           IN
           /\ Meets(r, {n}, a.id) /\ Exists(n) /\ n \in Names /\ req[r].pc = "load"
           /\ Is(r, "truncate", rec, PathOf(n), req[r].from, n, "drop", req[r].link)
           /\ req'[r].met <=> req[r].met \/ Others(r, {n}) # {}
           /\ rec.id = a.id /\ rec.name = a.name
           /\ UNCHANGED <<stores, started, born, mailed, spent, filed, said>>
  <1> DEFINE n == req[r].to
             a == file[PathOf(n)]
             rec == [a EXCEPT !.pw = w]
             job == [req[r] EXCEPT !.pc = "truncate", !.path = PathOf(n), !.next = "drop",
                                   !.rec = rec]
  <1>0. req[r] \in ReqType
    BY HoldsType
  <1>1. Exists(n) /\ n \in Names
    BY <1>0 DEF ResetLoad, ReqType
  <1>2. /\ Meet(r, {n}, a.id, job) /\ req[r].pc = "load"
        /\ UNCHANGED <<stores, started, born, mailed, spent, filed, said>>
    BY DEF ResetLoad
  <1>3. a \in Account /\ PathOf(n) \in Paths
    BY <1>1, FoundAt
  <1>4. rec \in Account /\ rec.id = a.id /\ rec.name = a.name
    BY <1>3 DEF Account
  <1>5. a.id \in Ids
    BY <1>3, Markers
  <1>7. n = req[r].to
    OBVIOUS
  <1> HIDE DEF rec, a, n
  <1>6. /\ job \in ReqType /\ job.pc = "truncate" /\ job.rec = rec
        /\ job.path = PathOf(n)
        /\ job.from = req[r].from /\ job.to = n /\ job.next = "drop" /\ job.link = req[r].link
    BY <1>0, <1>3, <1>4, <1>7 DEF ReqType, Pcs
  <1>9. job.met = req[r].met
    BY <1>0 DEF ReqType
  <1> HIDE DEF job
  <1>8. /\ Meets(r, {n}, a.id)
        /\ Is(r, "truncate", rec, PathOf(n), req[r].from, n, "drop", req[r].link)
        /\ req'[r].met <=> req[r].met \/ Others(r, {n}) # {}
    BY <1>2, <1>5, <1>6, <1>9, Met
  <1> QED
    BY <1>1, <1>2, <1>4, <1>8 DEF a, n

\* The account a request is about to create.
LEMMA Placed ==
  ASSUME TypedOK, NEW r \in Requests, NEW i \in Ids, NEW w \in Passwords, CreatePlace(r, i, w)
  PROVE  \E rec \in Account, p \in Paths :
           /\ ReqsOK' /\ rec.id = i /\ rec.name = req[r].to /\ req[r].to \in Names
           /\ p = IF file[Boot] \in Account THEN Key[req[r].to] ELSE Boot
           /\ req[r].pc = "place" /\ i \notin born
           /\ Is(r, "truncate", rec, p, req[r].from, req[r].to, req[r].next, req[r].link)
           /\ req'[r].met = req[r].met
           /\ \A x \in Requests \ {r} : req'[x] = req[x]
           /\ born' = born \cup {i}
           /\ excused' = IF req[r].met THEN excused \cup {i} ELSE excused
           /\ UNCHANGED <<stores, started, mailed, spent, filed, said>>
  <1> DEFINE rec == [id |-> i, name |-> req[r].to, pw |-> w, off |-> FALSE]
             p == IF file[Boot] \in Account THEN Key[req[r].to] ELSE Boot
  <1>0. req[r] \in ReqType /\ ReqsOK
    BY HoldsType, Types
  <1>1. req[r].to \in Names
    BY <1>0 DEF ReqType
  <1>2. rec \in Account /\ rec.id = i /\ rec.name = req[r].to /\ p \in Paths
    BY <1>1, Markers DEF Account
  <1>3. req' = [req EXCEPT ![r].pc = "truncate", ![r].path = p, ![r].rec = rec]
    BY DEF CreatePlace
  <1>4. p = IF file[Boot] \in Account THEN Key[req[r].to] ELSE Boot
    OBVIOUS
  <1> HIDE DEF rec, p
  <1>5. req'[r] = [req[r] EXCEPT !.pc = "truncate", !.path = p, !.rec = rec]
    BY <1>0, <1>3 DEF ReqsOK
  <1>6. \A x \in Requests \ {r} : req'[x] = req[x]
    BY <1>0, <1>3 DEF ReqsOK
  <1>7. /\ req'[r] \in ReqType /\ req'[r].met = req[r].met
        /\ Is(r, "truncate", rec, p, req[r].from, req[r].to, req[r].next, req[r].link)
    BY <1>0, <1>2, <1>5 DEF ReqType, Pcs, Is
  <1>8. ReqsOK'
    BY <1>0, <1>3, <1>6, <1>7 DEF ReqsOK
  <1>9. /\ req[r].pc = "place" /\ i \notin born /\ born' = born \cup {i}
        /\ excused' = IF req[r].met THEN excused \cup {i} ELSE excused
        /\ UNCHANGED <<stores, started, mailed, spent, filed, said>>
    BY DEF CreatePlace
  <1> QED
    BY <1>1, <1>2, <1>4, <1>6, <1>7, <1>8, <1>9

LEMMA CollideType ==
  ASSUME TypedOK, NEW r \in Requests, NEW p \in Paths, Collide(r, p)
  PROVE  /\ excused' \subseteq Ids /\ excused \subseteq excused'
         /\ Victims(r, p) \subseteq excused'
         /\ Victims(r, p) # {} => Holds(r) \in excused' \cup {Nobody}
         /\ Victims(r, p) = {} => excused' = excused
  <1>1. file[p] \in Account => file[p].id \in Ids
    BY Markers
  <1>2. \A x \in Requests : Holds(x) \in Ids \cup {Nobody}
    BY HoldsType
  <1>3. Victims(r, p) \subseteq Ids
    BY <1>1, <1>2 DEF Victims
  <1>4. excused \subseteq Ids /\ Nobody \notin Ids
    BY Types, Markers DEF PastOK
  <1> QED
    BY <1>2, <1>3, <1>4 DEF Collide

LEMMA PastSame ==
  ASSUME PastOK, UNCHANGED <<started, born, mailed, spent, filed, said>>,
         excused' \subseteq Ids
  PROVE  PastOK'
  BY DEF PastOK

LEMMA StoresSame == StoresOK /\ UNCHANGED stores => StoresOK'
  BY DEF StoresOK, stores

LEMMA StartsType ==
  ASSUME TypedOK, NEW r \in Requests, NEW ns, NEW i, Starts(r, ns, i)
  PROVE  TypedOK'
  <1>1. ReqsOK' /\ StoresOK'
    BY Types, StoresSame DEF Starts, Meets
  <1>2. PastOK'
    BY Types DEF Starts, Meets, PastOK
  <1> QED
    BY <1>1, <1>2, TypesNext

\* The stores keep their types.
LEMMA MoveType ==
  ASSUME TypedOK, NEW r \in Requests, NEW s \in Stores, MoveStore(r, s)
  PROVE  StoresOK' /\ excused' \subseteq Ids /\ excused \subseteq excused'
  <1> DEFINE old == Slot(s, req[r].from)
             new == Slot(s, req[r].to)
             lost == IF s = "lists" THEN {}
                     ELSE IF old = new THEN own[s][old]
                     ELSE own[s][new] \cup (own[s][old] \ {Holds(r)})
  <1>1. req[r].from \in Names /\ req[r].to \in Names
    BY HoldsType DEF ReqType
  <1>2. old \in Names /\ new \in Names
    BY <1>1, Markers
  <1>3. /\ own \in [Stores -> [Names -> SUBSET Ids]] /\ excused \subseteq Ids
        /\ file' = file /\ tokens' = tokens
    BY Types DEF StoresOK, PastOK, MoveStore
  <1>4. own[s] \in [Names -> SUBSET Ids]
    BY <1>3
  <1>5. lost \subseteq Ids /\ Joined(s, new) \subseteq Ids /\ own[s][old] \subseteq Ids
    BY <1>2, <1>4 DEF Joined
  <1>6. \/ UNCHANGED <<own, excused>>
        \/ /\ own' = [own EXCEPT ![s][new] = own[s][old] \cup Joined(s, new),
                                 ![s][old] = {}]
           /\ excused' = excused \cup lost
    BY DEF MoveStore
  <1> HIDE DEF old, new, lost
  <1>7. own' \in [Stores -> [Names -> SUBSET Ids]] /\ excused' \subseteq Ids /\ excused \subseteq excused'
    BY <1>2, <1>3, <1>4, <1>5, <1>6
  <1> QED
    BY <1>3, <1>7, Types DEF StoresOK

LEMMA FileType ==
  ASSUME TypedOK, NEW s \in Stores, NEW p \in Paths, FileUnder(s, p)
  PROVE  TypedOK' /\ excused \subseteq excused'
  <1> DEFINE i == file[p].id
             slot == Slot(s, file[p].name)
             put == {i} \cup Joined(s, slot)
  <1>1. file[p] \in Account
    BY DEF FileUnder
  <1>2. i \in Ids /\ slot \in Names
    BY <1>1, Markers
  <1>3. /\ ReqsOK /\ StoresOK /\ PastOK /\ started < MaxStarts /\ started' = started + 1
        /\ filed' = filed \cup {<<s, i>>}
        /\ UNCHANGED <<file, tokens, req, born, mailed, spent, said>>
    BY Types DEF FileUnder
  <1>4. /\ own \in [Stores -> [Names -> SUBSET Ids]] /\ own[s] \in [Names -> SUBSET Ids]
        /\ own' = [own EXCEPT ![s][slot] = put]
    BY <1>3 DEF StoresOK, FileUnder
  <1>5. put \subseteq Ids
    BY <1>2, <1>4 DEF Joined
  <1>6. excused' = excused \cup (own[s][slot] \ (own'[s][slot] \cup {i}))
              \cup (IF \E x \in Requests : /\ req[x].from # req[x].to
                                         /\ Fold[file[p].name] \in Touched(x)
                    THEN {i} ELSE {})
    BY DEF FileUnder
  <1> HIDE DEF i, slot, put
  <1>7. own' \in [Stores -> [Names -> SUBSET Ids]]
    BY <1>2, <1>4, <1>5
  <1>8. excused' \subseteq Ids /\ excused \subseteq excused'
    BY <1>2, <1>3, <1>4, <1>6 DEF PastOK
  <1>9. StoresOK' /\ ReqsOK'
    BY <1>3, <1>7 DEF StoresOK, ReqsOK
  <1>10. PastOK'
    BY <1>2, <1>3, <1>8, BoundsAssumption DEF PastOK
  <1> QED
    BY <1>8, <1>9, <1>10, TypesNext

LEMMA IdleAll ==
  ASSUME req' = [r \in Requests |-> Idle]
  PROVE  ReqsOK'
  BY IdleType DEF ReqsOK

LEMMA LeaveType ==
  ASSUME TypedOK, NEW r \in Requests, NEW s \in Stores, Leave(r, s)
  PROVE  ReqsOK'
  BY Went, Answered DEF Leave, After, Pcs

LEMMA InitType == Init => TypedOK
  <1> SUFFICES ASSUME Init PROVE TypedOK
    OBVIOUS
  <1>1. PICK w \in Passwords :
          LET a == [id |-> Owner, name |-> OwnerName, pw |-> w, off |-> FALSE]
          IN  /\ file = [p \in Paths |-> IF p = Boot THEN a ELSE Absent]
              /\ said = [i \in Ids |-> [pw |-> w, off |-> FALSE, gone |-> FALSE]]
    BY DEF Init
  <1> DEFINE a == [id |-> Owner, name |-> OwnerName, pw |-> w, off |-> FALSE]
  <1>2. a \in Account
    BY NamesAssumption, IdsAssumption DEF Account
  <1>3. file \in [Paths -> File]
    BY <1>1, <1>2 DEF File
  <1>4. StoresOK
    BY <1>3 DEF Init, StoresOK
  <1>5. ReqsOK
    BY IdleType DEF Init, ReqsOK
  <1>6. PastOK
    BY <1>1, IdsAssumption, BoundsAssumption DEF Init, PastOK
  <1> QED
    BY <1>4, <1>5, <1>6, Types

LEMMA StepType == TypedOK /\ ShapeOK /\ [Next]_vars => TypedOK'
  <1> SUFFICES ASSUME TypedOK, ShapeOK, [Next]_vars PROVE TypedOK'
    OBVIOUS
  <1>0. /\ ReqsOK /\ StoresOK /\ PastOK /\ excused \subseteq Ids
        /\ \A r \in Requests : req[r] \in ReqType /\ Holds(r) \in Ids \cup {Nobody}
    BY Types, HoldsType DEF PastOK
  <1>1. ASSUME NEW r \in Requests, NEW n \in Names, CreateCheck(r, n) PROVE TypedOK'
    BY <1>1, Created, StartsType
  <1>2. ASSUME NEW r \in Requests, NEW n \in Names, DeleteLoad(r, n) PROVE TypedOK'
    BY <1>2, Deleted, StartsType
  <1>3. ASSUME NEW r \in Requests, NEW n \in Names, Forgot(r, n) PROVE TypedOK'
    BY <1>3, Forgotten, StartsType
  <1>4. ASSUME NEW r \in Requests, NEW n \in Names, NEW m \in Names, RenameLoad(r, n, m) PROVE TypedOK'
    BY <1>4, Renamed, StartsType
  <1>5. ASSUME NEW r \in Requests, NEW n \in Names, NEW w \in Passwords, NEW o \in BOOLEAN,
               EditLoad(r, n, w, o) PROVE TypedOK'
    BY <1>5, Edited, StartsType
  <1>6. ASSUME NEW r \in Requests, NEW i \in Ids, NEW w \in Passwords, CreatePlace(r, i, w) PROVE TypedOK'
    <2>1. /\ ReqsOK' /\ UNCHANGED <<stores, started, mailed, spent, filed, said>>
          /\ born' = born \cup {i} /\ excused' \subseteq Ids
      BY <1>0, <1>6, Placed
    <2> QED
      BY <1>0, <2>1, StoresSame, TypesNext DEF PastOK
  <1>7. ASSUME NEW r \in Requests,
               \/ CreateRefused(r) \/ RemoveFails(r) \/ ResetFails(r) \/ MintFails(r)
               \/ ConsumeFails(r) \/ Drop(r)
        PROVE  TypedOK'
    <2>1. /\ ReqsOK' /\ UNCHANGED <<file, own, history>>
          /\ tokens' \in {Without(tokens, req[r].to), tokens, {}}
      BY <1>7, Answered DEF CreateRefused, RemoveFails, ResetFails, MintFails, ConsumeFails, Drop, stores
    <2>2. StoresOK'
      BY <1>0, <2>1 DEF StoresOK, Without
    <2> QED
      BY <1>0, <2>1, <2>2, TypesNext, PastSame DEF history
  <1>8. ASSUME NEW r \in Requests, Truncate(r) \/ Unlink(r) PROVE TypedOK'
    <2>1. PICK p \in Paths : file' = [file EXCEPT ![p] = Torn] \/ file' = [file EXCEPT ![p] = Absent]
      BY <1>0, <1>8, Markers DEF Truncate, Unlink, ReqType
    <2>2. /\ ReqsOK' /\ UNCHANGED <<own, tokens, started, born, mailed, spent, filed, said>>
          /\ excused' \subseteq Ids
      BY <1>0, <1>8, Markers, Went, CollideType DEF Truncate, Unlink, ReqType, Pcs
    <2>3. StoresOK'
      BY <1>0, <2>1, <2>2 DEF StoresOK, File
    <2> QED
      BY <1>0, <2>2, <2>3, TypesNext, PastSame
  <1>9. ASSUME NEW r \in Requests, Remove(r) PROVE TypedOK'
    <2>1. file' = [file EXCEPT ![req[r].path] = Absent] /\ req[r].path \in Paths
      BY <1>0, <1>9 DEF Remove, ReqType
    <2>2. /\ ReqsOK' /\ UNCHANGED <<own, tokens, started, born, mailed, spent, filed>>
          /\ excused' \subseteq Ids /\ said' = [said EXCEPT ![Holds(r)].gone = TRUE]
      BY <1>0, <1>9, Answered, CollideType DEF Remove, ReqType
    <2>3. StoresOK'
      BY <1>0, <2>1, <2>2 DEF StoresOK, File
    <2>4. said' \in [Ids -> [pw: Passwords, off: BOOLEAN, gone: BOOLEAN]]
      BY <1>0, <2>2 DEF PastOK
    <2>5. PastOK'
      BY <1>0, <2>2, <2>4 DEF PastOK
    <2> QED
      BY <2>2, <2>3, <2>5, TypesNext
  <1>10. ASSUME NEW r \in Requests, Write(r) PROVE TypedOK'
    <2>1. /\ file' = [file EXCEPT ![req[r].path] = req[r].rec]
          /\ said' = [said EXCEPT ![req[r].rec.id] = [pw |-> req[r].rec.pw, off |-> req[r].rec.off,
                                                      gone |-> FALSE]]
          /\ UNCHANGED <<own, tokens, started, born, mailed, filed, excused>>
          /\ spent' = spent \/ \E l \in Links : spent[l] < 2 /\ spent' = [spent EXCEPT ![l] = @ + 1]
      BY <1>10 DEF Write
    <2>2. req[r].rec \in Account
      BY <1>0, <1>10, HoldsType DEF Write, ShapeOK, Shape, At, Bare
    <2>3. spent' \in [Links -> 0..2]
      BY <1>0, <2>1 DEF PastOK
    <2>4. said' \in [Ids -> [pw: Passwords, off: BOOLEAN, gone: BOOLEAN]]
      BY <1>0, <2>1, <2>2, Markers DEF PastOK
    <2>5. PastOK'
      BY <1>0, <2>1, <2>3, <2>4 DEF PastOK
    <2>6. StoresOK'
      BY <1>0, <2>1, <2>2 DEF StoresOK, File
    <2>7. ReqsOK'
      BY <1>0, <1>10, Answered, Went DEF Write, ReqType
    <2> QED
      BY <2>5, <2>6, <2>7, TypesNext
  <1>11. ASSUME NEW r \in Requests, SaveFails(r) \/ UnlinkFails(r) PROVE TypedOK'
    <2>1. /\ ReqsOK' /\ excused' = excused \cup {Holds(r)}
          /\ UNCHANGED <<stores, started, born, mailed, spent, filed, said>>
      BY <1>11, Answered, Went DEF SaveFails, UnlinkFails, Pcs
    <2>2. Holds(r) # Nobody
      BY <1>0, <1>11, HoldsType DEF SaveFails, UnlinkFails, ShapeOK, Shape, At, Bare
    <2> QED
      BY <1>0, <2>1, <2>2, StoresSame, PastSame, TypesNext
  <1>12. ASSUME NEW r \in Requests, NEW s \in Stores, MoveStoreFails(r, s) PROVE TypedOK'
    <2>1. /\ ReqsOK' /\ excused' = (excused \cup {Holds(r)}) \ {Nobody}
          /\ UNCHANGED <<stores, started, born, mailed, spent, filed, said>>
      BY <1>12, LeaveType DEF MoveStoreFails
    <2> QED
      BY <1>0, <2>1, StoresSame, PastSame, TypesNext
  <1>13. ASSUME NEW r \in Requests, NEW s \in Stores, MoveStore(r, s) PROVE TypedOK'
    <2>1. ReqsOK' /\ UNCHANGED <<started, born, mailed, spent, filed, said>>
      BY <1>13, LeaveType DEF MoveStore
    <2> QED
      BY <1>0, <1>13, <2>1, MoveType, PastSame, TypesNext
  <1>14. ASSUME NEW r \in Requests, NEW l \in Links, Mint(r, l) PROVE TypedOK'
    <2>1. /\ ReqsOK' /\ UNCHANGED <<file, own, started, born, spent, filed, said, excused>>
          /\ mailed' = mailed \cup {l}
          /\ tokens' = Without(tokens, req[r].to) \cup {[link |-> l, name |-> req[r].to]}
      BY <1>14, Answered DEF Mint
    <2>2. req[r].to \in Names
      BY <1>0 DEF ReqType
    <2> QED
      BY <1>0, <2>1, <2>2, TypesNext DEF StoresOK, PastOK, Without
  <1>15. ASSUME NEW r \in Requests, Consume(r) PROVE TypedOK'
    <2>1. ReqsOK' /\ UNCHANGED <<file, own, history>> /\ tokens' \subseteq tokens
      BY <1>15, Went DEF Consume, Pcs
    <2> QED
      BY <1>0, <2>1, TypesNext DEF StoresOK, PastOK, history
  <1>16. ASSUME NEW r \in Requests, NEW w \in Passwords, ResetLoad(r, w) PROVE TypedOK'
    <2>1. /\ ReqsOK' /\ excused' \subseteq Ids
          /\ UNCHANGED <<stores, started, born, mailed, spent, filed, said>>
      BY <1>16, Reloaded DEF Meets
    <2> QED
      BY <1>0, <2>1, StoresSame, PastSame, TypesNext
  <1>17. ASSUME NEW l \in Links, Expire(l) PROVE TypedOK'
    BY <1>0, <1>17, TypesNext DEF Expire, StoresOK, PastOK, ReqsOK, history
  <1>18. CASE Crash
    <2>1. /\ tokens' \in {tokens, {}}
          /\ excused' = (excused \cup {Holds(r) : r \in Requests}) \ {Nobody}
          /\ UNCHANGED <<file, own, started, born, mailed, spent, filed, said>>
      BY <1>18 DEF Crash
    <2>2. ReqsOK'
      BY <1>18, IdleAll DEF Crash
    <2>3. excused' \subseteq Ids
      BY <1>0, <2>1
    <2> QED
      BY <1>0, <2>1, <2>2, <2>3, PastSame, TypesNext DEF StoresOK
  <1>19. CASE UNCHANGED vars
    BY <1>0, <1>19, TypesNext DEF vars, stores, history, ReqsOK, StoresOK, PastOK
  <1>20. ASSUME NEW r \in Requests, RequestStep(r) PROVE TypedOK'
    <2>1. CASE \E n \in Names : CreateCheck(r, n) \/ DeleteLoad(r, n) \/ Forgot(r, n)
      BY <1>1, <1>2, <1>3, <2>1
    <2>2. CASE \E n, m \in Names : RenameLoad(r, n, m)
      BY <1>4, <2>2
    <2>3. CASE \E n \in Names, w \in Passwords, o \in BOOLEAN : EditLoad(r, n, w, o)
      BY <1>5, <2>3
    <2>4. CASE \E i \in Ids, w \in Passwords : CreatePlace(r, i, w)
      BY <1>6, <2>4
    <2>5. CASE \/ CreateRefused(r) \/ Truncate(r) \/ Write(r) \/ SaveFails(r)
               \/ Remove(r) \/ RemoveFails(r) \/ Unlink(r) \/ UnlinkFails(r)
               \/ MintFails(r) \/ Consume(r) \/ ConsumeFails(r) \/ ResetFails(r) \/ Drop(r)
      BY <1>7, <1>8, <1>9, <1>10, <1>11, <1>15, <2>5
    <2>6. CASE \E s \in Stores : MoveStore(r, s) \/ MoveStoreFails(r, s)
      BY <1>12, <1>13, <2>6
    <2>7. CASE \E l \in Links : Mint(r, l)
      BY <1>14, <2>7
    <2>8. CASE \E l \in Links : SubmitPeek(r, l)
      BY <2>8, Submitted, StartsType
    <2>9. CASE \E w \in Passwords : ResetLoad(r, w)
      BY <1>16, <2>9
    <2> QED
      BY <1>20, <2>1, <2>2, <2>3, <2>4, <2>5, <2>6, <2>7, <2>8, <2>9 DEF RequestStep
  <1> QED
    BY <1>17, <1>18, <1>19, <1>20, FileType DEF Next, Rest

-----------------------------------------------------------------------------
(* Shapes                                                                     *)

LEMMA SameAsIs ==
  ASSUME NEW x \in Requests, req'[x] = req[x] PROVE Same(x)
  BY DEF Same

LEMMA ShapeKept ==
  ASSUME NEW x \in Requests, Same(x), Shape(x) PROVE Shape(x)'
  BY DEF Shape, Same, At, Touched

LEMMA IdleShape ==
  ASSUME NEW x \in Requests, req'[x] = Idle PROVE Shape(x)'
  BY IdleType DEF Shape, At, Bare

LEMMA BareShape ==
  ASSUME NEW r \in Requests, NEW pc \in Bare, NEW name, NEW link,
         Is(r, pc, Absent, Boot, name, name, "idle", link)
  PROVE  Shape(r)'
  BY DEF Shape, At, Bare, Is

LEMMA LoadShape ==
  ASSUME NEW r \in Requests, NEW rec \in Account, NEW p \in Paths, NEW from \in Names, NEW to \in Names,
         NEW next \in {"idle", "unlink", "files", "drop"}, NEW link,
         Is(r, "truncate", rec, p, from, to, next, link),
         next = "unlink" => p # Key[from],
         Fold[rec.name] \in {Fold[from], Fold[to]}
  PROVE  Shape(r)'
  BY Markers DEF Shape, At, Bare, Is, Touched

\* The restriction of a file name does not confuse a new name with the old one.
LEMMA StepShape == TypedOK /\ ShapeOK /\ [Next]_vars => ShapeOK'
  <1> SUFFICES ASSUME TypedOK, ShapeOK, [Next]_vars PROVE ShapeOK'
    OBVIOUS
  <1>0. /\ \A r \in Requests : Shape(r) /\ req[r] \in ReqType
        /\ \A r \in Requests : req[r].from \in Names /\ req[r].to \in Names
    BY HoldsType DEF ShapeOK, ReqType
  <1>a. ASSUME NEW r \in Requests, NEW ns, NEW i, Starts(r, ns, i) \/ Meets(r, ns, i), Shape(r)'
        PROVE  ShapeOK'
    BY <1>0, <1>a, ShapeKept DEF Starts, Meets, ShapeOK
  <1>b. ASSUME NEW r \in Requests, \A x \in Requests \ {r} : req'[x] = req[x], Shape(r)'
        PROVE  ShapeOK'
    BY <1>0, <1>b, ShapeKept, SameAsIs DEF ShapeOK
  <1>c. ASSUME NEW r \in Requests, Answer(r) PROVE ShapeOK'
    BY <1>b, <1>c, Answered, IdleShape
  <1>1. ASSUME NEW r \in Requests, NEW n \in Names, CreateCheck(r, n) PROVE ShapeOK'
    BY <1>1, <1>a, Created, BareShape DEF Bare
  <1>2. ASSUME NEW r \in Requests, NEW n \in Names, DeleteLoad(r, n) PROVE ShapeOK'
    <2>1. file[PathOf(n)] # Absent
      BY <1>2, Deleted, FoundAt, Markers
    <2>2. Shape(r)'
      BY <1>2, <2>1, Deleted DEF Shape, At, Bare, Is
    <2> QED
      BY <1>2, <1>a, <2>2, Deleted
  <1>3. ASSUME NEW r \in Requests, NEW n \in Names, Forgot(r, n) PROVE ShapeOK'
    BY <1>3, <1>a, Forgotten, BareShape DEF Bare
  <1>4. ASSUME NEW r \in Requests, NEW n \in Names, NEW m \in Names, RenameLoad(r, n, m) PROVE ShapeOK'
    <2>1. PICK rec \in Account, p \in Paths :
           LET a == file[PathOf(n)]
               next == IF PathOf(n) \in {Boot, Key[m]} THEN "files" ELSE "unlink"
           IN
           /\ Starts(r, {n, m}, a.id) /\ Exists(n)
           /\ p = IF PathOf(n) = Boot THEN Boot ELSE Key[m]
           /\ Is(r, "truncate", rec, p, n, m, next, NoLink)
           /\ rec.name = m
      BY <1>4, Renamed
    <2>2. Shape(r)'
      BY <2>1, FoundAt, LoadShape
    <2> QED
      BY <1>a, <2>1, <2>2
  <1>5. ASSUME NEW r \in Requests, NEW n \in Names, NEW w \in Passwords, NEW o \in BOOLEAN,
               EditLoad(r, n, w, o) PROVE ShapeOK'
    <2>1. PICK rec \in Account :
           LET a == file[PathOf(n)] IN
           /\ Starts(r, {n}, a.id) /\ Exists(n)
           /\ Is(r, "truncate", rec, PathOf(n), n, n, "idle", NoLink)
           /\ rec.name = a.name
      BY <1>5, Edited
    <2>2. Shape(r)'
      BY <2>1, FoundAt, LoadShape
    <2> QED
      BY <1>a, <2>1, <2>2
  <1>6. ASSUME NEW r \in Requests, NEW i \in Ids, NEW w \in Passwords, CreatePlace(r, i, w) PROVE ShapeOK'
    <2>1. PICK rec \in Account, p \in Paths :
           /\ rec.name = req[r].to /\ req[r].pc = "place"
           /\ Is(r, "truncate", rec, p, req[r].from, req[r].to, req[r].next, req[r].link)
           /\ \A x \in Requests \ {r} : req'[x] = req[x]
      BY <1>6, Placed
    <2>2. Shape(r)'
      BY <1>0, <2>1, LoadShape DEF Shape, At, Bare
    <2> QED
      BY <1>b, <2>1, <2>2
  <1>7. ASSUME NEW r \in Requests,
               \/ CreateRefused(r) \/ RemoveFails(r) \/ ResetFails(r) \/ MintFails(r)
               \/ ConsumeFails(r) \/ Drop(r) \/ Remove(r) \/ SaveFails(r) \/ \E l \in Links : Mint(r, l)
        PROVE  ShapeOK'
    BY <1>7, <1>c DEF CreateRefused, RemoveFails, ResetFails, MintFails, ConsumeFails, Drop, Remove,
       SaveFails, Mint
  <1>8. ASSUME NEW r \in Requests, Truncate(r) \/ Unlink(r) \/ UnlinkFails(r) \/ Consume(r)
        PROVE  ShapeOK'
    <2>1. PICK label \in Pcs : /\ Goto(r, label)
                              /\ \/ At(r, {"truncate"}) /\ label = "write"
                                 \/ At(r, {"unlink"}) /\ label = "files"
                                 \/ At(r, {"consume"}) /\ label = "load"
      BY <1>8 DEF Truncate, Unlink, UnlinkFails, Consume, At, Pcs
    <2>2. Shape(r)'
      BY <1>0, <2>1, Went DEF Shape, At, Bare, Touched
    <2> QED
      BY <1>b, <2>1, <2>2, Went
  <1>9. ASSUME NEW r \in Requests, Write(r) PROVE ShapeOK'
    <2>1. CASE req[r].next = "idle"
      BY <1>9, <1>c, <2>1 DEF Write
    <2>2. CASE req[r].next # "idle"
      <3>1. Goto(r, req[r].next) /\ req[r].next \in Pcs /\ req[r].pc = "write"
        BY <1>0, <1>9, <2>2 DEF Write, ReqType
      <3>2. Shape(r)'
        BY <1>0, <2>2, <3>1, Went DEF Shape, At, Bare
      <3> QED
        BY <1>b, <3>1, <3>2, Went
    <2> QED
      BY <2>1, <2>2
  <1>10. ASSUME NEW r \in Requests, NEW s \in Stores, Leave(r, s), req[r].pc = s PROVE ShapeOK'
    <2>1. CASE After(s) = "idle"
      BY <1>10, <1>c, <2>1 DEF Leave
    <2>2. CASE After(s) # "idle"
      <3>1. Goto(r, "lists") /\ req[r].pc = "files" /\ "lists" \in Pcs
        BY <1>10, <2>2 DEF Leave, After, Pcs
      <3>2. Shape(r)'
        BY <1>0, <3>1, Went DEF Shape, At, Bare
      <3> QED
        BY <1>b, <3>1, <3>2, Went
    <2> QED
      BY <2>1, <2>2
  <1>11. ASSUME NEW r \in Requests, NEW w \in Passwords, ResetLoad(r, w) PROVE ShapeOK'
    <2>1. PICK rec \in Account :
           LET n == req[r].to
               a == file[PathOf(n)]
           IN
           /\ Meets(r, {n}, a.id) /\ Exists(n) /\ n \in Names /\ req[r].pc = "load"
           /\ Is(r, "truncate", rec, PathOf(n), req[r].from, n, "drop", req[r].link)
           /\ rec.name = a.name
      BY <1>11, Reloaded
    <2>2. Shape(r)'
      BY <1>0, <2>1, FoundAt, LoadShape
    <2> QED
      BY <1>a, <2>1, <2>2
  <1>12. CASE Crash
    BY <1>12, IdleShape DEF Crash, ShapeOK
  <1>13. CASE UNCHANGED req
    BY <1>0, <1>13, ShapeKept, SameAsIs DEF ShapeOK
  <1>20. ASSUME NEW r \in Requests, RequestStep(r) PROVE ShapeOK'
    <2>1. CASE \E n \in Names : CreateCheck(r, n) \/ DeleteLoad(r, n) \/ Forgot(r, n)
      BY <1>1, <1>2, <1>3, <2>1
    <2>2. CASE \E n, m \in Names : RenameLoad(r, n, m)
      BY <1>4, <2>2
    <2>3. CASE \E n \in Names, w \in Passwords, o \in BOOLEAN : EditLoad(r, n, w, o)
      BY <1>5, <2>3
    <2>4. CASE \E i \in Ids, w \in Passwords : CreatePlace(r, i, w)
      BY <1>6, <2>4
    <2>5. CASE \/ CreateRefused(r) \/ Truncate(r) \/ Write(r) \/ SaveFails(r)
               \/ Remove(r) \/ RemoveFails(r) \/ Unlink(r) \/ UnlinkFails(r)
               \/ MintFails(r) \/ Consume(r) \/ ConsumeFails(r) \/ ResetFails(r) \/ Drop(r)
      BY <1>7, <1>8, <1>9, <2>5
    <2>6. CASE \E s \in Stores : MoveStore(r, s) \/ MoveStoreFails(r, s)
      BY <1>10, <2>6 DEF MoveStore, MoveStoreFails
    <2>7. CASE \E l \in Links : Mint(r, l)
      BY <1>7, <2>7
    <2>8. CASE \E l \in Links : SubmitPeek(r, l)
      BY <1>a, <2>8, Submitted, BareShape DEF Bare
    <2>9. CASE \E w \in Passwords : ResetLoad(r, w)
      BY <1>11, <2>9
    <2> QED
      BY <1>20, <2>1, <2>2, <2>3, <2>4, <2>5, <2>6, <2>7, <2>8, <2>9 DEF RequestStep
  <1> QED
    BY <1>12, <1>13, <1>20 DEF Next, Rest, FileUnder, Expire, vars

LEMMA InitShape == Init => ShapeOK
  BY IdleType DEF Init, ShapeOK, Shape, At, Bare

LEMMA Typed == Spec => [](TypedOK /\ ShapeOK)
  <1>1. Init => TypedOK /\ ShapeOK
    BY InitType, InitShape
  <1>2. TypedOK /\ ShapeOK /\ [Next]_vars => (TypedOK /\ ShapeOK)'
    BY StepType, StepShape
  <1> QED
    BY <1>1, <1>2, PTL DEF Spec

\* Whether two spellings of a name have met: only a request that starts tells.
LEMMA Marking ==
  ASSUME [Next]_vars
  PROVE  \/ alike' = alike
         \/ \E r \in Requests : \E ns, i, job : Begin(r, ns, i, job)
  <1>1. ASSUME NEW r \in Requests, RequestStep(r)
        PROVE  \/ alike' = alike
               \/ \E ns, i, job : Begin(r, ns, i, job)
    <2>1. CASE \/ \E n \in Names : CreateCheck(r, n) \/ DeleteLoad(r, n) \/ Forgot(r, n)
               \/ \E n, m \in Names : RenameLoad(r, n, m)
               \/ \E n \in Names, w \in Passwords, o \in BOOLEAN : EditLoad(r, n, w, o)
      BY <2>1 DEF CreateCheck, DeleteLoad, Forgot, RenameLoad, EditLoad
    <2>2. CASE \E l \in Links : SubmitPeek(r, l)
      BY <2>2 DEF SubmitPeek
    <2>3. CASE \/ CreateRefused(r) \/ Truncate(r) \/ Write(r) \/ SaveFails(r)
               \/ Remove(r) \/ RemoveFails(r) \/ Unlink(r) \/ UnlinkFails(r)
               \/ MintFails(r) \/ Consume(r) \/ ConsumeFails(r) \/ ResetFails(r) \/ Drop(r)
               \/ \E i \in Ids, w \in Passwords : CreatePlace(r, i, w)
               \/ \E s \in Stores : MoveStore(r, s) \/ MoveStoreFails(r, s)
               \/ \E l \in Links : Mint(r, l)
               \/ \E w \in Passwords : ResetLoad(r, w)
      BY <2>3 DEF CreateRefused, Truncate, Write, SaveFails, Remove, RemoveFails, Unlink, UnlinkFails,
         MintFails, Consume, ConsumeFails, ResetFails, Drop, CreatePlace, MoveStore, MoveStoreFails,
         Mint, ResetLoad, history
    <2> QED
      BY <1>1, <2>1, <2>2, <2>3 DEF RequestStep
  <1>2. CASE \/ \E s \in Stores, p \in Paths : FileUnder(s, p)
             \/ \E l \in Links : Expire(l)
             \/ Crash \/ Rest \/ UNCHANGED vars
    BY <1>2 DEF FileUnder, Expire, Crash, Rest, vars, history
  <1> QED
    BY <1>1, <1>2 DEF Next

\* The files, the links and what every request does keep their types: a request
\* that empties, writes or removes a file has the account it found.
THEOREM TypeCorrect == Spec => []TypeOK
  <1>1. Init => AlikeOK
    BY DEF Init, AlikeOK
  <1>2. TypedOK /\ ShapeOK /\ AlikeOK /\ [Next]_vars => AlikeOK'
    BY Marking DEF Begin, AlikeOK
  <1>3. TypedOK /\ AlikeOK => TypeOK
    BY DEF TypedOK, ReqsOK, StoresOK, PastOK, ReqType, AlikeOK, TypeOK
  <1>4. Spec => [](TypedOK /\ ShapeOK)
    BY Typed
  <1>5. Spec => [](AlikeOK)
    BY <1>1, <1>2, <1>4, PTL DEF Spec
  <1> QED
    BY <1>3, <1>4, <1>5, PTL
-----------------------------------------------------------------------------
(* The links                                                                  *)

Uses(r, l) == req[r].link = l /\ At(r, {"load", "truncate", "write"})

\* A link is in the file, or at work in one request, or neither; until it has set
\* a password none has been set with it.
OneToken  == \A t, u \in tokens : t.link = u.link => t = u
Unspent   == \A t \in tokens : /\ t.link \in mailed /\ spent[t.link] = 0
                               /\ \A r \in Requests : ~Uses(r, t.link)
LinkKnown == \A r \in Requests : /\ req[r].link \in Links => req[r].link \in mailed
                                 /\ At(r, {"place"}) => req[r].link = NoLink
OneUse    == \A r, x \in Requests, l \in Links : Uses(r, l) /\ Uses(x, l) => r = x
UseFirst  == \A r \in Requests, l \in Links : Uses(r, l) => spent[l] = 0
SpentOnce == \A l \in Links : spent[l] <= 1 /\ (spent[l] > 0 => l \in mailed)
LinkInv == OneToken /\ Unspent /\ LinkKnown /\ OneUse /\ UseFirst /\ SpentOnce

LEMMA LinkInit == Init => LinkInv
  <1> SUFFICES ASSUME Init PROVE LinkInv
    OBVIOUS
  <1>1. /\ tokens = {} /\ spent = [l \in Links |-> 0]
        /\ \A r \in Requests : req[r].link = NoLink /\ req[r].pc = "idle"
    BY IdleType DEF Init
  <1> QED
    BY <1>1, Markers DEF LinkInv, OneToken, Unspent, LinkKnown, OneUse, UseFirst, SpentOnce, Uses, At

\* No request takes up a link: what holds of the links stays so.
LEMMA LinkKept ==
  ASSUME TypedOK, LinkInv, tokens' \subseteq tokens, mailed' = mailed, spent' = spent,
         \A x \in Requests :
            /\ req'[x].link \in Links => req'[x].link = req[x].link \/ req'[x].link \in mailed
            /\ \A l \in Links : Uses(x, l)' => Uses(x, l)
            /\ At(x, {"place"})' => req'[x].link = NoLink
  PROVE  LinkInv'
  <1>1. \A t \in tokens : t.link \in Links
    BY Types DEF StoresOK
  <1> QED
    BY <1>1 DEF LinkInv, OneToken, Unspent, LinkKnown, OneUse, UseFirst, SpentOnce

LEMMA LinkFrame ==
  ASSUME TypedOK, LinkInv, tokens' \subseteq tokens, mailed' = mailed, spent' = spent,
         NEW r \in Requests, \A x \in Requests \ {r} : Same(x),
         /\ req'[r].link \in Links => req'[r].link = req[r].link \/ req'[r].link \in mailed
         /\ \A l \in Links : Uses(r, l)' => Uses(r, l)
         /\ At(r, {"place"})' => req'[r].link = NoLink
  PROVE  LinkInv'
  <1>1. \A x \in Requests \ {r} : /\ req'[x].link = req[x].link
                                  /\ \A l \in Links : Uses(x, l)' => Uses(x, l)
                                  /\ At(x, {"place"})' => req'[x].link = NoLink
    BY DEF Same, Uses, At, LinkInv, LinkKnown
  <1> QED
    BY <1>1, LinkKept

LEMMA LinkStep == TypedOK /\ ShapeOK /\ LinkInv /\ [Next]_vars => LinkInv'
  <1> SUFFICES ASSUME TypedOK, ShapeOK, LinkInv, [Next]_vars PROVE LinkInv'
    OBVIOUS
  <1>0. /\ \A r \in Requests : Shape(r) /\ req[r] \in ReqType
        /\ tokens \subseteq [link : Links, name : Names] /\ NoLink \notin Links
        /\ spent \in [Links -> 0..2]
    BY HoldsType, Types, Markers DEF ShapeOK, StoresOK, PastOK
  <1>a. ASSUME NEW r \in Requests, NEW ns, NEW i, NEW pc, NEW rec, NEW p, NEW from, NEW to, NEW next,
               Starts(r, ns, i), Is(r, pc, rec, p, from, to, next, NoLink)
        PROVE  LinkInv'
    BY <1>0, <1>a, LinkFrame DEF Starts, Meets, Is, Uses, At, stores
  <1>c. ASSUME NEW r \in Requests, Answer(r), tokens' \subseteq tokens, mailed' = mailed, spent' = spent
        PROVE  LinkInv'
    BY <1>0, <1>c, Answered, SameAsIs, IdleType, LinkFrame DEF Uses, At
  <1>d. ASSUME NEW r \in Requests, NEW label \in Pcs, Goto(r, label),
               tokens' \subseteq tokens, mailed' = mailed, spent' = spent,
               \/ label \in {"unlink", "files", "lists", "drop"}
               \/ label = "write" /\ req[r].pc = "truncate"
        PROVE  LinkInv'
    BY <1>0, <1>d, Went, SameAsIs, LinkFrame DEF Uses, At
  <1>1. ASSUME NEW r \in Requests, NEW n \in Names, CreateCheck(r, n) PROVE LinkInv'
    BY <1>1, <1>a, Created
  <1>2. ASSUME NEW r \in Requests, NEW n \in Names, DeleteLoad(r, n) PROVE LinkInv'
    BY <1>2, <1>a, Deleted
  <1>3. ASSUME NEW r \in Requests, NEW n \in Names, Forgot(r, n) PROVE LinkInv'
    BY <1>3, <1>a, Forgotten
  <1>4. ASSUME NEW r \in Requests, NEW n \in Names, NEW m \in Names, RenameLoad(r, n, m) PROVE LinkInv'
    BY <1>4, <1>a, Renamed
  <1>5. ASSUME NEW r \in Requests, NEW n \in Names, NEW w \in Passwords, NEW o \in BOOLEAN,
               EditLoad(r, n, w, o) PROVE LinkInv'
    BY <1>5, <1>a, Edited
  <1>6. ASSUME NEW r \in Requests, NEW i \in Ids, NEW w \in Passwords, CreatePlace(r, i, w) PROVE LinkInv'
    <2>1. /\ req[r].pc = "place" /\ req'[r].pc = "truncate" /\ req'[r].link = req[r].link
          /\ \A x \in Requests \ {r} : req'[x] = req[x]
          /\ UNCHANGED <<stores, mailed, spent>>
      BY <1>6, Placed DEF Is
    <2>2. req'[r].link = NoLink
      BY <2>1 DEF LinkInv, LinkKnown, At
    <2> QED
      BY <1>0, <2>1, <2>2, SameAsIs, LinkFrame DEF Uses, At, stores
  <1>7. ASSUME NEW r \in Requests,
               \/ CreateRefused(r) \/ RemoveFails(r) \/ ResetFails(r) \/ MintFails(r)
               \/ ConsumeFails(r) \/ Drop(r) \/ Remove(r) \/ SaveFails(r)
        PROVE  LinkInv'
    BY <1>7, <1>c DEF CreateRefused, RemoveFails, ResetFails, MintFails, ConsumeFails, Drop, Remove,
       SaveFails, Without, stores, history
  <1>8. ASSUME NEW r \in Requests, Truncate(r) \/ Unlink(r) \/ UnlinkFails(r) PROVE LinkInv'
    BY <1>8, <1>d DEF Truncate, Unlink, UnlinkFails, stores, history, Pcs
  <1>9. ASSUME NEW r \in Requests, Write(r) PROVE LinkInv'
    <2>1. /\ req[r].pc = "write" /\ req'[r].pc \notin {"load", "truncate", "write", "place"}
          /\ req'[r].link \in Links => req'[r].link = req[r].link
          /\ \A x \in Requests \ {r} : req'[x] = req[x]
          /\ UNCHANGED <<tokens, mailed>>
      <3>1. req[r].pc = "write" /\ UNCHANGED <<tokens, mailed>>
        BY <1>9 DEF Write
      <3>2. CASE req[r].next = "idle"
        BY <1>0, <1>9, <3>1, <3>2, Answered, IdleType DEF Write
      <3>3. CASE req[r].next # "idle"
        <4>1. Goto(r, req[r].next) /\ req[r].next \in {"unlink", "files", "drop"} /\ req[r].next \in Pcs
          BY <1>0, <1>9, <3>3 DEF Write, Shape, ReqType
        <4> QED
          BY <3>1, <4>1, Went
      <3> QED
        BY <3>2, <3>3
    <2>2. ASSUME NEW x \in Requests, NEW l \in Links
          PROVE  ~Uses(r, l)' /\ (x # r => (Uses(x, l)' <=> Uses(x, l)))
      BY <2>1 DEF Uses, At
    <2>3. spent' = IF req[r].link \in Links /\ spent[req[r].link] < 2
                   THEN [spent EXCEPT ![req[r].link] = @ + 1] ELSE spent
      BY <1>9 DEF Write
    <2>4. \A x \in Requests : /\ req'[x].link \in Links => req'[x].link = req[x].link
                              /\ At(x, {"place"})' => req'[x].link = NoLink
      BY <2>1 DEF At, LinkInv, LinkKnown
    <2>5. CASE req[r].link \notin Links
      <3>1. spent' = spent
        BY <2>3, <2>5
      <3>2. \A x \in Requests, l \in Links : Uses(x, l)' => Uses(x, l)
        BY <2>2
      <3> QED
        BY <2>1, <2>4, <3>1, <3>2, LinkKept
    <2>6. CASE req[r].link \in Links
      <3> PICK k \in Links : k = req[r].link
        BY <2>6
      <3>1. Uses(r, k) /\ k \in Links
        BY <2>1, <2>6 DEF Uses, At
      <3>2. spent[k] = 0 /\ k \in mailed
        BY <3>1 DEF LinkInv, UseFirst, LinkKnown
      <3>3. spent'[k] = 1 /\ \A l \in Links \ {k} : spent'[l] = spent[l]
        BY <1>0, <2>3, <3>1, <3>2
      <3>4. \A t \in tokens : t.link # k
        BY <3>1 DEF LinkInv, Unspent
      <3>5. \A x \in Requests : ~Uses(x, k)'
        BY <2>2, <3>1 DEF LinkInv, OneUse
      <3>6. tokens' = tokens /\ mailed' = mailed /\ \A t \in tokens : t.link \in Links
        BY <1>0, <2>1
      <3>7. \A x \in Requests, l \in Links : Uses(x, l)' => Uses(x, l) /\ l # k
        BY <2>2, <3>5
      <3>8. OneToken' /\ LinkKnown' /\ OneUse'
        BY <2>4, <3>6, <3>7 DEF LinkInv, OneToken, LinkKnown, OneUse
      <3>11. UseFirst'
        BY <3>3, <3>7 DEF LinkInv, UseFirst
      <3>12. ASSUME NEW t \in tokens
             PROVE  /\ t.link \in mailed' /\ spent'[t.link] = 0
                    /\ \A x \in Requests : ~Uses(x, t.link)'
        <4>1. t.link \in Links /\ t.link # k
          BY <3>4, <3>6
        <4>2. t.link \in mailed /\ spent[t.link] = 0 /\ \A x \in Requests : ~Uses(x, t.link)
          BY DEF LinkInv, Unspent
        <4>3. spent'[t.link] = spent[t.link]
          BY <3>3, <4>1
        <4> QED
          BY <3>6, <3>7, <4>1, <4>2, <4>3
      <3>9. Unspent' /\ UseFirst'
        BY <3>6, <3>11, <3>12 DEF Unspent
      <3>10. SpentOnce'
        BY <3>2, <3>3, <3>6 DEF LinkInv, SpentOnce
      <3> QED
        BY <3>8, <3>9, <3>10 DEF LinkInv
    <2> QED
      BY <2>5, <2>6
  <1>10. ASSUME NEW r \in Requests, NEW s \in Stores, Leave(r, s), tokens' = tokens, mailed' = mailed,
                spent' = spent
         PROVE  LinkInv'
    BY <1>10, <1>c, <1>d DEF Leave, After, Pcs
  <1>11. ASSUME NEW r \in Requests, NEW w \in Passwords, ResetLoad(r, w) PROVE LinkInv'
    <2>1. /\ req[r].pc = "load" /\ req'[r].pc = "truncate" /\ req'[r].link = req[r].link
          /\ \A x \in Requests \ {r} : Same(x)
          /\ UNCHANGED <<stores, mailed, spent>>
      BY <1>11, Reloaded DEF Is, Meets
    <2> QED
      BY <2>1, LinkFrame DEF Uses, At, stores
  <1>12. ASSUME NEW r \in Requests, NEW l \in Links, Mint(r, l) PROVE LinkInv'
    <2> DEFINE t == [link |-> l, name |-> req[r].to]
    <2>1. /\ l \notin mailed /\ mailed' = mailed \cup {l} /\ spent' = spent
          /\ tokens' = Without(tokens, req[r].to) \cup {t} /\ t.link = l
          /\ req'[r] = Idle /\ \A x \in Requests \ {r} : req'[x] = req[x]
      BY <1>12, Answered DEF Mint
    <2>2. Without(tokens, req[r].to) \subseteq tokens
      BY DEF Without
    <2> HIDE DEF t
    <2>3. /\ \A u \in tokens : u.link # l /\ u.link \in Links
          /\ spent[l] = 0
          /\ \A x \in Requests : ~Uses(x, l)
      BY <1>0, <2>1 DEF LinkInv, Unspent, LinkKnown, SpentOnce, Uses
    <2>4. ASSUME NEW x \in Requests, NEW k \in Links PROVE Uses(x, k)' => Uses(x, k)
      BY <2>1, IdleType DEF Uses, At
    <2>5. OneToken' /\ OneUse' /\ UseFirst'
      BY <2>1, <2>2, <2>3, <2>4 DEF LinkInv, OneToken, OneUse, UseFirst
    <2>6. Unspent'
      BY <2>1, <2>2, <2>3, <2>4 DEF LinkInv, Unspent
    <2>7. LinkKnown' /\ SpentOnce'
      BY <1>0, <2>1, IdleType DEF LinkInv, LinkKnown, SpentOnce, At
    <2> QED
      BY <2>5, <2>6, <2>7 DEF LinkInv
  <1>13. ASSUME NEW r \in Requests, NEW l \in Links, SubmitPeek(r, l) PROVE LinkInv'
    <2>1. PICK t \in tokens : /\ t.link = l /\ Starts(r, {t.name}, Nobody)
                              /\ Is(r, "consume", Absent, Boot, t.name, t.name, "idle", l)
      BY <1>13, Submitted
    <2>2. l \in mailed
      BY <2>1 DEF LinkInv, Unspent
    <2> QED
      BY <2>1, <2>2, LinkFrame DEF Starts, Meets, Is, Uses, At, stores
  <1>14. ASSUME NEW r \in Requests, Consume(r) PROVE LinkInv'
    <2>1. PICK t \in tokens : t.link = req[r].link /\ tokens' = tokens \ {t}
      BY <1>14 DEF Consume
    <2> DEFINE k == req[r].link
    <2>2. /\ req[r].pc = "consume" /\ req'[r].pc = "load" /\ req'[r].link = k
          /\ \A x \in Requests \ {r} : req'[x] = req[x]
          /\ mailed' = mailed /\ spent' = spent
      BY <1>14, Went DEF Consume, history, Pcs
    <2>3. k \in mailed /\ spent[k] = 0 /\ \A x \in Requests : ~Uses(x, k)
      BY <2>1 DEF LinkInv, Unspent
    <2>4. \A u \in tokens' : u \in tokens /\ u.link # k
      BY <2>1 DEF LinkInv, OneToken
    <2>5. \A x \in Requests, l \in Links : x # r \/ l # k => (Uses(x, l)' => Uses(x, l))
      BY <2>2 DEF Uses, At
    <2>6. \A x \in Requests : x # r => ~Uses(x, k)'
      BY <2>2, <2>3 DEF Uses, At
    <2>7. \A x \in Requests : req'[x].link = req[x].link /\ (At(x, {"place"})' => At(x, {"place"}))
      BY <2>2 DEF At
    <2> HIDE DEF k
    <2>8. \A u \in tokens : u.link \in Links
      BY <1>0
    <2>9. OneToken' /\ Unspent'
      BY <2>2, <2>4, <2>5, <2>8 DEF LinkInv, OneToken, Unspent
    <2>10. OneUse' /\ UseFirst'
      BY <2>2, <2>3, <2>5, <2>6 DEF LinkInv, OneUse, UseFirst
    <2>11. LinkKnown' /\ SpentOnce'
      BY <2>2, <2>7 DEF LinkInv, LinkKnown, SpentOnce
    <2> QED
      BY <2>9, <2>10, <2>11 DEF LinkInv
  <1>15. ASSUME NEW l \in Links, Expire(l) PROVE LinkInv'
    BY <1>15, LinkKept DEF Expire, history, Uses, At, LinkInv, LinkKnown
  <1>16. CASE Crash
    BY <1>0, <1>16, IdleType, LinkKept DEF Crash, Uses, At
  <1>17. CASE UNCHANGED <<tokens, req, mailed, spent>>
    BY <1>17, LinkKept DEF Uses, At, LinkInv, LinkKnown
  <1>20. ASSUME NEW r \in Requests, RequestStep(r) PROVE LinkInv'
    <2>1. CASE \E n \in Names : CreateCheck(r, n) \/ DeleteLoad(r, n) \/ Forgot(r, n)
      BY <1>1, <1>2, <1>3, <2>1
    <2>2. CASE \E n, m \in Names : RenameLoad(r, n, m)
      BY <1>4, <2>2
    <2>3. CASE \E n \in Names, w \in Passwords, o \in BOOLEAN : EditLoad(r, n, w, o)
      BY <1>5, <2>3
    <2>4. CASE \E i \in Ids, w \in Passwords : CreatePlace(r, i, w)
      BY <1>6, <2>4
    <2>5. CASE \/ CreateRefused(r) \/ Truncate(r) \/ Write(r) \/ SaveFails(r)
               \/ Remove(r) \/ RemoveFails(r) \/ Unlink(r) \/ UnlinkFails(r)
               \/ MintFails(r) \/ Consume(r) \/ ConsumeFails(r) \/ ResetFails(r) \/ Drop(r)
      BY <1>7, <1>8, <1>9, <1>14, <2>5
    <2>6. CASE \E s \in Stores : MoveStore(r, s) \/ MoveStoreFails(r, s)
      BY <1>10, <2>6 DEF MoveStore, MoveStoreFails, stores
    <2>7. CASE \E l \in Links : Mint(r, l) \/ SubmitPeek(r, l)
      BY <1>12, <1>13, <2>7
    <2>9. CASE \E w \in Passwords : ResetLoad(r, w)
      BY <1>11, <2>9
    <2> QED
      BY <1>20, <2>1, <2>2, <2>3, <2>4, <2>5, <2>6, <2>7, <2>9 DEF RequestStep
  <1> QED
    BY <1>15, <1>16, <1>17, <1>20 DEF Next, Rest, FileUnder, vars, stores, history

\* A mailed link sets a password at most once: it is spent before the account is
\* loaded, and the requests that have spent it are told apart from those that
\* have only seen it.
THEOREM LinkOnceHolds == Spec => []LinkOnce
  <1>1. LinkInv => LinkOnce
    BY DEF LinkInv, SpentOnce, LinkOnce
  <1>2. Spec => []LinkInv
    BY Typed, LinkInit, LinkStep, PTL DEF Spec
  <1> QED
    BY <1>1, <1>2, PTL
-----------------------------------------------------------------------------
(* Edits                                                                      *)

\* A request has its account to itself, unless the account is excused.
Mine(r)     == Holds(r) \notin excused \cup {Nobody}
With(p, i)  == file[p] \in Account /\ file[p].id = i
Says(i, p)  == file[p].pw = said[i].pw /\ file[p].off = said[i].off /\ ~said[i].gone
OldPath(r)  == IF req[r].next = "unlink" THEN Key[req[r].from] ELSE req[r].path

Known    == /\ \A p \in Paths : file[p] \in Account => file[p].id \in born
            /\ \A r \in Requests : Holds(r) # Nobody => Holds(r) \in born
Sole     == \A r, x \in Requests : Mine(r) /\ Holds(r) = Holds(x) => r = x
\* Two requests that write one file know of each other.
OnePath  == \A r, x \in Requests :
              /\ At(r, {"write"}) /\ At(x, {"write"}) /\ req[r].path = req[x].path /\ r # x
              => ~Mine(r) /\ ~Mine(x)
\* An account that has its file in one another request is about to write is excused.
EmptiedAt(r) == At(r, {"write"}) /\ file[req[r].path] \in Account => file[req[r].path].id \in excused
Emptied  == \A r \in Requests : EmptiedAt(r)
\* A request touches the name its account has in the file.
NameHeld(r) == Mine(r) => \A p \in Paths : With(p, Holds(r)) => Fold[file[p].name] \in Touched(r)
NamesHeld == \A r \in Requests : NameHeld(r)

\* Where the account of a request is on disk, step by step.
Stage(r) ==
  LET i == Holds(r) IN
  /\ At(r, {"truncate"}) => \A p \in Paths : With(p, i) => p = OldPath(r)
  /\ At(r, {"write"}) => \A p \in Paths : With(p, i) => p = OldPath(r) /\ req[r].next = "unlink"
  /\ At(r, {"unlink"}) => \A p \in Paths : With(p, i) => p \in {Key[req[r].from], req[r].path}
  /\ At(r, {"files", "lists", "drop", "remove"}) => \A p \in Paths : With(p, i) => p = req[r].path
  /\ At(r, {"unlink", "files", "lists", "drop", "remove"})
        => With(req[r].path, i) /\ Says(i, req[r].path)
StageHeld(r) == Mine(r) => Stage(r)
Stages == \A r \in Requests : StageHeld(r)

\* EditsStand for one account.
QuietAt(i) == IF said[i].gone THEN \A p \in Paths : ~With(p, i)
              ELSE \E p \in Paths : With(p, i) /\ Says(i, p) /\ \A q \in Paths : With(q, i) => q = p
Quiet == \A i \in born \ excused : ~InHand(i) => QuietAt(i)

EditInv == Known /\ Sole /\ OnePath /\ Emptied /\ NamesHeld /\ Stages /\ Quiet

LEMMA EditsFollow == TypedOK /\ EditInv => EditsStand
  <1> SUFFICES ASSUME TypedOK, EditInv, NEW i \in born \ excused, ~InHand(i)
               PROVE  IF said[i].gone THEN PathsWith(i) = {}
                      ELSE \E p \in Paths : /\ PathsWith(i) = {p}
                                            /\ file[p].pw = said[i].pw
                                            /\ file[p].off = said[i].off
    BY DEF EditsStand
  <1>1. QuietAt(i)
    BY DEF EditInv, Quiet
  <1> QED
    BY <1>1 DEF QuietAt, PathsWith, With, Says

LEMMA SameHolds ==
  ASSUME NEW x \in Requests, Same(x)
  PROVE  /\ Holds(x)' = Holds(x) /\ Touched(x)' = Touched(x) /\ OldPath(x)' = OldPath(x)
         /\ req'[x].path = req[x].path /\ req'[x].next = req[x].next /\ req'[x].from = req[x].from
         /\ \A labels : At(x, labels)' = At(x, labels)
  BY DEF Same, Holds, Touched, OldPath, At

\* A step leaves an account alone: its files and what was said of it.
Alone(i) == /\ \A p \in Paths : With(p, i)' <=> With(p, i)
            /\ \A p \in Paths : With(p, i) => file'[p] = file[p]
            /\ said'[i] = said[i]

LEMMA AloneSays ==
  ASSUME NEW i, Alone(i)
  PROVE  /\ \A p \in Paths : With(p, i) => (Says(i, p)' <=> Says(i, p))
         /\ QuietAt(i) => QuietAt(i)'
  <1>1. \A p \in Paths : With(p, i) => (Says(i, p)' <=> Says(i, p))
    BY DEF Alone, Says
  <1> QED
    BY <1>1 DEF Alone, QuietAt

\* Who is not at the step keeps what it has, when its account is left alone.
LEMMA OtherKept ==
  ASSUME NEW x \in Requests, Same(x), excused \subseteq excused', NameHeld(x), StageHeld(x),
         req[x].path \in Paths,
         Mine(x)' => Alone(Holds(x))
  PROVE  NameHeld(x)' /\ StageHeld(x)'
  <1>0. Holds(x)' = Holds(x) /\ Touched(x)' = Touched(x) /\ OldPath(x)' = OldPath(x)
    BY SameHolds
  <1>1. SUFFICES ASSUME Mine(x)'
                 PROVE  /\ \A p \in Paths : With(p, Holds(x))' => Fold[file'[p].name] \in Touched(x)'
                        /\ Stage(x)'
    BY DEF NameHeld, StageHeld
  <1>2. Mine(x)
    BY <1>0, <1>1 DEF Mine
  <1> PICK i : i = Holds(x)
    OBVIOUS
  <1>3. Alone(i)
    BY <1>1
  <1>4. \A p \in Paths : With(p, i)' <=> With(p, i)
    BY <1>3 DEF Alone
  <1>5. \A p \in Paths : With(p, i) => file'[p] = file[p]
    BY <1>3 DEF Alone
  <1>6. \A p \in Paths : With(p, i)' => Fold[file'[p].name] \in Touched(x)'
    BY <1>0, <1>2, <1>4, <1>5 DEF NameHeld
  <1>7. Holds(x)' = i
    BY <1>0
  <1>8. Stage(x)
    BY <1>2 DEF StageHeld
  <1>9. PICK path \in Paths : path = req[x].path
    OBVIOUS
  <1>10. PICK old : old = OldPath(x)
    OBVIOUS
  <1>11. PICK key : key = Key[req[x].from]
    OBVIOUS
  <1>12. /\ req'[x].path = path /\ OldPath(x)' = old /\ Key[req'[x].from] = key
         /\ req'[x].next = req[x].next /\ req'[x].pc = req[x].pc
    BY <1>0, <1>9, <1>10, <1>11 DEF Same
  <1>13. With(path, i) => (Says(i, path)' <=> Says(i, path))
    BY <1>3, AloneSays
  <1>14. Stage(x)'
    BY <1>4, <1>7, <1>8, <1>9, <1>10, <1>11, <1>12, <1>13 DEF Stage, At
  <1> QED
    BY <1>6, <1>7, <1>14 DEF With

LEMMA QuietKept ==
  ASSUME Quiet, NEW i \in born, excused \subseteq excused', i \notin excused', ~InHand(i), Alone(i)
  PROVE  QuietAt(i)'
  BY AloneSays DEF Quiet

\* A step of one request: what is to be shown of the request and of its account.
LEMMA EditFrame ==
  ASSUME TypedOK, EditInv, NEW r \in Requests,
         \A x \in Requests \ {r} : Same(x), excused \subseteq excused', Known',
         \A i \in Ids \ excused' : i # Holds(r) /\ i # Holds(r)' => Alone(i),
         \A x \in Requests \ {r} : Holds(x) = Holds(r)' /\ Holds(x) # Nobody => Holds(x) \in excused',
         At(r, {"write"})' => \A x \in Requests \ {r} :
             At(x, {"write"}) /\ req[x].path = req'[r].path => ~Mine(r)' /\ ~Mine(x)',
         Emptied', NameHeld(r)', StageHeld(r)',
         \A i \in Ids : i \in born \ excused' /\ i = Holds(r) /\ i # Holds(r)' => QuietAt(i)',
         born' \subseteq born \cup {Holds(r)'}
  PROVE  EditInv'
  <1>0. /\ \A x \in Requests : Holds(x) \in Ids \cup {Nobody} /\ req[x].path \in Paths
        /\ born \subseteq Ids
    BY HoldsType, Types DEF ReqType, PastOK
  <1>1. \A x \in Requests \ {r} : /\ Holds(x)' = Holds(x) /\ (Mine(x)' => Mine(x))
                                   /\ req'[x].path = req[x].path
                                   /\ \A labels : At(x, labels)' = At(x, labels)
    BY SameHolds DEF Mine
  <1>2. Sole'
    <2> SUFFICES ASSUME NEW y \in Requests, NEW x \in Requests, Mine(y)', Holds(y)' = Holds(x)'
                 PROVE  y = x
      BY DEF Sole
    <2>1. CASE y # r /\ x # r
      BY <1>1, <2>1 DEF EditInv, Sole
    <2>2. CASE y = r /\ x # r
      BY <1>1, <2>2 DEF Mine
    <2>3. CASE y # r /\ x = r
      BY <1>1, <2>3 DEF Mine
    <2> QED
      BY <2>1, <2>2, <2>3
  <1>3. OnePath'
    <2> SUFFICES ASSUME NEW y \in Requests, NEW x \in Requests, At(y, {"write"})', At(x, {"write"})',
                        req'[y].path = req'[x].path, y # x
                 PROVE  ~Mine(y)' /\ ~Mine(x)'
      BY DEF OnePath
    <2>1. CASE y # r /\ x # r
      BY <1>1, <2>1 DEF EditInv, OnePath
    <2>2. CASE y = r
      BY <1>1, <2>2
    <2>3. CASE x = r
      BY <1>1, <2>3
    <2> QED
      BY <2>1, <2>2, <2>3
  <1>4. ASSUME NEW x \in Requests PROVE NameHeld(x)' /\ StageHeld(x)'
    <2>1. CASE x # r
      <3>1. Mine(x)' => Alone(Holds(x))
        <4> SUFFICES ASSUME Mine(x)' PROVE Alone(Holds(x))
          OBVIOUS
        <4>1. Mine(x)
          BY <1>1, <2>1
        <4>2. Holds(x) # Holds(r)
          BY <2>1, <4>1 DEF EditInv, Sole
        <4>3. Holds(x) \in Ids \ excused'
          BY <1>0, <1>1, <2>1 DEF Mine
        <4>4. Holds(x) # Holds(r)'
          BY <2>1, <4>3, Markers
        <4> QED
          BY <4>2, <4>3, <4>4
      <3> QED
        BY <1>0, <2>1, <3>1, OtherKept DEF EditInv, NamesHeld, Stages
    <2> QED
      BY <2>1
  <1>5. ASSUME NEW i \in born' \ excused', ~InHand(i)' PROVE QuietAt(i)'
    <2>1. i # Holds(r)' /\ i \in born /\ i \in Ids
      BY <1>0, <1>5 DEF InHand
    <2>2. CASE i = Holds(r)
      BY <2>1, <2>2
    <2>3. CASE i # Holds(r)
      <3>1. ~InHand(i)
        BY <1>1, <1>5, <2>3 DEF InHand
      <3> QED
        BY <2>1, <2>3, <3>1, QuietKept DEF EditInv
    <2> QED
      BY <2>2, <2>3
  <1>6. NamesHeld' /\ Stages' /\ Quiet'
    BY <1>4, <1>5 DEF NamesHeld, Stages, Quiet
  <1> QED
    BY <1>2, <1>3, <1>6 DEF EditInv

\* No file is written.
LEMMA EditStill ==
  ASSUME TypedOK, EditInv, NEW r \in Requests,
         \A x \in Requests \ {r} : Same(x), excused \subseteq excused',
         UNCHANGED <<file, said, born>>, ~At(r, {"write"})',
         Holds(r)' # Nobody => Holds(r)' \in born,
         \A x \in Requests \ {r} : Holds(x) = Holds(r)' /\ Holds(x) # Nobody => Holds(x) \in excused',
         NameHeld(r)', StageHeld(r)',
         Holds(r) \in born \ excused' /\ Holds(r) # Holds(r)' => QuietAt(Holds(r))
  PROVE  EditInv'
  <1>1. \A i : Alone(i)
    BY DEF Alone, With
  <1>2. \A x \in Requests \ {r} : /\ Holds(x)' = Holds(x) /\ req'[x].path = req[x].path
                                  /\ At(x, {"write"})' = At(x, {"write"})
    BY SameHolds
  <1>3. Known'
    BY <1>2 DEF EditInv, Known
  <1>4. Emptied'
    BY <1>2 DEF EditInv, Emptied, EmptiedAt
  <1>5. \A i \in Ids : i \in born \ excused' /\ i = Holds(r) /\ i # Holds(r)' => QuietAt(i)'
    BY <1>1, AloneSays
  <1>6. \A i \in Ids \ excused' : i # Holds(r) /\ i # Holds(r)' => Alone(i)
    BY <1>1
  <1>7. born' \subseteq born \cup {Holds(r)'}
    OBVIOUS
  <1> QED
    BY <1>3, <1>4, <1>5, <1>6, <1>7, EditFrame

\* An account that is let go as it is on disk has its last edit there.
LEMMA LetGo ==
  ASSUME TypedOK, EditInv, NEW r \in Requests, Mine(r), At(r, {"files", "lists", "drop", "remove"})
  PROVE  QuietAt(Holds(r))
  <1>1. Stage(r) /\ req[r].path \in Paths
    BY HoldsType DEF EditInv, Stages, StageHeld, ReqType
  <1> QED
    BY <1>1 DEF Stage, QuietAt, Says, At

LEMMA EndStill ==
  ASSUME TypedOK, EditInv, NEW r \in Requests, Answer(r), excused \subseteq excused',
         UNCHANGED <<file, said, born>>,
         \/ Holds(r) \in excused' \cup {Nobody}
         \/ At(r, {"files", "lists", "drop", "remove"})
  PROVE  EditInv'
  <1>1. req'[r] = Idle /\ \A x \in Requests \ {r} : Same(x)
    BY Answered, SameAsIs
  <1>2. Holds(r)' = Nobody /\ ~At(r, {"write"})'
    BY <1>1, IdleType, Markers DEF Holds, At
  <1>3. NameHeld(r)' /\ StageHeld(r)'
    BY <1>2 DEF NameHeld, StageHeld, Mine
  <1>4. Holds(r) \in born \ excused' /\ Holds(r) # Nobody => QuietAt(Holds(r))
    BY LetGo DEF Mine
  <1>5. Nobody \notin born
    BY Types, Markers DEF PastOK
  <1> QED
    BY <1>1, <1>2, <1>3, <1>4, <1>5, EditStill

LEMMA GoStill ==
  ASSUME TypedOK, EditInv, NEW r \in Requests, NEW label \in Pcs, Goto(r, label),
         excused \subseteq excused', UNCHANGED <<file, said, born>>, label # "write",
         \/ Holds(r) \in excused' \cup {Nobody}
         \/ At(r, {"files"}) /\ label = "lists"
  PROVE  EditInv'
  <1>1. /\ req'[r].pc = label /\ req'[r].rec = req[r].rec /\ req'[r].path = req[r].path
        /\ req'[r].from = req[r].from /\ req'[r].to = req[r].to
        /\ \A x \in Requests \ {r} : Same(x)
    BY Went, SameAsIs
  <1>2. Holds(r)' = Holds(r) /\ ~At(r, {"write"})'
    BY <1>1 DEF Holds, At
  <1>3. Holds(r) # Nobody => Holds(r) \in born
    BY DEF EditInv, Known
  <1>4. \A x \in Requests \ {r} : Holds(x) = Holds(r) /\ Holds(x) # Nobody => Holds(x) \in excused'
    BY DEF EditInv, Sole, Mine
  <1>5. NameHeld(r)' /\ StageHeld(r)'
    <2>1. CASE Holds(r) \in excused' \cup {Nobody}
      BY <1>2, <2>1 DEF NameHeld, StageHeld, Mine
    <2>2. CASE At(r, {"files"}) /\ label = "lists"
      <3>1. SUFFICES ASSUME Mine(r)'
                     PROVE  /\ \A p \in Paths : With(p, Holds(r))' => Fold[file'[p].name] \in Touched(r)'
                            /\ Stage(r)'
        BY DEF NameHeld, StageHeld
      <3>2. Mine(r)
        BY <1>2, <3>1 DEF Mine
      <3>3. /\ \A p \in Paths : With(p, Holds(r)) => Fold[file[p].name] \in Touched(r)
            /\ Stage(r)
        BY <3>2 DEF EditInv, NamesHeld, Stages, NameHeld, StageHeld
      <3>4. Touched(r)' = Touched(r)
        BY <1>1, <2>2 DEF Touched, At
      <3> QED
        BY <1>1, <1>2, <2>2, <3>3, <3>4 DEF Stage, At, With, Says
    <2> QED
      BY <2>1, <2>2
  <1> QED
    BY <1>1, <1>2, <1>3, <1>4, <1>5, EditStill

\* A request that has no account meets others.
LEMMA TakeNone ==
  ASSUME TypedOK, EditInv, NEW r \in Requests, NEW ns, Meets(r, ns, Nobody),
         UNCHANGED <<file, said, born>>, req'[r].rec = Absent, req[r].rec = Absent,
         req'[r].pc # "write"
  PROVE  EditInv'
  <1>1. \A x \in Requests \ {r} : Same(x)
    BY DEF Meets
  <1>2. Holds(r)' = Nobody /\ Holds(r) = Nobody /\ ~At(r, {"write"})'
    BY Markers DEF Holds, At
  <1>3. NameHeld(r)' /\ StageHeld(r)'
    BY <1>2 DEF NameHeld, StageHeld, Mine
  <1>4. excused \subseteq excused'
    BY DEF Meets
  <1> QED
    BY <1>1, <1>2, <1>3, <1>4, EditStill

\* A request that takes an account by its name: who has it already touches that
\* name, so the two meet; when nobody has it, it is on disk as the last edit said.
LEMMA Take ==
  ASSUME TypedOK, ShapeOK, EditInv, NEW r \in Requests, NEW ns, NEW n \in ns, n \in Names, Exists(n),
         NEW i, i = file[PathOf(n)].id,
         Meets(r, ns, i), UNCHANGED <<file, said, born>>,
         req[r].rec = Absent, Holds(r)' = i, Fold[n] \in Touched(r)',
         \/ At(r, {"truncate"})' /\ OldPath(r)' = PathOf(n)
         \/ At(r, {"remove"})' /\ req'[r].path = PathOf(n)
  PROVE  EditInv'
  <1> PICK a \in Paths : a = PathOf(n)
    BY FoundAt
  <1>1. file[a] \in Account /\ file[a].id = i /\ Fold[file[a].name] = Fold[n]
    BY FoundAt
  <1>2. i \in born /\ i # Nobody /\ i \in Ids
    BY <1>1, Markers DEF EditInv, Known
  <1>3. Holds(r) = Nobody /\ ~At(r, {"write"})'
    BY Markers DEF Holds, At
  <1>4. \A x \in Requests \ {r} : Same(x)
    BY DEF Meets
  <1>5. ASSUME NEW x \in Requests \ {r}, Holds(x) = i PROVE i \in excused'
    <2>1. CASE i \in excused
      BY <2>1 DEF Meets
    <2>2. CASE i \notin excused
      <3>1. Mine(x) /\ With(a, Holds(x))
        BY <1>1, <1>2, <1>5, <2>2 DEF Mine, With
      <3>2. Fold[n] \in Touched(x)
        BY <1>1, <3>1 DEF EditInv, NamesHeld, NameHeld
      <3>3. x \in Others(r, ns)
        BY <3>2 DEF Others
      <3> QED
        BY <1>2, <3>3 DEF Meets
    <2> QED
      BY <2>1, <2>2
  <1>6. ASSUME i \notin excused'
        PROVE  With(a, i) /\ Says(i, a) /\ \A q \in Paths : With(q, i) => q = a
    <2>1. i \notin excused
      BY <1>6 DEF Meets
    <2>2. ~InHand(i)
      BY <1>2, <1>3, <1>5, <1>6 DEF InHand
    <2>3. QuietAt(i)
      BY <1>2, <2>1, <2>2 DEF EditInv, Quiet
    <2> QED
      BY <1>1, <2>3 DEF QuietAt, With
  <1>7. NameHeld(r)'
    <2>1. SUFFICES ASSUME i \notin excused', NEW p \in Paths, file'[p] \in Account, file'[p].id = i
                   PROVE  Fold[file'[p].name] \in Touched(r)'
      BY DEF NameHeld, Mine, With
    <2> QED
      BY <1>1, <1>6, <2>1 DEF With
  <1>8. StageHeld(r)'
    <2>1. SUFFICES ASSUME i \notin excused' PROVE Stage(r)'
      BY DEF StageHeld, Mine
    <2>2. \A p \in Paths : file'[p] \in Account /\ file'[p].id = i => p = a
      BY <1>6, <2>1 DEF With
    <2>3. CASE At(r, {"truncate"})' /\ OldPath(r)' = a
      BY <2>2, <2>3 DEF Stage, At, With
    <2>4. CASE At(r, {"remove"})' /\ req'[r].path = a
      BY <1>6, <2>1, <2>2, <2>4 DEF Stage, At, With, Says
    <2> QED
      BY <2>3, <2>4
  <1>9. excused \subseteq excused'
    BY DEF Meets
  <1>10. \A x \in Requests \ {r} : Holds(x) = Holds(r)' /\ Holds(x) # Nobody => Holds(x) \in excused'
    BY <1>5
  <1>11. Holds(r) \in born \ excused' /\ Holds(r) # Holds(r)' => QuietAt(Holds(r))
    BY <1>3, Types, Markers DEF PastOK
  <1>12. Holds(r)' # Nobody => Holds(r)' \in born
    BY <1>2
  <1> QED
    BY <1>3, <1>4, <1>7, <1>8, <1>9, <1>10, <1>11, <1>12, EditStill

\* An account that has just been created is nowhere else.
LEMMA EditPlace ==
  ASSUME TypedOK, ShapeOK, EditInv, NEW r \in Requests, NEW i \in Ids, NEW w \in Passwords, CreatePlace(r, i, w)
  PROVE  EditInv'
  <1>1. PICK rec \in Account, p \in Paths :
           /\ rec.id = i /\ req[r].pc = "place" /\ i \notin born
           /\ Is(r, "truncate", rec, p, req[r].from, req[r].to, req[r].next, req[r].link)
           /\ \A x \in Requests \ {r} : req'[x] = req[x]
           /\ born' = born \cup {i}
           /\ excused' = IF req[r].met THEN excused \cup {i} ELSE excused
           /\ UNCHANGED <<stores, said>>
    BY Placed
  <1>2. \A x \in Requests \ {r} : Same(x)
    BY <1>1, SameAsIs
  <1>3. Holds(r)' = i /\ Holds(r) = Nobody /\ i # Nobody /\ ~At(r, {"write"})' /\ At(r, {"truncate"})'
    BY <1>1, HoldsType, Markers DEF ShapeOK, Shape, Holds, At, Is, Bare
  <1>4. file' = file /\ \A q \in Paths : ~With(q, i)
    BY <1>1 DEF EditInv, Known, With, stores
  <1>5. \A x \in Requests : Holds(x) # i
    BY <1>1, <1>3 DEF EditInv, Known
  <1>6. Known'
    BY <1>1, <1>2, <1>3, <1>4, SameHolds DEF EditInv, Known
  <1>7. \A j : Alone(j)
    BY <1>1, <1>4 DEF Alone, With
  <1>8. NameHeld(r)' /\ StageHeld(r)'
    BY <1>3, <1>4 DEF NameHeld, StageHeld, Stage, With, At
  <1>9. excused \subseteq excused'
    BY <1>1
  <1>10. Emptied'
    <2> SUFFICES ASSUME NEW x \in Requests PROVE EmptiedAt(x)'
      BY DEF Emptied
    <2>1. CASE x # r
      BY <1>2, <1>4, <1>9, <2>1, SameHolds DEF EditInv, Emptied, EmptiedAt
    <2> QED
      BY <1>3, <2>1 DEF EmptiedAt
  <1>11. \A j \in Ids : j \in born \ excused' /\ j = Holds(r) /\ j # Holds(r)' => QuietAt(j)'
    BY <1>3, Markers
  <1>12. \A x \in Requests \ {r} : Holds(x) = Holds(r)' /\ Holds(x) # Nobody => Holds(x) \in excused'
    BY <1>3, <1>5
  <1>13. \A j \in Ids \ excused' : j # Holds(r) /\ j # Holds(r)' => Alone(j)
    BY <1>7
  <1>14. born' \subseteq born \cup {Holds(r)'}
    BY <1>1, <1>3
  <1> QED
    BY <1>2, <1>3, <1>6, <1>8, <1>9, <1>10, <1>11, <1>12, <1>13, <1>14, EditFrame

\* A file that is emptied or removed is lost to an account that is excused.
LEMMA LoseFile ==
  ASSUME TypedOK, EditInv, NEW r \in Requests, NEW p \in Paths, NEW f \in {Torn, Absent},
         file' = [file EXCEPT ![p] = f], Collide(r, p)
  PROVE  /\ excused \subseteq excused'
         /\ file'[p] \notin Account /\ \A q \in Paths \ {p} : file'[q] = file[q]
         /\ \A q \in Paths : file'[q] \in Account => file'[q] = file[q] /\ q # p
         /\ \A i \in Ids \ excused' : i # Holds(r) /\ said'[i] = said[i] => Alone(i)
         /\ \A x \in Requests \ {r} :
              /\ At(x, {"truncate", "write"}) /\ req[x].path = p /\ Holds(x) # Nobody
              => Holds(x) \in excused' /\ Holds(r) \in excused' \cup {Nobody}
  <1>1. file \in [Paths -> File] /\ f \notin Account
    BY Types, Markers DEF StoresOK
  <1>2. file'[p] \notin Account /\ \A q \in Paths \ {p} : file'[q] = file[q]
    BY <1>1
  <1>3. /\ excused \subseteq excused' /\ Victims(r, p) \subseteq excused'
        /\ Victims(r, p) # {} => Holds(r) \in excused' \cup {Nobody}
    BY CollideType
  <1>4. ASSUME NEW i \in Ids \ excused', i # Holds(r), said'[i] = said[i] PROVE Alone(i)
    <2>1. ~With(p, i)
      <3>1. SUFFICES ASSUME With(p, i) PROVE i \in Victims(r, p)
        BY <1>3
      <3> QED
        BY <1>4, <3>1, Markers DEF With, Victims
    <2> QED
      BY <1>2, <1>4, <2>1 DEF Alone, With
  <1>5. ASSUME NEW x \in Requests \ {r}, At(x, {"truncate", "write"}), req[x].path = p, Holds(x) # Nobody
        PROVE  Holds(x) \in excused' /\ Holds(r) \in excused' \cup {Nobody}
    <2>1. CASE Holds(x) = Holds(r)
      BY <1>3, <1>5, <2>1 DEF EditInv, Sole, Mine
    <2>2. CASE Holds(x) # Holds(r)
      <3>1. Holds(x) \in Victims(r, p)
        BY <1>5, <2>2 DEF Victims, At
      <3> QED
        BY <1>3, <3>1
    <2> QED
      BY <2>1, <2>2
  <1> QED
    BY <1>2, <1>3, <1>4, <1>5

LEMMA EditTruncate ==
  ASSUME TypedOK, ShapeOK, EditInv, NEW r \in Requests, Truncate(r)
  PROVE  EditInv'
  <1> PICK p \in Paths : p = req[r].path
    BY HoldsType DEF ReqType
  <1>1. /\ req[r].pc = "truncate" /\ req'[r].pc = "write" /\ req'[r].rec = req[r].rec
        /\ req'[r].path = req[r].path /\ req'[r].next = req[r].next
        /\ req'[r].from = req[r].from /\ req'[r].to = req[r].to
        /\ \A x \in Requests \ {r} : Same(x)
        /\ file' = [file EXCEPT ![p] = Torn] /\ Collide(r, p) /\ UNCHANGED <<born, said>>
    BY Went, SameAsIs DEF Truncate, Pcs
  <1>2. /\ Holds(r)' = Holds(r) /\ Touched(r)' = Touched(r) /\ OldPath(r)' = OldPath(r)
    BY <1>1 DEF Holds, Touched, OldPath
  <1>3. /\ excused \subseteq excused'
        /\ file'[p] \notin Account /\ \A q \in Paths \ {p} : file'[q] = file[q]
        /\ \A q \in Paths : file'[q] \in Account => file'[q] = file[q] /\ q # p
        /\ \A i \in Ids \ excused' : i # Holds(r) => Alone(i)
        /\ \A x \in Requests \ {r} :
              /\ At(x, {"truncate", "write"}) /\ req[x].path = p /\ Holds(x) # Nobody
              => Holds(x) \in excused' /\ Holds(r) \in excused' \cup {Nobody}
    BY <1>1, LoseFile
  <1>4. \A x \in Requests : /\ Holds(x)' = Holds(x) /\ req'[x].path = req[x].path
                            /\ (x # r => (At(x, {"write"})' <=> At(x, {"write"})))
    BY <1>1, <1>2, SameHolds
  <1>5. Known'
    BY <1>1, <1>3, <1>4 DEF EditInv, Known
  <1>6. Emptied'
    <2> SUFFICES ASSUME NEW x \in Requests, At(x, {"write"})', file'[req'[x].path] \in Account
                 PROVE  file'[req'[x].path].id \in excused'
      BY DEF Emptied, EmptiedAt
    <2>1. CASE x # r
      <3>1. req[x].path \in Paths
        BY HoldsType DEF ReqType
      <3> QED
        BY <1>3, <1>4, <2>1, <3>1 DEF EditInv, Emptied, EmptiedAt
    <2> QED
      BY <1>1, <1>3, <2>1
  <1>7. ASSUME NEW x \in Requests \ {r}, At(x, {"write"}), req[x].path = req'[r].path
        PROVE  ~Mine(r)' /\ ~Mine(x)'
    <2>1. At(x, {"truncate", "write"}) /\ req[x].path = p
      BY <1>1, <1>7 DEF At
    <2>2. Holds(x) # Nobody
      BY <1>7, HoldsType DEF ShapeOK, Shape, At, Bare
    <2>3. Holds(x) \in excused' /\ Holds(r) \in excused' \cup {Nobody}
      BY <1>3, <2>1, <2>2
    <2> QED
      BY <1>4, <2>3 DEF Mine
  <1>8. NameHeld(r)'
    <2>1. SUFFICES ASSUME Mine(r)', NEW q \in Paths, file'[q] \in Account, file'[q].id = Holds(r)
                   PROVE  Fold[file'[q].name] \in Touched(r)
      BY <1>2 DEF NameHeld, With
    <2>2. Mine(r) /\ file'[q] = file[q]
      BY <1>2, <1>3, <2>1 DEF Mine
    <2> QED
      BY <2>1, <2>2 DEF EditInv, NamesHeld, NameHeld, With
  <1>9. StageHeld(r)'
    <2>1. SUFFICES ASSUME Mine(r)' PROVE Stage(r)'
      BY DEF StageHeld
    <2>2. Mine(r) /\ At(r, {"truncate"})
      BY <1>1, <1>2, <1>3, <2>1 DEF Mine, At
    <2>3. \A q \in Paths : With(q, Holds(r)) => q = OldPath(r)
      BY <2>2 DEF EditInv, Stages, StageHeld, Stage
    <2>4. ASSUME NEW q \in Paths, file'[q] \in Account, file'[q].id = Holds(r)
          PROVE  q = OldPath(r) /\ req[r].next = "unlink"
      <3>1. q = OldPath(r) /\ q # p
        BY <1>3, <2>3, <2>4 DEF With
      <3> QED
        BY <3>1 DEF OldPath
    <2> QED
      BY <1>1, <1>2, <2>4 DEF Stage, At, With
  <1>10. \A x \in Requests \ {r} : Holds(x) = Holds(r)' /\ Holds(x) # Nobody => Holds(x) \in excused'
    BY <1>2, <1>3 DEF EditInv, Sole, Mine
  <1>11. born' \subseteq born \cup {Holds(r)'}
    BY <1>1
  <1> QED
    BY <1>1, <1>2, <1>3, <1>5, <1>6, <1>7, <1>8, <1>9, <1>10, <1>11, EditFrame

LEMMA EditUnlink ==
  ASSUME TypedOK, ShapeOK, EditInv, NEW r \in Requests, Unlink(r)
  PROVE  EditInv'
  <1> PICK p \in Paths : p = Key[req[r].from]
    BY HoldsType, Markers DEF ReqType
  <1>1. /\ req[r].pc = "unlink" /\ req'[r].pc = "files" /\ req'[r].rec = req[r].rec
        /\ req'[r].path = req[r].path /\ req'[r].next = req[r].next
        /\ req'[r].from = req[r].from /\ req'[r].to = req[r].to
        /\ \A x \in Requests \ {r} : Same(x)
        /\ file' = [file EXCEPT ![p] = Absent] /\ Collide(r, p) /\ UNCHANGED <<born, said>>
    BY Went, SameAsIs DEF Unlink, Pcs
  <1>2. /\ Holds(r)' = Holds(r) /\ Touched(r)' = Touched(r)
    BY <1>1 DEF Holds, Touched
  <1>3. /\ excused \subseteq excused'
        /\ file'[p] \notin Account /\ \A q \in Paths \ {p} : file'[q] = file[q]
        /\ \A q \in Paths : file'[q] \in Account => file'[q] = file[q] /\ q # p
        /\ \A i \in Ids \ excused' : i # Holds(r) => Alone(i)
    BY <1>1, LoseFile
  <1>4. \A x \in Requests : /\ Holds(x)' = Holds(x) /\ req'[x].path = req[x].path
                            /\ (x # r => (At(x, {"write"})' <=> At(x, {"write"})))
    BY <1>1, <1>2, SameHolds
  <1>5. Known'
    BY <1>1, <1>3, <1>4 DEF EditInv, Known
  <1>6. Emptied'
    <2> SUFFICES ASSUME NEW x \in Requests, At(x, {"write"})', file'[req'[x].path] \in Account
                 PROVE  file'[req'[x].path].id \in excused'
      BY DEF Emptied, EmptiedAt
    <2>1. req[x].path \in Paths /\ x # r
      BY <1>1, HoldsType DEF ReqType, At
    <2> QED
      BY <1>3, <1>4, <2>1 DEF EditInv, Emptied, EmptiedAt
  <1>8. NameHeld(r)'
    <2>1. SUFFICES ASSUME Mine(r)', NEW q \in Paths, file'[q] \in Account, file'[q].id = Holds(r)
                   PROVE  Fold[file'[q].name] \in Touched(r)
      BY <1>2 DEF NameHeld, With
    <2>2. Mine(r) /\ file'[q] = file[q]
      BY <1>2, <1>3, <2>1 DEF Mine
    <2> QED
      BY <2>1, <2>2 DEF EditInv, NamesHeld, NameHeld, With
  <1>9. StageHeld(r)'
    <2>1. SUFFICES ASSUME Mine(r)' PROVE Stage(r)'
      BY DEF StageHeld
    <2>2. Mine(r) /\ At(r, {"unlink"})
      BY <1>1, <1>2, <1>3, <2>1 DEF Mine, At
    <2>3. /\ \A q \in Paths : With(q, Holds(r)) => q \in {p, req[r].path}
          /\ With(req[r].path, Holds(r)) /\ Says(Holds(r), req[r].path)
      BY <2>2 DEF EditInv, Stages, StageHeld, Stage, At
    <2>4. req[r].path # p /\ req[r].path \in Paths
      BY <2>2, HoldsType DEF ShapeOK, Shape, At, ReqType
    <2>5. file'[req[r].path] = file[req[r].path]
      BY <1>3, <2>4
    <2>6. ASSUME NEW q \in Paths, file'[q] \in Account, file'[q].id = Holds(r)
          PROVE  q = req[r].path
      BY <1>3, <2>3, <2>6 DEF With
    <2> QED
      BY <1>1, <1>2, <2>3, <2>5, <2>6 DEF Stage, At, With, Says
  <1>10. \A x \in Requests \ {r} : Holds(x) = Holds(r)' /\ Holds(x) # Nobody => Holds(x) \in excused'
    BY <1>2, <1>3 DEF EditInv, Sole, Mine
  <1>11. born' \subseteq born \cup {Holds(r)'} /\ ~At(r, {"write"})'
    BY <1>1 DEF At
  <1> QED
    BY <1>1, <1>2, <1>3, <1>5, <1>6, <1>8, <1>9, <1>10, <1>11, EditFrame

LEMMA EditRemove ==
  ASSUME TypedOK, ShapeOK, EditInv, NEW r \in Requests, Remove(r)
  PROVE  EditInv'
  <1> PICK p \in Paths : p = req[r].path
    BY HoldsType DEF ReqType
  <1> PICK h : h = Holds(r)
    OBVIOUS
  <1>1. /\ req[r].pc = "remove" /\ req'[r] = Idle
        /\ \A x \in Requests \ {r} : Same(x)
        /\ file' = [file EXCEPT ![p] = Absent] /\ Collide(r, p) /\ UNCHANGED born
        /\ said' = [said EXCEPT ![h].gone = TRUE]
    BY Answered, SameAsIs DEF Remove
  <1>2. Holds(r)' = Nobody /\ ~At(r, {"write"})'
    BY <1>1, IdleType, Markers DEF Holds, At
  <1>a. said \in [Ids -> [pw: Passwords, off: BOOLEAN, gone: BOOLEAN]] /\ born \subseteq Ids
    BY Types DEF PastOK
  <1>b. h \in Ids => said'[h].gone
    BY <1>1, <1>a
  <1>c. \A i \in Ids : i # h => said'[i] = said[i]
    BY <1>1, <1>a
  <1>3. /\ excused \subseteq excused'
        /\ file'[p] \notin Account /\ \A q \in Paths \ {p} : file'[q] = file[q]
        /\ \A q \in Paths : file'[q] \in Account => file'[q] = file[q] /\ q # p
        /\ \A i \in Ids \ excused' : i # h => Alone(i)
    BY <1>1, <1>c, LoseFile
  <1>4. \A x \in Requests \ {r} : /\ Holds(x)' = Holds(x) /\ req'[x].path = req[x].path
                                  /\ (At(x, {"write"})' <=> At(x, {"write"}))
    BY <1>1, SameHolds
  <1>5. Known'
    BY <1>1, <1>2, <1>3, <1>4 DEF EditInv, Known
  <1>6. Emptied'
    <2> SUFFICES ASSUME NEW x \in Requests, At(x, {"write"})', file'[req'[x].path] \in Account
                 PROVE  file'[req'[x].path].id \in excused'
      BY DEF Emptied, EmptiedAt
    <2>1. req[x].path \in Paths /\ x # r
      BY <1>2, HoldsType DEF ReqType
    <2> QED
      BY <1>3, <1>4, <2>1 DEF EditInv, Emptied, EmptiedAt
  <1>7. NameHeld(r)' /\ StageHeld(r)'
    BY <1>2 DEF NameHeld, StageHeld, Mine
  <1>8. ASSUME NEW i \in Ids, i \in born \ excused', i = h PROVE QuietAt(i)'
    <2>1. Mine(r) /\ At(r, {"remove"})
      BY <1>1, <1>3, <1>8, Markers DEF Mine, At
    <2>2. \A q \in Paths : With(q, i) => q = p
      BY <1>8, <2>1 DEF EditInv, Stages, StageHeld, Stage, At
    <2>3. \A q \in Paths : ~(file'[q] \in Account /\ file'[q].id = i)
      BY <1>3, <2>2 DEF With
    <2> QED
      BY <1>8, <1>b, <2>3 DEF QuietAt, With
  <1>9. \A x \in Requests \ {r} : Holds(x) = Holds(r)' /\ Holds(x) # Nobody => Holds(x) \in excused'
    BY <1>2
  <1>11. born' \subseteq born \cup {Holds(r)'}
    BY <1>1
  <1>12. \A i \in Ids : i \in born \ excused' /\ i = Holds(r) /\ i # Holds(r)' => QuietAt(i)'
    BY <1>8
  <1> QED
    BY <1>1, <1>2, <1>3, <1>5, <1>6, <1>7, <1>9, <1>11, <1>12, EditFrame

LEMMA EditWrite ==
  ASSUME TypedOK, ShapeOK, EditInv, NEW r \in Requests, Write(r)
  PROVE  EditInv'
  <1> PICK p \in Paths : p = req[r].path
    BY HoldsType DEF ReqType
  <1> PICK rec : rec = req[r].rec
    OBVIOUS
  <1>0. /\ req[r].pc = "write" /\ rec \in Account /\ Holds(r) = rec.id /\ rec.id \in Ids
        /\ Fold[rec.name] \in Touched(r)
    BY HoldsType, Markers DEF Write, ShapeOK, Shape, At, Bare
  <1> PICK h \in Ids : h = rec.id
    BY <1>0
  <1>1. /\ file' = [file EXCEPT ![p] = rec] /\ UNCHANGED <<born, excused>>
        /\ said' = [said EXCEPT ![h] = [pw |-> rec.pw, off |-> rec.off, gone |-> FALSE]]
    BY DEF Write
  <1>2. \/ req[r].next = "idle" /\ Answer(r)
        \/ req[r].next \in {"unlink", "files", "drop"} /\ Goto(r, req[r].next)
    BY DEF Write, ShapeOK, Shape
  <1>3. /\ \A x \in Requests \ {r} : Same(x)
        /\ \/ req[r].next = "idle" /\ req'[r] = Idle
           \/ /\ req[r].next \in {"unlink", "files", "drop"}
              /\ req'[r].pc = req[r].next /\ req'[r].rec = rec
              /\ req'[r].path = p /\ req'[r].next = req[r].next
              /\ req'[r].from = req[r].from /\ req'[r].to = req[r].to
    BY <1>2, Answered, Went, SameAsIs DEF Pcs
  <1>4. /\ Holds(r)' = IF req[r].next = "idle" THEN Nobody ELSE h
        /\ ~At(r, {"write"})' /\ Holds(r) = h
    BY <1>0, <1>3, IdleType, Markers DEF Holds, At
  <1>5. /\ file'[p] = rec /\ \A q \in Paths \ {p} : file'[q] = file[q]
        /\ said'[h] = [pw |-> rec.pw, off |-> rec.off, gone |-> FALSE]
        /\ \A i \in Ids \ {h} : said'[i] = said[i]
    BY <1>1, Types DEF StoresOK, PastOK
  <1>6. ASSUME NEW i \in Ids \ excused, i # h PROVE Alone(i)
    <2>1. ~With(p, i)
      BY <1>0, <1>6 DEF EditInv, Emptied, EmptiedAt, With, At
    <2> QED
      BY <1>5, <1>6, <2>1 DEF Alone, With
  <1>7. \A x \in Requests \ {r} : /\ Holds(x)' = Holds(x) /\ req'[x].path = req[x].path
                                  /\ (At(x, {"write"})' <=> At(x, {"write"}))
    BY <1>3, SameHolds
  <1>8. h \in born
    BY <1>0, Markers DEF EditInv, Known
  <1>9. Known'
    <2>1. ASSUME NEW q \in Paths, file'[q] \in Account PROVE file'[q].id \in born
      BY <1>5, <1>8, <2>1 DEF EditInv, Known
    <2>2. ASSUME NEW x \in Requests, Holds(x)' # Nobody PROVE Holds(x)' \in born
      BY <1>4, <1>7, <1>8, <2>2 DEF EditInv, Known
    <2> QED
      BY <1>1, <2>1, <2>2 DEF Known
  <1>10. Emptied'
    <2> SUFFICES ASSUME NEW x \in Requests, At(x, {"write"})', file'[req'[x].path] \in Account
                 PROVE  file'[req'[x].path].id \in excused'
      BY DEF Emptied, EmptiedAt
    <2>1. x # r /\ req[x].path \in Paths /\ At(x, {"write"}) /\ req'[x].path = req[x].path
      BY <1>4, <1>7, HoldsType DEF ReqType
    <2>2. CASE req[x].path # p
      BY <1>1, <1>5, <2>1, <2>2 DEF EditInv, Emptied, EmptiedAt
    <2>3. CASE req[x].path = p
      <3>1. ~Mine(r)
        BY <1>0, <2>1, <2>3 DEF EditInv, OnePath, At
      <3> QED
        BY <1>0, <1>1, <1>5, <2>1, <2>3, <3>1, Markers DEF Mine
    <2> QED
      BY <2>2, <2>3
  <1>11. ASSUME h \notin excused
         PROVE  /\ Mine(r)
                /\ \A q \in Paths : file'[q] \in Account /\ file'[q].id = h
                     => \/ q = p
                        \/ q = Key[req[r].from] /\ req[r].next = "unlink" /\ file'[q] = file[q] /\ With(q, h)
                /\ With(p, h)' /\ file'[p].pw = said'[h].pw /\ file'[p].off = said'[h].off /\ ~said'[h].gone
    <2>1. Mine(r)
      BY <1>4, <1>11, Markers DEF Mine
    <2>2. \A q \in Paths : With(q, h) => q = OldPath(r) /\ req[r].next = "unlink"
      BY <1>0, <1>4, <2>1 DEF EditInv, Stages, StageHeld, Stage, At
    <2>3. With(p, h)' /\ file'[p].pw = said'[h].pw /\ file'[p].off = said'[h].off /\ ~said'[h].gone
      BY <1>0, <1>5 DEF With
    <2> QED
      BY <1>5, <2>1, <2>2, <2>3 DEF With, OldPath
  <1>12. NameHeld(r)'
    <2>1. SUFFICES ASSUME Mine(r)', NEW q \in Paths, file'[q] \in Account, file'[q].id = Holds(r)'
                   PROVE  Fold[file'[q].name] \in Touched(r)'
      BY DEF NameHeld, With
    <2>2. req[r].next # "idle" /\ Holds(r)' = h /\ h \notin excused
      BY <1>1, <1>4, <2>1 DEF Mine
    <2>3. Touched(r)' = Touched(r)
      BY <1>0, <1>3, <2>2 DEF Touched
    <2>4. CASE q = p
      BY <1>0, <1>5, <2>3, <2>4
    <2>5. CASE q # p
      <3>1. Mine(r) /\ With(q, Holds(r)) /\ file'[q] = file[q]
        BY <1>4, <1>11, <2>1, <2>2, <2>5
      <3> QED
        BY <2>3, <3>1 DEF EditInv, NamesHeld, NameHeld
    <2> QED
      BY <2>4, <2>5
  <1>13. StageHeld(r)'
    <2>1. SUFFICES ASSUME Mine(r)' PROVE Stage(r)'
      BY DEF StageHeld
    <2>2. req[r].next # "idle" /\ Holds(r)' = h /\ h \notin excused
      BY <1>1, <1>4, <2>1 DEF Mine
    <2>3. /\ req[r].next \in {"unlink", "files", "drop"}
          /\ req'[r].pc = req[r].next /\ req'[r].path = p /\ req'[r].from = req[r].from
      BY <1>3, <2>2
    <2> QED
      BY <1>11, <2>2, <2>3 DEF Stage, At, With, Says
  <1>14. ASSUME NEW i \in Ids, i \in born \ excused', i = h, i # Holds(r)' PROVE QuietAt(i)'
    <2>1. req[r].next = "idle" /\ h \notin excused
      BY <1>1, <1>4, <1>14
    <2>2. /\ With(p, i)' /\ Says(i, p)' /\ ~said'[i].gone
          /\ \A q \in Paths : file'[q] \in Account /\ file'[q].id = i => q = p
      BY <1>11, <1>14, <2>1 DEF Says
    <2> QED
      BY <2>2 DEF QuietAt, With
  <1>15. \A x \in Requests \ {r} : Holds(x) = Holds(r)' /\ Holds(x) # Nobody => Holds(x) \in excused'
    BY <1>1, <1>4 DEF EditInv, Sole, Mine
  <1>16. born' \subseteq born \cup {Holds(r)'} /\ excused \subseteq excused'
    BY <1>1
  <1>17. \A i \in Ids \ excused' : i # Holds(r) /\ i # Holds(r)' => Alone(i)
    BY <1>1, <1>4, <1>6
  <1>18. \A i \in Ids : i \in born \ excused' /\ i = Holds(r) /\ i # Holds(r)' => QuietAt(i)'
    BY <1>4, <1>14
  <1> QED
    BY <1>3, <1>4, <1>9, <1>10, <1>12, <1>13, <1>15, <1>16, <1>17, <1>18, EditFrame

\* The files and what is in hand are as they were.
LEMMA EditSame ==
  ASSUME TypedOK, EditInv, UNCHANGED <<file, said, born, req>>, excused \subseteq excused'
  PROVE  EditInv'
  <1>1. \A r \in Requests : Same(r) /\ \A i : Alone(i)
    BY DEF Same, Alone, With
  <1>2. \A r \in Requests : /\ Holds(r)' = Holds(r) /\ (Mine(r)' => Mine(r))
                            /\ \A labels : At(r, labels)' = At(r, labels)
                            /\ req[r].path \in Paths /\ req'[r] = req[r]
    BY <1>1, SameHolds, HoldsType DEF Mine, ReqType
  <1>3. Known' /\ Sole' /\ OnePath' /\ Emptied'
    BY <1>2 DEF EditInv, Known, Sole, OnePath, Emptied, EmptiedAt
  <1>4. NamesHeld' /\ Stages'
    BY <1>1, <1>2, OtherKept DEF EditInv, NamesHeld, Stages
  <1>5. Quiet'
    <2> SUFFICES ASSUME NEW i \in born \ excused', ~InHand(i)' PROVE QuietAt(i)'
      BY DEF Quiet
    <2>1. ~InHand(i) /\ Alone(i)
      BY <1>2 DEF InHand, Alone, With
    <2> QED
      BY <2>1, QuietKept DEF EditInv
  <1> QED
    BY <1>3, <1>4, <1>5 DEF EditInv

\* After a crash every account a request had is excused.
LEMMA EditCrash ==
  ASSUME TypedOK, EditInv, Crash
  PROVE  EditInv'
  <1>1. /\ UNCHANGED <<file, said, born>> /\ excused \subseteq excused'
        /\ \A r \in Requests : Holds(r) \in excused' \cup {Nobody}
        /\ \A r \in Requests : req'[r] = Idle
    BY Types, Markers DEF Crash, PastOK
  <1>2. \A r \in Requests : Holds(r)' = Nobody /\ ~Mine(r)' /\ ~At(r, {"write"})'
    BY <1>1, IdleType, Markers DEF Holds, Mine, At
  <1>3. Known' /\ Sole' /\ OnePath' /\ Emptied' /\ NamesHeld' /\ Stages'
    BY <1>1, <1>2 DEF EditInv, Known, Sole, OnePath, Emptied, EmptiedAt, NamesHeld, NameHeld, Stages, StageHeld
  <1>4. Quiet'
    <2> SUFFICES ASSUME NEW i \in born \ excused' PROVE QuietAt(i)'
      BY <1>1 DEF Quiet
    <2>1. ~InHand(i) /\ Alone(i)
      BY <1>1, Types, Markers DEF InHand, Alone, With, PastOK
    <2> QED
      BY <1>1, <2>1, QuietKept DEF EditInv
  <1> QED
    BY <1>3, <1>4 DEF EditInv

LEMMA EditInit == Init => EditInv
  <1> SUFFICES ASSUME Init PROVE EditInv
    OBVIOUS
  <1>1. PICK w \in Passwords :
          LET a == [id |-> Owner, name |-> OwnerName, pw |-> w, off |-> FALSE]
          IN  /\ file = [p \in Paths |-> IF p = Boot THEN a ELSE Absent]
              /\ said = [i \in Ids |-> [pw |-> w, off |-> FALSE, gone |-> FALSE]]
    BY DEF Init
  <1>2. /\ born = {Owner} /\ Owner \in Ids
        /\ \A r \in Requests : Holds(r) = Nobody /\ ~Mine(r) /\ ~At(r, {"write"})
    BY IdleType, Markers, IdsAssumption DEF Init, Holds, Mine, At
  <1>3. /\ \A p \in Paths : With(p, Owner) => p = Boot
        /\ \A p \in Paths : file[p] \in Account => file[p].id = Owner
        /\ With(Boot, Owner) /\ Says(Owner, Boot) /\ ~said[Owner].gone
    <2> DEFINE a == [id |-> Owner, name |-> OwnerName, pw |-> w, off |-> FALSE]
    <2>1. a \in Account /\ a.id = Owner /\ a.pw = w /\ a.off = FALSE
      BY NamesAssumption, IdsAssumption DEF Account
    <2>2. file = [p \in Paths |-> IF p = Boot THEN a ELSE Absent]
      BY <1>1
    <2> HIDE DEF a
    <2> QED
      BY <1>1, <1>2, <2>1, <2>2, Markers DEF With, Says
  <1>4. Known /\ Sole /\ OnePath /\ Emptied /\ NamesHeld /\ Stages
    BY <1>2, <1>3 DEF Known, Sole, OnePath, Emptied, EmptiedAt, NamesHeld, NameHeld, Stages, StageHeld
  <1>5. Quiet
    BY <1>2, <1>3, Markers DEF Quiet, QuietAt
  <1> QED
    BY <1>4, <1>5 DEF EditInv

LEMMA EditStep == TypedOK /\ ShapeOK /\ EditInv /\ [Next]_vars => EditInv'
  <1> SUFFICES ASSUME TypedOK, ShapeOK, EditInv, [Next]_vars PROVE EditInv'
    OBVIOUS
  <1>0. \A r \in Requests : /\ At(r, Bare) => req[r].rec = Absent /\ Holds(r) = Nobody
                            /\ At(r, Bare) => req[r].from = req[r].to
    BY HoldsType, Markers DEF ShapeOK, Shape
  <1>1. ASSUME NEW r \in Requests, NEW n \in Names, CreateCheck(r, n) PROVE EditInv'
    BY <1>0, <1>1, Created, TakeNone DEF Starts, Is, At, Bare, stores
  <1>2. ASSUME NEW r \in Requests, NEW n \in Names, DeleteLoad(r, n) PROVE EditInv'
    <2> DEFINE a == file[PathOf(n)]
    <2>1. /\ Starts(r, {n}, a.id) /\ Exists(n)
          /\ Is(r, "remove", a, PathOf(n), n, n, "idle", NoLink)
      BY <1>2, Deleted
    <2>2. a \in Account
      BY <2>1, FoundAt
    <2>3. PICK i : i = a.id
      OBVIOUS
    <2>4. req'[r].rec = a
      BY <2>1 DEF Is
    <2>5. Holds(r)' = i
      BY <2>2, <2>3, <2>4 DEF Holds
    <2>6. /\ req[r].rec = Absent /\ Fold[n] \in Touched(r)'
          /\ At(r, {"remove"})' /\ req'[r].path = PathOf(n)
      BY <1>0, <2>1 DEF Starts, Is, At, Bare, Touched
    <2>7. Meets(r, {n}, i) /\ UNCHANGED <<file, said, born>>
      BY <2>1, <2>3 DEF Starts, stores
    <2> QED
      BY <2>1, <2>3, <2>5, <2>6, <2>7, Take
  <1>3. ASSUME NEW r \in Requests, NEW n \in Names, Forgot(r, n) PROVE EditInv'
    BY <1>0, <1>3, Forgotten, TakeNone DEF Starts, Is, At, Bare, stores
  <1>4. ASSUME NEW r \in Requests, NEW n \in Names, NEW m \in Names, RenameLoad(r, n, m) PROVE EditInv'
    <2> DEFINE a == file[PathOf(n)]
               next == IF PathOf(n) \in {Boot, Key[m]} THEN "files" ELSE "unlink"
    <2>1. PICK rec \in Account, p \in Paths :
           /\ Starts(r, {n, m}, a.id) /\ Exists(n)
           /\ p = IF PathOf(n) = Boot THEN Boot ELSE Key[m]
           /\ Is(r, "truncate", rec, p, n, m, next, NoLink)
           /\ rec.id = a.id
      BY <1>4, Renamed
    <2>3. PICK i : i = a.id
      OBVIOUS
    <2>5. Holds(r)' = i
      BY <2>1, <2>3 DEF Holds, Is
    <2>6. OldPath(r)' = PathOf(n)
      BY <2>1, FoundAt DEF OldPath, Is
    <2>7. req[r].rec = Absent /\ Fold[n] \in Touched(r)' /\ At(r, {"truncate"})'
      BY <1>0, <2>1 DEF Starts, Is, At, Bare, Touched
    <2>8. Meets(r, {n, m}, i) /\ UNCHANGED <<file, said, born>> /\ n \in {n, m}
      BY <2>1, <2>3 DEF Starts, stores
    <2> QED
      BY <2>1, <2>3, <2>5, <2>6, <2>7, <2>8, Take
  <1>5. ASSUME NEW r \in Requests, NEW n \in Names, NEW w \in Passwords, NEW o \in BOOLEAN,
               EditLoad(r, n, w, o) PROVE EditInv'
    <2> DEFINE a == file[PathOf(n)]
    <2>1. PICK rec \in Account :
           /\ Starts(r, {n}, a.id) /\ Exists(n)
           /\ Is(r, "truncate", rec, PathOf(n), n, n, "idle", NoLink)
           /\ rec.id = a.id
      BY <1>5, Edited
    <2>3. PICK i : i = a.id
      OBVIOUS
    <2>5. Holds(r)' = i
      BY <2>1, <2>3 DEF Holds, Is
    <2>6. OldPath(r)' = PathOf(n)
      BY <2>1 DEF OldPath, Is
    <2>7. req[r].rec = Absent /\ Fold[n] \in Touched(r)' /\ At(r, {"truncate"})'
      BY <1>0, <2>1 DEF Starts, Is, At, Bare, Touched
    <2>8. Meets(r, {n}, i) /\ UNCHANGED <<file, said, born>> /\ n \in {n}
      BY <2>1, <2>3 DEF Starts, stores
    <2> QED
      BY <2>1, <2>3, <2>5, <2>6, <2>7, <2>8, Take
  <1>6. ASSUME NEW r \in Requests, NEW w \in Passwords, ResetLoad(r, w) PROVE EditInv'
    <2> PICK n : n = req[r].to
      OBVIOUS
    <2> DEFINE a == file[PathOf(n)]
    <2>1. PICK rec \in Account :
           /\ Meets(r, {n}, a.id) /\ Exists(n) /\ n \in Names /\ req[r].pc = "load"
           /\ Is(r, "truncate", rec, PathOf(n), req[r].from, n, "drop", req[r].link)
           /\ rec.id = a.id /\ UNCHANGED <<stores, said, born>>
      BY <1>6, Reloaded
    <2>3. PICK i : i = a.id
      OBVIOUS
    <2>5. Holds(r)' = i
      BY <2>1, <2>3 DEF Holds, Is
    <2>6. OldPath(r)' = PathOf(n)
      BY <2>1 DEF OldPath, Is
    <2>7. req[r].rec = Absent /\ Fold[n] \in Touched(r)' /\ At(r, {"truncate"})'
      BY <1>0, <2>1 DEF Is, At, Bare, Touched
    <2>8. Meets(r, {n}, i) /\ UNCHANGED <<file, said, born>> /\ n \in {n}
      BY <2>1, <2>3 DEF stores
    <2> QED
      BY <2>1, <2>3, <2>5, <2>6, <2>7, <2>8, Take
  <1>7. ASSUME NEW r \in Requests, NEW l \in Links, SubmitPeek(r, l) PROVE EditInv'
    BY <1>0, <1>7, Submitted, TakeNone DEF Starts, Is, At, Bare, stores
  <1>8. ASSUME NEW r \in Requests,
               \/ CreateRefused(r) \/ RemoveFails(r) \/ ResetFails(r) \/ MintFails(r)
               \/ ConsumeFails(r) \/ Drop(r) \/ SaveFails(r) \/ \E l \in Links : Mint(r, l)
        PROVE  EditInv'
    <2>1. Answer(r) /\ UNCHANGED <<file, said, born>> /\ excused \subseteq excused'
      BY <1>8 DEF CreateRefused, RemoveFails, ResetFails, MintFails, ConsumeFails, Drop, SaveFails, Mint,
         stores, history
    <2>2. \/ At(r, Bare) \/ At(r, {"files", "lists", "drop", "remove"})
          \/ Holds(r) \in excused'
      BY <1>8 DEF CreateRefused, RemoveFails, ResetFails, MintFails, ConsumeFails, Drop, SaveFails, Mint,
         At, Bare
    <2> QED
      BY <1>0, <2>1, <2>2, EndStill
  <1>9. ASSUME NEW r \in Requests, Consume(r) \/ UnlinkFails(r) PROVE EditInv'
    <2>1. PICK label \in Pcs : /\ Goto(r, label) /\ label # "write"
                              /\ Holds(r) \in excused' \cup {Nobody}
                              /\ UNCHANGED <<file, said, born>> /\ excused \subseteq excused'
      BY <1>0, <1>9 DEF Consume, UnlinkFails, stores, history, At, Bare, Pcs
    <2> QED
      BY <2>1, GoStill
  <1>10. ASSUME NEW r \in Requests, NEW s \in Stores, MoveStore(r, s) \/ MoveStoreFails(r, s)
         PROVE  EditInv'
    <2>1. /\ Leave(r, s) /\ req[r].pc = s /\ UNCHANGED <<file, said, born>>
          /\ excused \subseteq excused'
      <3>1. /\ Leave(r, s) /\ req[r].pc = s /\ UNCHANGED <<file, said, born>>
        BY <1>10 DEF MoveStore, MoveStoreFails, stores
      <3>2. CASE MoveStore(r, s)
        BY <3>1, <3>2, MoveType
      <3>3. CASE MoveStoreFails(r, s)
        BY <3>1, <3>3, Types, Markers DEF MoveStoreFails, PastOK
      <3> QED
        BY <1>10, <3>2, <3>3
    <2>2. CASE s = "files"
      BY <2>1, <2>2, GoStill DEF Leave, After, At, Pcs
    <2>3. CASE s = "lists"
      BY <2>1, <2>3, EndStill DEF Leave, After, At
    <2> QED
      BY <2>2, <2>3 DEF Stores
  <1>11. ASSUME NEW s \in Stores, NEW p \in Paths, FileUnder(s, p) PROVE EditInv'
    BY <1>11, FileType, EditSame DEF FileUnder
  <1>12. ASSUME NEW l \in Links, Expire(l) PROVE EditInv'
    BY <1>12, EditSame DEF Expire, history
  <1>13. CASE UNCHANGED vars
    BY <1>13, EditSame DEF vars, stores, history
  <1>20. ASSUME NEW r \in Requests, RequestStep(r) PROVE EditInv'
    <2>1. CASE \E n \in Names : CreateCheck(r, n) \/ DeleteLoad(r, n) \/ Forgot(r, n)
      BY <1>1, <1>2, <1>3, <2>1
    <2>2. CASE \E n, m \in Names : RenameLoad(r, n, m)
      BY <1>4, <2>2
    <2>3. CASE \E n \in Names, w \in Passwords, o \in BOOLEAN : EditLoad(r, n, w, o)
      BY <1>5, <2>3
    <2>4. CASE \E i \in Ids, w \in Passwords : CreatePlace(r, i, w)
      BY <2>4, EditPlace
    <2>5. CASE \/ CreateRefused(r) \/ Truncate(r) \/ Write(r) \/ SaveFails(r)
               \/ Remove(r) \/ RemoveFails(r) \/ Unlink(r) \/ UnlinkFails(r)
               \/ MintFails(r) \/ Consume(r) \/ ConsumeFails(r) \/ ResetFails(r) \/ Drop(r)
      BY <1>8, <1>9, <2>5, EditTruncate, EditWrite, EditRemove, EditUnlink
    <2>6. CASE \E s \in Stores : MoveStore(r, s) \/ MoveStoreFails(r, s)
      BY <1>10, <2>6
    <2>7. CASE \E l \in Links : Mint(r, l) \/ SubmitPeek(r, l)
      BY <1>7, <1>8, <2>7
    <2>9. CASE \E w \in Passwords : ResetLoad(r, w)
      BY <1>6, <2>9
    <2> QED
      BY <1>20, <2>1, <2>2, <2>3, <2>4, <2>5, <2>6, <2>7, <2>9 DEF RequestStep
  <1> QED
    BY <1>11, <1>12, <1>13, <1>20, EditCrash DEF Next, Rest

\* What the panel answered about an account holds, for every number of requests,
\* names and accounts, and for any restriction of file names: unless two requests
\* met on the account or one was left half done, one file has it as its last edit
\* said, or none when it was deleted.
THEOREM EditsStandHolds == Spec => []EditsStand
  <1>1. Spec => [](TypedOK /\ EditInv)
    BY Typed, EditInit, EditStep, PTL DEF Spec
  <1> QED
    BY <1>1, EditsFollow, PTL

-----------------------------------------------------------------------------
(* Names                                                                      *)

\* Two requests touch a name in common only when both know it: their accounts are
\* excused, and that of a creation will be.
Marked(r) == (Holds(r) # Nobody => Holds(r) \in excused) /\ req[r].met
Meeting   == \A r, x \in Requests :
               r # x /\ Touched(r) \cap Touched(x) # {} => Marked(r) /\ Marked(x)

\* A file under accounts/ is named after its account.
Keys == /\ \A p \in Names : file[p] \in Account => Key[file[p].name] = p
        /\ \A r \in Requests : At(r, {"truncate", "write"}) /\ req[r].path # Boot
                                 => Key[req[r].rec.name] = req[r].path

\* A creation and an edit have the name they touch to themselves.
Claims(r) == At(r, {"place"}) \/ Holds(r) # Nobody
Warned(r) == (Holds(r) # Nobody => Holds(r) \in excused) /\ (At(r, {"place"}) => req[r].met)
NameSole(r) == Claims(r) => \A p \in Paths :
                 /\ file[p] \in Account /\ Fold[file[p].name] \in Touched(r) /\ file[p].id # Holds(r)
                 => file[p].id \in excused /\ Warned(r)
NamesSole == \A r \in Requests : NameSole(r)
\* Two files of one name: both accounts are excused.
Uniq == \A p, q \in Paths :
          /\ p # q /\ file[p] \in Account /\ file[q] \in Account /\ file[p].name = file[q].name
          => file[p].id \in excused /\ file[q].id \in excused

\* What a request writes has its new name; a rename has two names, any other one.
Renames(r) == At(r, {"unlink", "files", "lists"})
RecName(r) ==
  /\ At(r, {"truncate", "write"}) =>
       /\ req[r].rec.name = req[r].to
       /\ req[r].from # req[r].to <=> req[r].next \in {"unlink", "files"}
       /\ req[r].next = "unlink" => req[r].path # Boot
  /\ Renames(r) => req[r].from # req[r].to
  /\ At(r, {"remove", "drop"}) => req[r].from = req[r].to
  /\ Mine(r) /\ (Renames(r) \/ At(r, {"drop", "remove"})) => file[req[r].path].name = req[r].to
RecNames == \A r \in Requests : RecName(r)

NameInv == Meeting /\ Keys /\ NamesSole /\ Uniq /\ RecNames

\* No two names in use differ in their case alone.
FoldApart == \A n \in InUse : Apart(n)

\* Whose names are in use.
LEMMA InUseFile ==
  ASSUME NEW p \in Paths, file[p] \in Account
  PROVE  file[p].name \in InUse /\ file[p].name \in Names
  BY Markers DEF InUse

LEMMA InUseReq ==
  ASSUME TypedOK, NEW x \in Requests
  PROVE  /\ req[x].from \in Names /\ req[x].to \in Names
         /\ req[x].pc # "idle" => req[x].from \in InUse /\ req[x].to \in InUse
         /\ req[x].rec \in Account => req[x].rec.name \in InUse
  BY HoldsType, Markers DEF InUse, ReqType

\* What is common to the steps that neither find an account nor write one: no file
\* gets an account, the others stay, and the request ends or goes on as it is.
Loses == \A p \in Paths : file'[p] \in Account => file'[p] = file[p]
Onward(r) == /\ Is(r, req'[r].pc, req[r].rec, req[r].path, req[r].from, req[r].to,
                   req[r].next, req[r].link)
             /\ req'[r].met = req[r].met
             /\ <<req[r].pc, req'[r].pc>> \in {<<"truncate", "write">>, <<"unlink", "files">>,
                                              <<"consume", "load">>, <<"files", "lists">>}
Goes(r) == /\ \A x \in Requests \ {r} : req'[x] = req[x]
           /\ Loses /\ born' = born /\ excused \subseteq excused'
           /\ req'[r] = Idle \/ Onward(r)

LEMMA GoesAll ==
  ASSUME TypedOK, ShapeOK, NEW r \in Requests,
         \/ CreateRefused(r) \/ Truncate(r) \/ SaveFails(r)
         \/ Remove(r) \/ RemoveFails(r) \/ Unlink(r) \/ UnlinkFails(r)
         \/ MintFails(r) \/ Consume(r) \/ ConsumeFails(r) \/ ResetFails(r) \/ Drop(r)
         \/ \E s \in Stores : MoveStore(r, s) \/ MoveStoreFails(r, s)
         \/ \E l \in Links : Mint(r, l)
  PROVE  Goes(r)
  <1>0. /\ file \in [Paths -> File] /\ Torn \notin Account /\ Absent \notin Account
        /\ req[r] \in ReqType /\ excused \subseteq Ids /\ Nobody \notin Ids
    BY Types, Markers, HoldsType DEF StoresOK, PastOK
  <1>a. ASSUME NEW label \in Pcs, Goto(r, label),
               <<req[r].pc, label>> \in {<<"truncate", "write">>, <<"unlink", "files">>,
                                         <<"consume", "load">>, <<"files", "lists">>}
        PROVE  /\ \A x \in Requests \ {r} : req'[x] = req[x]
               /\ Onward(r)
    BY <1>a, Went DEF Onward, Is
  <1>b. ASSUME Answer(r)
        PROVE  \A x \in Requests \ {r} : req'[x] = req[x] /\ req'[r] = Idle
    BY <1>b, Answered
  <1>1. CASE \/ CreateRefused(r) \/ SaveFails(r) \/ RemoveFails(r) \/ UnlinkFails(r)
             \/ MintFails(r) \/ Consume(r) \/ ConsumeFails(r) \/ ResetFails(r) \/ Drop(r)
             \/ \E l \in Links : Mint(r, l)
    <2>1. file' = file /\ born' = born /\ excused \subseteq excused'
      BY <1>1 DEF CreateRefused, SaveFails, RemoveFails, UnlinkFails, MintFails, Consume, ConsumeFails,
         ResetFails, Drop, Mint, stores, history
    <2>2. \/ Answer(r)
          \/ req[r].pc = "unlink" /\ Goto(r, "files")
          \/ req[r].pc = "consume" /\ Goto(r, "load")
      BY <1>1 DEF CreateRefused, SaveFails, RemoveFails, UnlinkFails, MintFails, Consume, ConsumeFails,
         ResetFails, Drop, Mint
    <2>3. Loses
      BY <2>1 DEF Loses
    <2> QED
      BY <1>a, <2>1, <2>2, <2>3, Answered DEF Goes, Pcs
  <1>2. CASE Truncate(r) \/ Unlink(r)
    <2>1. PICK p \in Paths, f \in {Torn, Absent} : file' = [file EXCEPT ![p] = f] /\ Collide(r, p)
      BY <1>0, <1>2, Markers DEF Truncate, Unlink, ReqType
    <2>2. /\ born' = born
          /\ \/ req[r].pc = "truncate" /\ Goto(r, "write")
             \/ req[r].pc = "unlink" /\ Goto(r, "files")
      BY <1>2 DEF Truncate, Unlink
    <2>3. Loses
      BY <1>0, <2>1 DEF Loses
    <2>4. excused \subseteq excused'
      BY <2>1, CollideType
    <2> QED
      BY <1>a, <2>2, <2>3, <2>4 DEF Goes, Pcs
  <1>3. CASE Remove(r)
    <2>1. PICK p \in Paths : file' = [file EXCEPT ![p] = Absent] /\ Collide(r, p)
      BY <1>0, <1>3 DEF Remove, ReqType
    <2>2. born' = born /\ Answer(r)
      BY <1>3 DEF Remove
    <2>3. Loses
      BY <1>0, <2>1 DEF Loses
    <2>4. excused \subseteq excused'
      BY <2>1, CollideType
    <2> QED
      BY <2>2, <2>3, <2>4, Answered DEF Goes
  <1>4. ASSUME NEW s \in Stores, MoveStore(r, s) \/ MoveStoreFails(r, s) PROVE Goes(r)
    <2>1. req[r].pc = s /\ Leave(r, s) /\ file' = file /\ born' = born
      BY <1>4 DEF MoveStore, MoveStoreFails, stores
    <2>2. excused \subseteq excused'
      <3>1. CASE MoveStore(r, s)
        BY <3>1, MoveType
      <3>2. CASE MoveStoreFails(r, s)
        BY <1>0, <3>2 DEF MoveStoreFails
      <3> QED
        BY <1>4, <3>1, <3>2
    <2>3. Loses
      BY <2>1 DEF Loses
    <2>4. Answer(r) \/ (req[r].pc = "files" /\ Goto(r, "lists"))
      BY <2>1 DEF Leave, After
    <2> QED
      BY <1>a, <2>1, <2>2, <2>3, <2>4, Answered DEF Goes, Pcs
  <1> QED
    BY <1>1, <1>2, <1>3, <1>4

LEMMA Lone ==
  ASSUME TypedOK, Keys, NEW m \in Names, Apart(m), ~Exists(m)
  PROVE  \A p \in Paths : file[p] \in Account => Fold[file[p].name] # Fold[m]
  <1> SUFFICES ASSUME NEW p \in Paths, file[p] \in Account, Fold[file[p].name] = Fold[m]
               PROVE  FALSE
    OBVIOUS
  <1>1. file[p].name = m
    BY InUseFile DEF Apart
  <1>2. p = Boot \/ p = Key[m]
    BY <1>1 DEF Keys, Paths
  <1> QED
    BY <1>2 DEF Exists, Found

LEMMA Named ==
  ASSUME TypedOK, NEW n \in Names, Apart(n), Exists(n)
  PROVE  file[PathOf(n)].name = n
  BY FoundAt, InUseFile DEF Apart

\* Another request keeps what it has.
LEMMA NameOther ==
  ASSUME NEW x \in Requests, Same(x), excused \subseteq excused', req[x].met => req'[x].met
  PROVE  /\ Marked(x) => Marked(x)'
         /\ Warned(x) => Warned(x)'
         /\ Claims(x)' <=> Claims(x)
  BY SameHolds DEF Marked, Warned, Claims, At, Same

\* NamesSole for a request that keeps its names, when no file gets an account.
LEMMA SoleKept ==
  ASSUME TypedOK, NEW x \in Requests, NameSole(x), Loses, excused \subseteq excused',
         Claims(x)' => Claims(x), Touched(x)' = Touched(x), Holds(x)' = Holds(x),
         Warned(x) => Warned(x)'
  PROVE  NameSole(x)'
  <1> SUFFICES ASSUME Claims(x)', NEW p \in Paths, file'[p] \in Account,
                      Fold[file'[p].name] \in Touched(x), file'[p].id # Holds(x)
               PROVE  file'[p].id \in excused' /\ Warned(x)'
    BY DEF NameSole
  <1>1. file'[p] = file[p]
    BY DEF Loses
  <1> QED
    BY <1>1 DEF NameSole

LEMMA RecKept ==
  ASSUME TypedOK, NEW x \in Requests, Same(x), RecName(x), excused \subseteq excused',
         Mine(x)' /\ (Renames(x) \/ At(x, {"drop", "remove"})) => file'[req[x].path] = file[req[x].path]
  PROVE  RecName(x)'
  <1>1. /\ Holds(x)' = Holds(x) /\ (Mine(x)' => Mine(x)) /\ (Renames(x)' <=> Renames(x))
        /\ \A labels : At(x, labels)' = At(x, labels)
    BY SameHolds DEF Mine, Renames
  <1> QED
    BY <1>1 DEF RecName, Same

\* The file of a request that has written it is its account's after the step too.
LEMMA StaysPut ==
  ASSUME TypedOK, NEW x \in Requests, EditInv', Mine(x)', At(x, {"unlink", "files", "lists", "drop", "remove"})',
         req'[x].path \in Paths
  PROVE  file'[req'[x].path] \in Account /\ file'[req'[x].path].id = Holds(x)'
  BY DEF EditInv, Stages, StageHeld, Stage, With

LEMMA UniqKept ==
  ASSUME Uniq, Loses, excused \subseteq excused'
  PROVE  Uniq'
  <1> SUFFICES ASSUME NEW p \in Paths, NEW q \in Paths, p # q, file'[p] \in Account, file'[q] \in Account,
                      file'[p].name = file'[q].name
               PROVE  file'[p].id \in excused' /\ file'[q].id \in excused'
    BY DEF Uniq
  <1>1. file'[p] = file[p] /\ file'[q] = file[q]
    BY DEF Loses
  <1> QED
    BY <1>1 DEF Uniq

LEMMA NameStart ==
  ASSUME TypedOK, ShapeOK, NameInv, NEW r \in Requests, NEW ns, NEW i, Meets(r, ns, i),
         Holds(r)' \in {i, Nobody}, file' = file, At(r, Bare),
         Touched(r)' \subseteq {Fold[n] : n \in ns},
         Others(r, ns) # {} => req'[r].met,
         At(r, {"truncate", "write"})' /\ req'[r].path # Boot => Key[req'[r].rec.name] = req'[r].path,
         NameSole(r)', RecName(r)'
  PROVE  NameInv'
  <1>1. /\ \A x \in Requests \ {r} : Same(x)
        /\ excused \subseteq excused'
        /\ \A x \in Requests \ {r} : req'[x].met <=> req[x].met \/ x \in Others(r, ns)
    BY DEF Meets
  <1>2. Loses
    BY DEF Loses
  <1>3. ASSUME NEW x \in Requests \ {r}
        PROVE  /\ Holds(x)' = Holds(x) /\ Touched(x)' = Touched(x)
               /\ Marked(x) => Marked(x)'
               /\ Warned(x) => Warned(x)'
               /\ Claims(x)' <=> Claims(x)
    BY <1>1, SameHolds, NameOther
  <1>4. ASSUME NEW x \in Requests \ {r}, Touched(r)' \cap Touched(x)' # {}
        PROVE  Marked(x)' /\ Marked(r)'
    <2>1. x \in Others(r, ns)
      BY <1>3, <1>4 DEF Others
    <2>2. /\ Holds(x) \in excused' \cup {Nobody} /\ req'[x].met /\ req'[r].met
          /\ i \in excused' \cup {Nobody}
      BY <1>1, <2>1 DEF Meets
    <2> QED
      BY <1>3, <2>2 DEF Marked
  <1>5. Meeting'
    <2> SUFFICES ASSUME NEW y \in Requests, NEW x \in Requests, y # x, Touched(y)' \cap Touched(x)' # {}
                 PROVE  Marked(y)' /\ Marked(x)'
      BY DEF Meeting
    <2>1. CASE y = r
      BY <1>4, <2>1
    <2>2. CASE x = r
      BY <1>4, <2>2
    <2>3. CASE y # r /\ x # r
      BY <1>3, <2>3 DEF NameInv, Meeting
    <2> QED
      BY <2>1, <2>2, <2>3
  <1>6. Keys'
    <2>1. ASSUME NEW x \in Requests, At(x, {"truncate", "write"})', req'[x].path # Boot
          PROVE  Key[req'[x].rec.name] = req'[x].path
      <3>1. CASE x = r
        BY <2>1, <3>1
      <3>2. CASE x # r
        BY <1>1, <2>1, <3>2 DEF NameInv, Keys, Same, At
      <3> QED
        BY <3>1, <3>2
    <2> QED
      BY <2>1 DEF NameInv, Keys
  <1>7. NamesSole'
    <2> SUFFICES ASSUME NEW x \in Requests PROVE NameSole(x)'
      BY DEF NamesSole
    <2>1. CASE x # r
      BY <1>1, <1>2, <1>3, <2>1, SoleKept DEF NameInv, NamesSole
    <2> QED
      BY <2>1
  <1>8. RecNames'
    <2> SUFFICES ASSUME NEW x \in Requests PROVE RecName(x)'
      BY DEF RecNames
    <2>1. CASE x # r
      BY <1>1, <2>1, RecKept DEF NameInv, RecNames
    <2> QED
      BY <2>1
  <1>9. Uniq'
    BY <1>1, <1>2, UniqKept DEF NameInv
  <1> QED
    BY <1>5, <1>6, <1>7, <1>8, <1>9 DEF NameInv

\* Who takes an account by its name has no other account of that name, or both
\* are excused.
LEMMA SoleTaken ==
  ASSUME TypedOK, NameInv, NEW r \in Requests, NEW n \in Names, Apart(n), Exists(n), file' = file,
         Holds(r)' = file[PathOf(n)].id, excused \subseteq excused', ~At(r, {"place"})',
         NEW ms \in SUBSET Names, Touched(r)' = {Fold[m] : m \in ms},
         \A m \in ms : Apart(m) /\ (m = n \/ ~Exists(m))
  PROVE  NameSole(r)'
  <1> PICK a \in Paths : a = PathOf(n)
    BY FoundAt
  <1>1. file[a] \in Account /\ file[a].name = n
    BY FoundAt, Named
  <1> SUFFICES ASSUME NEW p \in Paths, file[p] \in Account, Fold[file[p].name] \in Touched(r)',
                      file[p].id # file[a].id
               PROVE  file[p].id \in excused' /\ Warned(r)'
    BY DEF NameSole
  <1>2. PICK m \in ms : Fold[file[p].name] = Fold[m]
    OBVIOUS
  <1>3. m = n
    BY <1>2, Lone DEF NameInv
  <1>4. file[p].name = n /\ p # a
    BY <1>2, <1>3, InUseFile DEF Apart
  <1>5. file[p].id \in excused /\ file[a].id \in excused
    BY <1>1, <1>4 DEF NameInv, Uniq
  <1> QED
    BY <1>5 DEF Warned

LEMMA NameEdit ==
  ASSUME TypedOK, ShapeOK, NameInv, NEW r \in Requests, NEW n \in Names, Apart(n),
         NEW w \in Passwords, NEW o \in BOOLEAN, EditLoad(r, n, w, o)
  PROVE  NameInv'
  <1> PICK a \in Account : a = file[PathOf(n)]
    BY FoundAt DEF EditLoad
  <1>1. PICK rec \in Account :
           /\ Starts(r, {n}, a.id) /\ Exists(n)
           /\ Is(r, "truncate", rec, PathOf(n), n, n, "idle", NoLink)
           /\ rec.id = a.id /\ rec.name = a.name
    BY Edited
  <1>2. a.name = n
    BY <1>1, Named
  <1>3. /\ Holds(r)' = a.id /\ Touched(r)' = {Fold[m] : m \in {n}} /\ ~At(r, {"place"})' /\ At(r, Bare)
        /\ excused \subseteq excused' /\ file' = file
        /\ req'[r].met <=> Others(r, {n}) # {}
    BY <1>1 DEF Starts, Is, Holds, Touched, At, Bare, Meets, stores
  <1>4. NameSole(r)'
    BY <1>1, <1>3, SoleTaken
  <1>5. RecName(r)'
    BY <1>1, <1>2 DEF RecName, Is, At, Renames
  <1>6. At(r, {"truncate", "write"})' /\ req'[r].path # Boot => Key[req'[r].rec.name] = req'[r].path
    BY <1>1, <1>2, FoundAt DEF Is
  <1> QED
    BY <1>1, <1>3, <1>4, <1>5, <1>6, NameStart DEF Starts

LEMMA NameDelete ==
  ASSUME TypedOK, ShapeOK, NameInv, NEW r \in Requests, NEW n \in Names, Apart(n), DeleteLoad(r, n)
  PROVE  NameInv'
  <1> PICK a \in Account : a = file[PathOf(n)]
    BY FoundAt DEF DeleteLoad
  <1>1. /\ Starts(r, {n}, a.id) /\ Exists(n)
        /\ Is(r, "remove", a, PathOf(n), n, n, "idle", NoLink)
    BY Deleted
  <1>2. a.name = n
    BY <1>1, Named
  <1>3. /\ Holds(r)' = a.id /\ Touched(r)' = {Fold[m] : m \in {n}} /\ ~At(r, {"place"})' /\ At(r, Bare)
        /\ excused \subseteq excused' /\ file' = file
        /\ req'[r].met <=> Others(r, {n}) # {}
    BY <1>1 DEF Starts, Is, Holds, Touched, At, Bare, Meets, stores
  <1>4. NameSole(r)'
    BY <1>1, <1>3, SoleTaken
  <1>5. RecName(r)'
    BY <1>1, <1>2, <1>3 DEF RecName, Is, At, Renames
  <1>6. ~At(r, {"truncate", "write"})'
    BY <1>1 DEF Is, At
  <1> QED
    BY <1>1, <1>3, <1>4, <1>5, <1>6, NameStart DEF Starts

LEMMA NameReset ==
  ASSUME TypedOK, ShapeOK, FoldApart, NameInv, NEW r \in Requests, NEW w \in Passwords, ResetLoad(r, w)
  PROVE  NameInv'
  <1> PICK n \in Names : n = req[r].to
    BY HoldsType DEF ReqType
  <1>0. Exists(n) /\ req[r].from = n
    BY DEF ResetLoad, ShapeOK, Shape, At, Bare
  <1>7. Apart(n)
    BY InUseReq DEF ResetLoad, FoldApart
  <1> PICK a \in Account : a = file[PathOf(n)]
    BY <1>0, FoundAt
  <1>1. PICK rec \in Account :
           /\ Meets(r, {n}, a.id) /\ req[r].pc = "load"
           /\ Is(r, "truncate", rec, PathOf(n), n, n, "drop", req[r].link)
           /\ req'[r].met <=> req[r].met \/ Others(r, {n}) # {}
           /\ rec.id = a.id /\ rec.name = a.name
           /\ UNCHANGED stores
    BY <1>0, Reloaded
  <1>2. a.name = n
    BY <1>0, <1>7, Named
  <1>3. /\ Holds(r)' = a.id /\ Touched(r)' = {Fold[m] : m \in {n}} /\ ~At(r, {"place"})' /\ At(r, Bare)
        /\ excused \subseteq excused' /\ file' = file
    BY <1>1 DEF Is, Holds, Touched, At, Bare, Meets, stores
  <1>4. NameSole(r)'
    BY <1>0, <1>1, <1>3, <1>7, SoleTaken
  <1>5. RecName(r)'
    BY <1>1, <1>2 DEF RecName, Is, At, Renames
  <1>6. At(r, {"truncate", "write"})' /\ req'[r].path # Boot => Key[req'[r].rec.name] = req'[r].path
    BY <1>0, <1>1, <1>2, FoundAt DEF Is
  <1> QED
    BY <1>1, <1>3, <1>4, <1>5, <1>6, NameStart

LEMMA NameRename ==
  ASSUME TypedOK, ShapeOK, NameInv, NEW r \in Requests, NEW n \in Names, NEW m \in Names,
         Apart(n), Apart(m), RenameLoad(r, n, m)
  PROVE  NameInv'
  <1> PICK a \in Account : a = file[PathOf(n)]
    BY FoundAt DEF RenameLoad
  <1> PICK next : next = IF PathOf(n) \in {Boot, Key[m]} THEN "files" ELSE "unlink"
    OBVIOUS
  <1>1. PICK rec \in Account, p \in Paths :
           /\ Starts(r, {n, m}, a.id) /\ Exists(n) /\ ~Exists(m) /\ Fold[a.name] # Fold[m]
           /\ p = IF PathOf(n) = Boot THEN Boot ELSE Key[m]
           /\ Is(r, "truncate", rec, p, n, m, next, NoLink)
           /\ rec.id = a.id /\ rec.name = m
    BY Renamed
  <1>2. n # m
    BY <1>1, Named
  <1>3. /\ Holds(r)' = a.id /\ ~At(r, {"place"})' /\ At(r, Bare)
        /\ excused \subseteq excused' /\ file' = file
        /\ req'[r].met <=> Others(r, {n, m}) # {}
    BY <1>1 DEF Starts, Is, Holds, At, Bare, Meets, stores
  <1>7. Touched(r)' = {Fold[n], Fold[m]}
    BY <1>1 DEF Is, Touched
  <1>8. Touched(r)' = {Fold[k] : k \in {n, m}}
    BY <1>7
  <1>4. NameSole(r)'
    <2>1. \A k \in {n, m} : Apart(k) /\ (k = n \/ ~Exists(k))
      BY <1>1
    <2> QED
      BY <1>1, <1>3, <1>8, <2>1, SoleTaken
  <1>5. RecName(r)'
    <2>1. next = "unlink" => p # Boot
      BY <1>1, Markers
    <2> QED
      BY <1>1, <1>2, <2>1 DEF RecName, Is, At, Renames
  <1>6. At(r, {"truncate", "write"})' /\ req'[r].path # Boot => Key[req'[r].rec.name] = req'[r].path
    BY <1>1 DEF Is
  <1> QED
    BY <1>1, <1>3, <1>4, <1>5, <1>6, <1>8, NameStart DEF Starts

\* A request that has no account yet, of a name nobody has when it creates one.
LEMMA NameNone ==
  ASSUME TypedOK, ShapeOK, NameInv, NEW r \in Requests, NEW n \in Names, Apart(n),
         NEW pc \in {"place", "mint", "consume"}, NEW name \in Names, Fold[name] = Fold[n], NEW link,
         Starts(r, {n}, Nobody), Is(r, pc, Absent, Boot, name, name, "idle", link),
         pc = "place" => ~Exists(n)
  PROVE  NameInv'
  <1>3. /\ Holds(r)' = Nobody /\ Touched(r)' = {Fold[m] : m \in {n}} /\ At(r, Bare)
        /\ excused \subseteq excused' /\ file' = file
        /\ req'[r].met <=> Others(r, {n}) # {}
    BY Markers DEF Starts, Is, Holds, Touched, At, Bare, Meets, stores
  <1>4. NameSole(r)'
    <2>1. CASE pc = "place"
      <3>1. \A p \in Paths : file[p] \in Account => Fold[file[p].name] # Fold[n]
        BY <2>1, Lone DEF NameInv
      <3> QED
        BY <1>3, <3>1 DEF NameSole
    <2>2. CASE pc # "place"
      BY <1>3, <2>2 DEF NameSole, Claims, Is, At
    <2> QED
      BY <2>1, <2>2
  <1>5. RecName(r)'
    BY <1>3 DEF RecName, Is, At, Renames
  <1>6. ~At(r, {"truncate", "write"})' /\ Meets(r, {n}, Nobody)
    BY DEF Is, At, Starts
  <1> QED
    BY <1>3, <1>4, <1>5, <1>6, NameStart

\* Steps that find no account and write none.
LEMMA MeetingKept ==
  ASSUME NameInv, NEW r \in Requests,
         \A x \in Requests \ {r} : Touched(x)' = Touched(x) /\ (Marked(x) => Marked(x)'),
         Touched(r)' = {} \/ (Touched(r)' = Touched(r) /\ (Marked(r) => Marked(r)'))
  PROVE  Meeting'
  <1> SUFFICES ASSUME NEW y \in Requests, NEW x \in Requests, y # x, Touched(y)' \cap Touched(x)' # {}
               PROVE  Marked(y)' /\ Marked(x)'
    BY DEF Meeting
  <1>1. \A z \in {x, y} : Touched(z)' = Touched(z) /\ (Marked(z) => Marked(z)')
    OBVIOUS
  <1> QED
    BY <1>1 DEF NameInv, Meeting

LEMMA NameGoes ==
  ASSUME TypedOK, ShapeOK, NameInv, EditInv, EditInv', NEW r \in Requests, Goes(r)
  PROVE  NameInv'
  <1>1. /\ \A x \in Requests \ {r} : Same(x) /\ req'[x] = req[x]
        /\ Loses /\ excused \subseteq excused'
        /\ req'[r] = Idle \/ Onward(r)
    BY SameAsIs DEF Goes
  <1>3. ASSUME NEW x \in Requests \ {r}
        PROVE  /\ Holds(x)' = Holds(x) /\ Touched(x)' = Touched(x)
               /\ Marked(x) => Marked(x)'
               /\ Warned(x) => Warned(x)'
               /\ Claims(x)' <=> Claims(x)
    BY <1>1, SameHolds, NameOther
  <1>4. ASSUME req'[r] = Idle
        PROVE  /\ Holds(r)' = Nobody /\ Touched(r)' = {} /\ ~Claims(r)' /\ ~Mine(r)'
               /\ \A labels : At(r, labels)' => "idle" \in labels
    BY <1>4, IdleType, Markers DEF Holds, Touched, Claims, Mine, At
  <1>5. ASSUME Onward(r)
        PROVE  /\ Holds(r)' = Holds(r) /\ Touched(r)' = Touched(r)
               /\ Marked(r) => Marked(r)'
               /\ Warned(r) => Warned(r)'
               /\ Claims(r)' => Claims(r)
    BY <1>1, <1>5 DEF Onward, Is, Holds, Touched, Marked, Warned, Claims, At
  <1>6. Meeting'
    BY <1>1, <1>3, <1>4, <1>5, MeetingKept
  <1>7. NamesSole'
    <2> SUFFICES ASSUME NEW x \in Requests PROVE NameSole(x)'
      BY DEF NamesSole
    <2>1. CASE x # r \/ Onward(r)
      BY <1>1, <1>3, <1>5, <2>1, SoleKept DEF NameInv, NamesSole
    <2>2. CASE x = r /\ req'[r] = Idle
      BY <1>4, <2>2 DEF NameSole
    <2> QED
      BY <1>1, <2>1, <2>2
  <1>8. Keys'
    <2>1. ASSUME NEW x \in Requests, At(x, {"truncate", "write"})', req'[x].path # Boot
          PROVE  Key[req'[x].rec.name] = req'[x].path
      <3>1. CASE x # r
        BY <1>1, <2>1, <3>1 DEF NameInv, Keys, At
      <3>2. CASE x = r /\ Onward(r)
        BY <2>1, <3>2 DEF NameInv, Keys, At, Onward, Is
      <3>3. CASE x = r /\ req'[r] = Idle
        BY <1>4, <2>1, <3>3
      <3> QED
        BY <1>1, <3>1, <3>2, <3>3
    <2>2. \A p \in Names : file'[p] \in Account => Key[file'[p].name] = p
      BY <1>1, Markers DEF NameInv, Keys, Loses
    <2> QED
      BY <2>1, <2>2 DEF Keys
  <1>9. Uniq'
    BY <1>1, UniqKept DEF NameInv
  <1>10. \A x \in Requests : req[x].path \in Paths
    BY HoldsType DEF ReqType
  <1>11. ASSUME NEW x \in Requests PROVE RecName(x)'
    <2>1. CASE x # r
      <3>1. /\ req'[x].path = req[x].path /\ (Renames(x)' <=> Renames(x))
            /\ \A labels : At(x, labels)' = At(x, labels)
        BY <1>1, <2>1 DEF Renames, At
      <3>2. Mine(x)' /\ (Renames(x) \/ At(x, {"drop", "remove"})) => file'[req[x].path] = file[req[x].path]
        <4> SUFFICES ASSUME Mine(x)', Renames(x) \/ At(x, {"drop", "remove"})
                     PROVE  file'[req[x].path] = file[req[x].path]
          OBVIOUS
        <4>1. At(x, {"unlink", "files", "lists", "drop", "remove"})'
          BY <3>1 DEF Renames, At
        <4>2. file'[req[x].path] \in Account
          BY <1>10, <3>1, <4>1, StaysPut
        <4> QED
          BY <1>1, <1>10, <4>2 DEF Loses
      <3> QED
        BY <1>1, <2>1, <3>2, RecKept DEF NameInv, RecNames
    <2>2. CASE x = r /\ req'[r] = Idle
      BY <1>4, <2>2 DEF RecName, Renames
    <2>3. CASE x = r /\ Onward(r)
      <3>1. /\ req'[r].rec = req[r].rec /\ req'[r].from = req[r].from /\ req'[r].to = req[r].to
            /\ req'[r].next = req[r].next /\ req'[r].path = req[r].path
            /\ <<req[r].pc, req'[r].pc>> \in {<<"truncate", "write">>, <<"unlink", "files">>,
                                              <<"consume", "load">>, <<"files", "lists">>}
        BY <2>3 DEF Onward, Is
      <3>2. RecName(r) /\ (Mine(r)' => Mine(r))
        BY <1>1, <1>5, <2>3 DEF NameInv, RecNames, Mine
      <3>3. At(r, {"truncate", "write"})' => At(r, {"truncate", "write"})
        BY <3>1 DEF At
      <3>4. Renames(r)' => Renames(r)
        BY <3>1 DEF At, Renames
      <3>5. ~At(r, {"remove", "drop"})'
        BY <3>1 DEF At
      <3>6. Mine(r)' /\ Renames(r)' => file'[req[r].path] = file[req[r].path]
        <4> SUFFICES ASSUME Mine(r)', Renames(r)' PROVE file'[req[r].path] = file[req[r].path]
          OBVIOUS
        <4>1. At(r, {"unlink", "files", "lists", "drop", "remove"})'
          BY DEF Renames, At
        <4>2. file'[req[r].path] \in Account
          BY <1>10, <3>1, <4>1, StaysPut
        <4> QED
          BY <1>1, <1>10, <4>2 DEF Loses
      <3>7. RecName(r)'
        BY <3>1, <3>2, <3>3, <3>4, <3>5, <3>6 DEF RecName, At
      <3> QED
        BY <2>3, <3>7
    <2> QED
      BY <1>1, <2>1, <2>2, <2>3
  <1> QED
    BY <1>6, <1>7, <1>8, <1>9, <1>11 DEF NameInv, RecNames

LEMMA NamePlace ==
  ASSUME TypedOK, ShapeOK, NameInv, NEW r \in Requests, NEW i \in Ids, NEW w \in Passwords, CreatePlace(r, i, w)
  PROVE  NameInv'
  <1>1. PICK rec \in Account, p \in Paths :
           /\ rec.id = i /\ rec.name = req[r].to /\ req[r].pc = "place"
           /\ p = IF file[Boot] \in Account THEN Key[req[r].to] ELSE Boot
           /\ Is(r, "truncate", rec, p, req[r].from, req[r].to, req[r].next, req[r].link)
           /\ req'[r].met = req[r].met
           /\ \A x \in Requests \ {r} : req'[x] = req[x]
           /\ excused' = IF req[r].met THEN excused \cup {i} ELSE excused
           /\ UNCHANGED stores
    BY Placed
  <1>2. /\ \A x \in Requests \ {r} : Same(x) /\ req'[x].met = req[x].met
        /\ Loses /\ excused \subseteq excused' /\ file' = file
    BY <1>1, SameAsIs DEF Loses, stores
  <1>3. ASSUME NEW x \in Requests \ {r}
        PROVE  /\ Holds(x)' = Holds(x) /\ Touched(x)' = Touched(x)
               /\ Marked(x) => Marked(x)'
               /\ Warned(x) => Warned(x)'
               /\ Claims(x)' <=> Claims(x)
    BY <1>2, SameHolds, NameOther
  <1>4. /\ Holds(r)' = i /\ Holds(r) = Nobody /\ Touched(r)' = Touched(r) /\ ~At(r, {"place"})'
        /\ At(r, {"place"}) /\ i # Nobody
    BY <1>1, HoldsType, Markers DEF ShapeOK, Shape, At, Bare, Is, Holds, Touched
  <1>5. Marked(r) => Marked(r)'
    BY <1>1, <1>4 DEF Marked
  <1>6. Meeting'
    BY <1>3, <1>4, <1>5, MeetingKept
  <1>7. NameSole(r)'
    <2> SUFFICES ASSUME NEW q \in Paths, file[q] \in Account, Fold[file[q].name] \in Touched(r)
                 PROVE  file[q].id \in excused' /\ Warned(r)'
      BY <1>2, <1>4 DEF NameSole
    <2>1. file[q].id # Nobody
      BY Markers
    <2>2. file[q].id \in excused /\ Warned(r)
      BY <1>4, <2>1 DEF NameInv, NamesSole, NameSole, Claims
    <2> QED
      BY <1>1, <1>2, <1>4, <2>2 DEF Warned
  <1>8. ASSUME NEW x \in Requests PROVE NameSole(x)' /\ RecName(x)'
    <2>1. CASE x # r
      BY <1>2, <1>3, <2>1, SoleKept, RecKept DEF NameInv, NamesSole, RecNames
    <2>2. CASE x = r
      <3>1. req[r].from = req[r].to /\ req[r].next = "idle"
        BY <1>1 DEF ShapeOK, Shape, At, Bare
      <3>2. RecName(r)'
        BY <1>1, <3>1 DEF RecName, Is, At, Renames
      <3> QED
        BY <1>7, <2>2, <3>2
    <2> QED
      BY <2>1, <2>2
  <1>9. Keys'
    <2>1. ASSUME NEW x \in Requests, At(x, {"truncate", "write"})', req'[x].path # Boot
          PROVE  Key[req'[x].rec.name] = req'[x].path
      <3>1. CASE x = r
        BY <1>1, <2>1, <3>1 DEF Is
      <3>2. CASE x # r
        BY <1>1, <2>1, <3>2 DEF NameInv, Keys, At
      <3> QED
        BY <3>1, <3>2
    <2> QED
      BY <1>2, <2>1 DEF NameInv, Keys
  <1>10. Uniq'
    BY <1>2, UniqKept DEF NameInv
  <1> QED
    BY <1>6, <1>8, <1>9, <1>10 DEF NameInv, NamesSole, RecNames

\* What a request writes, and where it goes on.
LEMMA Written ==
  ASSUME TypedOK, ShapeOK, NEW r \in Requests, Write(r)
  PROVE  \E p \in Paths, rec \in Account, h \in Ids :
           /\ p = req[r].path /\ rec = req[r].rec /\ h = rec.id /\ Holds(r) = h /\ h # Nobody
           /\ At(r, {"write"}) /\ Fold[rec.name] \in Touched(r)
           /\ file'[p] = rec /\ \A q \in Paths \ {p} : file'[q] = file[q]
           /\ UNCHANGED <<born, excused, own, filed>>
           /\ \A x \in Requests \ {r} : req'[x] = req[x]
           /\ \/ req[r].next = "idle" /\ req'[r] = Idle
              \/ /\ req[r].next \in {"unlink", "files", "drop"}
                 /\ Is(r, req[r].next, rec, p, req[r].from, req[r].to, req[r].next, req[r].link)
                 /\ req'[r].met = req[r].met
  <1> PICK p \in Paths : p = req[r].path
    BY HoldsType DEF ReqType
  <1> PICK rec : rec = req[r].rec
    OBVIOUS
  <1>0. /\ req[r].pc = "write" /\ rec \in Account /\ Holds(r) = rec.id /\ rec.id \in Ids
        /\ Fold[rec.name] \in Touched(r) /\ At(r, {"write"})
    BY HoldsType, Markers DEF Write, ShapeOK, Shape, At, Bare
  <1>1. file' = [file EXCEPT ![p] = rec] /\ UNCHANGED <<born, excused, own, filed>>
    BY DEF Write
  <1>2. \/ req[r].next = "idle" /\ Answer(r)
        \/ req[r].next \in {"unlink", "files", "drop"} /\ Goto(r, req[r].next)
    BY DEF Write, ShapeOK, Shape
  <1>3. /\ \A x \in Requests \ {r} : req'[x] = req[x]
        /\ \/ req[r].next = "idle" /\ req'[r] = Idle
           \/ /\ req[r].next \in {"unlink", "files", "drop"}
              /\ Is(r, req[r].next, rec, p, req[r].from, req[r].to, req[r].next, req[r].link)
              /\ req'[r].met = req[r].met
    BY <1>2, Answered, Went DEF Pcs, Is
  <1>4. file'[p] = rec /\ \A q \in Paths \ {p} : file'[q] = file[q]
    BY <1>1, Types DEF StoresOK
  <1>5. rec.id # Nobody
    BY <1>0, Markers
  <1> QED
    BY <1>0, <1>1, <1>3, <1>4, <1>5

LEMMA NameWrite ==
  ASSUME TypedOK, ShapeOK, NameInv, EditInv, EditInv', NEW r \in Requests, Write(r)
  PROVE  NameInv'
  <1>1. PICK p \in Paths, rec \in Account, h \in Ids :
           /\ p = req[r].path /\ rec = req[r].rec /\ h = rec.id /\ Holds(r) = h /\ h # Nobody
           /\ At(r, {"write"}) /\ Fold[rec.name] \in Touched(r)
           /\ file'[p] = rec /\ \A q \in Paths \ {p} : file'[q] = file[q]
           /\ UNCHANGED <<born, excused, own, filed>>
           /\ \A x \in Requests \ {r} : req'[x] = req[x]
           /\ \/ req[r].next = "idle" /\ req'[r] = Idle
              \/ /\ req[r].next \in {"unlink", "files", "drop"}
                 /\ Is(r, req[r].next, rec, p, req[r].from, req[r].to, req[r].next, req[r].link)
                 /\ req'[r].met = req[r].met
    BY Written
  <1>2. /\ \A x \in Requests \ {r} : Same(x) /\ req'[x].met = req[x].met
        /\ excused \subseteq excused'
    BY <1>1, SameAsIs
  <1>3. ASSUME NEW x \in Requests \ {r}
        PROVE  /\ Holds(x)' = Holds(x) /\ Touched(x)' = Touched(x)
               /\ Marked(x) => Marked(x)'
               /\ Warned(x) => Warned(x)'
               /\ Claims(x)' <=> Claims(x)
    BY <1>2, SameHolds, NameOther
  <1>5. /\ rec.name = req[r].to
        /\ req[r].from # req[r].to <=> req[r].next \in {"unlink", "files"}
        /\ req[r].next = "unlink" => p # Boot
        /\ p # Boot => Key[rec.name] = p
    BY <1>1 DEF NameInv, RecNames, RecName, Keys, At
  <1>6. ASSUME req'[r] = Idle
        PROVE  /\ Holds(r)' = Nobody /\ Touched(r)' = {} /\ ~Claims(r)' /\ ~Mine(r)'
               /\ \A labels : At(r, labels)' => "idle" \in labels
    BY <1>6, IdleType, Markers DEF Holds, Touched, Claims, Mine, At
  <1>7. ASSUME req'[r] # Idle
        PROVE  /\ Holds(r)' = Holds(r) /\ Touched(r)' = Touched(r)
               /\ Marked(r) => Marked(r)'
               /\ Warned(r) => Warned(r)'
               /\ Claims(r)' /\ Claims(r)
               /\ ~At(r, {"truncate", "write"})'
    BY <1>1, <1>7 DEF Is, Holds, Touched, Marked, Warned, Claims, At
  <1>8. Meeting'
    BY <1>3, <1>6, <1>7, MeetingKept
  <1>9. ASSUME NEW x \in Requests PROVE NameSole(x)'
    <2>1. CASE x # r
      <3> SUFFICES ASSUME Claims(x), NEW q \in Paths, file'[q] \in Account,
                          Fold[file'[q].name] \in Touched(x), file'[q].id # Holds(x)
                   PROVE  file'[q].id \in excused' /\ Warned(x)'
        BY <1>3, <2>1 DEF NameSole
      <3>1. CASE q = p
        <4>1. Marked(r) /\ Marked(x)
          BY <1>1, <2>1, <3>1 DEF NameInv, Meeting
        <4> QED
          BY <1>1, <1>2, <1>3, <2>1, <3>1, <4>1 DEF Marked, Warned
      <3>2. CASE q # p
        BY <1>1, <1>2, <1>3, <2>1, <3>2 DEF NameInv, NamesSole, NameSole
      <3> QED
        BY <3>1, <3>2
    <2>2. CASE x = r /\ req'[r] = Idle
      BY <1>6, <2>2 DEF NameSole
    <2>3. CASE x = r /\ req'[r] # Idle
      <3> SUFFICES ASSUME NEW q \in Paths, file'[q] \in Account,
                          Fold[file'[q].name] \in Touched(r), file'[q].id # h
                   PROVE  file'[q].id \in excused' /\ Warned(r)'
        BY <1>1, <1>7, <2>3 DEF NameSole
      <3>1. q # p /\ file'[q] = file[q]
        BY <1>1
      <3> QED
        BY <1>1, <1>2, <1>7, <2>3, <3>1 DEF NameInv, NamesSole, NameSole
    <2> QED
      BY <2>1, <2>2, <2>3
  <1>10. ASSUME NEW q \in Paths, q # p, file[q] \in Account, file[q].name = rec.name
         PROVE  file[q].id \in excused /\ h \in excused
    <2>1. CASE file[q].id # h
      <3>1. Claims(r) /\ Fold[file[q].name] \in Touched(r)
        BY <1>1, <1>10 DEF Claims
      <3>2. file[q].id \in excused /\ Warned(r)
        BY <1>1, <1>10, <2>1, <3>1 DEF NameInv, NamesSole, NameSole
      <3> QED
        BY <1>1, <3>2 DEF Warned
    <2>2. CASE file[q].id = h
      <3>1. SUFFICES ASSUME h \notin excused PROVE FALSE
        BY <2>2
      <3>2. Stage(r) /\ With(q, h)
        BY <1>1, <1>10, <2>2, <3>1 DEF EditInv, Stages, StageHeld, Mine, With
      <3>3. q = OldPath(r) /\ req[r].next = "unlink"
        BY <1>1, <3>2 DEF Stage, At
      <3>4. q = Key[req[r].from] /\ q \in Names
        BY <3>3, HoldsType, Markers DEF OldPath, ReqType
      <3>5. Key[rec.name] = q
        BY <1>10, <3>4 DEF NameInv, Keys
      <3> QED
        BY <1>5, <1>10, <3>3, <3>5
    <2> QED
      BY <2>1, <2>2
  <1>11. Uniq'
    <2> SUFFICES ASSUME NEW y \in Paths, NEW z \in Paths, y # z, file'[y] \in Account, file'[z] \in Account,
                        file'[y].name = file'[z].name
                 PROVE  file'[y].id \in excused /\ file'[z].id \in excused
      BY <1>1 DEF Uniq
    <2>1. CASE y = p
      BY <1>1, <1>10, <2>1
    <2>2. CASE z = p
      BY <1>1, <1>10, <2>2
    <2>3. CASE y # p /\ z # p
      BY <1>1, <2>3 DEF NameInv, Uniq
    <2> QED
      BY <2>1, <2>2, <2>3
  <1>12. Keys'
    <2>1. ASSUME NEW x \in Requests, At(x, {"truncate", "write"})', req'[x].path # Boot
          PROVE  Key[req'[x].rec.name] = req'[x].path
      <3>1. x # r
        BY <1>6, <1>7, <2>1
      <3> QED
        BY <1>1, <2>1, <3>1 DEF NameInv, Keys, At
    <2>2. ASSUME NEW q \in Names, file'[q] \in Account PROVE Key[file'[q].name] = q
      <3>1. CASE q = p
        BY <1>1, <1>5, <3>1, Markers
      <3>2. CASE q # p
        BY <1>1, <2>2, <3>2, Markers DEF NameInv, Keys
      <3> QED
        BY <3>1, <3>2
    <2> QED
      BY <2>1, <2>2 DEF Keys
  <1>13. ASSUME NEW x \in Requests PROVE RecName(x)'
    <2>0. req[x].path \in Paths
      BY HoldsType DEF ReqType
    <2>1. CASE x # r
      <3>1. /\ req'[x].path = req[x].path /\ (Renames(x)' <=> Renames(x))
            /\ \A labels : At(x, labels)' = At(x, labels)
        BY <1>1, <2>1 DEF Renames, At
      <3>2. Mine(x)' /\ (Renames(x) \/ At(x, {"drop", "remove"})) => file'[req[x].path] = file[req[x].path]
        <4> SUFFICES ASSUME Mine(x)', Renames(x) \/ At(x, {"drop", "remove"})
                     PROVE  file'[req[x].path] = file[req[x].path]
          OBVIOUS
        <4>1. At(x, {"unlink", "files", "lists", "drop", "remove"})'
          BY <3>1 DEF Renames, At
        <4>2. file'[req[x].path].id = Holds(x)
          BY <1>3, <2>0, <2>1, <3>1, <4>1, StaysPut
        <4>3. Mine(x)
          BY <1>1, <1>3, <2>1 DEF Mine
        <4>4. Holds(x) # h
          BY <1>1, <2>1, <4>3 DEF EditInv, Sole
        <4> QED
          BY <1>1, <2>0, <4>2, <4>4
      <3> QED
        BY <1>2, <2>1, <3>2, RecKept DEF NameInv, RecNames
    <2>2. CASE x = r /\ req'[r] = Idle
      BY <1>6, <2>2 DEF RecName, Renames
    <2>3. CASE x = r /\ req'[r] # Idle
      BY <1>1, <1>5, <1>7, <2>3, IdleType DEF RecName, Renames, At, Is
    <2> QED
      BY <2>1, <2>2, <2>3
  <1> QED
    BY <1>8, <1>9, <1>11, <1>12, <1>13 DEF NameInv, NamesSole, RecNames

LEMMA NameIdle ==
  ASSUME Keys, Uniq, file' = file, excused \subseteq excused',
         \A r \in Requests : req'[r] = Idle
  PROVE  NameInv'
  <1>1. \A r \in Requests : /\ Holds(r)' = Nobody /\ Touched(r)' = {} /\ ~Claims(r)' /\ ~Mine(r)'
                            /\ \A labels : At(r, labels)' => "idle" \in labels
    BY IdleType, Markers DEF Holds, Touched, Claims, Mine, At
  <1>2. Uniq'
    BY UniqKept DEF Loses
  <1>3. Meeting' /\ Keys' /\ NamesSole'
    BY <1>1 DEF Meeting, Keys, NamesSole, NameSole
  <1>4. RecNames'
    BY <1>1 DEF RecNames, RecName, Renames
  <1> QED
    BY <1>2, <1>3, <1>4 DEF NameInv

LEMMA NameSame ==
  ASSUME TypedOK, NameInv, UNCHANGED <<file, req>>, excused \subseteq excused'
  PROVE  NameInv'
  <1>1. \A r \in Requests : /\ Same(r) /\ req'[r] = req[r]
                            /\ Holds(r)' = Holds(r) /\ Touched(r)' = Touched(r)
                            /\ Marked(r) => Marked(r)'
                            /\ Warned(r) => Warned(r)'
                            /\ Claims(r)' <=> Claims(r)
    BY SameHolds, NameOther DEF Same
  <1>2. Uniq' /\ Loses
    BY UniqKept DEF Loses, NameInv
  <1>3. Meeting'
    BY <1>1 DEF Meeting, NameInv
  <1>4. Keys'
    BY DEF Keys, NameInv, At
  <1>5. NamesSole' /\ RecNames'
    BY <1>1, <1>2, SoleKept, RecKept DEF NameInv, NamesSole, RecNames
  <1> QED
    BY <1>2, <1>3, <1>4, <1>5 DEF NameInv

LEMMA NameInit == Init => NameInv
  <1> SUFFICES ASSUME Init PROVE NameInv
    OBVIOUS
  <1>1. \A r \in Requests : /\ Holds(r) = Nobody /\ Touched(r) = {} /\ ~Claims(r) /\ ~Mine(r)
                            /\ \A labels : At(r, labels) => "idle" \in labels
    BY IdleType, Markers DEF Init, Holds, Touched, Claims, Mine, At
  <1>2. \A p \in Paths : file[p] \in Account => p = Boot
    BY Markers DEF Init
  <1>3. Keys /\ Uniq
    BY <1>1, <1>2, Markers DEF Keys, Uniq
  <1>4. Meeting /\ NamesSole /\ RecNames
    BY <1>1 DEF Meeting, NamesSole, NameSole, RecNames, RecName, Renames
  <1> QED
    BY <1>3, <1>4 DEF NameInv

\* A request that starts while no two spellings have met names nobody by another.
LEMMA Told ==
  ASSUME ~alike', NEW r \in Requests
  PROVE  /\ \A n \in Names : CreateCheck(r, n) \/ DeleteLoad(r, n) => Apart(n)
         /\ \A n \in Names : Forgot(r, n) => Apart(file[PathOf(n)].name)
         /\ \A n, m \in Names : RenameLoad(r, n, m) => Apart(n) /\ Apart(m)
         /\ \A n \in Names, w \in Passwords, o \in BOOLEAN : EditLoad(r, n, w, o) => Apart(n)
  BY DEF CreateCheck, DeleteLoad, Forgot, RenameLoad, EditLoad, Begin

LEMMA NameStep ==
  ASSUME TypedOK, ShapeOK, EditInv, EditInv', NameInv, FoldApart, ~alike', [Next]_vars
  PROVE  NameInv'
  <1>1. ASSUME NEW r \in Requests, NEW n \in Names, CreateCheck(r, n) PROVE NameInv'
    BY <1>1, Created, Told, NameNone
  <1>2. ASSUME NEW r \in Requests, NEW n \in Names, Forgot(r, n) PROVE NameInv'
    <2> PICK a \in Account : a = file[PathOf(n)]
      BY <1>2, FoundAt DEF Forgot
    <2>1. /\ Starts(r, {a.name}, Nobody)
          /\ Is(r, "mint", Absent, Boot, a.name, a.name, "idle", NoLink)
      BY <1>2, Forgotten
    <2>2. a.name \in Names /\ Apart(a.name)
      BY <1>2, Told, Markers
    <2> QED
      BY <2>1, <2>2, NameNone
  <1>3. ASSUME NEW r \in Requests, NEW l \in Links, SubmitPeek(r, l) PROVE NameInv'
    <2>1. PICK t \in tokens :
           /\ t.link = l /\ t.name \in Names
           /\ Starts(r, {t.name}, Nobody)
           /\ Is(r, "consume", Absent, Boot, t.name, t.name, "idle", l)
           /\ Apart(t.name)
      BY <1>3, Submitted
    <2> QED
      BY <2>1, NameNone
  <1>4. ASSUME NEW r \in Requests, NEW n \in Names, DeleteLoad(r, n) PROVE NameInv'
    BY <1>4, Told, NameDelete
  <1>5. ASSUME NEW r \in Requests, NEW n \in Names, NEW m \in Names, RenameLoad(r, n, m) PROVE NameInv'
    BY <1>5, Told, NameRename
  <1>6. ASSUME NEW r \in Requests, NEW n \in Names, NEW w \in Passwords, NEW o \in BOOLEAN,
               EditLoad(r, n, w, o) PROVE NameInv'
    BY <1>6, Told, NameEdit
  <1>20. ASSUME NEW r \in Requests, RequestStep(r) PROVE NameInv'
    <2>1. CASE \E n \in Names : CreateCheck(r, n) \/ DeleteLoad(r, n) \/ Forgot(r, n)
      BY <1>1, <1>2, <1>4, <2>1
    <2>2. CASE \E n, m \in Names : RenameLoad(r, n, m)
      BY <1>5, <2>2
    <2>3. CASE \E n \in Names, w \in Passwords, o \in BOOLEAN : EditLoad(r, n, w, o)
      BY <1>6, <2>3
    <2>4. CASE \E i \in Ids, w \in Passwords : CreatePlace(r, i, w)
      BY <2>4, NamePlace
    <2>5. CASE \/ CreateRefused(r) \/ Truncate(r) \/ SaveFails(r)
               \/ Remove(r) \/ RemoveFails(r) \/ Unlink(r) \/ UnlinkFails(r)
               \/ MintFails(r) \/ Consume(r) \/ ConsumeFails(r) \/ ResetFails(r) \/ Drop(r)
               \/ \E s \in Stores : MoveStore(r, s) \/ MoveStoreFails(r, s)
               \/ \E l \in Links : Mint(r, l)
      BY <2>5, GoesAll, NameGoes
    <2>6. CASE Write(r)
      BY <2>6, NameWrite
    <2>7. CASE \E l \in Links : SubmitPeek(r, l)
      BY <1>3, <2>7
    <2>9. CASE \E w \in Passwords : ResetLoad(r, w)
      BY <2>9, NameReset
    <2>10. \/ \E n \in Names : CreateCheck(r, n) \/ DeleteLoad(r, n) \/ Forgot(r, n)
           \/ \E n, m \in Names : RenameLoad(r, n, m)
           \/ \E n \in Names, w \in Passwords, o \in BOOLEAN : EditLoad(r, n, w, o)
           \/ \E i \in Ids, w \in Passwords : CreatePlace(r, i, w)
           \/ \E l \in Links : SubmitPeek(r, l)
           \/ \E w \in Passwords : ResetLoad(r, w)
           \/ Write(r)
           \/ CreateRefused(r) \/ Truncate(r) \/ SaveFails(r)
           \/ Remove(r) \/ RemoveFails(r) \/ Unlink(r) \/ UnlinkFails(r)
           \/ MintFails(r) \/ Consume(r) \/ ConsumeFails(r) \/ ResetFails(r) \/ Drop(r)
           \/ \E s \in Stores : MoveStore(r, s) \/ MoveStoreFails(r, s)
           \/ \E l \in Links : Mint(r, l)
      BY <1>20 DEF RequestStep
    <2> QED
      BY <2>1, <2>2, <2>3, <2>4, <2>5, <2>6, <2>7, <2>9, <2>10
  <1>21. CASE Crash
    BY <1>21, NameIdle, Types, Markers DEF Crash, NameInv, PastOK
  <1>22. ASSUME NEW s \in Stores, NEW p \in Paths, FileUnder(s, p) PROVE NameInv'
    BY <1>22, FileType, NameSame DEF FileUnder
  <1>23. ASSUME NEW l \in Links, Expire(l) PROVE NameInv'
    BY <1>23, NameSame DEF Expire, history
  <1>24. CASE UNCHANGED vars
    BY <1>24, NameSame DEF vars, stores, history
  <1> QED
    BY <1>20, <1>21, <1>22, <1>23, <1>24 DEF Next, Rest

-----------------------------------------------------------------------------
(* Spellings                                                                  *)

\* Names in use stay apart when those that come into use are.
LEMMA ApartWith ==
  ASSUME FoldApart, NEW S, \A n \in S : Apart(n), \A n, m \in S : Fold[n] = Fold[m] => n = m,
         \A p \in Paths : file'[p] \in Account => file'[p] = file[p] \/ file'[p].name \in InUse,
         \A x \in Requests :
            \/ req'[x].pc = "idle"
            \/ req'[x].from \in InUse \cup S /\ req'[x].to \in InUse \cup S,
         \A x \in Requests : req'[x].rec \in Account => req'[x].rec.name \in InUse \cup S
  PROVE  FoldApart'
  <1>1. ASSUME NEW n \in InUse' PROVE n \in InUse \cup S
    <2>1. \/ \E p \in Paths : file'[p] \in Account /\ file'[p].name = n
          \/ \E x \in Requests : req'[x].pc # "idle" /\ n \in {req'[x].from, req'[x].to}
          \/ \E x \in Requests : req'[x].rec \in Account /\ req'[x].rec.name = n
      BY <1>1 DEF InUse
    <2>2. ASSUME NEW p \in Paths, file'[p] \in Account PROVE file'[p].name \in InUse
      BY <2>2, InUseFile
    <2> QED
      BY <2>1, <2>2
  <1> SUFFICES ASSUME NEW n \in InUse', NEW m \in InUse', Fold[m] = Fold[n] PROVE m = n
    BY DEF FoldApart, Apart
  <1>2. n \in InUse \cup S /\ m \in InUse \cup S
    BY <1>1
  <1> QED
    BY <1>2 DEF FoldApart, Apart

LEMMA ApartOthers ==
  ASSUME TypedOK, NEW x \in Requests, Same(x)
  PROVE  /\ req'[x].pc = "idle" \/ (req'[x].from \in InUse /\ req'[x].to \in InUse)
         /\ req'[x].rec \in Account => req'[x].rec.name \in InUse
  BY InUseReq DEF Same

LEMMA ApartOf ==
  ASSUME TypedOK, FoldApart, NEW r \in Requests, NEW S, \A n \in S : Apart(n),
         \A n, m \in S : Fold[n] = Fold[m] => n = m,
         \A x \in Requests \ {r} : Same(x),
         \A p \in Paths : file'[p] \in Account => file'[p] = file[p] \/ file'[p].name \in InUse,
         \/ req'[r].pc = "idle"
         \/ req'[r].from \in InUse \cup S /\ req'[r].to \in InUse \cup S,
         req'[r].rec \in Account => req'[r].rec.name \in InUse \cup S
  PROVE  FoldApart'
  <1>1. ASSUME NEW x \in Requests
        PROVE  /\ \/ req'[x].pc = "idle"
                  \/ req'[x].from \in InUse \cup S /\ req'[x].to \in InUse \cup S
               /\ req'[x].rec \in Account => req'[x].rec.name \in InUse \cup S
    BY ApartOthers
  <1> QED
    BY <1>1, ApartWith

\* The same, when no name comes into use.
LEMMA ApartNone ==
  ASSUME TypedOK, FoldApart, NEW r \in Requests,
         \A x \in Requests \ {r} : Same(x),
         \A p \in Paths : file'[p] \in Account => file'[p] = file[p] \/ file'[p].name \in InUse,
         req'[r].pc = "idle" \/ (req'[r].from \in InUse /\ req'[r].to \in InUse),
         req'[r].rec \in Account => req'[r].rec.name \in InUse
  PROVE  FoldApart'
  <1> PICK S : S = {}
    OBVIOUS
  <1>1. (\A n \in S : Apart(n)) /\ \A n, m \in S : Fold[n] = Fold[m] => n = m
    OBVIOUS
  <1>2. /\ \/ req'[r].pc = "idle"
           \/ req'[r].from \in InUse \cup S /\ req'[r].to \in InUse \cup S
        /\ req'[r].rec \in Account => req'[r].rec.name \in InUse \cup S
    OBVIOUS
  <1> QED
    BY <1>1, <1>2, ApartOf

LEMMA ApartInit == Init => FoldApart
  <1> SUFFICES ASSUME Init PROVE FoldApart
    OBVIOUS
  <1>1. ASSUME NEW n \in InUse PROVE n = OwnerName
    BY <1>1, IdleType, Markers DEF Init, InUse
  <1> QED
    BY <1>1 DEF FoldApart, Apart

LEMMA ApartStep ==
  ASSUME TypedOK, ShapeOK, FoldApart, ~alike', [Next]_vars
  PROVE  FoldApart'
  <1>1. ASSUME NEW r \in Requests, NEW n \in Names, CreateCheck(r, n) PROVE FoldApart'
    <2>1. /\ Starts(r, {n}, Nobody) /\ Apart(n)
          /\ Is(r, "place", Absent, Boot, n, n, "idle", NoLink)
      BY <1>1, Created, Told
    <2> QED
      BY <2>1, ApartOf, Markers DEF Starts, Meets, Is, stores
  <1>2. ASSUME NEW r \in Requests, NEW n \in Names, DeleteLoad(r, n) PROVE FoldApart'
    <2> PICK a \in Account : a = file[PathOf(n)]
      BY <1>2, FoundAt DEF DeleteLoad
    <2>1. /\ Starts(r, {n}, a.id) /\ Apart(n) /\ Exists(n)
          /\ Is(r, "remove", a, PathOf(n), n, n, "idle", NoLink)
      BY <1>2, Deleted, Told
    <2>2. a.name \in InUse
      BY <2>1, FoundAt, InUseFile, InUseReq
    <2> QED
      BY <2>1, <2>2, ApartOf DEF Starts, Meets, Is, stores
  <1>3. ASSUME NEW r \in Requests, NEW n \in Names, Forgot(r, n) PROVE FoldApart'
    <2> PICK a \in Account : a = file[PathOf(n)]
      BY <1>3, FoundAt DEF Forgot
    <2>1. /\ Starts(r, {a.name}, Nobody) /\ Exists(n)
          /\ Is(r, "mint", Absent, Boot, a.name, a.name, "idle", NoLink)
      BY <1>3, Forgotten
    <2>2. a.name \in InUse
      BY <2>1, FoundAt, InUseFile, InUseReq
    <2> QED
      BY <2>1, <2>2, ApartNone, Markers DEF Starts, Meets, Is, stores
  <1>4. ASSUME NEW r \in Requests, NEW l \in Links, SubmitPeek(r, l) PROVE FoldApart'
    <2>1. PICK t \in tokens :
           /\ Starts(r, {t.name}, Nobody) /\ Apart(t.name)
           /\ Is(r, "consume", Absent, Boot, t.name, t.name, "idle", l)
      BY <1>4, Submitted
    <2> QED
      BY <2>1, ApartOf, Markers DEF Starts, Meets, Is, stores
  <1>5. ASSUME NEW r \in Requests, NEW n \in Names, NEW w \in Passwords, NEW o \in BOOLEAN,
               EditLoad(r, n, w, o) PROVE FoldApart'
    <2>1. PICK rec \in Account :
           /\ Starts(r, {n}, file[PathOf(n)].id) /\ Exists(n) /\ Apart(n)
           /\ Is(r, "truncate", rec, PathOf(n), n, n, "idle", NoLink)
           /\ rec.name = file[PathOf(n)].name
      BY <1>5, Edited, Told
    <2>2. rec.name \in InUse
      BY <2>1, FoundAt, InUseFile, InUseReq
    <2> QED
      BY <2>1, <2>2, ApartOf DEF Starts, Meets, Is, stores
  <1>6. ASSUME NEW r \in Requests, NEW n \in Names, NEW m \in Names, RenameLoad(r, n, m) PROVE FoldApart'
    <2> PICK next : next = IF PathOf(n) \in {Boot, Key[m]} THEN "files" ELSE "unlink"
      OBVIOUS
    <2>1. PICK rec \in Account, p \in Paths :
           /\ Starts(r, {n, m}, file[PathOf(n)].id) /\ Exists(n)
           /\ Fold[file[PathOf(n)].name] # Fold[m]
           /\ Is(r, "truncate", rec, p, n, m, next, NoLink)
           /\ rec.name = m
      BY <1>6, Renamed
    <2>2. Apart(n) /\ Apart(m)
      BY <1>6, Told
    <2>3. Fold[n] # Fold[m]
      BY <2>1, FoundAt
    <2> QED
      BY <2>1, <2>2, <2>3, ApartOf DEF Starts, Meets, Is, stores
  <1>7. ASSUME NEW r \in Requests, NEW w \in Passwords, ResetLoad(r, w) PROVE FoldApart'
    <2> PICK n \in Names : n = req[r].to
      BY HoldsType DEF ReqType
    <2>1. PICK rec \in Account :
           /\ Meets(r, {n}, file[PathOf(n)].id) /\ Exists(n) /\ req[r].pc = "load"
           /\ Is(r, "truncate", rec, PathOf(n), req[r].from, n, "drop", req[r].link)
           /\ rec.name = file[PathOf(n)].name /\ UNCHANGED stores
      BY <1>7, Reloaded
    <2>2. rec.name \in InUse /\ n \in InUse /\ req[r].from \in InUse
      BY <2>1, FoundAt, InUseFile, InUseReq
    <2> QED
      BY <2>1, <2>2, ApartNone DEF Meets, Is, stores
  <1>8. ASSUME NEW r \in Requests, NEW i \in Ids, NEW w \in Passwords, CreatePlace(r, i, w) PROVE FoldApart'
    <2>1. PICK rec \in Account, p \in Paths :
           /\ rec.name = req[r].to /\ req[r].pc = "place"
           /\ Is(r, "truncate", rec, p, req[r].from, req[r].to, req[r].next, req[r].link)
           /\ \A x \in Requests \ {r} : req'[x] = req[x]
           /\ UNCHANGED stores
      BY <1>8, Placed
    <2>2. req[r].to \in InUse /\ req[r].from \in InUse
      BY <2>1, InUseReq
    <2> QED
      BY <2>1, <2>2, SameAsIs, ApartNone DEF Is, stores
  <1>9. ASSUME NEW r \in Requests, Goes(r) PROVE FoldApart'
    <2>1. /\ \A x \in Requests \ {r} : Same(x) /\ req'[x] = req[x]
          /\ Loses /\ (req'[r] = Idle \/ Onward(r))
      BY <1>9, SameAsIs DEF Goes
    <2>3. CASE req'[r] = Idle
      BY <2>1, <2>3, IdleType, Markers, ApartNone DEF Loses
    <2>4. CASE Onward(r)
      <3>1. req[r].pc # "idle"
        BY <2>4 DEF Onward
      <3>2. req'[r].from \in InUse /\ req'[r].to \in InUse
        BY <2>4, <3>1, InUseReq DEF Onward, Is
      <3>3. req'[r].rec \in Account => req'[r].rec.name \in InUse
        BY <2>4, InUseReq DEF Onward, Is
      <3> QED
        BY <2>1, <3>2, <3>3, ApartNone DEF Loses
    <2> QED
      BY <2>1, <2>3, <2>4
  <1>10. ASSUME NEW r \in Requests, Write(r) PROVE FoldApart'
    <2>1. PICK p \in Paths, rec \in Account :
           /\ rec = req[r].rec /\ At(r, {"write"})
           /\ file'[p] = rec /\ \A q \in Paths \ {p} : file'[q] = file[q]
           /\ \A x \in Requests \ {r} : req'[x] = req[x]
           /\ \/ req'[r] = Idle
              \/ /\ req'[r].rec = rec /\ req'[r].from = req[r].from /\ req'[r].to = req[r].to
      BY <1>10, Written DEF Is
    <2>2. rec.name \in InUse /\ req[r].from \in InUse /\ req[r].to \in InUse
      BY <2>1, InUseReq DEF At
    <2>4. \A q \in Paths : file'[q] \in Account => file'[q] = file[q] \/ file'[q].name \in InUse
      BY <2>1, <2>2
    <2>5. \A x \in Requests \ {r} : Same(x)
      BY <2>1, SameAsIs
    <2>6. CASE req'[r] = Idle
      BY <2>4, <2>5, <2>6, IdleType, Markers, ApartNone
    <2>7. CASE req'[r].rec = rec /\ req'[r].from = req[r].from /\ req'[r].to = req[r].to
      BY <2>2, <2>4, <2>5, <2>7, ApartNone
    <2> QED
      BY <2>1, <2>6, <2>7
  <1>11. ASSUME file' = file, \A x \in Requests : Same(x) \/ req'[x] = Idle PROVE FoldApart'
    <2> PICK S : S = {}
      OBVIOUS
    <2>1. (\A n \in S : Apart(n)) /\ \A n, m \in S : Fold[n] = Fold[m] => n = m
      OBVIOUS
    <2>2. ASSUME NEW x \in Requests
          PROVE  /\ \/ req'[x].pc = "idle"
                    \/ req'[x].from \in InUse \cup S /\ req'[x].to \in InUse \cup S
                 /\ req'[x].rec \in Account => req'[x].rec.name \in InUse \cup S
      BY <1>11, ApartOthers, IdleType, Markers
    <2> QED
      BY <1>11, <2>1, <2>2, ApartWith
  <1>20. ASSUME NEW r \in Requests, RequestStep(r) PROVE FoldApart'
    <2>1. CASE \/ CreateRefused(r) \/ Truncate(r) \/ SaveFails(r)
               \/ Remove(r) \/ RemoveFails(r) \/ Unlink(r) \/ UnlinkFails(r)
               \/ MintFails(r) \/ Consume(r) \/ ConsumeFails(r) \/ ResetFails(r) \/ Drop(r)
               \/ \E s \in Stores : MoveStore(r, s) \/ MoveStoreFails(r, s)
               \/ \E l \in Links : Mint(r, l)
      BY <1>9, <2>1, GoesAll
    <2>2. CASE \/ \E n \in Names : CreateCheck(r, n) \/ DeleteLoad(r, n) \/ Forgot(r, n)
               \/ \E l \in Links : SubmitPeek(r, l)
      BY <1>1, <1>2, <1>3, <1>4, <2>2
    <2>3. CASE \/ \E n, m \in Names : RenameLoad(r, n, m)
               \/ \E n \in Names, w \in Passwords, o \in BOOLEAN : EditLoad(r, n, w, o)
      BY <1>5, <1>6, <2>3
    <2>4. CASE \/ \E i \in Ids, w \in Passwords : CreatePlace(r, i, w)
               \/ \E w \in Passwords : ResetLoad(r, w)
               \/ Write(r)
      BY <1>7, <1>8, <1>10, <2>4
    <2> QED
      BY <1>20, <2>1, <2>2, <2>3, <2>4 DEF RequestStep
  <1>21. CASE Crash
    BY <1>11, <1>21 DEF Crash
  <1>22. CASE \/ \E s \in Stores, p \in Paths : FileUnder(s, p)
              \/ \E l \in Links : Expire(l)
              \/ UNCHANGED vars
    BY <1>11, <1>22, SameAsIs DEF FileUnder, Expire, vars, stores, history
  <1> QED
    BY <1>20, <1>21, <1>22 DEF Next, Rest

-----------------------------------------------------------------------------
(* What is filed under a name                                                 *)

Where(s, i) == {n \in Names : i \in own[s][n]}
\* The slot of what a request's account has: that of the new name when it has moved.
Moved(r, s) == IF At(r, {"lists"}) /\ s = "files" THEN Slot(s, req[r].to) ELSE Slot(s, req[r].from)
Filed == \A s \in Stores, i \in Ids :
           /\ Where(s, i) # {} => <<s, i>> \in filed
           /\ <<s, i>> \in filed => i \in born
FollowAt(s, i) ==
  /\ \A r \in Requests : Holds(r) = i => Where(s, i) = {Moved(r, s)}
  /\ ~InHand(i) /\ ~said[i].gone =>
       \E p \in Paths : With(p, i) /\ Where(s, i) = {Slot(s, file[p].name)}
Follow == \A s \in Stores, i \in Ids : i \in born \ excused /\ <<s, i>> \in filed => FollowAt(s, i)
FollowInv == Filed /\ Follow

LEMMA FollowResult == TypedOK /\ (~alike => FollowInv) => RefsFollow
  <1> SUFFICES ASSUME TypedOK, FollowInv, NEW i \in born \ excused, NEW s \in Stores,
                      <<s, i>> \in filed, ~InHand(i), ~said[i].gone
               PROVE  \E p \in PathsWith(i) : {n \in Names : i \in own[s][n]} = {Slot(s, file[p].name)}
    BY DEF RefsFollow
  <1>1. i \in Ids
    BY Types DEF PastOK
  <1>2. FollowAt(s, i)
    BY <1>1 DEF FollowInv, Follow
  <1> QED
    BY <1>2 DEF FollowAt, Where, With, PathsWith

\* An account that is on disk, in no hand and not excused has one file.
LEMMA OneFile ==
  ASSUME EditInv, NEW i \in born \ excused, ~InHand(i), NEW p \in Paths, With(p, i)
  PROVE  ~said[i].gone /\ \A q \in Paths : With(q, i) => q = p
  BY DEF EditInv, Quiet, QuietAt

LEMMA FollowKept ==
  ASSUME TypedOK, EditInv, EditInv', FollowInv, NEW s \in Stores, NEW j \in Ids, j \in born, j \in born',
         j \notin excused, j \notin excused', <<s, j>> \in filed, Where(s, j)' = Where(s, j),
         \A x \in Requests : Holds(x)' = j => Holds(x) = j /\ Moved(x, s)' = Moved(x, s),
         \A x \in Requests : Holds(x) = j => Holds(x)' = j,
         \A p \in Paths : file'[p] \in Account /\ file'[p].id = j => file'[p] = file[p]
  PROVE  FollowAt(s, j)'
  <1>1. FollowAt(s, j)
    BY DEF FollowInv, Follow
  <1>2. ASSUME NEW r \in Requests, Holds(r)' = j PROVE Where(s, j)' = {Moved(r, s)}'
    BY <1>1, <1>2 DEF FollowAt
  <1>3. ASSUME ~InHand(j)', ~said'[j].gone
        PROVE  \E p \in Paths : With(p, j)' /\ Where(s, j)' = {Slot(s, file'[p].name)}
    <2>1. QuietAt(j)'
      BY <1>3 DEF EditInv, Quiet
    <2>2. PICK p \in Paths : file'[p] \in Account /\ file'[p].id = j
      BY <1>3, <2>1 DEF QuietAt, With
    <2>3. file'[p] = file[p]
      BY <2>2
    <2>4. With(p, j)
      BY <2>2, <2>3 DEF With
    <2>5. ~InHand(j)
      BY <1>3 DEF InHand
    <2>6. \E q \in Paths : With(q, j) /\ Where(s, j) = {Slot(s, file[q].name)}
      BY <1>1, <2>4, <2>5, OneFile DEF FollowAt
    <2>7. Where(s, j) = {Slot(s, file[p].name)}
      BY <2>4, <2>5, <2>6, OneFile
    <2>8. With(p, j)'
      BY <2>2 DEF With
    <2> QED
      BY <2>3, <2>7, <2>8
  <1> QED
    BY <1>2, <1>3 DEF FollowAt

LEMMA SameMoved ==
  ASSUME NEW x \in Requests, Same(x), NEW s
  PROVE  Moved(x, s)' = Moved(x, s) /\ Holds(x)' = Holds(x)
  BY SameHolds DEF Moved, Slot, At, Same

\* A step that files nothing: what is to be shown of the account of the request.
LEMMA FollowFrame ==
  ASSUME TypedOK, EditInv, EditInv', FollowInv, NEW r \in Requests,
         \A x \in Requests \ {r} : Same(x), excused \subseteq excused', UNCHANGED <<own, filed>>,
         born \subseteq born',
         \A j \in Ids \ excused', p \in Paths :
            j # Holds(r) /\ j # Holds(r)' /\ file'[p] \in Account /\ file'[p].id = j => file'[p] = file[p],
         \A s \in Stores, j \in Ids :
            /\ j \in born \ excused' /\ <<s, j>> \in filed /\ (j = Holds(r) \/ j = Holds(r)')
            => FollowAt(s, j)'
  PROVE  FollowInv'
  <1>1. Filed'
    BY DEF FollowInv, Filed, Where
  <1>2. ASSUME NEW s \in Stores, NEW j \in Ids, j \in born' \ excused', <<s, j>> \in filed'
        PROVE  FollowAt(s, j)'
    <2>1. j \in born
      BY <1>2 DEF FollowInv, Filed
    <2>2. CASE j # Holds(r) /\ j # Holds(r)'
      <3>1. \A x \in Requests : Holds(x)' = j => Holds(x) = j /\ Moved(x, s)' = Moved(x, s)
        BY <2>2, SameMoved
      <3>2. \A x \in Requests : Holds(x) = j => Holds(x)' = j
        BY <2>2, SameMoved
      <3>3. Where(s, j)' = Where(s, j)
        BY DEF Where
      <3> QED
        BY <1>2, <2>1, <2>2, <3>1, <3>2, <3>3, FollowKept
    <2>3. CASE j = Holds(r) \/ j = Holds(r)'
      BY <1>2, <2>1, <2>3
    <2> QED
      BY <2>2, <2>3
  <1> QED
    BY <1>1, <1>2 DEF FollowInv, Follow

LEMMA FollowTake ==
  ASSUME TypedOK, EditInv, EditInv', FollowInv, NEW r \in Requests, NEW n \in Names, Apart(n), Exists(n),
         NEW i \in Ids, i = file[PathOf(n)].id,
         \A x \in Requests \ {r} : Same(x), excused \subseteq excused',
         UNCHANGED <<file, said, own, filed, born>>,
         Holds(r) = Nobody, Holds(r)' = i, req'[r].from = n, ~At(r, {"lists"})'
  PROVE  FollowInv'
  <1> PICK a \in Paths : a = PathOf(n)
    BY FoundAt
  <1>1. With(a, i) /\ file[a].name = n /\ i # Nobody
    BY FoundAt, Named, Markers DEF With
  <1>2. ASSUME NEW s \in Stores, i \in born \ excused', <<s, i>> \in filed
        PROVE  FollowAt(s, i)'
    <2>1. \A x \in Requests : Holds(x)' = i => x = r
      BY <1>1, <1>2 DEF EditInv, Sole, Mine
    <2>2. ~InHand(i)
      BY <1>1, <2>1, SameHolds DEF InHand
    <2>3. \A q \in Paths : With(q, i) => q = a /\ ~said[i].gone
      BY <1>1, <1>2, <2>2, OneFile
    <2>4. FollowAt(s, i)
      BY <1>2 DEF FollowInv, Follow
    <2>5. Where(s, i) = {Slot(s, n)}
      BY <1>1, <2>2, <2>3, <2>4 DEF FollowAt
    <2>6. Moved(r, s)' = Slot(s, n)
      BY DEF Moved, Slot
    <2>7. Where(s, i)' = {Slot(s, n)}
      BY <2>5 DEF Where
    <2>8. InHand(i)'
      BY DEF InHand
    <2> QED
      BY <2>1, <2>6, <2>7, <2>8 DEF FollowAt
  <1>3. \A s \in Stores, j \in Ids :
            /\ j \in born \ excused' /\ <<s, j>> \in filed /\ (j = Holds(r) \/ j = Holds(r)')
            => FollowAt(s, j)'
    BY <1>2, Markers
  <1> QED
    BY <1>3, FollowFrame

\* The account of the request is excused, or the request has none.
LEMMA FollowLost ==
  ASSUME TypedOK, EditInv, EditInv', FollowInv, NEW r \in Requests,
         \A x \in Requests \ {r} : Same(x), excused \subseteq excused', UNCHANGED <<own, filed>>,
         born \subseteq born', Loses,
         Holds(r) \in excused' \cup {Nobody}, Holds(r)' \in excused' \cup {Nobody} \cup (Ids \ born)
  PROVE  FollowInv'
  <1>1. \A s \in Stores, j \in Ids :
            /\ j \in born \ excused' /\ <<s, j>> \in filed /\ (j = Holds(r) \/ j = Holds(r)')
            => FollowAt(s, j)'
    BY Markers
  <1> QED
    BY <1>1, FollowFrame DEF Loses

\* The account goes on being held, and what is filed for it stays where it is.
LEMMA FollowOn ==
  ASSUME TypedOK, EditInv, EditInv', FollowInv, NEW r \in Requests,
         \A x \in Requests \ {r} : Same(x), excused \subseteq excused', UNCHANGED <<own, filed>>,
         born \subseteq born', Holds(r) # Nobody, Holds(r)' = Holds(r),
         \A j \in Ids \ excused', p \in Paths :
            j # Holds(r) /\ file'[p] \in Account /\ file'[p].id = j => file'[p] = file[p],
         \A s \in Stores : Holds(r) \notin excused' => Moved(r, s)' = Moved(r, s)
  PROVE  FollowInv'
  <1> PICK h : h = Holds(r)
    OBVIOUS
  <1>1. ASSUME NEW s \in Stores, h \in born \ excused', <<s, h>> \in filed, h \in Ids
        PROVE  FollowAt(s, h)'
    <2>1. \A x \in Requests : Holds(x)' = h => x = r
      BY <1>1, Markers DEF EditInv, Sole, Mine
    <2>2. FollowAt(s, h)
      BY <1>1 DEF FollowInv, Follow
    <2>3. Where(s, h)' = {Moved(r, s)}
      BY <2>2 DEF FollowAt, Where
    <2>4. Where(s, h)' = {Moved(r, s)}'
      BY <1>1, <2>3
    <2>5. InHand(h)'
      BY DEF InHand
    <2> QED
      BY <2>1, <2>4, <2>5 DEF FollowAt
  <1>2. \A s \in Stores, j \in Ids :
            /\ j \in born \ excused' /\ <<s, j>> \in filed /\ (j = Holds(r) \/ j = Holds(r)')
            => FollowAt(s, j)'
    BY <1>1
  <1> QED
    BY <1>2, FollowFrame

\* The account is let go, with everything filed under its name.
LEMMA FollowLet ==
  ASSUME TypedOK, EditInv, EditInv', FollowInv, NEW r \in Requests,
         \A x \in Requests \ {r} : Same(x), excused \subseteq excused', UNCHANGED <<own, filed>>,
         born \subseteq born', NEW h \in Ids, h = Holds(r), Holds(r)' = Nobody,
         \A j \in Ids \ excused', p \in Paths :
            j # Holds(r) /\ file'[p] \in Account /\ file'[p].id = j => file'[p] = file[p],
         NEW p \in Paths,
         h \in excused' \/ said'[h].gone
           \/ (With(p, h)' /\ \A s \in Stores : Moved(r, s) = Slot(s, file'[p].name))
  PROVE  FollowInv'
  <1>0. Nobody \notin Ids
    BY Markers
  <1>1. ASSUME NEW s \in Stores, h \in born \ excused', <<s, h>> \in filed
        PROVE  FollowAt(s, h)'
    <2>1. \A x \in Requests : Holds(x) = h => x = r
      BY <1>0, <1>1 DEF EditInv, Sole, Mine
    <2>2. ~\E x \in Requests : Holds(x)' = h
      BY <1>0, <2>1, SameHolds
    <2>3. FollowAt(s, h)
      BY <1>1 DEF FollowInv, Follow
    <2>4. Where(s, h)' = {Moved(r, s)}
      BY <2>3 DEF FollowAt, Where
    <2>5. said'[h].gone \/ (With(p, h)' /\ Where(s, h)' = {Slot(s, file'[p].name)})
      BY <1>1, <2>4
    <2> QED
      BY <2>2, <2>5 DEF FollowAt
  <1>2. \A s \in Stores, j \in Ids :
            /\ j \in born \ excused' /\ <<s, j>> \in filed /\ (j = Holds(r) \/ j = Holds(r)')
            => FollowAt(s, j)'
    BY <1>0, <1>1
  <1> QED
    BY <1>2, FollowFrame

\* What is on a list under the old name of a rename is the renamed account's: any
\* other account of that name is excused, or gone.
LEMMA ListsAlone ==
  ASSUME TypedOK, ShapeOK, NameInv, FollowInv, NEW r \in Requests, At(r, {"lists"}),
         NEW j \in Ids, j \in born \ excused, j # Holds(r), <<"lists", j>> \in filed,
         InHand(j) \/ ~said[j].gone
  PROVE  Slot("lists", req[r].from) \notin Where("lists", j)
  <1> SUFFICES ASSUME Slot("lists", req[r].from) \in Where("lists", j) PROVE FALSE
    OBVIOUS
  <1>0. /\ FollowAt("lists", j) /\ req[r].from \in Names
        /\ Fold[req[r].from] \in Touched(r)
    BY HoldsType DEF FollowInv, Follow, Stores, ReqType, Touched, At
  <1>1. CASE InHand(j)
    <2>1. PICK x \in Requests : Holds(x) = j
      BY <1>1 DEF InHand
    <2>2. Where("lists", j) = {Fold[req[x].from]}
      BY <1>0, <2>1 DEF FollowAt, Moved, Slot
    <2>3. Fold[req[x].from] = Fold[req[r].from]
      BY <2>2 DEF Slot
    <2>4. x # r /\ j # Nobody
      BY <2>1, Markers
    <2>5. Fold[req[x].from] \in Touched(x)
      BY <2>1, <2>4, HoldsType DEF Touched, ShapeOK, Shape, At, Bare
    <2> QED
      BY <1>0, <2>1, <2>3, <2>4, <2>5 DEF NameInv, Meeting, Marked
  <1>2. CASE ~InHand(j)
    <2>1. PICK p \in Paths : With(p, j) /\ Where("lists", j) = {Slot("lists", file[p].name)}
      BY <1>0, <1>2 DEF FollowAt
    <2>2. Fold[file[p].name] \in Touched(r)
      BY <1>0, <2>1 DEF Slot
    <2>3. Claims(r)
      BY HoldsType DEF Claims, ShapeOK, Shape, At, Bare
    <2> QED
      BY <2>1, <2>2, <2>3 DEF NameInv, NamesSole, NameSole, With
  <1> QED
    BY <1>1, <1>2

LEMMA FollowMove ==
  ASSUME TypedOK, ShapeOK, FoldApart, EditInv, EditInv', NameInv, FollowInv,
         NEW r \in Requests, NEW t \in Stores, MoveStore(r, t)
  PROVE  FollowInv'
  <1> PICK h : h = Holds(r)
    OBVIOUS
  <1> PICK from \in Names, to \in Names : from = req[r].from /\ to = req[r].to
    BY HoldsType DEF ReqType
  <1> PICK old \in Names, new \in Names : old = Slot(t, from) /\ new = Slot(t, to)
    BY Markers
  <1>1. /\ req[r].pc = t /\ UNCHANGED <<file, born, filed, said>> /\ excused \subseteq excused'
        /\ own \in [Stores -> [Names -> SUBSET Ids]]
        /\ t = "files" \/ t = "lists"
    BY MoveType, Types DEF MoveStore, StoresOK, Stores
  <1>2. \/ /\ own[t][old] = {} /\ UNCHANGED <<own, excused>>
        \/ /\ own' = [own EXCEPT ![t][new] = own[t][old] \cup Joined(t, new), ![t][old] = {}]
           /\ excused' = excused \cup (IF t = "lists" THEN {}
                                       ELSE IF old = new THEN own[t][old]
                                       ELSE own[t][new] \cup (own[t][old] \ {h}))
    BY DEF MoveStore
  <1>3. /\ h \in Ids /\ h # Nobody /\ h \in born /\ from # to /\ (t = "lists" => old # new)
    <2>1. h \in Ids /\ h # Nobody
      BY <1>1, HoldsType, Markers DEF ShapeOK, Shape, At, Bare
    <2>2. from # to
      BY <1>1 DEF NameInv, RecNames, RecName, Renames, At
    <2>3. t = "lists" => Fold[from] # Fold[to]
      <3>1. from \in InUse /\ to \in InUse
        BY <1>1, InUseReq DEF Stores
      <3> QED
        BY <2>2, <3>1 DEF FoldApart, Apart
    <2> QED
      BY <2>1, <2>2, <2>3, Markers DEF Slot, EditInv, Known
  <1>4. \A s \in Stores, j \in Ids : s # t => Where(s, j)' = Where(s, j)
    BY <1>1, <1>2 DEF Where
  <1>5. ASSUME NEW j \in Ids \ excused', j # h, t = "files" \/ old \notin Where(t, j)
        PROVE  Where(t, j)' = Where(t, j)
    <2>1. CASE UNCHANGED own
      BY <2>1 DEF Where
    <2>2. CASE own' # own
      <3>1. /\ own' = [own EXCEPT ![t][new] = own[t][old] \cup Joined(t, new), ![t][old] = {}]
            /\ excused' = excused \cup (IF t = "lists" THEN {}
                                       ELSE IF old = new THEN own[t][old]
                                       ELSE own[t][new] \cup (own[t][old] \ {h}))
        BY <1>2, <2>2
      <3>2. \A n \in Names \ {old, new} : own'[t][n] = own[t][n]
        BY <1>1, <3>1
      <3>3. own'[t][old] = {} /\ (old # new => own'[t][new] = own[t][old] \cup Joined(t, new))
        BY <1>1, <3>1
      <3>4. j \notin own[t][old]
        BY <1>1, <1>3, <1>5, <3>1 DEF Where
      <3>5. old # new => (j \in own'[t][new] <=> j \in own[t][new])
        BY <1>1, <1>5, <3>1, <3>3, <3>4 DEF Joined
      <3>6. \A n \in Names : j \in own'[t][n] <=> j \in own[t][n]
        BY <3>2, <3>3, <3>4, <3>5
      <3> QED
        BY <3>6 DEF Where
    <2> QED
      BY <2>1, <2>2
  <1>6. ASSUME h \notin excused', <<t, h>> \in filed
        PROVE  Where(t, h)' = {new}
    <2>1. FollowAt(t, h)
      BY <1>1, <1>3, <1>6 DEF FollowInv, Follow
    <2>2. Where(t, h) = {old}
      BY <1>1, <2>1 DEF FollowAt, Moved, At
    <2>3. h \in own[t][old] /\ \A n \in Names \ {old} : h \notin own[t][n]
      BY <2>2 DEF Where
    <2>4. /\ own' = [own EXCEPT ![t][new] = own[t][old] \cup Joined(t, new), ![t][old] = {}]
          /\ old # new
      BY <1>1, <1>2, <1>3, <1>6, <2>3
    <2>5. /\ own'[t][old] = {} /\ own'[t][new] = own[t][old] \cup Joined(t, new)
          /\ \A n \in Names \ {old, new} : own'[t][n] = own[t][n]
      BY <1>1, <2>4
    <2> QED
      BY <2>3, <2>5 DEF Where
  <1>7. Filed'
    <2>1. ASSUME NEW s \in Stores, NEW i \in Ids, Where(s, i)' # {} PROVE Where(s, i) # {}
      <3>1. CASE s # t
        BY <1>4, <2>1, <3>1
      <3>2. CASE s = t /\ own' # own
        <4>1. own' = [own EXCEPT ![t][new] = own[t][old] \cup Joined(t, new), ![t][old] = {}]
          BY <1>2, <3>2
        <4>2. PICK n \in Names : i \in own'[t][n]
          BY <2>1, <3>2 DEF Where
        <4>3. i \in own[t][n] \/ i \in own[t][old] \/ i \in own[t][new]
          BY <1>1, <4>1, <4>2 DEF Joined
        <4> QED
          BY <3>2, <4>3 DEF Where
      <3>3. CASE own' = own
        BY <2>1, <3>3 DEF Where
      <3> QED
        BY <3>1, <3>2, <3>3
    <2> QED
      BY <1>1, <2>1 DEF FollowInv, Filed
  <1>8. /\ \A x \in Requests \ {r} : Same(x)
        /\ \/ t = "files" /\ Holds(r)' = h /\ At(r, {"lists"})' /\ req'[r].from = from /\ req'[r].to = to
           \/ t = "lists" /\ Holds(r)' = Nobody
    <2>1. \/ t = "files" /\ Goto(r, "lists")
          \/ t = "lists" /\ Answer(r)
      BY <1>1 DEF MoveStore, Leave, After
    <2>2. CASE t = "files" /\ Goto(r, "lists")
      BY <2>2, Went, SameAsIs DEF Pcs, At, Holds
    <2>3. CASE t = "lists" /\ Answer(r)
      BY <2>3, Answered, SameAsIs, IdleType, Markers DEF Holds
    <2> QED
      BY <2>1, <2>2, <2>3
  <1>9. ASSUME NEW s \in Stores, NEW j \in Ids, j \in born \ excused', <<s, j>> \in filed, j # h
        PROVE  FollowAt(s, j)'
    <2>1. /\ \A x \in Requests : Holds(x)' = j => Holds(x) = j /\ Moved(x, s)' = Moved(x, s)
          /\ \A x \in Requests : Holds(x) = j => Holds(x)' = j
      BY <1>8, <1>9, SameMoved, Markers
    <2>2. CASE ~InHand(j) /\ said[j].gone
      <3>1. ~\E x \in Requests : Holds(x)' = j
        BY <2>1, <2>2 DEF InHand
      <3> QED
        BY <1>1, <2>2, <3>1 DEF FollowAt
    <2>3. CASE InHand(j) \/ ~said[j].gone
      <3>1. s = t /\ t = "lists" => old \notin Where(t, j)
        BY <1>1, <1>9, <2>3, ListsAlone DEF At
      <3>2. Where(s, j)' = Where(s, j)
        BY <1>1, <1>4, <1>5, <1>9, <3>1
      <3> QED
        BY <1>1, <1>9, <2>1, <3>2, FollowKept
    <2> QED
      BY <2>2, <2>3
  <1>10. ASSUME NEW s \in Stores, h \notin excused', <<s, h>> \in filed
         PROVE  FollowAt(s, h)'
    <2>0. Mine(r)
      BY <1>1, <1>3, <1>10 DEF Mine
    <2>1. \A x \in Requests : Holds(x) = h => x = r
      BY <2>0 DEF EditInv, Sole
    <2>2. FollowAt(s, h)
      BY <1>1, <1>3, <1>10 DEF FollowInv, Follow
    <2>3. CASE t = "files"
      <3>1. \A x \in Requests : Holds(x)' = h => x = r
        BY <1>8, <2>1, SameHolds
      <3>2. Where(s, h)' = {IF s = "files" THEN Slot(s, to) ELSE Slot(s, from)}
        <4>1. CASE s = "files"
          BY <1>6, <1>10, <2>3, <4>1
        <4>2. CASE s # "files"
          BY <1>3, <1>4, <2>2, <2>3, <4>2 DEF FollowAt, Moved
        <4> QED
          BY <4>1, <4>2
      <3>3. Moved(r, s)' = IF s = "files" THEN Slot(s, to) ELSE Slot(s, from)
        BY <1>8, <2>3 DEF Moved, Slot
      <3>4. InHand(h)'
        BY <1>3, <1>8, <2>3 DEF InHand
      <3> QED
        BY <3>1, <3>2, <3>3, <3>4 DEF FollowAt
    <2>4. CASE t = "lists"
      <3>1. ~\E x \in Requests : Holds(x)' = h
        BY <1>3, <1>8, <2>1, <2>4, SameHolds
      <3>2. PICK p \in Paths : p = req[r].path
        BY HoldsType DEF ReqType
      <3>3. With(p, h)
        BY <1>1, <2>0, <2>4, <3>2 DEF EditInv, Stages, StageHeld, Stage, At
      <3>4. file[p].name = to
        BY <1>1, <2>0, <2>4, <3>2 DEF NameInv, RecNames, RecName, Renames, At
      <3>5. Where(s, h)' = {Slot(s, to)}
        <4>1. CASE s = "lists"
          BY <1>6, <1>10, <2>4, <4>1
        <4>2. CASE s = "files"
          <5>1. Where(s, h)' = Where(s, h)
            BY <1>3, <1>4, <2>4, <4>2
          <5> QED
            BY <1>1, <2>2, <2>4, <4>2, <5>1 DEF FollowAt, Moved, At
        <4> QED
          BY <4>1, <4>2 DEF Stores
      <3>6. With(p, h)' /\ file'[p].name = to
        BY <1>1, <3>3, <3>4 DEF With
      <3> QED
        BY <3>1, <3>5, <3>6 DEF FollowAt
    <2> QED
      BY <1>1, <2>3, <2>4
  <1> QED
    BY <1>1, <1>7, <1>9, <1>10 DEF FollowInv, Follow

\* What is filed for an account that is at hand goes where the rest of it is: a
\* rename of its name excuses it.
LEMMA FollowFile ==
  ASSUME TypedOK, FoldApart, EditInv, EditInv', FollowInv, NEW t \in Stores, NEW p \in Paths, FileUnder(t, p)
  PROVE  FollowInv'
  <1> PICK a \in Account : a = file[p]
    BY DEF FileUnder
  <1> PICK i \in Ids : i = a.id
    BY Markers
  <1> PICK slot \in Names : slot = Slot(t, a.name)
    BY Markers
  <1>1. /\ own' = [own EXCEPT ![t][slot] = {i} \cup Joined(t, slot)]
        /\ filed' = filed \cup {<<t, i>>}
        /\ excused' = excused \cup (own[t][slot] \ (own'[t][slot] \cup {i}))
              \cup (IF \E x \in Requests : /\ req[x].from # req[x].to
                                         /\ Fold[a.name] \in Touched(x)
                    THEN {i} ELSE {})
        /\ UNCHANGED <<file, req, born, said>>
    BY DEF FileUnder
  <1>2. /\ own \in [Stores -> [Names -> SUBSET Ids]] /\ excused \subseteq excused'
        /\ With(p, i) /\ i \in born /\ Nobody \notin Ids
    BY <1>1, Types, Markers DEF StoresOK, With, EditInv, Known
  <1>3. /\ own'[t][slot] = {i} \cup Joined(t, slot)
        /\ \A n \in Names \ {slot} : own'[t][n] = own[t][n]
        /\ \A s \in Stores \ {t} : own'[s] = own[s]
    BY <1>1, <1>2
  <1>4. \A j \in Ids : Where(t, j)' # {} => Where(t, j) # {} \/ j = i
    <2> SUFFICES ASSUME NEW j \in Ids, NEW n \in Names, j \in own'[t][n], j # i
                 PROVE  j \in own[t][n]
      BY DEF Where
    <2> QED
      BY <1>3 DEF Joined
  <1>5. Filed'
    <2> SUFFICES ASSUME NEW s \in Stores, NEW j \in Ids
                 PROVE  /\ Where(s, j)' # {} => <<s, j>> \in filed'
                        /\ <<s, j>> \in filed' => j \in born'
      BY DEF Filed
    <2>1. s # t => Where(s, j)' = Where(s, j)
      BY <1>3 DEF Where
    <2> QED
      BY <1>1, <1>2, <1>4, <2>1 DEF FollowInv, Filed
  <1>6. ASSUME NEW s \in Stores, NEW j \in Ids, j \in born \ excused', <<s, j>> \in filed', s # t \/ j # i
        PROVE  FollowAt(s, j)'
    <2>1. <<s, j>> \in filed
      BY <1>1, <1>6
    <2>2. Where(s, j)' = Where(s, j)
      <3>1. CASE s # t
        BY <1>3, <3>1 DEF Where
      <3>2. CASE s = t /\ j # i
        <4>1. j \in own'[t][slot] <=> j \in own[t][slot]
          BY <1>1, <1>3, <1>6, <3>2 DEF Joined
        <4>2. \A n \in Names : j \in own'[t][n] <=> j \in own[t][n]
          BY <1>3, <4>1
        <4> QED
          BY <3>2, <4>2 DEF Where
      <3> QED
        BY <1>6, <3>1, <3>2
    <2>3. \A x \in Requests : Holds(x)' = Holds(x) /\ Moved(x, s)' = Moved(x, s)
      BY <1>1, SameMoved DEF Same
    <2> QED
      BY <1>1, <1>2, <1>6, <2>1, <2>2, <2>3, FollowKept
  <1>7. ASSUME i \notin excused'
        PROVE  FollowAt(t, i)'
    <2>0. i \notin excused
      BY <1>2, <1>7
    <2>1. ASSUME NEW x \in Requests, Holds(x) = i PROVE Moved(x, t) = slot
      <3>1. Fold[a.name] \in Touched(x)
        BY <1>2, <2>0, <2>1 DEF EditInv, NamesHeld, NameHeld, Mine, With
      <3>2. req[x].from = req[x].to
        BY <1>1, <1>7, <3>1
      <3>3. Fold[a.name] = Fold[req[x].from]
        BY <3>1, <3>2 DEF Touched
      <3>4. a.name \in Names /\ req[x].from \in Names
        BY HoldsType, Markers DEF ReqType
      <3>6. a.name \in InUse /\ req[x].from \in InUse
        BY <1>2, <3>1, InUseFile, InUseReq DEF With, Touched
      <3>5. a.name = req[x].from
        BY <3>3, <3>4, <3>6 DEF FoldApart, Apart
      <3> QED
        BY <3>2, <3>5 DEF Moved
    <2>2. Where(t, i) \subseteq {slot}
      <3>1. CASE <<t, i>> \notin filed
        BY <3>1 DEF FollowInv, Filed
      <3>2. CASE <<t, i>> \in filed
        <4>1. FollowAt(t, i)
          BY <1>2, <2>0, <3>2 DEF FollowInv, Follow
        <4>2. CASE InHand(i)
          BY <2>1, <4>1, <4>2 DEF FollowAt, InHand
        <4>3. CASE ~InHand(i)
          BY <1>2, <2>0, <4>1, <4>3, OneFile DEF FollowAt
        <4> QED
          BY <4>2, <4>3
      <3> QED
        BY <3>1, <3>2
    <2>3. Where(t, i)' = {slot}
      BY <1>3, <2>2 DEF Where
    <2>4. \A x \in Requests : Holds(x)' = Holds(x) /\ Moved(x, t)' = Moved(x, t)
      BY <1>1, SameMoved DEF Same
    <2>5. With(p, i)' /\ slot = Slot(t, file'[p].name)
      BY <1>1, <1>2 DEF With
    <2> QED
      BY <2>1, <2>3, <2>4, <2>5 DEF FollowAt
  <1> QED
    BY <1>1, <1>5, <1>6, <1>7 DEF FollowInv, Follow

\* A step that leaves the files alone, and the requests but for those it ends.
LEMMA FollowStay ==
  ASSUME TypedOK, EditInv, EditInv', FollowInv, UNCHANGED <<file, own, born, filed>>, excused \subseteq excused',
         \A x \in Requests : Same(x) \/ (Holds(x) \in excused' \cup {Nobody} /\ Holds(x)' = Nobody)
  PROVE  FollowInv'
  <1>1. Filed'
    BY DEF FollowInv, Filed, Where
  <1>2. ASSUME NEW s \in Stores, NEW j \in Ids, j \in born' \ excused', <<s, j>> \in filed'
        PROVE  FollowAt(s, j)'
    <2>1. \A x \in Requests : Holds(x)' = j => Holds(x) = j /\ Moved(x, s)' = Moved(x, s)
      BY SameMoved, Markers
    <2>2. \A x \in Requests : Holds(x) = j => Holds(x)' = j
      BY <1>2, SameMoved, Markers
    <2>3. Where(s, j)' = Where(s, j)
      BY DEF Where
    <2> QED
      BY <1>2, <2>1, <2>2, <2>3, FollowKept
  <1> QED
    BY <1>1, <1>2 DEF FollowInv, Follow

LEMMA FollowInit == Init => FollowInv
  <1> SUFFICES ASSUME Init PROVE FollowInv
    OBVIOUS
  <1>1. \A s \in Stores, i \in Ids : Where(s, i) = {} /\ <<s, i>> \notin filed
    BY DEF Init, Where
  <1> QED
    BY <1>1 DEF FollowInv, Filed, Follow

\* The request that writes an account goes on with it, or is done with it.
LEMMA FollowWrite ==
  ASSUME TypedOK, ShapeOK, EditInv, EditInv', NameInv, FollowInv, NEW r \in Requests, Write(r)
  PROVE  FollowInv'
  <1>1. PICK p \in Paths, rec \in Account, h \in Ids :
           /\ p = req[r].path /\ rec = req[r].rec /\ h = rec.id /\ Holds(r) = h /\ h # Nobody
           /\ At(r, {"write"})
           /\ file'[p] = rec /\ \A q \in Paths \ {p} : file'[q] = file[q]
           /\ UNCHANGED <<born, excused, own, filed>>
           /\ \A x \in Requests \ {r} : req'[x] = req[x]
           /\ \/ req[r].next = "idle" /\ req'[r] = Idle
              \/ /\ req[r].next \in {"unlink", "files", "drop"}
                 /\ Is(r, req[r].next, rec, p, req[r].from, req[r].to, req[r].next, req[r].link)
    BY Written
  <1>2. /\ \A x \in Requests \ {r} : Same(x)
        /\ \A j \in Ids \ excused', q \in Paths :
              j # Holds(r) /\ file'[q] \in Account /\ file'[q].id = j => file'[q] = file[q]
    BY <1>1, SameAsIs
  <1>3. CASE req'[r] = Idle /\ req[r].next = "idle"
    <2>1. Holds(r)' = Nobody
      BY <1>3, IdleType, Markers DEF Holds
    <2>4. RecName(r)
      BY DEF NameInv, RecNames
    <2>5. req[r].rec.name = req[r].to /\ (req[r].from # req[r].to <=> req[r].next \in {"unlink", "files"})
      BY <1>1, <2>4 DEF RecName, At
    <2>2. req[r].from = req[r].to /\ rec.name = req[r].to
      BY <1>1, <1>3, <2>5
    <2>3. With(p, h)' /\ \A s \in Stores : Moved(r, s) = Slot(s, file'[p].name)
      BY <1>1, <2>2 DEF With, Moved
    <2> QED
      BY <1>1, <1>2, <2>1, <2>3, FollowLet
  <1>4. CASE Is(r, req[r].next, rec, p, req[r].from, req[r].to, req[r].next, req[r].link)
             /\ req[r].next \in {"unlink", "files", "drop"}
    <2>1. Holds(r)' = Holds(r)
      BY <1>1, <1>4 DEF Holds, Is
    <2>2. \A s \in Stores : Moved(r, s)' = Moved(r, s)
      BY <1>1, <1>4 DEF Moved, Is, At, Slot
    <2> QED
      BY <1>1, <1>2, <2>1, <2>2, FollowOn
  <1> QED
    BY <1>1, <1>3, <1>4

\* The account of a request that ends without a word goes back to where it was.
LEMMA FollowDone ==
  ASSUME TypedOK, ShapeOK, EditInv, EditInv', NameInv, FollowInv, NEW r \in Requests,
         Drop(r) \/ RemoveFails(r)
  PROVE  FollowInv'
  <1>1. Answer(r) /\ At(r, {"drop", "remove"}) /\ UNCHANGED <<file, own, born, filed, said, excused>>
    BY DEF Drop, RemoveFails, At, stores, history
  <1>2. /\ \A x \in Requests \ {r} : Same(x)
        /\ Holds(r)' = Nobody
    BY <1>1, Answered, SameAsIs, IdleType, Markers DEF Holds
  <1>3. PICK p \in Paths, h \in Ids : p = req[r].path /\ h = Holds(r) /\ h # Nobody
    BY <1>1, HoldsType, Markers DEF ReqType, ShapeOK, Shape, At, Bare
  <1>4. h \in excused \/ (With(p, h) /\ file[p].name = req[r].to /\ req[r].from = req[r].to)
    BY <1>1, <1>3 DEF Mine, EditInv, Stages, StageHeld, Stage, NameInv, RecNames, RecName, At
  <1>5. h \in excused' \/ (With(p, h)' /\ \A s \in Stores : Moved(r, s) = Slot(s, file'[p].name))
    BY <1>1, <1>4 DEF With, Moved
  <1> QED
    BY <1>1, <1>2, <1>3, <1>5, FollowLet

LEMMA FollowRemove ==
  ASSUME TypedOK, ShapeOK, EditInv, EditInv', FollowInv, NEW r \in Requests, Remove(r), Goes(r)
  PROVE  FollowInv'
  <1>1. /\ Answer(r) /\ At(r, {"remove"}) /\ UNCHANGED <<own, born, filed>>
        /\ said' = [said EXCEPT ![Holds(r)].gone = TRUE] /\ Loses /\ excused \subseteq excused'
    BY DEF Remove, At, Goes
  <1>2. /\ \A x \in Requests \ {r} : Same(x)
        /\ Holds(r)' = Nobody
    BY <1>1, Answered, SameAsIs, IdleType, Markers DEF Holds
  <1>3. PICK p \in Paths, h \in Ids : p = req[r].path /\ h = Holds(r) /\ h # Nobody
    BY <1>1, HoldsType, Markers DEF ReqType, ShapeOK, Shape, At, Bare
  <1>4. said'[h].gone
    BY <1>1, <1>3, Types DEF PastOK
  <1> QED
    BY <1>1, <1>2, <1>3, <1>4, FollowLet DEF Loses

\* A file is emptied, or the old one of a rename removed.
LEMMA FollowEmpty ==
  ASSUME TypedOK, ShapeOK, EditInv, EditInv', FollowInv, NEW r \in Requests, Truncate(r) \/ Unlink(r), Goes(r)
  PROVE  FollowInv'
  <1>1. /\ At(r, {"truncate", "unlink"}) /\ UNCHANGED <<own, filed, born>>
        /\ Goto(r, "write") \/ Goto(r, "files")
        /\ Loses /\ excused \subseteq excused'
    BY DEF Truncate, Unlink, At, Goes
  <1>2. /\ \A x \in Requests \ {r} : Same(x)
        /\ Holds(r)' = Holds(r) /\ req'[r].from = req[r].from /\ req'[r].pc \in {"write", "files"}
    BY <1>1, Went, SameAsIs DEF Holds, Pcs
  <1>3. Holds(r) # Nobody
    BY <1>1, HoldsType DEF ShapeOK, Shape, At, Bare
  <1>4. \A s \in Stores : Moved(r, s)' = Moved(r, s)
    BY <1>1, <1>2 DEF Moved, At, Slot
  <1> QED
    BY <1>1, <1>2, <1>3, <1>4, FollowOn DEF Loses

LEMMA FollowStep ==
  ASSUME TypedOK, ShapeOK, EditInv, EditInv', NameInv, FoldApart, FollowInv, ~alike', [Next]_vars
  PROVE  FollowInv'
  <1>0. \A r \in Requests : At(r, Bare) => req[r].rec = Absent /\ Holds(r) = Nobody
    BY HoldsType, Markers DEF ShapeOK, Shape
  <1>1. ASSUME NEW r \in Requests, NEW ns, NEW i, Starts(r, ns, i), Holds(r)' = Nobody
        PROVE  FollowInv'
    BY <1>0, <1>1, FollowLost DEF Starts, Meets, stores, At, Bare, Loses
  <1>2. ASSUME NEW r \in Requests, NEW n \in Names, CreateCheck(r, n) PROVE FollowInv'
    BY <1>1, <1>2, Created, Markers DEF Is, Holds
  <1>3. ASSUME NEW r \in Requests, NEW n \in Names, Forgot(r, n) PROVE FollowInv'
    BY <1>1, <1>3, Forgotten, Markers DEF Is, Holds
  <1>4. ASSUME NEW r \in Requests, NEW l \in Links, SubmitPeek(r, l) PROVE FollowInv'
    BY <1>1, <1>4, Submitted, Markers DEF Is, Holds
  <1>5. ASSUME NEW r \in Requests, NEW n \in Names, NEW ns, NEW i, NEW rec \in Account, NEW path, NEW pc, NEW to,
               NEW next, Apart(n), Exists(n), i = file[PathOf(n)].id, Starts(r, ns, i), rec.id = i,
               Is(r, pc, rec, path, n, to, next, NoLink), pc # "lists"
        PROVE  FollowInv'
    <2>1. i \in Ids /\ Holds(r) = Nobody
      BY <1>0, <1>5, FoundAt, Markers DEF Starts, At, Bare
    <2>2. Holds(r)' = i /\ req'[r].from = n /\ ~At(r, {"lists"})'
      BY <1>5 DEF Is, Holds, At
    <2>3. /\ \A x \in Requests \ {r} : Same(x)
          /\ excused \subseteq excused' /\ UNCHANGED <<file, said, own, filed, born>>
      BY <1>5 DEF Starts, Meets, stores
    <2> QED
      BY <1>5, <2>1, <2>2, <2>3, FollowTake
  <1>6. ASSUME NEW r \in Requests, NEW n \in Names, DeleteLoad(r, n) PROVE FollowInv'
    <2> PICK a \in Account : a = file[PathOf(n)]
      BY <1>6, FoundAt DEF DeleteLoad
    <2> QED
      BY <1>5, <1>6, Told, Deleted
  <1>7. ASSUME NEW r \in Requests, NEW n \in Names, NEW m \in Names, RenameLoad(r, n, m) PROVE FollowInv'
    <2> DEFINE next == IF PathOf(n) \in {Boot, Key[m]} THEN "files" ELSE "unlink"
    <2>1. PICK rec \in Account, p \in Paths :
            /\ Starts(r, {n, m}, file[PathOf(n)].id) /\ Exists(n)
            /\ Is(r, "truncate", rec, p, n, m, next, NoLink)
            /\ rec.id = file[PathOf(n)].id
      BY <1>7, Renamed
    <2> HIDE DEF next
    <2>2. Apart(n)
      BY <1>7, Told
    <2> QED
      BY <1>5, <2>1, <2>2
  <1>8. ASSUME NEW r \in Requests, NEW n \in Names, NEW w \in Passwords, NEW o \in BOOLEAN,
               EditLoad(r, n, w, o) PROVE FollowInv'
    <2>1. PICK rec \in Account :
           /\ Starts(r, {n}, file[PathOf(n)].id) /\ Exists(n)
           /\ Is(r, "truncate", rec, PathOf(n), n, n, "idle", NoLink)
           /\ rec.id = file[PathOf(n)].id
      BY <1>8, Edited
    <2>2. Apart(n)
      BY <1>8, Told
    <2> QED
      BY <1>5, <2>1, <2>2
  <1>9. ASSUME NEW r \in Requests, NEW w \in Passwords, ResetLoad(r, w) PROVE FollowInv'
    <2> PICK n \in Names : n = req[r].to
      BY HoldsType DEF ReqType
    <2>1. PICK rec \in Account, i \in Ids :
           /\ i = file[PathOf(n)].id /\ Meets(r, {n}, i) /\ Exists(n) /\ req[r].pc = "load"
           /\ Is(r, "truncate", rec, PathOf(n), req[r].from, n, "drop", req[r].link)
           /\ rec.id = i /\ UNCHANGED <<stores, born, filed, said>>
      BY <1>9, Reloaded, Markers
    <2>2. Holds(r) = Nobody /\ req[r].from = n
      BY <1>0, <2>1 DEF At, Bare, ShapeOK, Shape
    <2>5. Apart(n)
      BY <2>1, InUseReq DEF FoldApart
    <2>3. Holds(r)' = i /\ req'[r].from = n /\ ~At(r, {"lists"})'
      BY <2>1, <2>2 DEF Is, Holds, At
    <2>4. /\ \A x \in Requests \ {r} : Same(x)
          /\ excused \subseteq excused' /\ UNCHANGED <<file, said, own, filed, born>>
      BY <2>1 DEF Meets, stores
    <2> QED
      BY <2>1, <2>2, <2>3, <2>4, <2>5, FollowTake
  <1>10. ASSUME NEW r \in Requests, NEW i \in Ids, NEW w \in Passwords, CreatePlace(r, i, w) PROVE FollowInv'
    <2>1. PICK rec \in Account, p \in Paths :
           /\ rec.id = i /\ req[r].pc = "place" /\ i \notin born
           /\ Is(r, "truncate", rec, p, req[r].from, req[r].to, req[r].next, req[r].link)
           /\ \A x \in Requests \ {r} : req'[x] = req[x]
           /\ born' = born \cup {i} /\ excused \subseteq excused'
           /\ UNCHANGED <<stores, filed>>
      BY <1>10, Placed
    <2>2. Holds(r) = Nobody /\ Holds(r)' = i
      BY <1>0, <2>1 DEF At, Bare, Holds, Is
    <2> QED
      BY <2>1, <2>2, SameAsIs, FollowLost DEF stores, Loses
  <1>11. ASSUME NEW r \in Requests,
                \/ CreateRefused(r) \/ SaveFails(r) \/ UnlinkFails(r)
                \/ MintFails(r) \/ Consume(r) \/ ConsumeFails(r) \/ ResetFails(r)
                \/ \E s \in Stores : MoveStoreFails(r, s)
                \/ \E l \in Links : Mint(r, l)
         PROVE  FollowInv'
    <2>1. Goes(r)
      BY <1>11, GoesAll
    <2>2. Holds(r) \in excused' \cup {Nobody} /\ UNCHANGED <<own, filed>>
      BY <1>0, <1>11 DEF CreateRefused, SaveFails, UnlinkFails, MintFails, Consume, ConsumeFails, ResetFails,
         MoveStoreFails, Mint, stores, history, At, Bare
    <2>3. Holds(r)' \in {Nobody, Holds(r)}
      BY <2>1, IdleType, Markers DEF Goes, Onward, Is, Holds
    <2> QED
      BY <2>1, <2>2, <2>3, SameAsIs, FollowLost DEF Goes
  <1>20. ASSUME NEW r \in Requests, RequestStep(r) PROVE FollowInv'
    <2>1. CASE \E n \in Names : CreateCheck(r, n) \/ DeleteLoad(r, n) \/ Forgot(r, n)
      BY <1>2, <1>3, <1>6, <2>1
    <2>2. CASE \E n, m \in Names : RenameLoad(r, n, m)
      BY <1>7, <2>2
    <2>3. CASE \E n \in Names, w \in Passwords, o \in BOOLEAN : EditLoad(r, n, w, o)
      BY <1>8, <2>3
    <2>4. CASE \E i \in Ids, w \in Passwords : CreatePlace(r, i, w)
      BY <1>10, <2>4
    <2>5. CASE Truncate(r) \/ Unlink(r) \/ Remove(r)
      BY <2>5, GoesAll, FollowEmpty, FollowRemove
    <2>6. CASE Write(r)
      BY <2>6, FollowWrite
    <2>7. CASE RemoveFails(r) \/ Drop(r)
      BY <2>7, FollowDone
    <2>8. CASE \E l \in Links : SubmitPeek(r, l)
      BY <1>4, <2>8
    <2>9. CASE \E w \in Passwords : ResetLoad(r, w)
      BY <1>9, <2>9
    <2>10. CASE \E s \in Stores : MoveStore(r, s)
      BY <2>10, FollowMove
    <2>11. CASE \/ CreateRefused(r) \/ SaveFails(r) \/ UnlinkFails(r)
                \/ MintFails(r) \/ Consume(r) \/ ConsumeFails(r) \/ ResetFails(r)
                \/ \E s \in Stores : MoveStoreFails(r, s)
                \/ \E l \in Links : Mint(r, l)
      BY <1>11, <2>11
    <2>12. \/ \E n \in Names : CreateCheck(r, n) \/ DeleteLoad(r, n) \/ Forgot(r, n)
           \/ \E n, m \in Names : RenameLoad(r, n, m)
           \/ \E n \in Names, w \in Passwords, o \in BOOLEAN : EditLoad(r, n, w, o)
           \/ \E i \in Ids, w \in Passwords : CreatePlace(r, i, w)
           \/ Truncate(r) \/ Unlink(r) \/ Remove(r) \/ Write(r) \/ RemoveFails(r) \/ Drop(r)
           \/ \E l \in Links : SubmitPeek(r, l)
           \/ \E w \in Passwords : ResetLoad(r, w)
           \/ \E s \in Stores : MoveStore(r, s)
           \/ CreateRefused(r) \/ SaveFails(r) \/ UnlinkFails(r)
           \/ MintFails(r) \/ Consume(r) \/ ConsumeFails(r) \/ ResetFails(r)
           \/ \E s \in Stores : MoveStoreFails(r, s)
           \/ \E l \in Links : Mint(r, l)
      BY <1>20 DEF RequestStep
    <2> QED
      BY <2>1, <2>2, <2>3, <2>4, <2>5, <2>6, <2>7, <2>8, <2>9, <2>10, <2>11, <2>12
  <1>21. CASE Crash
    <2>1. /\ UNCHANGED <<file, own, born, filed>> /\ excused \subseteq excused'
          /\ \A x \in Requests : Holds(x) \in excused' \cup {Nobody} /\ req'[x] = Idle
      BY <1>21, Types, Markers DEF Crash, PastOK
    <2>2. \A x \in Requests : Holds(x)' = Nobody
      BY <2>1, IdleType, Markers DEF Holds
    <2> QED
      BY <2>1, <2>2, FollowStay
  <1>22. ASSUME NEW s \in Stores, NEW p \in Paths, FileUnder(s, p) PROVE FollowInv'
    BY <1>22, FollowFile
  <1>23. CASE (\E l \in Links : Expire(l)) \/ UNCHANGED vars
    BY <1>23, FollowStay DEF Expire, history, vars, stores, Same
  <1> QED
    BY <1>20, <1>21, <1>22, <1>23 DEF Next, Rest

LEMMA AlikeStays ==
  ASSUME [Next]_vars, ~alike' PROVE ~alike
  BY Marking DEF Begin

\* What holds of the names while no name was in use in two spellings.
SpelledInv == ~alike => FoldApart /\ NameInv /\ FollowInv

LEMMA SpelledStep ==
  TypedOK /\ ShapeOK /\ EditInv /\ EditInv' /\ SpelledInv /\ [Next]_vars => SpelledInv'
  <1> SUFFICES ASSUME TypedOK, ShapeOK, EditInv, EditInv', SpelledInv, [Next]_vars, ~alike'
               PROVE  FoldApart' /\ NameInv' /\ FollowInv'
    BY DEF SpelledInv
  <1>1. FoldApart /\ NameInv /\ FollowInv
    BY AlikeStays DEF SpelledInv
  <1> QED
    BY <1>1, ApartStep, NameStep, FollowStep

\* A rename takes along the MFA and passkey files and the entries in the lists of
\* packages, grants and sites, and so does whatever else happens to the account
\* at the same time that does not excuse it, for any restriction of file names -
\* as long as no name was in use in two spellings.  From then on the property is
\* not the code's to keep: the files stay behind when the rename gives another
\* spelling of the old name, and a list entry answers to every spelling.
THEOREM RefsFollowHolds == Spec => []RefsFollow
  <1>1. Init => SpelledInv
    BY NameInit, ApartInit, FollowInit DEF SpelledInv
  <1>2. Spec => [](TypedOK /\ ShapeOK /\ EditInv)
    BY Typed, EditInit, EditStep, PTL DEF Spec
  <1>3. Spec => [](TypedOK /\ SpelledInv)
    BY <1>1, <1>2, SpelledStep, PTL DEF Spec
  <1>4. TypedOK /\ SpelledInv => RefsFollow
    BY FollowResult DEF SpelledInv
  <1> QED
    BY <1>3, <1>4, PTL
=============================================================================
