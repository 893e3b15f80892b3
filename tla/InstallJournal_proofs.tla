----------------------- MODULE InstallJournal_proofs ------------------------
(* Proofs about InstallJournal for any files, contents and number of workers.  *)
EXTENDS InstallJournal, TLAPS

Clean(w) == own[w] # NoRun /\ faults[w] = {}

\* Lines about files name a file, and whoever is in the middle of a write or of a
\* rollback has something to write or a line to come to.
WellFormed ==
    /\ \A i \in DOMAIN journal :
          journal[i].act \in {"created", "changed"} => journal[i].path \in Paths
    /\ \A w \in Workers :
          /\ pc[w] \in {"write", "record"} => change[w] \in Changes
          /\ pc[w] = "undo" => index[w] <= Len(journal)

\* A run without faults is alone, and a rollback outside a run is a fault.
Alone ==
    \A w \in Workers :
        /\ own[w] # NoRun => Active(w)
        /\ pc[w] \in {"error", "undo", "ended"} => own[w] # NoRun \/ faults[w] # {}
        /\ Active(w) /\ faults[w] = {} => \A x \in Workers \ {w} : ~Active(x)

\* While a rollback goes back through the journal, a file whose first line is
\* still to come can be reverted by it, and every other file is restored.
Undone(w, p) ==
    \/ \E i \in DOMAIN journal :
          /\ FirstLine(i, own[w], p)
          /\ i <= index[w]
          /\ Reverts(journal[i].act, journal[i].stamp, p, base[w][p])
    \/ /\ \A i \in DOMAIN journal : FileLine(i, own[w], p) => i > index[w]
       /\ disk[p] = base[w][p]

Tracked(w) ==
    /\ pc[w] \in {"run", "write", "record", "error", "undo"} => current = own[w]
    /\ pc[w] \in {"run", "write", "record", "error"} => \A p \in Paths : Kept(w, p)
    /\ pc[w] = "write" =>
          /\ change[w].act = "changed"
          /\ backup[<<change[w].stamp, change[w].path>>] = disk[change[w].path]
    /\ pc[w] = "record" /\ (\A i \in DOMAIN journal :
                               ~FileLine(i, own[w], change[w].path)) =>
          Reverts(change[w].act, change[w].stamp, change[w].path,
                  base[w][change[w].path])
    /\ pc[w] = "undo" => scope[w] = own[w] /\ \A p \in Paths : Undone(w, p)
    /\ pc[w] = "ended" /\ report[w] = "rolledBack" => disk = base[w]

IInv == /\ TypeOK
        /\ WellFormed
        /\ Alone
        /\ \A w \in Workers : Clean(w) => Tracked(w)

-----------------------------------------------------------------------------
(* Types and well-formedness *)

LEMMA StampsNonempty == 0 \in Stamps
  BY ClockAssumption DEF Stamps

LEMMA TypeInit == Init => TypeOK /\ WellFormed
  <1> SUFFICES ASSUME Init PROVE TypeOK /\ WellFormed
    OBVIOUS
  <1> USE DEF Init
  <1>1. disk \in [Paths -> Files] /\ backup \in [Stamps \X Paths -> Files]
    BY DEF Files
  <1>2. journal \in Seq(Entries) /\ DOMAIN journal = {}
    OBVIOUS
  <1>3. clock \in Stamps /\ current \in RunIds \cup {NoRun}
    BY StampsNonempty
  <1>4. pc \in [Workers -> Pcs] /\ change \in [Workers -> Changes \cup {NoChange}]
    BY DEF Pcs
  <1>5. base \in [Workers -> [Paths -> Files]]
    BY DEF Nothing, Files
  <1>6. TypeOK
    BY <1>1, <1>2, <1>3, <1>4, <1>5 DEF TypeOK
  <1>7. WellFormed
    BY <1>2 DEF WellFormed
  <1> QED
    BY <1>6, <1>7

LEMMA GotoType ==
  ASSUME TypeOK, NEW w \in Workers, NEW label \in Pcs, Goto(w, label)
  PROVE  pc' \in [Workers -> Pcs]
  BY DEF TypeOK, Goto

LEMMA FaultType ==
  ASSUME TypeOK, NEW w \in Workers, NEW f \in {"sameSecond", "unrecorded"},
         faults' = [faults EXCEPT ![w] = @ \cup {f}]
  PROVE  faults' \in [Workers -> SUBSET {"overlap", "sameRun", "noRun",
                                         "sameSecond", "unrecorded"}]
  BY DEF TypeOK

LEMMA EnterType ==
  ASSUME TypeOK, NEW w \in Workers, NEW run \in RunIds \cup {NoRun},
         NEW mine \in SUBSET {"sameRun", "noRun"}, Enter(w, run, mine)
  PROVE  /\ own' \in [Workers -> RunIds \cup {NoRun}]
         /\ base' \in [Workers -> [Paths -> Files]]
         /\ faults' \in [Workers -> SUBSET {"overlap", "sameRun", "noRun",
                                            "sameSecond", "unrecorded"}]
  BY DEF TypeOK, Enter

LEMMA ReturnType ==
  ASSUME TypeOK, NEW w \in Workers, Return(w)
  PROVE  /\ pc' \in [Workers -> Pcs]
         /\ change' \in [Workers -> Changes \cup {NoChange}]
         /\ scope' \in [Workers -> RunIds \cup {NoRun}]
         /\ index' \in [Workers -> Nat]
         /\ report' \in [Workers -> {"rolledBack", "partial"}]
         /\ own' \in [Workers -> RunIds \cup {NoRun}]
         /\ base' \in [Workers -> [Paths -> Files]]
         /\ faults' \in [Workers -> SUBSET {"overlap", "sameRun", "noRun",
                                            "sameSecond", "unrecorded"}]
  <1>1. Nothing \in [Paths -> Files]
    BY DEF Nothing, Files
  <1> QED
    BY <1>1 DEF TypeOK, Return, Pcs

LEMMA AppendType ==
  ASSUME TypeOK, WellFormed, NEW e \in Entries, journal' = Append(journal, e),
         e.act \in {"created", "changed"} => e.path \in Paths
  PROVE  /\ journal' \in Seq(Entries)
         /\ Len(journal') = Len(journal) + 1
         /\ \A i \in DOMAIN journal' :
               journal'[i].act \in {"created", "changed"} => journal'[i].path \in Paths
  <1>1. journal \in Seq(Entries)
    BY DEF TypeOK
  <1>2. journal' \in Seq(Entries) /\ Len(journal') = Len(journal) + 1
        /\ DOMAIN journal' = 1..Len(journal) + 1 /\ DOMAIN journal = 1..Len(journal)
        /\ \A i \in DOMAIN journal : journal'[i] = journal[i]
        /\ journal'[Len(journal) + 1] = e
    BY <1>1
  <1> QED
    BY <1>1, <1>2 DEF WellFormed

\* One step of worker w.
WorkerStep(w) ==
    \/ (\E label \in Labels : Begin(w, label)) \/ BeginFails(w) \/ Visit(w)
    \/ Succeed(w) \/ Fail(w) \/ Write(w) \/ IOError(w) \/ Rollback(w)

LEMMA RecordType ==
  ASSUME TypeOK, WellFormed, NEW w \in Workers, Record(w) \/ RecordPackage(w)
  PROVE  TypeOK' /\ WellFormed'
  <1> DEFINE e == IF Record(w)
                  THEN [run |-> current, act |-> change[w].act,
                        path |-> change[w].path, stamp |-> change[w].stamp]
                  ELSE [run |-> current, act |-> "package", path |-> Absent,
                        stamp |-> 0]
  <1>1. /\ e \in Entries /\ journal' = Append(journal, e)
        /\ e.act \in {"created", "changed"} => e.path \in Paths
    <2>1. CASE Record(w)
      <3>1. change[w] \in Changes
        BY <2>1 DEF WellFormed, Record
      <3> QED
        BY <2>1, <3>1 DEF TypeOK, Record, Changes, Entries, Acts
    <2>2. CASE ~Record(w)
      BY <2>2, StampsNonempty DEF TypeOK, RecordPackage, Entries, Acts
    <2> QED
      BY <2>1, <2>2
  <1> HIDE DEF e
  <1>2. /\ journal' \in Seq(Entries)
        /\ Len(journal') = Len(journal) + 1
        /\ \A i \in DOMAIN journal' :
              journal'[i].act \in {"created", "changed"} => journal'[i].path \in Paths
    BY <1>1, AppendType
  <1>3. TypeOK'
    BY <1>2 DEF TypeOK, Record, RecordPackage, Goto, Pcs, undoVars, ghostVars
  <1>4. ASSUME NEW x \in Workers
        PROVE  /\ pc'[x] \in {"write", "record"} => change'[x] \in Changes
               /\ pc'[x] = "undo" => index'[x] <= Len(journal')
    <2>1. /\ pc' = [pc EXCEPT ![w] = "run"] \/ pc' = pc
          /\ \A y \in Workers : y # w => change'[y] = change[y]
          /\ pc[w] = "run" => change' = change
          /\ pc'[w] = "run"
          /\ index' = index
      BY DEF TypeOK, Record, RecordPackage, Goto, undoVars
    <2>2. Len(journal) \in Nat
      BY DEF TypeOK
    <2>3. ASSUME pc'[x] = "undo" PROVE index'[x] <= Len(journal')
      <3>1. x # w /\ pc[x] = "undo" /\ index'[x] = index[x]
        BY <2>1, <2>3 DEF TypeOK
      <3>2. index[x] \in Nat /\ index[x] <= Len(journal)
        BY <3>1 DEF TypeOK, WellFormed
      <3> QED
        BY <1>2, <2>2, <3>1, <3>2
    <2> QED
      BY <2>1, <2>3 DEF TypeOK, WellFormed
  <1> QED
    BY <1>2, <1>3, <1>4 DEF WellFormed

LEMMA StepType ==
  ASSUME TypeOK, WellFormed, NEW w \in Workers, WorkerStep(w)
  PROVE  TypeOK' /\ WellFormed'
  <1> USE DEF hostVars, undoVars, ghostVars, Goto
  <1>1. CASE (\E label \in Labels : Begin(w, label)) \/ BeginFails(w) \/ Visit(w)
    <2>1. PICK run \in RunIds \cup {NoRun}, mine \in SUBSET {"sameRun", "noRun"} :
             Enter(w, run, mine)
      BY <1>1 DEF Begin, BeginFails, Visit, RunIds, TypeOK
    <2>2. /\ own' \in [Workers -> RunIds \cup {NoRun}]
          /\ base' \in [Workers -> [Paths -> Files]]
          /\ faults' \in [Workers -> SUBSET {"overlap", "sameRun", "noRun",
                                             "sameSecond", "unrecorded"}]
      BY <2>1, EnterType
    <2>3. current' \in RunIds \cup {NoRun}
      <3>1. current \in RunIds \cup {NoRun} /\ clock \in Stamps
        BY DEF TypeOK
      <3>2. CASE \E label \in Labels : Begin(w, label)
        BY <3>1, <3>2 DEF Begin, RunIds
      <3>3. CASE BeginFails(w) \/ Visit(w)
        BY <3>1, <3>3 DEF BeginFails, Visit
      <3> QED
        BY <1>1, <3>2, <3>3
    <2>4. /\ pc' = [pc EXCEPT ![w] = "run"] \/ pc' = [pc EXCEPT ![w] = "error"]
          /\ UNCHANGED <<disk, backup, journal, clock, change, undoVars>>
      BY <1>1 DEF Begin, BeginFails, Visit
    <2> QED
      BY <2>2, <2>3, <2>4 DEF TypeOK, WellFormed, Pcs
  <1>2. CASE Succeed(w) \/ Finish(w)
    <2>1. Return(w) /\ current' \in RunIds \cup {NoRun}
          /\ UNCHANGED <<disk, backup, journal, clock>>
      BY <1>2 DEF Succeed, Finish, TypeOK
    <2>2. TypeOK'
      BY <2>1, ReturnType DEF TypeOK
    <2>3. WellFormed'
      BY <2>1 DEF WellFormed, TypeOK, Return
    <2> QED
      BY <2>2, <2>3
  <1>3. CASE Fail(w)
    BY <1>3 DEF Fail, TypeOK, WellFormed, Pcs
  <1>4. CASE \E p \in Paths, c \in Contents : BackUp(w, p, c)
    <2>1. PICK p \in Paths, c \in Contents : BackUp(w, p, c)
      BY <1>4
    <2>2. change'[w] \in Changes /\ change' \in [Workers -> Changes \cup {NoChange}]
      BY <2>1 DEF BackUp, Changes, TypeOK
    <2>3. backup' \in [Stamps \X Paths -> Files]
      BY <2>1 DEF BackUp, TypeOK
    <2>4. faults' \in [Workers -> SUBSET {"overlap", "sameRun", "noRun",
                                         "sameSecond", "unrecorded"}]
      BY <2>1 DEF BackUp, TypeOK
    <2>5. /\ pc' = [pc EXCEPT ![w] = "write"]
          /\ \A x \in Workers : x # w => change'[x] = change[x]
          /\ UNCHANGED <<disk, journal, current, clock, undoVars, own, base>>
      BY <2>1 DEF BackUp, TypeOK
    <2>6. pc' \in [Workers -> Pcs]
      BY <2>5 DEF TypeOK, Pcs
    <2>8. TypeOK'
      BY <2>2, <2>3, <2>4, <2>5, <2>6 DEF TypeOK
    <2>9. \A i \in DOMAIN journal' :
             journal'[i].act \in {"created", "changed"} => journal'[i].path \in Paths
      BY <2>5 DEF WellFormed
    <2>7. \A x \in Workers : /\ pc'[x] \in {"write", "record"} => change'[x] \in Changes
                             /\ pc'[x] = "undo" => index'[x] <= Len(journal')
      BY <2>2, <2>5 DEF TypeOK, WellFormed
    <2> QED
      BY <2>7, <2>8, <2>9 DEF WellFormed
  <1>5. CASE \E p \in Paths, c \in Contents : Create(w, p, c)
    <2>1. PICK p \in Paths, c \in Contents : Create(w, p, c)
      BY <1>5
    <2>2. change'[w] \in Changes /\ change' \in [Workers -> Changes \cup {NoChange}]
      BY <2>1, StampsNonempty DEF Create, Changes, TypeOK
    <2>3. disk' \in [Paths -> Files]
      BY <2>1 DEF Create, TypeOK, Files
    <2>4. /\ pc' = [pc EXCEPT ![w] = "record"]
          /\ \A x \in Workers : x # w => change'[x] = change[x]
          /\ UNCHANGED <<backup, journal, current, clock, undoVars, ghostVars>>
      BY <2>1 DEF Create, TypeOK
    <2>5. pc' \in [Workers -> Pcs]
      BY <2>4 DEF TypeOK, Pcs
    <2>7. TypeOK'
      BY <2>2, <2>3, <2>4, <2>5 DEF TypeOK
    <2>8. \A i \in DOMAIN journal' :
             journal'[i].act \in {"created", "changed"} => journal'[i].path \in Paths
      BY <2>4 DEF WellFormed
    <2>6. \A x \in Workers : /\ pc'[x] \in {"write", "record"} => change'[x] \in Changes
                             /\ pc'[x] = "undo" => index'[x] <= Len(journal')
      BY <2>2, <2>4 DEF TypeOK, WellFormed
    <2> QED
      BY <2>6, <2>7, <2>8 DEF WellFormed
  <1>6. CASE Overwrite(w)
    <2>1. change[w] \in Changes
      BY <1>6 DEF Overwrite, WellFormed
    <2>2. disk' \in [Paths -> Files]
      BY <1>6, <2>1 DEF Overwrite, TypeOK, Changes, Files
    <2> QED
      BY <1>6, <2>1, <2>2 DEF Overwrite, TypeOK, WellFormed, Pcs
  <1>7. CASE Record(w) \/ RecordPackage(w)
    BY <1>7, RecordType
  <1>8. CASE IOError(w)
    <2>1. CASE own[w] = NoRun
      <3>1. Return(w) /\ UNCHANGED <<hostVars, clock>>
        BY <1>8, <2>1 DEF IOError
      <3>2. TypeOK'
        BY <3>1, ReturnType DEF TypeOK
      <3>3. WellFormed'
        BY <3>1 DEF WellFormed, TypeOK, Return
      <3> QED
        BY <3>2, <3>3
    <2>2. CASE own[w] # NoRun
      <3>1. /\ pc' = [pc EXCEPT ![w] = "error"]
            /\ change' = [change EXCEPT ![w] = NoChange]
            /\ UNCHANGED <<hostVars, clock, undoVars, own, base>>
            /\ faults' \in [Workers -> SUBSET {"overlap", "sameRun", "noRun",
                                              "sameSecond", "unrecorded"}]
        <4>1. /\ pc' = [pc EXCEPT ![w] = "error"]
              /\ change' = [change EXCEPT ![w] = NoChange]
              /\ UNCHANGED <<hostVars, clock, undoVars, own, base>>
              /\ faults' = [faults EXCEPT ![w] = @ \cup {"unrecorded"}]
                 \/ faults' = faults
          BY <1>8, <2>2 DEF IOError
        <4>2. faults' \in [Workers -> SUBSET {"overlap", "sameRun", "noRun",
                                             "sameSecond", "unrecorded"}]
          BY <4>1, FaultType DEF TypeOK
        <4> QED
          BY <4>1, <4>2
      <3> QED
        BY <3>1 DEF TypeOK, WellFormed, Pcs
    <2> QED
      BY <2>1, <2>2
  <1>9. CASE RollbackBegin(w)
    <2>1. journal \in Seq(Entries)
      BY DEF TypeOK
    <2>2. Len(journal) \in Nat
      BY <2>1
    <2> QED
      <3>1. /\ pc' \in [Workers -> Pcs] /\ scope' \in [Workers -> RunIds \cup {NoRun}]
            /\ index' \in [Workers -> Nat]
            /\ report' \in [Workers -> {"rolledBack", "partial"}]
            /\ UNCHANGED <<hostVars, clock, change, ghostVars>>
        BY <1>9, <2>2 DEF RollbackBegin, TypeOK, Pcs
      <3>2. TypeOK'
        BY <3>1 DEF TypeOK
      <3>3. \A x \in Workers : /\ pc'[x] \in {"write", "record"} => change'[x] \in Changes
                               /\ pc'[x] = "undo" => index'[x] <= Len(journal)
        BY <1>9, <2>2 DEF RollbackBegin, TypeOK, WellFormed
      <3> QED
        BY <3>1, <3>2, <3>3 DEF WellFormed
  <1>10. CASE Undo(w)
    <2> DEFINE e == journal[index[w]]
    <2>1. journal \in Seq(Entries) /\ index[w] \in 1..Len(journal)
      BY <1>10 DEF Undo, TypeOK, WellFormed
    <2>2. e \in Entries /\ (e.act \in {"created", "changed"} => e.path \in Paths)
      BY <2>1 DEF WellFormed
    <2>3. disk' \in [Paths -> Files]
      BY <1>10, <2>2 DEF Undo, TypeOK, Files, Entries
    <2>4. report' \in [Workers -> {"rolledBack", "partial"}]
      BY <1>10 DEF Undo, TypeOK
    <2>5. index' \in [Workers -> Nat] /\ \A x \in Workers : index'[x] <= index[x]
      BY <1>10 DEF Undo, TypeOK
    <2>6. UNCHANGED <<backup, journal, current, clock, pc, change, scope, ghostVars>>
      BY <1>10 DEF Undo
    <2>7. Len(journal) \in Nat
      BY <2>1
    <2>8. \A x \in Workers : pc'[x] = "undo" => index'[x] <= Len(journal')
      BY <2>5, <2>6, <2>7 DEF WellFormed, TypeOK
    <2> QED
      BY <2>3, <2>4, <2>5, <2>6, <2>8 DEF TypeOK, WellFormed
  <1>11. CASE UndoFails(w) \/ RollbackEnd(w)
    BY <1>11 DEF UndoFails, RollbackEnd, TypeOK, WellFormed, Pcs
  <1> QED
    BY <1>1, <1>2, <1>3, <1>4, <1>5, <1>6, <1>7, <1>8, <1>9, <1>10, <1>11
       DEF WorkerStep, Write, Rollback

-----------------------------------------------------------------------------
(* Who is at work                                                              *)

\* What a step of worker w leaves alone in the others, and what it brings them.
LEMMA StepAside ==
  ASSUME TypeOK, NEW w \in Workers, WorkerStep(w), NEW x \in Workers \ {w}
  PROVE  /\ pc'[x] = pc[x] /\ own'[x] = own[x]
         /\ faults[x] \subseteq faults'[x]
         /\ ~Active(w) /\ Active(x) => faults'[x] # {} /\ faults'[w] # {}
         /\ Active(w) => faults'[x] = faults[x]
  <1> USE DEF hostVars, undoVars, ghostVars, Goto
  <1>1. CASE (\E label \in Labels : Begin(w, label)) \/ BeginFails(w) \/ Visit(w)
    <2>1. ~Active(w) /\ pc'[x] = pc[x]
      BY <1>1 DEF Begin, BeginFails, Visit, Active, TypeOK
    <2>2. PICK run, mine : Enter(w, run, mine)
      BY <1>1 DEF Begin, BeginFails, Visit
    <2>3. own'[x] = own[x]
      BY <2>2 DEF Enter, TypeOK
    <2>4. faults'[x] = faults[x] \/ faults'[x] = faults[x] \cup {"overlap"}
      BY <2>2 DEF Enter
    <2>5. Active(x) => "overlap" \in faults'[x] /\ "overlap" \in faults'[w]
      BY <2>2 DEF Enter
    <2> QED
      BY <2>1, <2>3, <2>4, <2>5
  <1>2. CASE Succeed(w) \/ Finish(w) \/ IOError(w)
    BY <1>2 DEF Succeed, Finish, IOError, Return, Active, TypeOK
  <1>3. CASE Fail(w) \/ RollbackBegin(w) \/ Undo(w) \/ UndoFails(w) \/ RollbackEnd(w)
    BY <1>3 DEF Fail, RollbackBegin, Undo, UndoFails, RollbackEnd, Active, TypeOK
  <1>4. CASE Write(w)
    <2>1. CASE \E p \in Paths, c \in Contents : BackUp(w, p, c)
      BY <2>1 DEF BackUp, Active, TypeOK
    <2>2. CASE \E p \in Paths, c \in Contents : Create(w, p, c)
      BY <2>2 DEF Create, Active, TypeOK
    <2>3. CASE Overwrite(w) \/ Record(w) \/ RecordPackage(w)
      BY <2>3 DEF Overwrite, Record, RecordPackage, Active, TypeOK
    <2> QED
      BY <1>4, <2>1, <2>2, <2>3 DEF Write
  <1> QED
    BY <1>1, <1>2, <1>3, <1>4 DEF WorkerStep, Rollback

\* What a step of worker w leaves in w itself.
LEMMA StepSelf ==
  ASSUME TypeOK, Alone, NEW w \in Workers, WorkerStep(w)
  PROVE  /\ own'[w] # NoRun => Active(w)'
         /\ pc'[w] \in {"error", "undo", "ended"} => own'[w] # NoRun \/ faults'[w] # {}
         /\ Active(w) /\ Active(w)' => faults[w] \subseteq faults'[w]
         /\ Active(w) /\ own'[w] # NoRun => own'[w] = own[w]
  <1> USE DEF hostVars, undoVars, ghostVars, Goto
  <1>1. CASE (\E label \in Labels : Begin(w, label))
    <2>1. PICK label \in Labels : Begin(w, label)
      BY <1>1
    <2>2. own'[w] = <<clock, label>> /\ ~Active(w) /\ pc'[w] \in {"run", "error"}
      BY <2>1 DEF Begin, Enter, Active, TypeOK
    <2>3. <<clock, label>> # NoRun
      BY NoRunAssumption DEF TypeOK, RunIds
    <2> QED
      BY <2>2, <2>3 DEF Active
  <1>2. CASE BeginFails(w) \/ Visit(w)
    <2>1. PICK mine \in {{}, {"noRun"}} :
             /\ Enter(w, NoRun, mine)
             /\ Goto(w, "run") \/ (Goto(w, "error") /\ mine = {"noRun"})
             /\ ~Active(w)
      BY <1>2 DEF BeginFails, Visit, Active
    <2>2. own'[w] = NoRun /\ mine \subseteq faults'[w]
      BY <2>1 DEF Enter, TypeOK
    <2> QED
      BY <2>1, <2>2 DEF TypeOK
  <1>3. CASE Succeed(w) \/ Finish(w)
    BY <1>3 DEF Succeed, Finish, Return, Active, TypeOK
  <1>4. CASE IOError(w)
    BY <1>4 DEF IOError, Return, Active, TypeOK
  <1>5. CASE Fail(w) \/ RollbackBegin(w) \/ Undo(w) \/ UndoFails(w) \/ RollbackEnd(w)
    BY <1>5 DEF Fail, RollbackBegin, Undo, UndoFails, RollbackEnd, Active, Alone, TypeOK
  <1>6. CASE Write(w)
    <2>1. own' = own /\ Active(w) /\ pc'[w] \in {"run", "write", "record"}
      BY <1>6 DEF Write, BackUp, Create, Overwrite, Record, RecordPackage, Active, TypeOK
    <2>2. faults[w] \subseteq faults'[w]
      <3>1. faults' = faults \/ faults' = [faults EXCEPT ![w] = @ \cup {"sameSecond"}]
        BY <1>6 DEF Write, BackUp, Create, Overwrite, Record, RecordPackage
      <3> QED
        BY <3>1 DEF TypeOK
    <2> QED
      BY <2>1, <2>2 DEF Active
  <1> QED
    BY <1>1, <1>2, <1>3, <1>4, <1>5, <1>6 DEF WorkerStep, Rollback

LEMMA StepAlone ==
  ASSUME TypeOK, Alone, NEW w \in Workers, WorkerStep(w)
  PROVE  Alone'
  <1> SUFFICES ASSUME NEW y \in Workers
      PROVE /\ own'[y] # NoRun => Active(y)'
            /\ pc'[y] \in {"error", "undo", "ended"}
                 => own'[y] # NoRun \/ faults'[y] # {}
            /\ Active(y)' /\ faults'[y] = {} => \A x \in Workers \ {y} : ~Active(x)'
    BY DEF Alone
  <1>1. CASE y = w
    <2>1. ASSUME Active(w)', faults'[w] = {}, NEW x \in Workers \ {w} PROVE ~Active(x)'
      <3>1. ~Active(w) => ~Active(x)
        BY <2>1, StepAside
      <3>2. Active(w) => ~Active(x)
        BY <2>1, StepSelf DEF Alone
      <3> QED
        BY <3>1, <3>2, StepAside DEF Active
    <2> QED
      BY <1>1, <2>1, StepSelf
  <1>2. CASE y # w
    <2>1. /\ pc'[y] = pc[y] /\ own'[y] = own[y]
          /\ faults[y] \subseteq faults'[y]
          /\ ~Active(w) /\ Active(y) => faults'[y] # {}
      BY <1>2, StepAside
    <2>2. ASSUME Active(y)', faults'[y] = {} PROVE FALSE
      <3>1. Active(y) /\ faults[y] = {}
        BY <2>1, <2>2 DEF Active
      <3>2. ~Active(w)
        BY <1>2, <3>1 DEF Alone
      <3> QED
        BY <2>1, <2>2, <3>1, <3>2
    <2> QED
      BY <2>1, <2>2 DEF Alone, Active
  <1> QED
    BY <1>1, <1>2

\* Only a step of its own leaves a run clean.
LEMMA StepSpoils ==
  ASSUME TypeOK, Alone, NEW w \in Workers, WorkerStep(w), NEW x \in Workers \ {w}
  PROVE  ~Clean(x)'
  <1> SUFFICES ASSUME Clean(x)' PROVE FALSE
    OBVIOUS
  <1>1. own[x] # NoRun /\ faults[x] = {}
    BY StepAside DEF Clean
  <1>2. Active(x) /\ ~Active(w)
    BY <1>1 DEF Alone
  <1> QED
    BY <1>2, StepAside DEF Clean

-----------------------------------------------------------------------------
(* What a clean run keeps track of, step by step                              *)

\* Nothing but the clock, the label of the worker or its memory of a step moves.
LEMMA KeptStays ==
  ASSUME NEW w, NEW p, Kept(w, p), pc[w] # "record",
         UNCHANGED <<disk, backup, journal, own, base>>
  PROVE  Kept(w, p)'
  BY DEF Kept, FirstLine, FileLine, Reverts

LEMMA BeginTracked ==
  ASSUME TypeOK, NEW w \in Workers, NEW label \in Labels, Begin(w, label), Clean(w)'
  PROVE  Tracked(w)'
  <1>1. /\ own'[w] = <<clock, label>> /\ base'[w] = disk /\ current' = <<clock, label>>
        /\ UNCHANGED <<disk, backup, journal>>
        /\ pc'[w] \in {"run", "error"}
    BY DEF Begin, Enter, Goto, TypeOK
  <1>2. \A i \in DOMAIN journal : journal[i].run # <<clock, label>>
    BY DEF Begin, Enter, Clean, TypeOK
  <1>3. \A p \in Paths : Kept(w, p)'
    BY <1>1, <1>2 DEF Kept, FileLine
  <1> QED
    BY <1>1, <1>3 DEF Tracked

LEMMA FailTracked ==
  ASSUME TypeOK, NEW w \in Workers, Fail(w) \/ IOError(w), Clean(w)',
         Clean(w) => Tracked(w)
  PROVE  Tracked(w)'
  <1> USE DEF hostVars, undoVars, ghostVars, Goto
  <1>1. pc'[w] = "error" /\ pc[w] \in {"run", "write"} /\ own' = own /\ faults' = faults
        /\ UNCHANGED <<disk, backup, journal, current, own, base>>
    <2>1. CASE Fail(w)
      BY <2>1 DEF Fail, TypeOK
    <2>2. CASE IOError(w)
      <3>1. own[w] # NoRun
        BY <2>2 DEF IOError, Return, Clean, TypeOK
      <3>2. pc[w] # "record"
        <4>1. "unrecorded" \notin faults'[w]
          BY DEF Clean
        <4> QED
          BY <2>2, <3>1, <4>1 DEF IOError, TypeOK
      <3> QED
        BY <2>2, <3>1, <3>2 DEF IOError, Clean, TypeOK
    <2> QED
      BY <2>1, <2>2
  <1>2. Tracked(w)
    BY <1>1 DEF Clean
  <1>3. \A p \in Paths : Kept(w, p)'
    BY <1>1, <1>2, KeptStays DEF Tracked
  <1> QED
    BY <1>1, <1>2, <1>3 DEF Tracked

LEMMA BackUpTracked ==
  ASSUME TypeOK, NEW w \in Workers, NEW p \in Paths, NEW c \in Contents,
         BackUp(w, p, c), Clean(w)', Clean(w) => Tracked(w)
  PROVE  Tracked(w)'
  <1> USE DEF undoVars, Goto
  <1>1. /\ pc[w] = "run" /\ pc'[w] = "write"
        /\ UNCHANGED <<disk, journal, current, own, base>>
        /\ faults' = faults
        /\ \A i \in DOMAIN journal : ~(/\ FileLine(i, own[w], p)
                                       /\ journal[i].act = "changed"
                                       /\ journal[i].stamp = clock)
    BY DEF BackUp, Clean, TypeOK
  <1>2. change'[w].act = "changed" /\ change'[w].path = p /\ change'[w].stamp = clock
    BY DEF BackUp, TypeOK
  <1>3. /\ backup'[<<clock, p>>] = disk[p]
        /\ \A s, q : s # clock \/ q # p => backup'[<<s, q>>] = backup[<<s, q>>]
    <2>1. <<clock, p>> \in Stamps \X Paths /\ backup \in [Stamps \X Paths -> Files]
      BY DEF TypeOK
    <2>2. backup' = [backup EXCEPT ![<<clock, p>>] = disk[p]]
      BY DEF BackUp
    <2> QED
      BY <2>1, <2>2
  <1>4. Tracked(w)
    BY <1>1 DEF Clean
  <1>5. ASSUME NEW q \in Paths PROVE Kept(w, q)'
    <2>1. Kept(w, q)
      BY <1>1, <1>4 DEF Tracked
    <2>2. \A i \in DOMAIN journal :
             FileLine(i, own[w], q) /\ journal[i].act = "changed"
             => backup'[<<journal[i].stamp, q>>] = backup[<<journal[i].stamp, q>>]
      BY <1>1, <1>3
    <2> QED
      BY <1>1, <2>1, <2>2 DEF Kept, FirstLine, FileLine, Reverts
  <1> QED
    BY <1>1, <1>2, <1>3, <1>4, <1>5 DEF Tracked

LEMMA WriteTracked ==
  ASSUME TypeOK, WellFormed, NEW w \in Workers, NEW p \in Paths, NEW c \in Contents,
         Create(w, p, c) \/ (Overwrite(w) /\ change[w].path = p),
         Clean(w)', Clean(w) => Tracked(w)
  PROVE  Tracked(w)'
  <1> USE DEF undoVars, ghostVars, Goto
  <1>1. /\ pc[w] \in {"run", "write"} /\ pc'[w] = "record"
        /\ UNCHANGED <<backup, journal, current, own, base, faults>>
        /\ \A q \in Paths : q # p => disk'[q] = disk[q]
    BY DEF Create, Overwrite, TypeOK
  <1>2. Tracked(w)
    BY <1>1 DEF Clean
  <1>3. /\ change'[w].path = p
        /\ \/ change'[w].act = "created" /\ disk[p] = Absent
           \/ change'[w].act = "changed" /\ backup[<<change'[w].stamp, p>>] = disk[p]
    <2>1. CASE Create(w, p, c)
      BY <2>1 DEF Create, TypeOK, Reverts
    <2>2. CASE Overwrite(w) /\ change[w].path = p
      BY <1>2, <2>2 DEF Overwrite, Tracked, Reverts
    <2> QED
      BY <2>1, <2>2
  <1>4. \A q \in Paths : Kept(w, q)
    BY <1>1, <1>2 DEF Tracked
  <1>5. (\A i \in DOMAIN journal : ~FileLine(i, own[w], p)) => base[w][p] = disk[p]
    BY <1>1, <1>4 DEF Kept, FirstLine
  <1>6. (\A i \in DOMAIN journal : ~FileLine(i, own[w], p)) =>
           Reverts(change[w].act, change[w].stamp, p, base[w][p])'
    BY <1>1, <1>3, <1>5 DEF Reverts
  <1>7. \A i, q : /\ FileLine(i, own[w], q)' <=> FileLine(i, own[w], q)
                 /\ FirstLine(i, own[w], q)' <=> FirstLine(i, own[w], q)
    BY <1>1 DEF FileLine, FirstLine
  <1>8. ASSUME NEW q \in Paths PROVE Kept(w, q)'
    <2>1. CASE \A i \in DOMAIN journal : ~FileLine(i, own[w], q)
      <3>1. q # p => disk'[q] = base'[w][q]
        BY <1>1, <1>4, <2>1 DEF Kept, FirstLine
      <3>2. q = p => Reverts(change[w].act, change[w].stamp, p, base[w][p])'
        BY <1>6, <2>1
      <3>3. \A i \in DOMAIN journal' : ~FileLine(i, own[w], q)'
        BY <1>1, <2>1 DEF FileLine
      <3>4. CASE q # p
        BY <3>1, <3>3, <3>4 DEF Kept
      <3>5. CASE q = p
        BY <1>1, <1>3, <3>2, <3>3, <3>5 DEF Kept, Reverts
      <3> QED
        BY <3>4, <3>5
    <2>2. CASE \E i \in DOMAIN journal : FileLine(i, own[w], q)
      BY <1>1, <1>4, <1>7, <2>2 DEF Kept, Reverts
    <2> QED
      BY <2>1, <2>2
  <1>9. pc'[w] = "record" /\ current' = own'[w]
    BY <1>1, <1>2 DEF Tracked
  <1>10. (\A i \in DOMAIN journal : ~FileLine(i, own[w], change[w].path))' =>
            Reverts(change[w].act, change[w].stamp, change[w].path,
                    base[w][change[w].path])'
    BY <1>1, <1>3, <1>6, <1>7 DEF Reverts, FileLine
  <1> QED
    BY <1>8, <1>9, <1>10 DEF Tracked

LEMMA RecordTracked ==
  ASSUME TypeOK, WellFormed, NEW w \in Workers, Record(w) \/ RecordPackage(w),
         Clean(w)', Clean(w) => Tracked(w)
  PROVE  Tracked(w)'
  <1> USE DEF undoVars, ghostVars, Goto
  <1>0. Len(journal) + 1 \in Nat
    BY DEF TypeOK
  <1> SUFFICES ASSUME NEW n \in Nat, n = Len(journal) + 1 PROVE Tracked(w)'
    BY <1>0
  <1>1. /\ pc[w] \in {"run", "record"} /\ pc'[w] = "run"
        /\ UNCHANGED <<disk, backup, current, own, base, faults>>
    BY DEF Record, RecordPackage, TypeOK
  <1>2. Tracked(w)
    BY <1>1 DEF Clean
  <1>3. current = own[w]
    BY <1>1, <1>2 DEF Tracked
  <1>4. /\ DOMAIN journal = 1..(n - 1) /\ DOMAIN journal' = 1..n /\ n \in Nat
        /\ \A i \in DOMAIN journal : journal'[i] = journal[i]
    <2>1. \E e : journal' = Append(journal, e)
      BY DEF Record, RecordPackage
    <2>2. journal \in Seq(Entries)
      BY DEF TypeOK
    <2>3. PICK e : journal' = Append(journal, e)
      BY <2>1
    <2>4. Len(journal) \in Nat /\ DOMAIN journal = 1..Len(journal)
      BY <2>2
    <2> QED
      BY <2>2, <2>3, <2>4
  <1>5. Record(w) => /\ journal'[n].run = own[w]
                     /\ journal'[n].act = change[w].act
                     /\ journal'[n].path = change[w].path
                     /\ journal'[n].stamp = change[w].stamp
                     /\ change[w].act \in {"created", "changed"}
                     /\ pc[w] = "record"
    BY <1>3 DEF Record, TypeOK, WellFormed, Changes
  <1>6. RecordPackage(w) => journal'[n].act = "package" /\ pc[w] = "run"
    BY DEF RecordPackage, TypeOK
  <1>7. ASSUME NEW q \in Paths PROVE Kept(w, q)'
    <2>1. Kept(w, q)
      BY <1>1, <1>2 DEF Tracked
    <2>2. CASE \E i \in DOMAIN journal : FirstLine(i, own[w], q)
      <3>1. PICK i \in DOMAIN journal :
               /\ FirstLine(i, own[w], q)
               /\ Reverts(journal[i].act, journal[i].stamp, q, base[w][q])
        BY <2>1, <2>2 DEF Kept, FirstLine
      <3>2. i \in DOMAIN journal' /\ FileLine(i, own[w], q)'
        BY <1>1, <1>4, <3>1 DEF FirstLine, FileLine
      <3>3. ASSUME NEW k \in DOMAIN journal', FileLine(k, own[w], q)' PROVE i <= k
        <4>1. CASE k \in DOMAIN journal
          BY <1>1, <1>4, <3>1, <3>3, <4>1 DEF FirstLine, FileLine
        <4>2. CASE k \notin DOMAIN journal
          BY <1>4, <4>2
        <4> QED
          BY <4>1, <4>2
      <3>4. Reverts(journal[i].act, journal[i].stamp, q, base[w][q])'
        BY <1>1, <1>4, <3>1 DEF Reverts
      <3> QED
        BY <3>2, <3>3, <3>4 DEF Kept, FirstLine
    <2>3. CASE \A i \in DOMAIN journal : ~FileLine(i, own[w], q)
      <3>1. \A i \in DOMAIN journal' : i # n => ~FileLine(i, own[w], q)'
        BY <1>1, <1>4, <2>3 DEF FileLine
      <3>2. CASE Record(w) /\ change[w].path = q
        <4>1. FileLine(n, own[w], q)' /\ n \in DOMAIN journal'
          BY <1>1, <1>4, <1>5, <3>2 DEF FileLine
        <4>2. Reverts(journal[n].act, journal[n].stamp, q, base[w][q])'
          BY <1>1, <1>2, <1>5, <2>3, <3>2 DEF Tracked, Reverts
        <4>3. \A k \in DOMAIN journal' : FileLine(k, own[w], q)' => n <= k
          BY <1>4, <3>1
        <4> QED
          BY <4>1, <4>2, <4>3 DEF Kept, FirstLine
      <3>3. CASE ~(Record(w) /\ change[w].path = q)
        <4>1. ~FileLine(n, own[w], q)'
          BY <1>5, <1>6, <3>3 DEF FileLine
        <4>2. disk'[q] = base'[w][q]
          BY <1>1, <1>5, <1>6, <2>1, <2>3, <3>3 DEF Kept, FirstLine
        <4> QED
          BY <3>1, <4>1, <4>2 DEF Kept
      <3> QED
        BY <3>2, <3>3
    <2> QED
      BY <2>1, <2>2, <2>3 DEF Kept
  <1> QED
    BY <1>1, <1>3, <1>7 DEF Tracked

LEMMA RollbackBeginTracked ==
  ASSUME TypeOK, NEW w \in Workers, RollbackBegin(w), Clean(w)',
         Clean(w) => Tracked(w)
  PROVE  Tracked(w)'
  <1> USE DEF hostVars, ghostVars, Goto
  <1>1. /\ pc[w] = "error" /\ pc'[w] \in {"ended", "undo"}
        /\ UNCHANGED <<disk, backup, journal, current, own, base, faults>>
        /\ scope'[w] = current /\ index'[w] = Len(journal)
        /\ pc'[w] = "ended" => report'[w] = "partial"
    BY DEF RollbackBegin, TypeOK
  <1>2. Tracked(w)
    BY <1>1 DEF Clean
  <1>3. DOMAIN journal = 1..Len(journal) /\ Len(journal) \in Nat
    BY DEF TypeOK
  <1>4. ASSUME NEW p \in Paths PROVE Undone(w, p)'
    <2>1. Kept(w, p)
      BY <1>1, <1>2 DEF Tracked
    <2>2. CASE \A i \in DOMAIN journal : ~FileLine(i, own[w], p)
      BY <1>1, <2>1, <2>2 DEF Kept, Undone, FirstLine, FileLine
    <2>3. CASE \E i \in DOMAIN journal : FileLine(i, own[w], p)
      <3>1. PICK i \in DOMAIN journal :
               /\ FirstLine(i, own[w], p)
               /\ Reverts(journal[i].act, journal[i].stamp, p, base[w][p])
        BY <2>1, <2>3 DEF Kept
      <3>2. i <= index'[w]
        BY <1>1, <1>3
      <3> QED
        BY <1>1, <3>1, <3>2 DEF Undone, FirstLine, FileLine, Reverts
    <2> QED
      BY <2>2, <2>3
  <1> QED
    BY <1>1, <1>2, <1>4 DEF Tracked

LEMMA UndoTracked ==
  ASSUME TypeOK, WellFormed, NEW w \in Workers, Undo(w), Clean(w)',
         Clean(w) => Tracked(w)
  PROVE  Tracked(w)'
  <1> USE DEF ghostVars
  <1> DEFINE k == index[w]
             e == journal[index[w]]
  <1>1. /\ pc[w] = "undo" /\ pc'[w] = "undo" /\ k > 0 /\ index'[w] = k - 1
        /\ UNCHANGED <<backup, journal, current, scope, own, base, faults>>
    BY DEF Undo, TypeOK
  <1>2. Tracked(w) /\ own[w] # NoRun
    BY <1>1 DEF Clean
  <1>3. /\ DOMAIN journal = 1..Len(journal) /\ Len(journal) \in Nat
        /\ k \in DOMAIN journal /\ k \in Nat
    BY <1>1 DEF TypeOK, WellFormed
  <1>4. InScope(w, e) <=> e.run = own[w]
    BY <1>1, <1>2 DEF Tracked, InScope
  <1>5. ASSUME NEW p \in Paths PROVE Undone(w, p)'
    <2>1. Undone(w, p)
      BY <1>1, <1>2 DEF Tracked
    <2>2. CASE FirstLine(k, own[w], p)
      <3>1. Reverts(e.act, e.stamp, p, base[w][p])
        BY <1>3, <2>1, <2>2 DEF Undone, FirstLine
      <3>2. disk'[p] = base[w][p]
        <4>1. InScope(w, e) /\ e.path = p /\ disk \in [Paths -> Files]
          BY <1>4, <2>2 DEF FirstLine, FileLine, TypeOK
        <4> QED
          BY <3>1, <4>1 DEF Undo, Reverts
      <3>3. \A i \in DOMAIN journal : FileLine(i, own[w], p) => i > index'[w]
        BY <1>1, <1>3, <2>2 DEF FirstLine
      <3> QED
        BY <1>1, <3>2, <3>3 DEF Undone, FileLine
    <2>3. CASE \E i \in DOMAIN journal : /\ i < k
                                         /\ FirstLine(i, own[w], p)
                                         /\ Reverts(journal[i].act, journal[i].stamp,
                                                    p, base[w][p])
      <3>1. PICK i \in DOMAIN journal : /\ i < k
                                        /\ FirstLine(i, own[w], p)
                                        /\ Reverts(journal[i].act, journal[i].stamp,
                                                   p, base[w][p])
        BY <2>3
      <3>2. i <= index'[w]
        BY <1>1, <1>3, <3>1
      <3> QED
        BY <1>1, <3>1, <3>2 DEF Undone, FirstLine, FileLine, Reverts
    <2>4. CASE /\ \A i \in DOMAIN journal : FileLine(i, own[w], p) => i > k
               /\ disk[p] = base[w][p]
      <3>1. ~FileLine(k, own[w], p)
        BY <1>3, <2>4
      <3>2. disk'[p] = disk[p]
        BY <1>4, <3>1 DEF Undo, FileLine, TypeOK
      <3>3. \A i \in DOMAIN journal : FileLine(i, own[w], p) => i > index'[w]
        BY <1>1, <1>3, <2>4
      <3> QED
        BY <1>1, <2>4, <3>2, <3>3 DEF Undone, FileLine
    <2> QED
      BY <1>3, <2>1, <2>2, <2>3, <2>4 DEF Undone
  <1> QED
    BY <1>1, <1>2, <1>5 DEF Tracked

LEMMA EndTracked ==
  ASSUME TypeOK, NEW w \in Workers, UndoFails(w) \/ RollbackEnd(w), Clean(w)',
         Clean(w) => Tracked(w)
  PROVE  Tracked(w)'
  <1> USE DEF hostVars, undoVars, ghostVars, Goto
  <1>1. /\ pc[w] = "undo" /\ pc'[w] = "ended"
        /\ UNCHANGED <<disk, own, base, faults>>
    BY DEF UndoFails, RollbackEnd, TypeOK
  <1>2. Tracked(w)
    BY <1>1 DEF Clean
  <1>3. CASE UndoFails(w)
    BY <1>1, <1>3 DEF UndoFails, Tracked, TypeOK
  <1>4. CASE RollbackEnd(w)
    <2>1. DOMAIN journal = 1..Len(journal) /\ Len(journal) \in Nat /\ index[w] = 0
      BY <1>4 DEF RollbackEnd, TypeOK
    <2>2. \A p \in Paths : disk[p] = base[w][p]
      BY <1>1, <1>2, <2>1 DEF Tracked, Undone
    <2>3. disk \in [Paths -> Files] /\ base[w] \in [Paths -> Files]
      BY DEF TypeOK
    <2>4. disk = base[w]
      BY <2>2, <2>3
    <2> QED
      BY <1>1, <2>4 DEF Tracked
  <1> QED
    BY <1>3, <1>4

\* A run that a step of its own leaves clean was clean or has just begun.
LEMMA StepTracked ==
  ASSUME TypeOK, WellFormed, NEW w \in Workers, WorkerStep(w), Clean(w)',
         Clean(w) => Tracked(w)
  PROVE  Tracked(w)'
  <1>1. CASE \E label \in Labels : Begin(w, label)
    BY <1>1, BeginTracked
  <1>2. CASE BeginFails(w) \/ Visit(w) \/ Succeed(w) \/ Finish(w)
    BY <1>2 DEF BeginFails, Visit, Succeed, Finish, Enter, Return, Clean, TypeOK
  <1>3. CASE Fail(w) \/ IOError(w)
    BY <1>3, FailTracked
  <1>4. CASE \E p \in Paths, c \in Contents : BackUp(w, p, c)
    BY <1>4, BackUpTracked
  <1>5. CASE \E p \in Paths, c \in Contents : Create(w, p, c)
    BY <1>5, WriteTracked
  <1>6. CASE Overwrite(w)
    <2>1. change[w].path \in Paths /\ change[w].new \in Contents
      BY <1>6 DEF Overwrite, WellFormed, Changes
    <2> QED
      BY <1>6, <2>1, WriteTracked
  <1>7. CASE Record(w) \/ RecordPackage(w)
    BY <1>7, RecordTracked
  <1>8. CASE RollbackBegin(w)
    BY <1>8, RollbackBeginTracked
  <1>9. CASE Undo(w)
    BY <1>9, UndoTracked
  <1>10. CASE UndoFails(w) \/ RollbackEnd(w)
    BY <1>10, EndTracked
  <1> QED
    BY <1>1, <1>2, <1>3, <1>4, <1>5, <1>6, <1>7, <1>8, <1>9, <1>10
       DEF WorkerStep, Write, Rollback

-----------------------------------------------------------------------------
(* The invariant                                                               *)

LEMMA InvInit == Init => IInv
  <1>1. Init => Alone
    BY DEF Init, Alone, Active
  <1>2. Init => \A w \in Workers : ~Clean(w)
    BY DEF Init, Clean
  <1> QED
    BY <1>1, <1>2, TypeInit DEF IInv

LEMMA InvStep ==
  ASSUME IInv, NEW w \in Workers, WorkerStep(w)
  PROVE  IInv'
  <1> USE DEF IInv
  <1>1. TypeOK' /\ WellFormed'
    BY StepType
  <1>2. Alone'
    BY StepAlone
  <1>3. \A x \in Workers : Clean(x)' => Tracked(x)'
    BY StepSpoils, StepTracked
  <1> QED
    BY <1>1, <1>2, <1>3

LEMMA InvClock == IInv /\ ClockTicks => IInv'
  <1> SUFFICES ASSUME IInv, ClockTicks PROVE IInv'
    OBVIOUS
  <1>1. UNCHANGED <<hostVars, pc, change, undoVars, ghostVars>> /\ clock' \in Stamps
    BY ClockAssumption DEF IInv, TypeOK, ClockTicks, Stamps
  <1>2. TypeOK'
    BY <1>1 DEF IInv, TypeOK, hostVars, undoVars, ghostVars
  <1>3. WellFormed' /\ Alone'
    BY <1>1 DEF IInv, WellFormed, Alone, Active, hostVars, undoVars, ghostVars
  <1>4. \A w \in Workers : Clean(w)' => Tracked(w)'
    BY <1>1 DEF IInv, Clean, Tracked, Kept, Undone, FirstLine, FileLine, Reverts,
                hostVars, undoVars, ghostVars
  <1> QED
    BY <1>2, <1>3, <1>4 DEF IInv

LEMMA InvStutter == IInv /\ UNCHANGED vars => IInv'
  <1> SUFFICES ASSUME IInv, UNCHANGED vars PROVE IInv'
    OBVIOUS
  <1>1. UNCHANGED <<hostVars, clock, pc, change, undoVars, ghostVars>>
    BY DEF vars
  <1>2. TypeOK'
    BY <1>1 DEF IInv, TypeOK, hostVars, undoVars, ghostVars
  <1>3. WellFormed' /\ Alone'
    BY <1>1 DEF IInv, WellFormed, Alone, Active, hostVars, undoVars, ghostVars
  <1>4. \A w \in Workers : Clean(w)' => Tracked(w)'
    BY <1>1 DEF IInv, Clean, Tracked, Kept, Undone, FirstLine, FileLine, Reverts,
                hostVars, undoVars, ghostVars
  <1> QED
    BY <1>2, <1>3, <1>4 DEF IInv

LEMMA InvCrash == IInv /\ Crash => IInv'
  <1> SUFFICES ASSUME IInv, Crash PROVE IInv'
    OBVIOUS
  <1> USE DEF IInv
  <1>1. /\ journal' \in Seq(Entries)
        /\ \A i \in DOMAIN journal' :
              journal'[i].act \in {"created", "changed"} => journal'[i].path \in Paths
    <2>1. CASE UNCHANGED journal
      BY <2>1 DEF TypeOK, WellFormed
    <2>2. CASE journal' # journal
      <3> DEFINE e == [run |-> current, act |-> "torn", path |-> Absent, stamp |-> 0]
      <3>1. journal' = Append(journal, e)
        BY <2>2 DEF Crash
      <3>2. e \in Entries /\ e.act = "torn"
        BY StampsNonempty DEF TypeOK, Entries, Acts
      <3> HIDE DEF e
      <3> QED
        BY <3>1, <3>2, AppendType
    <2> QED
      BY <2>1, <2>2
  <1>2. /\ pc' = [w \in Workers |-> "idle"]
        /\ own' = [w \in Workers |-> NoRun]
        /\ current' = NoRun
        /\ UNCHANGED <<disk, backup, clock>>
    BY DEF Crash, Fresh
  <1>3. Nothing \in [Paths -> Files]
    BY DEF Nothing, Files
  <1>4. TypeOK'
    BY <1>1, <1>2, <1>3 DEF Crash, Fresh, TypeOK, Pcs
  <1>5. WellFormed' /\ Alone'
    BY <1>1, <1>2 DEF WellFormed, Alone, Active
  <1>6. \A w \in Workers : ~Clean(w)'
    BY <1>2 DEF Clean
  <1> QED
    BY <1>4, <1>5, <1>6

LEMMA InvInductive == Spec => []IInv
  <1>1. IInv /\ [Next]_vars => IInv'
    <2>1. ASSUME IInv, Next PROVE IInv'
      <3>1. CASE \E w \in Workers : WorkerStep(w)
        BY <2>1, <3>1, InvStep
      <3>2. CASE ClockTicks \/ Crash
        BY <2>1, <3>2, InvClock, InvCrash
      <3> QED
        BY <2>1, <3>1, <3>2 DEF Next, WorkerStep
    <2> QED
      BY <2>1, InvStutter
  <1> QED
    BY InvInit, <1>1, PTL DEF Spec

\* Every reachable state of the journal, its backups and its writers is typed.
THEOREM TypeCorrect == Spec => []TypeOK
  <1>1. IInv => TypeOK
    BY DEF IInv
  <1> QED
    BY <1>1, InvInductive, PTL

\* write_file_tracked: at every point of a run that no other writer, no repeated
\* second and no lost line has spoilt, journal and backups restore every file.
THEOREM RecoverableHolds == Spec => []Recoverable
  <1>1. IInv => Recoverable
    BY DEF IInv, Clean, Tracked, Recoverable
  <1> QED
    BY <1>1, InvInductive, PTL

\* rollback_tracked_files and failure_message: a report of "rolled back" by such a
\* run means that every file is what it was when the run began.
THEOREM HonestRollbackHolds == Spec => []HonestRollback
  <1>1. ASSUME IInv PROVE HonestRollback
    <2>1. ASSUME NEW w \in Workers, pc[w] = "ended", report[w] = "rolledBack",
                 faults[w] = {}
          PROVE  disk = base[w]
      <3>1. Clean(w)
        BY <1>1, <2>1 DEF IInv, Alone, Clean
      <3> QED
        BY <1>1, <2>1, <3>1 DEF IInv, Tracked
    <2> QED
      BY <2>1 DEF HonestRollback
  <1> QED
    BY <1>1, InvInductive, PTL

=============================================================================
