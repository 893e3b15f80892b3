--------------------------- MODULE InstallJournal ---------------------------
(* install_journal.rs: the change journal of an installation, its backups and  *)
(* the rollback of a failed run.  A run is identified by the second it began   *)
(* and its label; one process-wide variable holds the current run id, and every*)
(* journal line takes the id it finds there, whoever writes it.                *)
(*                                                                             *)
(* Lines that rollback passes over (Note, CreatedDir) are left out; an install *)
(* of a package or the enabling of a service is one "package" line.            *)
EXTENDS Naturals, Sequences

CONSTANTS
    Workers,     \* threads that write tracked files
    Paths,       \* files
    Contents,    \* what a file may contain
    Absent,      \* no file
    Labels,      \* labels of install runs
    NoRun,       \* CURRENT_RUN_ID is None
    NoChange,    \* no tracked write under way
    IOErrors,    \* whether file operations may fail
    MaxClock,    \* bound: seconds
    MaxEntries   \* bound: journal lines

ASSUME AbsentAssumption == Absent \notin Contents
ASSUME ClockAssumption  == MaxClock \in Nat /\ MaxEntries \in Nat
ASSUME IOAssumption     == IOErrors \in BOOLEAN

Stamps == 0..MaxClock
RunIds == Stamps \X Labels

ASSUME NoRunAssumption == NoRun \notin RunIds
ASSUME NoPathAssumption == Absent \notin Paths

VARIABLES
    disk,      \* the files on the host
    backup,    \* install-backups/<second>_<path>
    journal,   \* install-journal.jsonl
    current,   \* CURRENT_RUN_ID
    clock,     \* now_unix
    pc,        \* where each worker stands
    change,    \* the tracked write a worker is in the middle of
    scope,     \* the run id a rollback has read
    index,     \* the journal line a rollback comes to next
    report,    \* RollbackReport.kind of the last rollback of each worker
    own,       \* history: the run a worker believes to be in
    base,      \* history: the files when that run began
    faults     \* history: what has gone wrong in that run

hostVars   == <<disk, backup, journal, current>>
undoVars   == <<scope, index, report>>
ghostVars  == <<own, base, faults>>
vars == <<hostVars, clock, pc, change, undoVars, ghostVars>>

Files == Contents \cup {Absent}
Acts  == {"created", "changed", "package", "torn"}
\* A package line names no file; the second only matters to a "changed" line.
Entries == [run : RunIds \cup {NoRun}, act : Acts, path : Paths \cup {Absent},
            stamp : Stamps]
Changes == [act : {"created", "changed"}, path : Paths, stamp : Stamps,
            new : Contents]
Pcs == {"idle", "run", "write", "record", "error", "undo", "ended"}

Active(w) == pc[w] # "idle"
Nothing == [p \in Paths |-> Absent]

\* The locals of a worker die with its call, and its history with them.
Return(w) ==
    /\ pc' = [pc EXCEPT ![w] = "idle"]
    /\ change' = [change EXCEPT ![w] = NoChange]
    /\ scope' = [scope EXCEPT ![w] = NoRun]
    /\ index' = [index EXCEPT ![w] = 0]
    /\ report' = [report EXCEPT ![w] = "partial"]
    /\ own' = [own EXCEPT ![w] = NoRun]
    /\ base' = [base EXCEPT ![w] = Nothing]
    /\ faults' = [faults EXCEPT ![w] = {}]

Goto(w, label) == pc' = [pc EXCEPT ![w] = label]

Torn == \E i \in DOMAIN journal : journal[i].act = "torn"

\* A file line of run r about file p, and the first of them.
FileLine(i, r, p) == /\ journal[i].run = r
                     /\ journal[i].path = p
                     /\ journal[i].act \in {"created", "changed"}
FirstLine(i, r, p) == /\ FileLine(i, r, p)
                      /\ \A k \in DOMAIN journal : FileLine(k, r, p) => i <= k

-----------------------------------------------------------------------------
(* Runs *)

\* Worker w starts to write: its own faults so far, and the overlap it brings to
\* the others at work.
Enter(w, run, mine) ==
    LET others == {x \in Workers \ {w} : Active(x)}
    IN  /\ own' = [own EXCEPT ![w] = run]
        /\ base' = [base EXCEPT ![w] = disk]
        /\ faults' = [x \in Workers |->
              IF x = w THEN mine \cup (IF others = {} THEN {} ELSE {"overlap"})
              ELSE IF x \in others THEN faults[x] \cup {"overlap"} ELSE faults[x]]

\* begin_install_run.  Its own journal line may fail after the id was set.
Begin(w, label) ==
    /\ pc[w] = "idle"
    /\ current' = <<clock, label>>
    /\ Enter(w, <<clock, label>>,
             IF \E i \in DOMAIN journal : journal[i].run = <<clock, label>>
             THEN {"sameRun"} ELSE {})
    /\ Goto(w, "run") \/ (IOErrors /\ Goto(w, "error"))
    /\ UNCHANGED <<disk, backup, journal, clock, change, undoVars>>

\* The journal directories cannot be made: no id is set, and the install fails.
BeginFails(w) ==
    /\ pc[w] = "idle"
    /\ IOErrors
    /\ Enter(w, NoRun, {"noRun"})
    /\ Goto(w, "error")
    /\ UNCHANGED <<hostVars, clock, change, undoVars>>

\* A page or a host package repair writes tracked files without a run.
Visit(w) ==
    /\ pc[w] = "idle"
    /\ Enter(w, NoRun, {})
    /\ Goto(w, "run")
    /\ UNCHANGED <<hostVars, clock, change, undoVars>>

\* The recipe went well: end_install_run.  A visitor just goes.
Succeed(w) ==
    /\ pc[w] = "run"
    /\ current' = IF own[w] = NoRun THEN current ELSE NoRun
    /\ Return(w)
    /\ UNCHANGED <<disk, backup, journal, clock>>

\* A command of the recipe fails.
Fail(w) ==
    /\ pc[w] = "run"
    /\ own[w] # NoRun
    /\ Goto(w, "error")
    /\ UNCHANGED <<hostVars, clock, change, undoVars, ghostVars>>

-----------------------------------------------------------------------------
(* write_file_tracked: nothing to do when the file has the new contents        *)

BackUp(w, p, c) ==
    /\ pc[w] = "run"
    /\ Len(journal) < MaxEntries
    /\ disk[p] \notin {Absent, c}
    /\ backup' = [backup EXCEPT ![<<clock, p>>] = disk[p]]
    /\ change' = [change EXCEPT ![w] = [act |-> "changed", path |-> p,
                                        stamp |-> clock, new |-> c]]
    /\ faults' = IF \E i \in DOMAIN journal : /\ FileLine(i, own[w], p)
                                              /\ journal[i].act = "changed"
                                              /\ journal[i].stamp = clock
                 THEN [faults EXCEPT ![w] = @ \cup {"sameSecond"}]
                 ELSE faults
    /\ Goto(w, "write")
    /\ UNCHANGED <<disk, journal, current, clock, undoVars, own, base>>

Overwrite(w) ==
    /\ pc[w] = "write"
    /\ disk' = [disk EXCEPT ![change[w].path] = change[w].new]
    /\ Goto(w, "record")
    /\ UNCHANGED <<backup, journal, current, clock, change, undoVars, ghostVars>>

Create(w, p, c) ==
    /\ pc[w] = "run"
    /\ Len(journal) < MaxEntries
    /\ disk[p] = Absent
    /\ disk' = [disk EXCEPT ![p] = c]
    /\ change' = [change EXCEPT ![w] = [act |-> "created", path |-> p,
                                        stamp |-> 0, new |-> c]]
    /\ Goto(w, "record")
    /\ UNCHANGED <<backup, journal, current, clock, undoVars, ghostVars>>

\* Mutant: the second is read once more for the line.
RecordLate(w) ==
    /\ pc[w] = "record"
    /\ journal' = Append(journal, [run |-> current, act |-> change[w].act,
                                   path |-> change[w].path, stamp |-> clock])
    /\ change' = [change EXCEPT ![w] = NoChange]
    /\ Goto(w, "run")
    /\ UNCHANGED <<disk, backup, current, clock, undoVars, ghostVars>>

\* The line is appended after the write, under whatever run is current.
Record(w) ==
    /\ pc[w] = "record"
    /\ journal' = Append(journal, [run |-> current, act |-> change[w].act,
                                   path |-> change[w].path,
                                   stamp |-> change[w].stamp])
    /\ change' = [change EXCEPT ![w] = NoChange]
    /\ Goto(w, "run")
    /\ UNCHANGED <<disk, backup, current, clock, undoVars, ghostVars>>

\* A package or a service of the recipe.
RecordPackage(w) ==
    /\ pc[w] = "run"
    /\ Len(journal) < MaxEntries
    /\ journal' = Append(journal, [run |-> current, act |-> "package",
                                   path |-> Absent, stamp |-> 0])
    /\ UNCHANGED <<disk, backup, current, clock, pc, change, undoVars, ghostVars>>

\* A copy, a write or an append fails.  A change that is on the disk but not in
\* the journal is a fault of the run.  Only an install rolls back.
IOError(w) ==
    /\ IOErrors
    /\ pc[w] \in {"run", "write", "record"}
    /\ \/ /\ own[w] # NoRun
          /\ faults' = IF pc[w] = "record"
                       THEN [faults EXCEPT ![w] = @ \cup {"unrecorded"}]
                       ELSE faults
          /\ change' = [change EXCEPT ![w] = NoChange]
          /\ Goto(w, "error")
          /\ UNCHANGED <<undoVars, own, base>>
       \/ own[w] = NoRun /\ Return(w)
    /\ UNCHANGED <<hostVars, clock>>

-----------------------------------------------------------------------------
(* rollback_tracked_files, called by finish on error; the journal only grows   *)
(* meanwhile, so that reading it line by line is reading the copy it loaded.   *)

\* Without a current run every line is in scope.
InScope(w, e) == scope[w] = NoRun \/ e.run = scope[w]

\* A journal with a torn line is unreadable, and then nothing is undone.
RollbackBegin(w) ==
    /\ pc[w] = "error"
    /\ scope' = [scope EXCEPT ![w] = current]
    /\ index' = [index EXCEPT ![w] = Len(journal)]
    /\ \/ /\ ~Torn
          /\ report' = [report EXCEPT ![w] = "rolledBack"]
          /\ Goto(w, "undo")
       \/ /\ Torn \/ IOErrors
          /\ report' = [report EXCEPT ![w] = "partial"]
          /\ Goto(w, "ended")
    /\ UNCHANGED <<hostVars, clock, change, ghostVars>>

\* Mutant: the lines are undone oldest first.
UndoOldestFirst(w) ==
    /\ pc[w] = "undo"
    /\ index[w] > 0
    /\ LET e == journal[Len(journal) + 1 - index[w]]
       IN  /\ disk' = IF ~InScope(w, e) THEN disk
                      ELSE IF e.act = "changed"
                           THEN [disk EXCEPT ![e.path] = backup[<<e.stamp, e.path>>]]
                      ELSE IF e.act = "created"
                           THEN [disk EXCEPT ![e.path] = Absent]
                      ELSE disk
           /\ report' = IF InScope(w, e) /\ e.act = "package"
                        THEN [report EXCEPT ![w] = "partial"] ELSE report
    /\ index' = [index EXCEPT ![w] = @ - 1]
    /\ UNCHANGED <<backup, journal, current, clock, pc, change, scope, ghostVars>>

Undo(w) ==
    /\ pc[w] = "undo"
    /\ index[w] > 0
    /\ LET e == journal[index[w]]
       IN  /\ disk' = IF ~InScope(w, e) THEN disk
                      ELSE IF e.act = "changed"
                           THEN [disk EXCEPT ![e.path] = backup[<<e.stamp, e.path>>]]
                      ELSE IF e.act = "created"
                           THEN [disk EXCEPT ![e.path] = Absent]
                      ELSE disk
           /\ report' = IF InScope(w, e) /\ e.act = "package"
                        THEN [report EXCEPT ![w] = "partial"] ELSE report
    /\ index' = [index EXCEPT ![w] = @ - 1]
    /\ UNCHANGED <<backup, journal, current, clock, pc, change, scope, ghostVars>>

\* Mutant: an interrupted rollback reports a kind failure_message does not know.
UndoFailsOddly(w) ==
    /\ IOErrors
    /\ pc[w] = "undo"
    /\ index[w] > 0 => InScope(w, journal[index[w]])
    /\ report' = [report EXCEPT ![w] = "failed"]
    /\ Goto(w, "ended")
    /\ UNCHANGED <<hostVars, clock, change, scope, index, ghostVars>>

\* A failed restore, removal or final Note ends the rollback; finish reports it
\* as partial.
UndoFails(w) ==
    /\ IOErrors
    /\ pc[w] = "undo"
    /\ index[w] > 0 => InScope(w, journal[index[w]])
    /\ report' = [report EXCEPT ![w] = "partial"]
    /\ Goto(w, "ended")
    /\ UNCHANGED <<hostVars, clock, change, scope, index, ghostVars>>

RollbackEnd(w) ==
    /\ pc[w] = "undo"
    /\ index[w] = 0
    /\ current' = NoRun
    /\ Goto(w, "ended")
    /\ UNCHANGED <<disk, backup, journal, clock, change, undoVars, ghostVars>>

\* finish writes the failure and ends the run once more.
Finish(w) ==
    /\ pc[w] = "ended"
    /\ current' = NoRun
    /\ Return(w)
    /\ UNCHANGED <<disk, backup, journal, clock>>

-----------------------------------------------------------------------------
ClockTicks ==
    /\ clock < MaxClock
    /\ clock' = clock + 1
    /\ UNCHANGED <<hostVars, pc, change, undoVars, ghostVars>>

Fresh ==
    /\ pc' = [w \in Workers |-> "idle"]
    /\ change' = [w \in Workers |-> NoChange]
    /\ scope' = [w \in Workers |-> NoRun]
    /\ index' = [w \in Workers |-> 0]
    /\ report' = [w \in Workers |-> "partial"]
    /\ own' = [w \in Workers |-> NoRun]
    /\ base' = [w \in Workers |-> Nothing]
    /\ faults' = [w \in Workers |-> {}]

\* The process ends; a line being appended may be torn.  Nothing is rolled back.
Crash ==
    /\ \E w \in Workers : Active(w)
    /\ \/ UNCHANGED journal
       \/ \E w \in Workers :
             /\ pc[w] = "record"
             /\ journal' = Append(journal, [run |-> current, act |-> "torn",
                                            path |-> Absent, stamp |-> 0])
    /\ current' = NoRun
    /\ Fresh
    /\ UNCHANGED <<disk, backup, clock>>

-----------------------------------------------------------------------------
Init ==
    /\ disk \in [Paths -> Files]
    /\ backup = [b \in Stamps \X Paths |-> Absent]
    /\ journal = <<>>
    /\ current = NoRun
    /\ clock = 0
    /\ pc = [w \in Workers |-> "idle"]
    /\ change = [w \in Workers |-> NoChange]
    /\ scope = [w \in Workers |-> NoRun]
    /\ index = [w \in Workers |-> 0]
    /\ report = [w \in Workers |-> "partial"]
    /\ own = [w \in Workers |-> NoRun]
    /\ base = [w \in Workers |-> Nothing]
    /\ faults = [w \in Workers |-> {}]

Write(w) == \/ \E p \in Paths, c \in Contents : BackUp(w, p, c) \/ Create(w, p, c)
            \/ Overwrite(w) \/ Record(w) \/ RecordPackage(w)

Rollback(w) == \/ RollbackBegin(w) \/ Undo(w) \/ UndoFails(w) \/ RollbackEnd(w)
               \/ Finish(w)

Next ==
    \/ \E w \in Workers :
          \/ (\E label \in Labels : Begin(w, label)) \/ BeginFails(w) \/ Visit(w)
          \/ Succeed(w) \/ Fail(w) \/ Write(w) \/ IOError(w) \/ Rollback(w)
    \/ ClockTicks
    \/ Crash

Spec == Init /\ [][Next]_vars

-----------------------------------------------------------------------------
(* Properties *)

TypeOK ==
    /\ disk \in [Paths -> Files]
    /\ backup \in [Stamps \X Paths -> Files]
    /\ journal \in Seq(Entries)
    /\ current \in RunIds \cup {NoRun}
    /\ clock \in Stamps
    /\ pc \in [Workers -> Pcs]
    /\ change \in [Workers -> Changes \cup {NoChange}]
    /\ scope \in [Workers -> RunIds \cup {NoRun}]
    /\ index \in [Workers -> Nat]
    /\ report \in [Workers -> {"rolledBack", "partial"}]
    /\ own \in [Workers -> RunIds \cup {NoRun}]
    /\ base \in [Workers -> [Paths -> Files]]
    /\ faults \in [Workers -> SUBSET {"overlap", "sameRun", "noRun",
                                      "sameSecond", "unrecorded"}]

\* What a change of file p needs to be taken back to the contents before.
Reverts(act, stamp, p, before) ==
    \/ act = "created" /\ before = Absent
    \/ act = "changed" /\ backup[<<stamp, p>>] = before

\* What file p held when the run of w began can be found: it still holds it, or
\* the first line of the run about it - or the write in flight - reverts to it.
Kept(w, p) ==
    \/ \E i \in DOMAIN journal :
          /\ FirstLine(i, own[w], p)
          /\ Reverts(journal[i].act, journal[i].stamp, p, base[w][p])
    \/ /\ \A i \in DOMAIN journal : ~FileLine(i, own[w], p)
       /\ \/ disk[p] = base[w][p]
          \/ /\ pc[w] = "record"
             /\ change[w].path = p
             /\ Reverts(change[w].act, change[w].stamp, p, base[w][p])

\* write_file_tracked copies, writes and journals in this order so that at every
\* point of a run without faults - in the middle of a write too - the journal and
\* the backups suffice to restore each file.
Recoverable ==
    \A w \in Workers :
        own[w] # NoRun /\ faults[w] = {} /\ pc[w] \in {"run", "write", "record", "error"}
            => \A p \in Paths : Kept(w, p)

\* failure_message tells the truth: when a run without faults reports that its
\* changes "were rolled back", every file is what it was when the run began.
HonestRollback ==
    \A w \in Workers :
        pc[w] = "ended" /\ report[w] = "rolledBack" /\ faults[w] = {}
            => disk = base[w]

=============================================================================
