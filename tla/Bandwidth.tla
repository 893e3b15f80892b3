------------------------------ MODULE Bandwidth ------------------------------
(* The monthly bandwidth meter of one site: the ledger, the access logs it     *)
(* follows by offset and inode, the monthly reset of the command line, and     *)
(* what happens to the logs meanwhile: the web server appends, logrotate       *)
(* truncates or replaces, the size limit of the panel keeps the end of a log.  *)
(*                                                                             *)
(* A log is a sequence of cells, two to a line: the head, which has the date,  *)
(* and the end, which has the newline.  The bytes in a ledger are modelled by  *)
(* how often each line has been added to them.                                 *)
EXTENDS Integers, Sequences, FiniteSets, FiniteSetsExt

CONSTANTS
    Paths,       \* candidate log paths, 1 is looked for first
    MaxLines,    \* bound: lines served
    MaxMonth,    \* bound: months
    MaxEvents,   \* bound: rotations, trims, new logs, resets,
                 \* overlaps and failed reads of the ledger
    ChunkCells,  \* MAX_CHUNK_BYTES
    FirstCells,  \* MAX_FIRST_SCAN_BYTES
    KeepCells,   \* max_size_mb of the log retention
    Inodes,      \* inode numbers, taken again after two rotations
    None

ASSUME MeterAssumption ==
    /\ Paths \subseteq Nat \ {0} /\ 1 \in Paths
    /\ MaxLines \in Nat /\ MaxMonth \in Nat \ {0} /\ MaxEvents \in Nat
    /\ ChunkCells \in Nat /\ ChunkCells >= 2
    /\ FirstCells \in Nat /\ KeepCells \in Nat
    /\ 0 \notin Inodes /\ Inodes # {}
    /\ None \notin Nat

VARIABLES
    log,      \* [Paths -> log file]: does it exist, its inode, its cells
    serving,  \* the log the web server writes
    open,     \* the web server has written the head of a line, not its end
    month,    \* the calendar month
    dated,    \* the month of each line served so far
    ledger,   \* bandwidth/<domain>.json
    meter,    \* the refresh at work, alone in its process under LEDGER_LOCK
    other,    \* the refresh of another process, stopped half way
    reset,    \* the monthly reset under way, in a process of its own
    trim,     \* the size limit at work on a log
    events,   \* how much of MaxEvents has happened
    upset     \* history: what the meter cannot make up for

vars == <<log, serving, open, month, dated, ledger, meter, other, reset, trim,
          events, upset>>

Lines  == 1..MaxLines
Months == 1..MaxMonth
Cells  == Lines \X {"head", "end"}
Upsets == {"rotate", "race", "trim", "switch", "turn", "reset", "window",
           "overlap", "unread"}

\* A ledger that does not load is the default one: no month, no log.
Fresh == [period |-> 0, counted |-> [l \in Lines |-> 0], path |-> 0,
          offset |-> 0, inode |-> 0]

Spend(what) ==
    /\ events < MaxEvents
    /\ events' = events + 1
    /\ upset' = upset \cup what

\* first_existing_log
Existing == {p \in Paths : log[p].there}
First == CHOOSE p \in Existing : \A q \in Existing : p <= q

\* {site_home}/logs/access.log, the first candidate.
Home == 1

-----------------------------------------------------------------------------
(* The web server and the logs *)

AppendCell(c) == log' = [log EXCEPT ![serving].text = Append(@, c)]

\* A line reaches the file in two writes, the newline with the second.
ServeHead ==
    /\ Len(dated) < MaxLines
    /\ ~open
    /\ open' = TRUE
    /\ dated' = Append(dated, month)
    /\ AppendCell(<<Len(dated) + 1, "head">>)
    /\ UNCHANGED <<serving, month, ledger, meter, other, reset, trim, events, upset>>

ServeEnd ==
    /\ open
    /\ open' = FALSE
    /\ AppendCell(<<Len(dated), "end">>)
    /\ UNCHANGED <<serving, month, dated, ledger, meter, other, reset, trim, events,
                   upset>>

\* The months in which a refresh is under way are told apart: it has read the
\* month before it got the lock.
MonthTurns ==
    /\ month < MaxMonth
    /\ month' = month + 1
    /\ upset' = IF meter.pc = "idle" /\ other.pc = "idle" THEN upset
                 ELSE upset \cup {"turn"}
    /\ UNCHANGED <<log, serving, open, dated, ledger, meter, other, reset, trim, events>>

\* The snippet of write_logrotate_snippet, for the log in the home of the site:
\* copytruncate, the inode stays.
CopyTruncate ==
    /\ log[Home].text # <<>>
    /\ log' = [log EXCEPT ![Home].text = <<>>]
    /\ Spend({"rotate"})
    /\ UNCHANGED <<serving, open, month, dated, ledger, meter, other, reset, trim>>

\* The rotation of the distribution or of the web server: a new file, whose
\* inode number may be that of an older log.  A line begun is finished in the
\* file that is put away.  A refresh between its stat and its open of the log
\* is told apart.
RenameRotate ==
    /\ \E i \in Inodes \ {log[serving].inode} :
          log' = [log EXCEPT ![serving] = [there |-> TRUE, inode |-> i,
                                           text |-> <<>>]]
    /\ open' = FALSE
    /\ Spend({"rotate"} \cup IF "read" \in {meter.pc, other.pc} THEN {"race"} ELSE {})
    /\ UNCHANGED <<serving, month, dated, ledger, meter, other, reset, trim>>

\* ensure_site_log_files: an empty log in the home of the site, where the meter
\* looks first.
NewLog ==
    /\ ~log[Home].there
    /\ \E i \in Inodes :
          log' = [log EXCEPT ![Home] = [there |-> TRUE, inode |-> i,
                                        text |-> <<>>]]
    /\ serving' \in {serving, Home}
    /\ Spend({"switch"})
    /\ UNCHANGED <<open, month, dated, ledger, meter, other, reset, trim>>

-----------------------------------------------------------------------------
(* truncate_oversized: read the end of the log, then write it over the log *)

NoTrim == [pc |-> "idle", buf |-> <<>>]

\* The end of a log, without the line it begins in.
Kept(t) ==
    LET s == SubSeq(t, Len(t) - KeepCells + 1, Len(t))
        ends == {k \in DOMAIN s : s[k][2] = "end"}
    IN  IF ends = {} THEN s
        ELSE SubSeq(s, (CHOOSE k \in ends : \A e \in ends : k <= e) + 1, Len(s))

TrimRead ==
    /\ trim.pc = "idle"
    /\ log[Home].there
    /\ Len(log[Home].text) > KeepCells
    /\ trim' = [pc |-> "truncate", buf |-> Kept(log[Home].text)]
    /\ Spend({"trim"})
    /\ UNCHANGED <<log, serving, open, month, dated, ledger, meter, other, reset>>

TrimTruncate ==
    /\ trim.pc = "truncate"
    /\ log' = [log EXCEPT ![Home].text = <<>>]
    /\ trim' = [trim EXCEPT !.pc = "write"]
    /\ UNCHANGED <<serving, open, month, dated, ledger, meter, other, reset, events,
                   upset>>

\* What was served since the truncation is written over.
TrimWrite ==
    /\ trim.pc = "write"
    /\ log' = [log EXCEPT ![Home].text =
                  trim.buf \o SubSeq(@, Len(trim.buf) + 1, Len(@))]
    /\ trim' = NoTrim
    /\ UNCHANGED <<serving, open, month, dated, ledger, meter, other, reset, events,
                   upset>>

-----------------------------------------------------------------------------
(* site_month_bytes *)

NoMeter == [pc |-> "idle", period |-> 1, ledger |-> Fresh, len |-> 0,
            first |-> FALSE]

\* current_period, by the caller, before LEDGER_LOCK.
RefreshBegin ==
    /\ meter.pc = "idle"
    /\ meter' = [NoMeter EXCEPT !.pc = "stat", !.period = month]
    /\ UNCHANGED <<log, serving, open, month, dated, ledger, other, reset, trim, events, upset>>

\* LEDGER_LOCK is one process's own: while the panel refreshes, `cpn site create`
\* refreshes the ledger in the process of the command line.
OverlapBegin ==
    /\ meter.pc # "idle" /\ other.pc = "idle"
    /\ other' = meter
    /\ meter' = [NoMeter EXCEPT !.pc = "stat", !.period = month]
    /\ Spend({"overlap"})
    /\ UNCHANGED <<log, serving, open, month, dated, ledger, reset, trim>>

\* The other process goes on where it stopped.
OtherGoesOn ==
    /\ other.pc # "idle"
    /\ meter' = other /\ other' = meter
    /\ UNCHANGED <<log, serving, open, month, dated, ledger, reset, trim, events,
                   upset>>

\* A file that is missing or torn, or cannot be read just now, is a new ledger.
Loads == (IF ledger = None THEN {} ELSE {ledger}) \cup {Fresh}

\* Variants of Aligned: a log that did not grow is taken for a rotated one; the
\* total goes with the log; the month of the ledger is left behind.
AlignedNotGrown(old, period, p, len, ino) ==
    [period  |-> period,
     counted |-> IF old.period # period THEN Fresh.counted ELSE old.counted,
     path    |-> p,
     offset  |-> IF old.path = p /\ old.inode = ino /\ len > old.offset
                 THEN old.offset ELSE 0,
     inode   |-> ino]

AlignedAnew(old, period, p, len, ino) ==
    IF old.path = p /\ old.period = period /\ old.inode = ino /\ len >= old.offset
    THEN old
    ELSE [Fresh EXCEPT !.period = period, !.path = p, !.inode = ino]

AlignedLate(old, period, p, len, ino) ==
    [old EXCEPT !.path = p, !.inode = ino]

\* The ledger as scan_log sets it before it opens the log: another month or
\* another log begin at zero, a log that was rotated is read from its start.
Aligned(old, period, p, len, ino) ==
    LET known == old.path # 0
        moved == known /\ old.path # p
        again == known /\ (len < old.offset \/ (old.inode # 0 /\ old.inode # ino))
    IN  [period  |-> period,
         counted |-> IF old.period # period \/ moved THEN Fresh.counted
                     ELSE old.counted,
         path    |-> p,
         offset  |-> IF ~known THEN Max({len - FirstCells, 0})
                     ELSE IF moved \/ again THEN 0 ELSE old.offset,
         inode   |-> ino]

Stat ==
    /\ meter.pc = "stat"
    /\ Existing # {}
    /\ \E old \in Loads :
          LET p   == First
              len == Len(log[p].text)
              new == Aligned(old, meter.period, p, len, log[p].inode)
          IN  /\ meter' = [meter EXCEPT !.pc = "read", !.ledger = new,
                                        !.len = len, !.first = old.path = 0]
              /\ upset' = upset
                    \cup (IF old.path = 0 /\ new.offset > 0 THEN {"window"} ELSE {})
                    \cup (IF ledger \in {old, None} THEN {} ELSE {"unread"})
              /\ events' = IF ledger \in {old, None} THEN events ELSE events + 1
    /\ events' <= MaxEvents
    /\ UNCHANGED <<log, serving, open, month, dated, ledger, other, reset, trim>>

\* No log, or an error: the ledger stays as it is.
RefreshFails ==
    /\ meter.pc \in {"stat", "read", "save"}
    /\ meter' = NoMeter
    /\ UNCHANGED <<log, serving, open, month, dated, ledger, other, reset, trim, events, upset>>

\* The cells from..to of a log that make whole lines of the month.
Whole(t, from, to, m) ==
    {l \in Lines : /\ l \in DOMAIN dated /\ dated[l] = m
                   /\ \E k \in from..(to - 1) :
                         t[k] = <<l, "head">> /\ t[k + 1] = <<l, "end">>}

\* The offset after the lines read: a line without its newline is left for the
\* next refresh, unless it fills a chunk.  The variant takes it at once.
Ends(t, from, to) == {k \in from..to : t[k][2] = "end"}

StopAtOnce(t, from, to, skip) == to

Stop(t, from, to, skip) ==
    LET ends == Ends(t, from + 1, to)
    IN  IF ends # {} THEN Max(ends)
        ELSE IF to - from = ChunkCells THEN to ELSE skip

\* The first scan skips the line it begins in.
Skip(t, from, to, first) ==
    LET ends == Ends(t, from + 1, to)
    IN  IF ~first \/ from = 0 THEN from ELSE IF ends = {} THEN to ELSE Min(ends)

\* What is read is bounded by the length of the stat and by the chunk.
Read ==
    LET g    == meter.ledger
        t    == log[g.path].text
        want == Min({meter.len - Min({g.offset, meter.len}), ChunkCells})
        to   == Max({g.offset, Min({Len(t), g.offset + want})})
        skip == Skip(t, g.offset, to, meter.first)
        stop == Stop(t, g.offset, to, skip)
    IN  /\ meter.pc = "read"
        /\ meter' = [meter EXCEPT
              !.pc = "save",
              !.ledger.offset = stop,
              !.ledger.counted = [l \in Lines |->
                  IF l \in Whole(t, skip + 1, stop, meter.period)
                  THEN Min({@[l] + 1, 2}) ELSE @[l]]]
        /\ UNCHANGED <<log, serving, open, month, dated, ledger, other, reset, trim,
                       events, upset>>

\* tmp, then rename: the ledger is the old one or the new one.  Two refreshes
\* that save at once share the one temporary name: the file may be the other's,
\* or torn.
Saved == {meter.ledger} \cup
         IF other.pc = "save" THEN {other.ledger, None} ELSE {}

Save ==
    /\ meter.pc = "save"
    /\ ledger' \in Saved
    /\ meter' = NoMeter
    /\ UNCHANGED <<log, serving, open, month, dated, other, reset, trim, events, upset>>

-----------------------------------------------------------------------------
(* reset_monthly_counters, in the process of the command line *)

NoReset == [pc |-> "idle", ledger |-> Fresh]

\* The month is that of its start, which may be over when a ledger is read.
ResetRead ==
    /\ reset.pc = "idle"
    /\ ledger # None
    /\ \E m \in 1..month :
          /\ ledger.period \notin {0, m}
          /\ reset' = [pc |-> "truncate",
                       ledger |-> [ledger EXCEPT !.counted = Fresh.counted,
                                                 !.period = m, !.offset = 0]]
    /\ Spend({"reset"})
    /\ UNCHANGED <<log, serving, open, month, dated, ledger, meter, other, trim>>

ResetTruncate ==
    /\ reset.pc = "truncate"
    /\ ledger' = None
    /\ reset' = [reset EXCEPT !.pc = "write"]
    /\ UNCHANGED <<log, serving, open, month, dated, meter, other, trim, events, upset>>

ResetWrite ==
    /\ reset.pc = "write"
    /\ ledger' = reset.ledger
    /\ reset' = NoReset
    /\ UNCHANGED <<log, serving, open, month, dated, meter, other, trim, events, upset>>

\* The command ends half way; the error of the write is ignored.
ResetDies ==
    /\ reset.pc # "idle"
    /\ reset' = NoReset
    /\ UNCHANGED <<log, serving, open, month, dated, ledger, meter, other, trim, events, upset>>

-----------------------------------------------------------------------------

\* The meter begins with a site whose log is there; its ledger is new, or was
\* left torn by a reset.
Init ==
    /\ serving \in Paths
    /\ \E i \in Inodes :
          log = [p \in Paths |-> [there |-> p = serving, inode |-> i,
                                 text |-> <<>>]]
    /\ open = FALSE /\ month = 1 /\ dated = <<>>
    /\ ledger \in {Fresh, None}
    /\ meter = NoMeter /\ other = NoMeter /\ reset = NoReset /\ trim = NoTrim
    /\ events = 0 /\ upset = {}

WebServer == ServeHead \/ ServeEnd \/ MonthTurns \/ CopyTruncate
             \/ RenameRotate \/ NewLog
Trim  == TrimRead \/ TrimTruncate \/ TrimWrite
Meter == RefreshBegin \/ Stat \/ Read \/ Save \/ RefreshFails
         \/ OverlapBegin \/ OtherGoesOn
Reset == ResetRead \/ ResetTruncate \/ ResetWrite \/ ResetDies

Next == WebServer \/ Trim \/ Meter \/ Reset

Spec == Init /\ [][Next]_vars

-----------------------------------------------------------------------------

LedgerType == [period: Months \cup {0}, counted: [Lines -> 0..2],
               path: Paths \cup {0}, offset: Nat, inode: Inodes \cup {0}]

MeterType == [pc: {"idle", "stat", "read", "save"}, period: Months,
              ledger: LedgerType, len: Nat, first: BOOLEAN]

\* The type invariant; a line is added to a ledger at most twice by the model.
TypeOK ==
    /\ log \in [Paths -> [there: BOOLEAN, inode: Inodes, text: Seq(Cells)]]
    /\ serving \in Paths /\ log[serving].there
    /\ open \in BOOLEAN
    /\ month \in Months
    /\ dated \in Seq(Months) /\ Len(dated) <= MaxLines
    /\ ledger \in LedgerType \cup {None}
    /\ {meter, other} \subseteq MeterType
    /\ \A m \in {meter, other} :
          m.pc \in {"read", "save"} => /\ m.ledger.path \in Existing
                                      /\ m.ledger.period = m.period
    /\ reset \in [pc: {"idle", "truncate", "write"}, ledger: LedgerType]
    /\ trim \in [pc: {"idle", "truncate", "write"}, buf: Seq(Cells)]
    /\ events \in 0..MaxEvents
    /\ upset \subseteq Upsets

\* The header of package_bandwidth.rs: a refresh reads only what was appended.
\* Whatever is rotated, put away or replaced, whatever month it is, however a
\* reset of the command line meets a refresh, and though two processes refresh at
\* once, no line is added twice to the total of a month.  Two cases are left out:
\* a log cut by the size limit, and a log replaced between the stat and the open
\* of one refresh.
CountedOnce ==
    ledger # None /\ upset \cap {"trim", "race"} = {}
        => \A l \in Lines : ledger.counted[l] <= 1

\* The offset of a ledger is where its total stands: if no log was rotated, cut
\* or replaced, a complete line of its month is in the total exactly if it ends
\* before the offset, also across months, after a reset that rewinds the offset,
\* after a read of the ledger that failed, and whichever of two refreshes of two
\* processes is saved last.
Frontier ==
    ledger # None /\ upset \subseteq {"reset", "overlap", "unread"} /\ ledger.path # 0
        => \A k \in DOMAIN log[ledger.path].text :
              LET c == log[ledger.path].text[k]
              IN  c[2] = "end" /\ dated[c[1]] = ledger.period
                    => ledger.counted[c[1]] = IF k <= ledger.offset THEN 1 ELSE 0

\* The total survives log rotation: while a ledger stays with its month and its
\* log, no line leaves its total.  It does not hold once a reset, or a refresh
\* that began earlier in another process, past LEDGER_LOCK, writes over it, or a
\* refresh takes a ledger it cannot read for a new one.
TotalKept ==
    [][ /\ None \notin {ledger, ledger'}
        /\ upset' \cap {"reset", "overlap", "unread"} = {}
        => (/\ ledger'.period = ledger.period
            /\ ledger'.path = ledger.path
            => \A l \in Lines : ledger'.counted[l] >= ledger.counted[l]) ]_ledger

\* The same header without the exceptions: "Refreshing only reads the bytes
\* appended since the last refresh".  The size limit keeps the end of a log, a
\* shorter log is read from its start, and the lines kept are added again.
LineCountedOnce ==
    ledger # None /\ "race" \notin upset
        => \A l \in Lines : ledger.counted[l] <= 1

=============================================================================
