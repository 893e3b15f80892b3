--------------------------- MODULE Bandwidth_proofs ---------------------------
(* That no line is added twice to the total of a month, that the offset is      *)
(* where the total stands, and that a total survives the rotation of the logs,  *)
(* for any logs, lines, months, chunks and number of rotations and resets.      *)
EXTENDS Bandwidth, FiniteSetTheorems, SequenceTheorems, WellFoundedInduction, TLAPS

-----------------------------------------------------------------------------
(* The least and the greatest of a set of numbers                             *)

LEMMA Least ==
  ASSUME NEW S \in SUBSET Nat, S # {}
  PROVE  \E x \in S : \A y \in S : x <= y
  <1> DEFINE T == {0..x : x \in S}
  <1>1. T \subseteq FiniteSubsetsOf(Nat) /\ T # {}
    <2>1. \A x \in S : IsFiniteSet(0..x) /\ 0..x \in SUBSET Nat
      BY FS_Interval
    <2> QED
      BY <2>1, Zenon DEF FiniteSubsetsOf
  <1>2. IsWellFoundedOn(StrictSubsetOrdering(Nat), FiniteSubsetsOf(Nat))
    BY FS_StrictSubsetOrderingWellFounded
  <1>3. PICK A \in T : \A B \in T : ~(<<B, A>> \in StrictSubsetOrdering(Nat))
    <2> HIDE DEF T
    <2> QED
      BY <1>1, <1>2, WFMin
  <1>4. PICK x \in S : A = 0..x
    BY <1>3
  <1>5. ASSUME NEW y \in S, y < x PROVE FALSE
    <2>1. 0..y \in T /\ 0..y \subseteq A /\ x \in A /\ x \notin 0..y /\ A \subseteq Nat /\ 0..y \subseteq Nat
      BY <1>4, <1>5
    <2>2. <<0..y, A>> \in StrictSubsetOrdering(Nat)
      BY <2>1 DEF StrictSubsetOrdering
    <2> QED
      BY <1>3, <2>1, <2>2
  <1> QED
    BY <1>5

LEMMA MinOf ==
  ASSUME NEW S \in SUBSET Nat, S # {}
  PROVE  Min(S) \in S /\ \A y \in S : Min(S) <= y
  BY Least DEF Min

LEMMA MaxOf ==
  ASSUME NEW n \in Nat, NEW S \in SUBSET (0..n), S # {}
  PROVE  Max(S) \in S /\ \A y \in S : Max(S) >= y
  <1> DEFINE T == {n - y : y \in S}
  <1>1. T \subseteq Nat /\ T # {}
    OBVIOUS
  <1>2. PICK t \in T : \A y \in T : t <= y
    <2> HIDE DEF T
    <2> QED
      BY <1>1, Least
  <1>3. n - t \in S /\ \A y \in S : n - t >= y
    BY <1>2
  <1> QED
    BY <1>3 DEF Max

LEMMA MaxTwo == \A a, b \in Int : Max({a, b}) = IF a >= b THEN a ELSE b
  <1> SUFFICES ASSUME NEW a \in Int, NEW b \in Int PROVE Max({a, b}) = IF a >= b THEN a ELSE b
    OBVIOUS
  <1>1. CASE a >= b
    BY <1>1 DEF Max
  <1>2. CASE ~(a >= b)
    BY <1>2 DEF Max
  <1> QED
    BY <1>1, <1>2

LEMMA MinTwo == \A a, b \in Int : Min({a, b}) = IF a <= b THEN a ELSE b
  <1> SUFFICES ASSUME NEW a \in Int, NEW b \in Int PROVE Min({a, b}) = IF a <= b THEN a ELSE b
    OBVIOUS
  <1>1. CASE a <= b
    BY <1>1 DEF Min
  <1>2. CASE ~(a <= b)
    BY <1>2 DEF Min
  <1> QED
    BY <1>1, <1>2

-----------------------------------------------------------------------------
(* Types                                                                      *)

LogType   == [there: BOOLEAN, inode: Inodes, text: Seq(Cells)]
ResetType == [pc: {"idle", "truncate", "write"}, ledger: LedgerType]
TrimType  == [pc: {"idle", "truncate", "write"}, buf: Seq(Cells)]

\* A line begun is the last one served.
OpenOK == open => Len(dated) >= 1

LEMMA Initials ==
  /\ 1 \in Months /\ Months \subseteq Nat \ {0} /\ Lines \subseteq Nat
  /\ Fresh \in LedgerType /\ Fresh.period = 0 /\ Fresh.path = 0 /\ Fresh.offset = 0 /\ Fresh.inode = 0
  /\ \A l \in Lines : Fresh.counted[l] = 0
  /\ NoMeter \in MeterType /\ NoMeter.pc = "idle" /\ NoMeter.ledger = Fresh
  /\ NoReset \in ResetType /\ NoReset.pc = "idle" /\ NoReset.ledger = Fresh
  /\ NoTrim \in TrimType /\ NoTrim.pc = "idle"
  <1>1. 1 \in Months /\ Months \subseteq Nat \ {0} /\ Lines \subseteq Nat
    BY MeterAssumption DEF Months, Lines
  <1>2. /\ Fresh \in LedgerType /\ Fresh.period = 0 /\ Fresh.path = 0 /\ Fresh.offset = 0 /\ Fresh.inode = 0
        /\ \A l \in Lines : Fresh.counted[l] = 0
    BY DEF Fresh, LedgerType
  <1>3. /\ NoReset \in ResetType /\ NoReset.pc = "idle" /\ NoReset.ledger = Fresh
        /\ NoMeter \in MeterType /\ NoMeter.pc = "idle" /\ NoMeter.ledger = Fresh
    <2> HIDE DEF Fresh
    <2> QED
      BY <1>1, <1>2 DEF NoReset, NoMeter, ResetType, MeterType
  <1>4. NoTrim \in TrimType /\ NoTrim.pc = "idle"
    BY EmptySeq DEF NoTrim, TrimType
  <1> QED
    BY <1>1, <1>2, <1>3, <1>4

LEMMA Types ==
  TypeOK <=> /\ log \in [Paths -> LogType]
             /\ serving \in Paths /\ log[serving].there
             /\ open \in BOOLEAN /\ month \in Months
             /\ dated \in Seq(Months) /\ Len(dated) <= MaxLines
             /\ ledger \in LedgerType \cup {None}
             /\ meter \in MeterType
             /\ meter.pc \in {"read", "save"} => /\ meter.ledger.path \in Existing
                                                 /\ meter.ledger.period = meter.period
             /\ other \in MeterType
             /\ other.pc \in {"read", "save"} => /\ other.ledger.path \in Existing
                                                 /\ other.ledger.period = other.period
             /\ reset \in ResetType /\ trim \in TrimType
             /\ events \in 0..MaxEvents /\ upset \subseteq Upsets
  BY DEF TypeOK, LogType, ResetType, TrimType

LEMMA TypesNext ==
  ASSUME log' \in [Paths -> LogType],
         serving' \in Paths, log'[serving'].there,
         open' \in BOOLEAN, month' \in Months,
         dated' \in Seq(Months), Len(dated') <= MaxLines,
         ledger' \in LedgerType \cup {None}, meter' \in MeterType,
         meter'.pc \in {"read", "save"} => /\ meter'.ledger.path \in Existing'
                                           /\ meter'.ledger.period = meter'.period,
         other' \in MeterType,
         other'.pc \in {"read", "save"} => /\ other'.ledger.path \in Existing'
                                           /\ other'.ledger.period = other'.period,
         reset' \in ResetType, trim' \in TrimType,
         events' \in 0..MaxEvents, upset' \subseteq Upsets
  PROVE  TypeOK'
  BY DEF TypeOK, LogType, ResetType, TrimType

\* A log gets another text, or is another log.
LEMMA TextSet ==
  ASSUME log \in [Paths -> LogType], NEW p \in Paths, NEW t \in Seq(Cells),
         log' = [log EXCEPT ![p].text = t]
  PROVE  /\ log' \in [Paths -> LogType] /\ Existing' = Existing
         /\ log'[p].text = t /\ log'[p].there = log[p].there /\ log'[p].inode = log[p].inode
         /\ \A q \in Paths \ {p} : log'[q] = log[q]
  <1>1. /\ log' \in [Paths -> LogType]
        /\ log'[p].text = t /\ log'[p].there = log[p].there /\ log'[p].inode = log[p].inode
        /\ \A q \in Paths \ {p} : log'[q] = log[q]
    BY DEF LogType
  <1> QED
    BY <1>1 DEF Existing

LEMMA LogSet ==
  ASSUME log \in [Paths -> LogType], NEW p \in Paths, NEW i \in Inodes,
         log' = [log EXCEPT ![p] = [there |-> TRUE, inode |-> i, text |-> <<>>]]
  PROVE  /\ log' \in [Paths -> LogType] /\ Existing' = Existing \cup {p}
         /\ log'[p].text = <<>> /\ log'[p].there /\ log'[p].inode = i
         /\ \A q \in Paths \ {p} : log'[q] = log[q]
  <1>1. /\ log' \in [Paths -> LogType]
        /\ log'[p].text = <<>> /\ log'[p].there /\ log'[p].inode = i
        /\ \A q \in Paths \ {p} : log'[q] = log[q]
    BY EmptySeq DEF LogType
  <1> QED
    BY <1>1 DEF Existing

\* What is appended goes to the log the web server writes.
LEMMA Appended ==
  ASSUME TypeOK, NEW c \in Cells, AppendCell(c)
  PROVE  /\ log' \in [Paths -> LogType] /\ Existing' = Existing
         /\ log'[serving].text = Append(log[serving].text, c)
         /\ log'[serving].there = log[serving].there /\ log'[serving].inode = log[serving].inode
         /\ \A q \in Paths \ {serving} : log'[q] = log[q]
  <1>1. log \in [Paths -> LogType] /\ serving \in Paths /\ log[serving].text \in Seq(Cells)
    BY Types DEF LogType
  <1>0. \A s \in Seq(Cells) : Append(s, c) \in Seq(Cells)
    OBVIOUS
  <1>2. PICK t \in Seq(Cells) : t = Append(log[serving].text, c)
    BY <1>0, <1>1
  <1>3. log' = [log EXCEPT ![serving].text = t]
    BY <1>2 DEF AppendCell
  <1> QED
    BY <1>1, <1>2, <1>3, TextSet

LEMMA HeadServed ==
  ASSUME TypeOK, ServeHead
  PROVE  /\ <<Len(dated) + 1, "head">> \in Cells /\ Len(dated) + 1 \in Lines
         /\ AppendCell(<<Len(dated) + 1, "head">>)
         /\ dated' \in Seq(Months) /\ Len(dated') = Len(dated) + 1 /\ dated'[Len(dated) + 1] = month
         /\ \A l \in 1..Len(dated) : dated'[l] = dated[l]
         /\ ~open /\ open' = TRUE
         /\ UNCHANGED <<serving, month, ledger, meter, other, reset, trim, events, upset>>
  <1>1. dated \in Seq(Months) /\ month \in Months
    BY Types
  <1>2. Len(dated) + 1 \in Lines
    BY <1>1, MeterAssumption DEF ServeHead, Lines
  <1> QED
    BY <1>1, <1>2 DEF ServeHead, Cells

LEMMA EndServed ==
  ASSUME TypeOK, OpenOK, ServeEnd
  PROVE  /\ <<Len(dated), "end">> \in Cells /\ Len(dated) \in Lines
         /\ AppendCell(<<Len(dated), "end">>)
         /\ open /\ open' = FALSE
         /\ UNCHANGED <<serving, month, dated, ledger, meter, other, reset, trim, events, upset>>
  <1>1. dated \in Seq(Months) /\ Len(dated) <= MaxLines
    BY Types
  <1>2. Len(dated) \in Lines
    BY <1>1, MeterAssumption DEF OpenOK, ServeEnd, Lines
  <1> QED
    BY <1>2 DEF ServeEnd, Cells

LEMMA Spent ==
  ASSUME TypeOK, NEW what \in SUBSET Upsets, Spend(what)
  PROVE  events' \in 0..MaxEvents /\ upset' \subseteq Upsets /\ upset' = upset \cup what
  BY Types, MeterAssumption DEF Spend

\* The log the meter looks at.
LEMMA FirstOf ==
  ASSUME TypeOK, Existing # {}
  PROVE  First \in Existing /\ First \in Paths /\ First # 0 /\ log[First] \in LogType
  <1>1. Existing \in SUBSET Nat /\ Existing \subseteq Paths /\ 0 \notin Paths
    BY MeterAssumption DEF Existing
  <1>2. First \in Existing
    BY <1>1, Least DEF First
  <1> QED
    BY <1>1, <1>2, Types

\* The ledger a refresh begins with, from the one it loaded.
Begins(old, new, period, p, len, ino) ==
  LET moved == old.path # 0 /\ old.path # p
      again == len < old.offset \/ (old.inode # 0 /\ old.inode # ino)
  IN  /\ new.period = period /\ new.path = p /\ new.inode = ino
      /\ new.counted = IF old.period # period \/ moved THEN Fresh.counted ELSE old.counted
      /\ old.path = 0 => new.offset = Max({len - FirstCells, 0})
      /\ old.path # 0 => new.offset = IF moved \/ again THEN 0 ELSE old.offset

LEMMA AlignedType ==
  ASSUME NEW old \in LedgerType, NEW period \in Months, NEW p \in Paths, NEW len \in Nat, NEW ino \in Inodes
  PROVE  \E new \in LedgerType : /\ new = Aligned(old, period, p, len, ino)
                                 /\ Begins(old, new, period, p, len, ino)
  <1> DEFINE known == old.path # 0
             moved == known /\ old.path # p
             again == known /\ (len < old.offset \/ (old.inode # 0 /\ old.inode # ino))
             counted == IF old.period # period \/ moved THEN Fresh.counted ELSE old.counted
             offset  == IF ~known THEN Max({len - FirstCells, 0})
                        ELSE IF moved \/ again THEN 0 ELSE old.offset
  <1>1. counted \in [Lines -> 0..2]
    BY Initials DEF LedgerType
  <1>2. offset \in Nat
    <2>1. Max({len - FirstCells, 0}) \in Nat
      BY MaxTwo, MeterAssumption
    <2> QED
      BY <2>1 DEF LedgerType
  <1>3. Aligned(old, period, p, len, ino)
          = [period |-> period, counted |-> counted, path |-> p, offset |-> offset, inode |-> ino]
    BY DEF Aligned
  <1>4. /\ counted = IF old.period # period \/ moved THEN Fresh.counted ELSE old.counted
        /\ ~known => offset = Max({len - FirstCells, 0})
        /\ known => offset = IF moved \/ again THEN 0 ELSE old.offset
    OBVIOUS
  <1> HIDE DEF counted, offset
  <1>5. PICK new \in LedgerType :
          new = [period |-> period, counted |-> counted, path |-> p, offset |-> offset, inode |-> ino]
    BY <1>1, <1>2 DEF LedgerType
  <1>6. Begins(old, new, period, p, len, ino)
    BY <1>4, <1>5 DEF Begins
  <1> QED
    BY <1>3, <1>5, <1>6

LEMMA LoadsType ==
  ASSUME TypeOK, NEW old \in Loads
  PROVE  /\ old \in LedgerType
         /\ old = Fresh \/ (old = ledger /\ ledger # None)
  BY Types, Initials DEF Loads

LEMMA Stated ==
  ASSUME TypeOK, Stat
  PROVE  \E old \in Loads, p \in Existing, len \in Nat, ino \in Inodes :
           /\ p \in Paths /\ p # 0 /\ p = First /\ len = Len(log[p].text) /\ ino = log[p].inode
           /\ meter.pc = "stat"
           /\ meter' \in MeterType /\ meter'.pc = "read" /\ meter'.period = meter.period
           /\ meter'.len = len /\ meter'.first = (old.path = 0)
           /\ meter'.ledger \in LedgerType
           /\ Begins(old, meter'.ledger, meter.period, p, len, ino)
           /\ upset \subseteq upset' /\ upset' \subseteq upset \cup {"window", "unread"}
           /\ "window" \notin upset' => ~(old.path = 0 /\ meter'.ledger.offset > 0)
           /\ "unread" \notin upset' => ledger \in {old, None}
           /\ events' \in 0..MaxEvents
           /\ UNCHANGED <<log, serving, open, month, dated, ledger, other, reset, trim>>
  <1>1. Existing # {} /\ meter.pc = "stat" /\ meter \in MeterType
    BY Types DEF Stat
  <1>2. PICK p \in Existing : p = First /\ p \in Paths /\ p # 0 /\ log[p] \in LogType
    BY <1>1, FirstOf
  <1>3. PICK len \in Nat, ino \in Inodes : len = Len(log[p].text) /\ ino = log[p].inode
    BY <1>2 DEF LogType
  <1>4. PICK old \in Loads :
          /\ meter' = [meter EXCEPT !.pc = "read",
                                    !.ledger = Aligned(old, meter.period, p, len, ino),
                                    !.len = len, !.first = (old.path = 0)]
          /\ upset' = upset
                \cup (IF old.path = 0 /\ Aligned(old, meter.period, p, len, ino).offset > 0
                      THEN {"window"} ELSE {})
                \cup (IF ledger \in {old, None} THEN {} ELSE {"unread"})
          /\ events' = IF ledger \in {old, None} THEN events ELSE events + 1
          /\ events' <= MaxEvents
          /\ UNCHANGED <<log, serving, open, month, dated, ledger, other, reset, trim>>
    BY <1>2, <1>3 DEF Stat
  <1>5. PICK new \in LedgerType : /\ new = Aligned(old, meter.period, p, len, ino)
                                  /\ Begins(old, new, meter.period, p, len, ino)
    <2>1. old \in LedgerType /\ meter.period \in Months
      BY <1>1, LoadsType DEF MeterType
    <2> QED
      BY <1>2, <2>1, AlignedType
  <1>6. PICK fresh \in BOOLEAN : fresh = (old.path = 0)
    OBVIOUS
  <1>7. meter' = [meter EXCEPT !.pc = "read", !.ledger = new, !.len = len, !.first = fresh]
    BY <1>4, <1>5, <1>6
  <1>8. /\ meter' \in MeterType /\ meter'.pc = "read" /\ meter'.period = meter.period
        /\ meter'.len = len /\ meter'.first = fresh /\ meter'.ledger = new
    BY <1>1, <1>7 DEF MeterType
  <1>9. /\ upset \subseteq upset' /\ upset' \subseteq upset \cup {"window", "unread"}
        /\ "window" \notin upset' => ~(old.path = 0 /\ new.offset > 0)
        /\ "unread" \notin upset' => ledger \in {old, None}
    BY <1>4, <1>5
  <1>10. events' \in 0..MaxEvents
    BY <1>4, Types
  <1> QED
    BY <1>1, <1>2, <1>3, <1>4, <1>5, <1>6, <1>8, <1>9, <1>10

\* Between where a refresh begins to read and where it stops.
StopsAt(t, from, to, first, skip, stop) ==
  /\ skip \in Nat /\ stop \in Nat /\ from <= skip /\ skip <= stop /\ stop <= to
  /\ ~first \/ from = 0 => skip = from
  /\ \A k \in Ends(t, from + 1, to) : k <= stop
  /\ Ends(t, from + 1, to) # {} => stop \in Ends(t, from + 1, to)
  /\ Ends(t, from + 1, to) = {} /\ to - from # ChunkCells => stop = skip

LEMMA SkipStop ==
  ASSUME NEW t, NEW from \in Nat, NEW to \in Nat, from <= to, NEW first \in BOOLEAN,
         NEW skip, skip = Skip(t, from, to, first), NEW stop, stop = Stop(t, from, to, skip)
  PROVE  StopsAt(t, from, to, first, skip, stop)
  <1> DEFINE ends == Ends(t, from + 1, to)
  <1>1. ends \subseteq from + 1 .. to /\ ends \in SUBSET (0..to) /\ ends \in SUBSET Nat
    BY DEF Ends
  <1>2. ends # {} => /\ Min(ends) \in ends /\ Max(ends) \in ends
                     /\ \A k \in ends : Min(ends) <= k /\ k <= Max(ends)
    <2> SUFFICES ASSUME ends # {}
                 PROVE  /\ Min(ends) \in ends /\ Max(ends) \in ends
                        /\ \A k \in ends : Min(ends) <= k /\ k <= Max(ends)
      OBVIOUS
    <2> HIDE DEF ends
    <2>1. Min(ends) \in ends /\ \A k \in ends : Min(ends) <= k
      BY <1>1, MinOf
    <2>2. Max(ends) \in ends /\ \A k \in ends : Max(ends) >= k
      BY <1>1, MaxOf
    <2> QED
      BY <1>1, <2>1, <2>2
  <1>3. skip = IF ~first \/ from = 0 THEN from ELSE IF ends = {} THEN to ELSE Min(ends)
    BY DEF Skip
  <1>4. stop = IF ends # {} THEN Max(ends) ELSE IF to - from = ChunkCells THEN to ELSE skip
    BY DEF Stop
  <1> HIDE DEF ends
  <1>5. skip \in Nat /\ stop \in Nat /\ from <= skip /\ skip <= stop /\ stop <= to
    <2>1. CASE ends = {}
      BY <1>1, <1>3, <1>4, <2>1
    <2>2. CASE ends # {}
      <3>1. /\ Min(ends) \in from + 1 .. to /\ Max(ends) \in from + 1 .. to /\ Min(ends) <= Max(ends)
        BY <1>1, <1>2, <2>2
      <3> QED
        BY <1>3, <1>4, <2>2, <3>1
    <2> QED
      BY <2>1, <2>2
  <1> QED
    BY <1>2, <1>3, <1>4, <1>5 DEF ends, StopsAt

\* How far a refresh may read.
LEMMA ReadTo ==
  ASSUME NEW offset \in Nat, NEW len \in Nat, NEW n \in Nat
  PROVE  LET want == Min({len - Min({offset, len}), ChunkCells})
             to   == Max({offset, Min({n, offset + want})})
         IN  to \in Nat /\ offset <= to /\ (to = offset \/ to <= n)
  <1>1. PICK rest \in Nat : rest = len - Min({offset, len})
    BY MinTwo
  <1>2. PICK want \in Nat : want = Min({rest, ChunkCells})
    BY MinTwo, MeterAssumption
  <1>3. PICK m \in Nat : m = Min({n, offset + want}) /\ m <= n
    BY MinTwo
  <1>4. PICK to \in Nat : to = Max({offset, m}) /\ offset <= to /\ (to = offset \/ to = m)
    BY MaxTwo
  <1> QED
    BY <1>1, <1>2, <1>3, <1>4

\* What a refresh does with the log: g is the ledger before, new after.
Reads(g, new, t, to, skip, stop) ==
  /\ g = meter.ledger /\ new = meter'.ledger /\ g.path \in Existing
  /\ g.path \in Paths /\ g.offset \in Nat
  /\ t = log[g.path].text
  /\ to = g.offset \/ to <= Len(t)
  /\ StopsAt(t, g.offset, to, meter.first, skip, stop)
  /\ new.period = g.period /\ new.path = g.path /\ new.inode = g.inode
  /\ new.offset = stop /\ g.period = meter.period
  /\ \A l \in Lines : new.counted[l] = IF l \in Whole(t, skip + 1, stop, g.period)
                                       THEN Min({g.counted[l] + 1, 2}) ELSE g.counted[l]
  /\ meter.pc = "read" /\ meter'.pc = "save" /\ meter' \in MeterType
  /\ meter'.period = meter.period
  /\ UNCHANGED <<log, serving, open, month, dated, ledger, other, reset, trim, events, upset>>

LEMMA ReadDone ==
  ASSUME TypeOK, Read
  PROVE  \E g \in LedgerType, new \in LedgerType, t \in Seq(Cells), to \in Nat, skip \in Nat, stop \in Nat :
            Reads(g, new, t, to, skip, stop)
  <1>1. PICK g \in LedgerType : g = meter.ledger
    BY Types DEF MeterType
  <1>2. /\ meter.pc = "read" /\ g.path \in Existing /\ g.path \in Paths /\ g.offset \in Nat
        /\ g.period = meter.period /\ meter \in MeterType /\ log[g.path] \in LogType
    BY <1>1, Types DEF Read, Existing, LedgerType
  <1>3. PICK t \in Seq(Cells) : t = log[g.path].text
    BY <1>2 DEF LogType
  <1> PICK want : want = Min({meter.len - Min({g.offset, meter.len}), ChunkCells})
    OBVIOUS
  <1>5. PICK to : to = Max({g.offset, Min({Len(t), g.offset + want})})
    OBVIOUS
  <1>6. to \in Nat /\ g.offset <= to /\ (to = g.offset \/ to <= Len(t))
    <2>1. meter.len \in Nat /\ Len(t) \in Nat
      BY <1>2 DEF MeterType
    <2> QED
      BY <1>2, <1>5, <2>1, ReadTo
  <1>7. meter.first \in BOOLEAN
    BY <1>2 DEF MeterType
  <1>8. PICK skip : skip = Skip(t, g.offset, to, meter.first)
    OBVIOUS
  <1>9. PICK stop : stop = Stop(t, g.offset, to, skip)
    OBVIOUS
  <1>10. StopsAt(t, g.offset, to, meter.first, skip, stop)
    BY <1>2, <1>6, <1>7, <1>8, <1>9, SkipStop
  <1>19. skip \in Nat /\ stop \in Nat
    BY <1>10 DEF StopsAt
  <1> DEFINE counted == [l \in Lines |-> IF l \in Whole(t, skip + 1, stop, meter.period)
                                         THEN Min({g.counted[l] + 1, 2}) ELSE g.counted[l]]
  <1>11. meter' = [meter EXCEPT !.pc = "save", !.ledger.offset = stop, !.ledger.counted = counted]
    BY <1>1, <1>3, <1>5, <1>8, <1>9 DEF Read
  <1>12. counted \in [Lines -> 0..2]
    <2>1. \A l \in Lines : g.counted[l] \in 0..2
      BY DEF LedgerType
    <2>2. \A l \in Lines : Min({g.counted[l] + 1, 2}) \in 0..2
      BY <2>1, MinTwo
    <2> QED
      BY <2>1, <2>2
  <1>13. \A l \in Lines : counted[l] = IF l \in Whole(t, skip + 1, stop, g.period)
                                       THEN Min({g.counted[l] + 1, 2}) ELSE g.counted[l]
    BY <1>2
  <1> HIDE DEF counted
  <1>14. PICK new \in LedgerType : new = [g EXCEPT !.offset = stop, !.counted = counted]
    BY <1>12, <1>19 DEF LedgerType
  <1>15. /\ new.period = g.period /\ new.path = g.path /\ new.inode = g.inode
         /\ new.offset = stop /\ new.counted = counted
    BY <1>14 DEF LedgerType
  <1>16. meter' = [meter EXCEPT !.pc = "save", !.ledger = new]
    BY <1>1, <1>2, <1>11, <1>14 DEF MeterType, LedgerType
  <1>17. /\ meter' \in MeterType /\ meter'.pc = "save" /\ meter'.ledger = new
         /\ meter'.period = meter.period
    BY <1>2, <1>16 DEF MeterType
  <1>18. UNCHANGED <<log, serving, open, month, dated, ledger, other, reset, trim, events, upset>>
    BY DEF Read
  <1> QED
    <2>1. Reads(g, new, t, to, skip, stop)
      BY <1>1, <1>2, <1>3, <1>6, <1>10, <1>13, <1>15, <1>17, <1>18 DEF Reads
    <2> QED
      BY <1>6, <1>19, <2>1

LEMMA ResetDone ==
  ASSUME TypeOK, ResetRead
  PROVE  /\ reset' \in ResetType /\ reset'.pc = "truncate"
         /\ ledger \in LedgerType /\ ledger # None
         /\ reset'.ledger.counted = Fresh.counted /\ reset'.ledger.period \in 1..month
         /\ reset'.ledger.offset = 0 /\ reset'.ledger.path = ledger.path
         /\ reset'.ledger.inode = ledger.inode
         /\ events' \in 0..MaxEvents /\ upset' \subseteq Upsets /\ upset' = upset \cup {"reset"}
         /\ UNCHANGED <<log, serving, open, month, dated, ledger, meter, other, trim>>
  <1>1. PICK g \in LedgerType : g = ledger /\ ledger # None
    BY Types DEF ResetRead
  <1>8. PICK m \in 1..month :
          reset' = [pc |-> "truncate", ledger |-> [g EXCEPT !.counted = Fresh.counted, !.period = m, !.offset = 0]]
    BY <1>1 DEF ResetRead
  <1>9. month \in Months
    BY Types
  <1>2. Fresh.counted \in [Lines -> 0..2] /\ m \in Months
    BY <1>8, <1>9, Initials, MeterAssumption DEF LedgerType, Months
  <1>3. PICK new \in LedgerType : new = [g EXCEPT !.counted = Fresh.counted, !.period = m, !.offset = 0]
    BY <1>2 DEF LedgerType
  <1>4. /\ new.counted = Fresh.counted /\ new.period = m /\ new.offset = 0
        /\ new.path = g.path /\ new.inode = g.inode
    BY <1>3 DEF LedgerType
  <1>5. reset' = [pc |-> "truncate", ledger |-> new]
    BY <1>3, <1>8
  <1>6. reset' \in ResetType /\ reset'.pc = "truncate" /\ reset'.ledger = new
    BY <1>5 DEF ResetType
  <1>7. events' \in 0..MaxEvents /\ upset' \subseteq Upsets /\ upset' = upset \cup {"reset"}
    BY Spent DEF ResetRead, Upsets
  <1> QED
    BY <1>1, <1>4, <1>6, <1>7, <1>8 DEF ResetRead

LEMMA KeptType ==
  ASSUME NEW t \in Seq(Cells), Len(t) > KeepCells
  PROVE  Kept(t) \in Seq(Cells)
  <1>1. KeepCells \in Nat /\ Len(t) \in Nat
    BY MeterAssumption
  <1>2. PICK s : s = SubSeq(t, Len(t) - KeepCells + 1, Len(t))
    OBVIOUS
  <1>3. s \in Seq(Cells)
    <2>1. \A i \in Len(t) - KeepCells + 1 .. Len(t) : t[i] \in Cells
      BY <1>1
    <2> QED
      BY <1>1, <1>2, <2>1, SubSeqProperties
  <1>4. PICK ends : ends = {k \in DOMAIN s : s[k][2] = "end"}
    OBVIOUS
  <1>5. ends \in SUBSET Nat /\ \A k \in ends : k \in 1..Len(s)
    BY <1>3, <1>4
  <1>6. Kept(t) = IF ends = {} THEN s
                  ELSE SubSeq(s, (CHOOSE k \in ends : \A e \in ends : k <= e) + 1, Len(s))
    BY <1>2, <1>4 DEF Kept
  <1>7. CASE ends # {}
    <2>1. PICK k \in ends : k = CHOOSE j \in ends : \A e \in ends : j <= e
      BY <1>5, <1>7, Least
    <2>2. k + 1 \in Int /\ Len(s) \in Int /\ \A i \in k + 1 .. Len(s) : s[i] \in Cells
      BY <1>3, <1>5
    <2>3. SubSeq(s, k + 1, Len(s)) \in Seq(Cells)
      BY <2>2, SubSeqProperties
    <2> QED
      BY <1>6, <1>7, <2>1, <2>3
  <1> QED
    BY <1>3, <1>6, <1>7

\* The size limit: what it reads, empties and writes.
LEMMA TrimReads ==
  ASSUME TypeOK, TrimRead
  PROVE  /\ trim' \in TrimType /\ trim'.pc # "idle"
         /\ events' \in 0..MaxEvents /\ upset' \subseteq Upsets /\ upset' = upset \cup {"trim"}
         /\ UNCHANGED <<log, serving, open, month, dated, ledger, meter, other, reset>>
  <1>1. Home \in Paths /\ log[Home].text \in Seq(Cells) /\ Len(log[Home].text) > KeepCells
    BY MeterAssumption, Types DEF Home, LogType, TrimRead
  <1>2. Kept(log[Home].text) \in Seq(Cells)
    BY <1>1, KeptType
  <1>3. trim' \in TrimType /\ trim'.pc = "truncate"
    BY <1>2 DEF TrimRead, TrimType
  <1> QED
    BY <1>3, Spent DEF TrimRead, Upsets

LEMMA TrimDone ==
  ASSUME TypeOK, TrimTruncate \/ TrimWrite
  PROVE  /\ trim' \in TrimType /\ trim.pc # "idle"
         /\ log' \in [Paths -> LogType] /\ Existing' = Existing
         /\ \A q \in Paths : log'[q].there = log[q].there
         /\ UNCHANGED <<serving, open, month, dated, ledger, meter, other, reset, events, upset>>
  <1>1. /\ Home \in Paths /\ log[Home].text \in Seq(Cells) /\ trim.buf \in Seq(Cells) /\ trim \in TrimType
        /\ log \in [Paths -> LogType]
    BY MeterAssumption, Types DEF Home, LogType, TrimType
  <1>2. PICK t \in Seq(Cells) : log' = [log EXCEPT ![Home].text = t]
    <2>1. CASE TrimTruncate
      BY <2>1, EmptySeq DEF TrimTruncate
    <2>2. CASE TrimWrite
      <3>1. PICK u \in Seq(Cells), b \in Seq(Cells) : u = log[Home].text /\ b = trim.buf
        BY <1>1
      <3>2. \A i \in Len(b) + 1 .. Len(u) : u[i] \in Cells
        BY <3>1
      <3>3. SubSeq(u, Len(b) + 1, Len(u)) \in Seq(Cells)
        BY <3>2, SubSeqProperties
      <3>4. b \o SubSeq(u, Len(b) + 1, Len(u)) \in Seq(Cells)
        BY <3>3, ConcatProperties
      <3>5. log' = [log EXCEPT ![Home].text = b \o SubSeq(u, Len(b) + 1, Len(u))]
        BY <2>2, <3>1 DEF TrimWrite
      <3> QED
        BY <3>4, <3>5
    <2> QED
      BY <2>1, <2>2
  <1>3. trim' \in TrimType /\ trim.pc # "idle"
    <2>1. CASE TrimTruncate
      BY <1>1, <2>1 DEF TrimTruncate, TrimType
    <2>2. CASE TrimWrite
      BY <2>2, Initials DEF TrimWrite
    <2> QED
      BY <2>1, <2>2
  <1>4. UNCHANGED <<serving, open, month, dated, ledger, meter, other, reset, events, upset>>
    BY DEF TrimTruncate, TrimWrite
  <1>5. /\ log' \in [Paths -> LogType] /\ Existing' = Existing
        /\ log'[Home].there = log[Home].there
        /\ \A q \in Paths \ {Home} : log'[q] = log[q]
    BY <1>1, <1>2, TextSet
  <1> QED
    BY <1>3, <1>4, <1>5

LEMMA TypeInit == Init => TypeOK /\ OpenOK
  <1> SUFFICES ASSUME Init PROVE TypeOK /\ OpenOK
    OBVIOUS
  <1>1. PICK i \in Inodes : log = [p \in Paths |-> [there |-> p = serving, inode |-> i, text |-> <<>>]]
    BY DEF Init
  <1>2. log \in [Paths -> LogType] /\ serving \in Paths /\ log[serving].there
    BY <1>1, EmptySeq DEF Init, LogType
  <1>3. dated \in Seq(Months) /\ Len(dated) <= MaxLines
    BY EmptySeq, MeterAssumption DEF Init
  <1>4. /\ open = FALSE /\ month \in Months /\ ledger \in LedgerType \cup {None}
        /\ meter \in MeterType /\ meter.pc = "idle" /\ other \in MeterType /\ other.pc = "idle"
        /\ reset \in ResetType /\ trim \in TrimType
        /\ events = 0 /\ upset = {}
    BY Initials DEF Init
  <1>5. events \in 0..MaxEvents
    BY <1>4, MeterAssumption
  <1> QED
    BY <1>2, <1>3, <1>4, <1>5, Types DEF OpenOK

LEMMA TypeStep == TypeOK /\ OpenOK /\ [Next]_vars => TypeOK' /\ OpenOK'
  <1> SUFFICES ASSUME TypeOK, OpenOK, [Next]_vars PROVE TypeOK' /\ OpenOK'
    OBVIOUS
  <1>0. /\ log \in [Paths -> LogType]
        /\ serving \in Paths /\ log[serving].there
        /\ open \in BOOLEAN /\ month \in Months
        /\ dated \in Seq(Months) /\ Len(dated) <= MaxLines /\ Len(dated) \in Nat
        /\ ledger \in LedgerType \cup {None} /\ meter \in MeterType
        /\ meter.pc \in {"read", "save"} => /\ meter.ledger.path \in Existing
                                            /\ meter.ledger.period = meter.period
        /\ other \in MeterType
        /\ other.pc \in {"read", "save"} => /\ other.ledger.path \in Existing
                                            /\ other.ledger.period = other.period
        /\ reset \in ResetType /\ trim \in TrimType
        /\ events \in 0..MaxEvents /\ upset \subseteq Upsets
    BY Types
  <1>1. CASE ServeHead
    <2>1. Len(dated) + 1 <= MaxLines
      BY <1>0, <1>1, HeadServed, MeterAssumption DEF Lines
    <2>2. log' \in [Paths -> LogType] /\ Existing' = Existing /\ log'[serving].there
      BY <1>0, <1>1, HeadServed, Appended
    <2> QED
      BY <1>0, <1>1, <2>1, <2>2, HeadServed, TypesNext DEF OpenOK
  <1>2. CASE ServeEnd
    <2>2. log' \in [Paths -> LogType] /\ Existing' = Existing /\ log'[serving].there
      BY <1>0, <1>2, EndServed, Appended
    <2> QED
      BY <1>0, <1>2, <2>2, EndServed, TypesNext DEF OpenOK
  <1>3. CASE MonthTurns
    <2>1. month' \in Months /\ upset' \subseteq Upsets
      BY <1>0, <1>3, MeterAssumption DEF MonthTurns, Months, Upsets
    <2>2. UNCHANGED <<log, serving, open, dated, ledger, meter, other, reset, trim, events>>
      BY <1>3 DEF MonthTurns
    <2>3. Existing' = Existing
      BY <2>2 DEF Existing
    <2> QED
      BY <1>0, <2>1, <2>2, <2>3, TypesNext DEF OpenOK
  <1>4. CASE CopyTruncate
    <2>1. Home \in Paths /\ <<>> \in Seq(Cells) /\ log' = [log EXCEPT ![Home].text = <<>>]
      BY <1>4, MeterAssumption, EmptySeq DEF CopyTruncate, Home
    <2>2. log' \in [Paths -> LogType] /\ Existing' = Existing /\ \A q \in Paths : log'[q].there = log[q].there
      BY <1>0, <2>1, TextSet
    <2>3. events' \in 0..MaxEvents /\ upset' \subseteq Upsets
      BY <1>4, Spent DEF CopyTruncate, Upsets
    <2>4. UNCHANGED <<serving, open, month, dated, ledger, meter, other, reset, trim>>
      BY <1>4 DEF CopyTruncate
    <2> QED
      BY <1>0, <2>2, <2>3, <2>4, TypesNext DEF OpenOK
  <1>5. CASE RenameRotate
    <2>1. PICK i \in Inodes : log' = [log EXCEPT ![serving] = [there |-> TRUE, inode |-> i, text |-> <<>>]]
      BY <1>5 DEF RenameRotate
    <2>2. log' \in [Paths -> LogType] /\ Existing \subseteq Existing' /\ log'[serving].there
      BY <1>0, <2>1, LogSet
    <2>3. events' \in 0..MaxEvents /\ upset' \subseteq Upsets
      BY <1>5, Spent DEF RenameRotate, Upsets
    <2>4. open' = FALSE /\ UNCHANGED <<serving, month, dated, ledger, meter, other, reset, trim>>
      BY <1>5 DEF RenameRotate
    <2> QED
      BY <1>0, <2>2, <2>3, <2>4, TypesNext DEF OpenOK
  <1>6. CASE NewLog
    <2>1. PICK i \in Inodes : log' = [log EXCEPT ![Home] = [there |-> TRUE, inode |-> i, text |-> <<>>]]
      BY <1>6 DEF NewLog
    <2>2. Home \in Paths
      BY MeterAssumption DEF Home
    <2>3. /\ log' \in [Paths -> LogType] /\ Existing \subseteq Existing' /\ log'[Home].there
          /\ \A q \in Paths \ {Home} : log'[q] = log[q]
      BY <1>0, <2>1, <2>2, LogSet
    <2>4. events' \in 0..MaxEvents /\ upset' \subseteq Upsets
      BY <1>6, Spent DEF NewLog, Upsets
    <2>5. /\ serving' \in {serving, Home}
          /\ UNCHANGED <<open, month, dated, ledger, meter, other, reset, trim>>
      BY <1>6 DEF NewLog
    <2>6. serving' \in Paths /\ log'[serving'].there
      BY <1>0, <2>2, <2>3, <2>5
    <2> QED
      BY <1>0, <2>3, <2>4, <2>5, <2>6, TypesNext DEF OpenOK
  <1>7. CASE TrimRead
    BY <1>0, <1>7, TrimReads, TypesNext DEF OpenOK, Existing
  <1>8. CASE TrimTruncate \/ TrimWrite
    BY <1>0, <1>8, TrimDone, TypesNext DEF OpenOK
  <1>9. CASE RefreshBegin
    <2>1. meter' \in MeterType /\ meter'.pc = "stat"
      BY <1>0, <1>9, Initials DEF RefreshBegin, MeterType
    <2>2. UNCHANGED <<log, serving, open, month, dated, ledger, other, reset, trim, events, upset>>
      BY <1>9 DEF RefreshBegin
    <2>3. Existing' = Existing
      BY <2>2 DEF Existing
    <2> QED
      BY <1>0, <2>1, <2>2, <2>3, TypesNext DEF OpenOK
  <1>17. CASE OverlapBegin
    <2>1. meter' \in MeterType /\ meter'.pc = "stat" /\ other' = meter
      BY <1>0, <1>17, Initials DEF OverlapBegin, MeterType
    <2>2. events' \in 0..MaxEvents /\ upset' \subseteq Upsets
      BY <1>17, Spent DEF OverlapBegin, Upsets
    <2>3. UNCHANGED <<log, serving, open, month, dated, ledger, reset, trim>>
      BY <1>17 DEF OverlapBegin
    <2>4. Existing' = Existing
      BY <2>3 DEF Existing
    <2> QED
      BY <1>0, <2>1, <2>2, <2>3, <2>4, TypesNext DEF OpenOK
  <1>18. CASE OtherGoesOn
    <2>1. /\ meter' = other /\ other' = meter
          /\ UNCHANGED <<log, serving, open, month, dated, ledger, reset, trim, events, upset>>
      BY <1>18 DEF OtherGoesOn
    <2>2. Existing' = Existing
      BY <2>1 DEF Existing
    <2> QED
      BY <1>0, <2>1, <2>2, TypesNext DEF OpenOK
  <1>10. CASE Stat
    <2>1. PICK old \in Loads, p \in Existing, len \in Nat, ino \in Inodes :
           /\ p \in Paths /\ meter' \in MeterType /\ meter'.pc = "read" /\ meter'.period = meter.period
           /\ Begins(old, meter'.ledger, meter.period, p, len, ino)
           /\ upset' \subseteq upset \cup {"window", "unread"} /\ events' \in 0..MaxEvents
           /\ UNCHANGED <<log, serving, open, month, dated, ledger, other, reset, trim>>
      BY <1>10, Stated
    <2>2. meter'.ledger.path = p /\ meter'.ledger.period = meter.period
      BY <2>1 DEF Begins
    <2>3. Existing' = Existing
      BY <2>1 DEF Existing
    <2>4. upset' \subseteq Upsets
      BY <1>0, <2>1 DEF Upsets
    <2> QED
      BY <1>0, <2>1, <2>2, <2>3, <2>4, TypesNext DEF OpenOK
  <1>11. CASE Read
    <2>1. PICK g, new, t, to, skip, stop : Reads(g, new, t, to, skip, stop)
      BY <1>11, ReadDone
    <2>2. /\ meter' \in MeterType
          /\ meter'.ledger.path = meter.ledger.path /\ meter'.ledger.period = meter'.period
          /\ meter.ledger.path \in Existing
          /\ UNCHANGED <<log, serving, open, month, dated, ledger, other, reset, trim, events, upset>>
      BY <2>1 DEF Reads
    <2>3. Existing' = Existing
      BY <2>2 DEF Existing
    <2> QED
      BY <1>0, <2>2, <2>3, TypesNext DEF OpenOK
  <1>12. CASE Save
    <2>1. /\ ledger' \in LedgerType \cup {None} /\ meter' \in MeterType /\ meter'.pc = "idle"
          /\ UNCHANGED <<log, serving, open, month, dated, other, reset, trim, events, upset>>
      BY <1>0, <1>12, Initials DEF Save, Saved, MeterType
    <2>2. Existing' = Existing
      BY <2>1 DEF Existing
    <2> QED
      BY <1>0, <2>1, <2>2, TypesNext DEF OpenOK
  <1>13. CASE RefreshFails
    <2>1. /\ meter' \in MeterType /\ meter'.pc = "idle"
          /\ UNCHANGED <<log, serving, open, month, dated, ledger, other, reset, trim, events, upset>>
      BY <1>0, <1>13, Initials DEF RefreshFails
    <2>2. Existing' = Existing
      BY <2>1 DEF Existing
    <2> QED
      BY <1>0, <2>1, <2>2, TypesNext DEF OpenOK
  <1>14. CASE ResetRead
    BY <1>0, <1>14, ResetDone, TypesNext DEF OpenOK, Existing
  <1>15. CASE ResetTruncate \/ ResetWrite \/ ResetDies
    <2>1. /\ ledger' \in LedgerType \cup {None} /\ reset' \in ResetType
          /\ UNCHANGED <<log, serving, open, month, dated, meter, other, trim, events, upset>>
      BY <1>0, <1>15, Initials DEF ResetTruncate, ResetWrite, ResetDies, ResetType
    <2>2. Existing' = Existing
      BY <2>1 DEF Existing
    <2> QED
      BY <1>0, <2>1, <2>2, TypesNext DEF OpenOK
  <1>16. CASE UNCHANGED vars
    BY <1>0, <1>16, TypesNext DEF vars, OpenOK, Existing
  <1> QED
    BY <1>1, <1>2, <1>3, <1>4, <1>5, <1>6, <1>7, <1>8, <1>9, <1>10, <1>11, <1>12, <1>13, <1>14, <1>15, <1>16,
       <1>17, <1>18
       DEF Next, WebServer, Trim, Meter, Reset

LEMMA Typed == Spec => [](TypeOK /\ OpenOK)
  BY TypeInit, TypeStep, PTL DEF Spec

\* Every variable has its type: what a refresh, a reset and the size limit compute
\* from a ledger and a log of any length is a ledger and a log.
THEOREM TypeCorrect == Spec => []TypeOK
  BY Typed, PTL

-----------------------------------------------------------------------------
(* The total of a month                                                       *)

\* The total at work is no less than the one it began with, and a reset has been
\* counted by the time it writes, an overlap while it lasts.
TotalInv ==
  /\ other.pc # "idle" => "overlap" \in upset
  /\ reset.pc # "idle" => "reset" \in upset
  /\ upset \cap {"reset", "overlap", "unread"} = {} /\ ledger # None /\ meter.pc \in {"read", "save"}
     /\ meter.ledger.period = ledger.period /\ meter.ledger.path = ledger.path
     => \A l \in Lines : meter.ledger.counted[l] >= ledger.counted[l]

\* What no step of the meter, of a reset or of the logs undoes.
LEMMA UpsetGrows ==
  ASSUME TypeOK, OpenOK, [Next]_vars
  PROVE  upset \subseteq upset'
  <1>1. ASSUME Stat PROVE upset \subseteq upset'
    BY <1>1, Stated
  <1>2. ASSUME Read PROVE upset \subseteq upset'
    BY <1>2 DEF Read
  <1> QED
    BY <1>1, <1>2 DEF Next, WebServer, Trim, Meter, Reset, ServeHead, ServeEnd, MonthTurns, CopyTruncate,
       RenameRotate, NewLog, TrimRead, TrimTruncate, TrimWrite, RefreshBegin, Save, RefreshFails,
       OverlapBegin, OtherGoesOn, ResetRead, ResetTruncate, ResetWrite, ResetDies, Spend, vars

\* A step that is none of the meter's or of a reset's leaves their ledgers alone.
LEMMA LedgersStay ==
  ASSUME TypeOK, OpenOK, [Next]_vars
  PROVE  \/ UNCHANGED <<ledger, meter, other, reset>>
         \/ RefreshBegin \/ Stat \/ Read \/ Save \/ RefreshFails \/ OverlapBegin \/ OtherGoesOn
         \/ ResetRead \/ ResetTruncate \/ ResetWrite \/ ResetDies
  BY DEF Next, WebServer, Trim, Meter, Reset, ServeHead, ServeEnd, MonthTurns, CopyTruncate,
     RenameRotate, NewLog, TrimRead, TrimTruncate, TrimWrite, vars

LEMMA TotalInit == Init => TotalInv
  BY Initials DEF Init, TotalInv

LEMMA ReadAdds ==
  ASSUME TypeOK, Read, NEW l \in Lines
  PROVE  /\ meter'.ledger.counted[l] >= meter.ledger.counted[l]
         /\ meter'.ledger.path = meter.ledger.path /\ meter'.ledger.period = meter.ledger.period
         /\ meter.pc = "read" /\ UNCHANGED <<ledger, other, reset, upset>>
  <1>1. PICK g \in LedgerType, new \in LedgerType, t \in Seq(Cells), to \in Nat, skip \in Nat, stop \in Nat :
          Reads(g, new, t, to, skip, stop)
    BY ReadDone
  <1>2. /\ g = meter.ledger /\ new = meter'.ledger /\ new.path = g.path /\ new.period = g.period
        /\ new.counted[l] = IF l \in Whole(t, skip + 1, stop, g.period)
                            THEN Min({g.counted[l] + 1, 2}) ELSE g.counted[l]
        /\ meter.pc = "read" /\ UNCHANGED <<ledger, other, reset, upset>>
    BY <1>1 DEF Reads
  <1>3. g.counted[l] \in 0..2
    BY DEF LedgerType
  <1>4. Min({g.counted[l] + 1, 2}) >= g.counted[l]
    BY <1>3, MinTwo
  <1> QED
    BY <1>2, <1>3, <1>4

LEMMA TotalStep == TypeOK /\ OpenOK /\ TotalInv /\ [Next]_vars => TotalInv'
  <1> SUFFICES ASSUME TypeOK, OpenOK, TotalInv, [Next]_vars PROVE TotalInv'
    OBVIOUS
  <1>0. upset \subseteq upset'
    BY UpsetGrows
  <1>1. CASE UNCHANGED <<ledger, meter, other, reset>>
    BY <1>0, <1>1 DEF TotalInv
  <1>2. CASE RefreshBegin \/ Save \/ RefreshFails
    <2>1. meter'.pc \in {"idle", "stat"} /\ UNCHANGED <<other, reset, upset>>
      BY <1>2, Initials, Types DEF RefreshBegin, Save, RefreshFails, MeterType
    <2> QED
      BY <2>1 DEF TotalInv
  <1>7. CASE OverlapBegin \/ OtherGoesOn
    <2>1. "overlap" \in upset' /\ UNCHANGED reset
      BY <1>7 DEF OverlapBegin, OtherGoesOn, Spend, TotalInv
    <2> QED
      BY <1>0, <2>1 DEF TotalInv
  <1>3. CASE Stat
    <2>1. PICK old \in Loads, p \in Existing, len \in Nat, ino \in Inodes :
            /\ p # 0 /\ Begins(old, meter'.ledger, meter.period, p, len, ino)
            /\ "unread" \notin upset' => ledger \in {old, None}
            /\ UNCHANGED <<ledger, other, reset>>
      BY <1>3, Stated
    <2>2. ASSUME "unread" \notin upset', ledger # None,
                 meter'.ledger.period = ledger.period, meter'.ledger.path = ledger.path,
                 NEW l \in Lines
          PROVE  meter'.ledger.counted[l] >= ledger.counted[l]
      <3>1. old = ledger /\ ledger \in LedgerType
        BY <2>1, <2>2, Types
      <3>2. meter'.ledger.counted = ledger.counted
        BY <2>1, <2>2, <3>1 DEF Begins
      <3>3. ledger.counted[l] \in 0..2
        BY <3>1 DEF LedgerType
      <3> QED
        BY <3>2, <3>3
    <2> QED
      BY <1>0, <2>1, <2>2 DEF TotalInv
  <1>4. CASE Read
    <2>1. ASSUME upset \cap {"reset", "overlap", "unread"} = {}, ledger # None, meter'.ledger.period = ledger.period,
                 meter'.ledger.path = ledger.path, NEW l \in Lines
          PROVE  meter'.ledger.counted[l] >= ledger.counted[l]
      <3>1. meter'.ledger.counted[l] >= meter.ledger.counted[l]
        BY <1>4, ReadAdds
      <3>2. meter.ledger.counted[l] >= ledger.counted[l]
        BY <1>4, <2>1, ReadAdds DEF TotalInv
      <3>3. /\ meter.ledger.counted[l] \in 0..2 /\ ledger.counted[l] \in 0..2
            /\ meter'.ledger.counted[l] \in Int
        <4>1. PICK g \in LedgerType, new \in LedgerType, t \in Seq(Cells), to \in Nat, skip \in Nat, stop \in Nat :
          Reads(g, new, t, to, skip, stop)
          BY <1>4, ReadDone
        <4>2. g = meter.ledger /\ new = meter'.ledger
          BY <4>1 DEF Reads
        <4>3. ledger \in LedgerType
          BY <2>1, Types
        <4> QED
          BY <4>2, <4>3 DEF LedgerType
      <3> QED
        BY <3>1, <3>2, <3>3
    <2>2. UNCHANGED <<ledger, other, reset, upset>>
      BY <1>4 DEF Read
    <2> QED
      BY <2>1, <2>2 DEF TotalInv
  <1>5. CASE ResetRead
    BY <1>5, ResetDone DEF TotalInv
  <1>6. CASE ResetTruncate \/ ResetWrite \/ ResetDies
    BY <1>6, Initials DEF TotalInv, ResetTruncate, ResetWrite, ResetDies
  <1> QED
    BY <1>1, <1>2, <1>3, <1>4, <1>5, <1>6, <1>7, LedgersStay

\* The total survives the rotation of the logs: while a ledger stays with its
\* month and its log, no line leaves its total, until a reset or a refresh of
\* another process, past LEDGER_LOCK, writes over it, or the ledger is not read.
THEOREM TotalKeptHolds == Spec => TotalKept
  <1> DEFINE Kept1 == /\ None \notin {ledger, ledger'}
                      /\ upset' \cap {"reset", "overlap", "unread"} = {}
                      => (/\ ledger'.period = ledger.period
                          /\ ledger'.path = ledger.path
                          => \A l \in Lines : ledger'.counted[l] >= ledger.counted[l])
  <1>1. TypeOK /\ OpenOK /\ TotalInv /\ [Next]_vars => [Kept1]_ledger
    <2> SUFFICES ASSUME TypeOK, OpenOK, TotalInv, [Next]_vars,
                        ledger' # ledger, None \notin {ledger, ledger'}, upset' \cap {"reset", "overlap", "unread"} = {},
                        ledger'.period = ledger.period, ledger'.path = ledger.path, NEW l \in Lines
                 PROVE  ledger'.counted[l] >= ledger.counted[l]
      OBVIOUS
    <2>1. CASE Save
      <3>1. upset' = upset /\ other.pc = "idle"
        BY <2>1 DEF Save, TotalInv
      <3>2. ledger' = meter.ledger /\ meter.pc = "save"
        BY <2>1, <3>1 DEF Save, Saved
      <3> QED
        BY <3>1, <3>2 DEF TotalInv
    <2>2. CASE ResetTruncate \/ ResetWrite
      BY <2>2 DEF TotalInv, ResetTruncate, ResetWrite
    <2>3. CASE RefreshBegin \/ RefreshFails \/ ResetRead \/ ResetDies
      BY <2>3 DEF RefreshBegin, RefreshFails, ResetRead, ResetDies
    <2>4. CASE OverlapBegin \/ OtherGoesOn
      BY <2>4 DEF OverlapBegin, OtherGoesOn
    <2>5. CASE Stat \/ Read
      BY <2>5 DEF Stat, Read
    <2> QED
      BY <2>1, <2>2, <2>3, <2>4, <2>5, LedgersStay
  <1> QED
    BY <1>1, Typed, TotalInit, TotalStep, PTL DEF Spec, TotalKept

-----------------------------------------------------------------------------
(* No line twice                                                              *)

\* The end of a line stands at one place of one log, and once it stands there the
\* line is done.
EndAt(p, k, l) == k \in 1..Len(log[p].text) /\ log[p].text[k] = <<l, "end">>
Done(l) == l <= Len(dated) /\ ~(open /\ l = Len(dated))
Once    == \A p, q \in Paths, k, j \in Nat, l \in Lines : EndAt(p, k, l) /\ EndAt(q, j, l) => p = q /\ k = j
Served  == \A p \in Paths, k \in Nat, l \in Lines : EndAt(p, k, l) => Done(l)

\* A line that a ledger has counted is gone from the logs, or lies before its
\* offset in the log the ledger follows.
Behind(g, l) == \A p \in Paths, k \in Nat : EndAt(p, k, l) =>
                  /\ p = g.path /\ k <= g.offset
                  /\ g.offset <= Len(log[p].text) /\ log[p].inode = g.inode
Good(g) == \A l \in Lines : g.counted[l] # 0 => g.counted[l] = 1 /\ Done(l) /\ Behind(g, l)

CountOn ==
  /\ trim.pc = "idle" /\ Once /\ Served
  /\ ledger # None => Good(ledger)
  /\ Good(meter.ledger) /\ Good(other.ledger) /\ Good(reset.ledger)
  /\ meter.pc = "read" => log[meter.ledger.path].inode = meter.ledger.inode
  /\ other.pc = "read" => log[other.ledger.path].inode = other.ledger.inode
CountInv == upset \cap {"trim", "race"} = {} => CountOn

LEMMA CountResult == TypeOK /\ CountInv => CountedOnce
  <1> SUFFICES ASSUME TypeOK, CountInv, ledger # None, upset \cap {"trim", "race"} = {}, NEW l \in Lines
               PROVE  ledger.counted[l] <= 1
    BY DEF CountedOnce
  <1>1. ledger \in LedgerType /\ Good(ledger)
    BY Types DEF CountInv, CountOn
  <1>2. ledger.counted[l] \in 0..2
    BY <1>1 DEF LedgerType
  <1> QED
    BY <1>1, <1>2 DEF Good

LEMMA GoodNone ==
  ASSUME NEW g, \A l \in Lines : g.counted[l] = 0
  PROVE  Good(g) /\ Good(g)'
  BY DEF Good

\* A log is emptied or replaced by an empty one.
LEMMA Emptied ==
  ASSUME TypeOK, OpenOK, \A p \in Paths : log'[p] = log[p] \/ log'[p].text = <<>>,
         dated' = dated, open' \in {open, FALSE}
  PROVE  /\ Once => Once'
         /\ Served => Served'
         /\ \A g : Good(g) => Good(g)'
  <1>1. \A p \in Paths, k \in Nat, l \in Lines : EndAt(p, k, l)' => EndAt(p, k, l) /\ log'[p] = log[p]
    BY EmptySeq DEF EndAt
  <1>2. \A l : Done(l) => Done(l)'
    BY DEF Done
  <1>3. Once => Once'
    BY <1>1 DEF Once
  <1>4. Served => Served'
    BY <1>1, <1>2 DEF Served
  <1>5. ASSUME NEW g, Good(g) PROVE Good(g)'
    <2> SUFFICES ASSUME NEW l \in Lines, g.counted[l] # 0
                 PROVE  g.counted[l] = 1 /\ Done(l)' /\ Behind(g, l)'
      BY DEF Good
    <2>1. g.counted[l] = 1 /\ Done(l) /\ Behind(g, l)
      BY <1>5 DEF Good
    <2>2. Behind(g, l)'
      BY <1>1, <2>1 DEF Behind
    <2> QED
      BY <1>2, <2>1, <2>2
  <1> QED
    BY <1>3, <1>4, <1>5

\* The web server appends to one log.
LEMMA AppendedAt ==
  ASSUME TypeOK, NEW c \in Cells, AppendCell(c)
  PROVE  /\ \A p \in Paths, k \in Nat, l \in Lines :
              EndAt(p, k, l)' <=> \/ EndAt(p, k, l)
                                  \/ p = serving /\ k = Len(log[serving].text) + 1 /\ c = <<l, "end">>
         /\ \A p \in Paths : Len(log'[p].text) >= Len(log[p].text) /\ log'[p].inode = log[p].inode
         /\ \A p \in Paths : Len(log[p].text) \in Nat /\ Len(log'[p].text) \in Nat
  <1>0. PICK s \in Paths : s = serving
    BY Types
  <1>1. /\ log'[s].text = Append(log[s].text, c)
        /\ log'[s].inode = log[s].inode
        /\ \A q \in Paths \ {s} : log'[q] = log[q]
    BY <1>0, Appended
  <1>2. \A p \in Paths : log[p].text \in Seq(Cells)
    BY Types DEF LogType
  <1>3. PICK t \in Seq(Cells) : t = log[s].text
    BY <1>2
  <1>4. PICK u \in Seq(Cells) : u = Append(t, c)
    <2>1. Append(t, c) \in Seq(Cells)
      OBVIOUS
    <2> QED
      BY <2>1
  <1>5. /\ Len(t) \in Nat /\ Len(u) = Len(t) + 1 /\ u[Len(t) + 1] = c
        /\ \A k \in 1..Len(t) : u[k] = t[k]
    BY <1>4
  <1>6. u = log'[s].text
    BY <1>1, <1>3, <1>4
  <1>7. ASSUME NEW k \in Nat, NEW l \in Lines
        PROVE  EndAt(s, k, l)' <=> EndAt(s, k, l) \/ (k = Len(t) + 1 /\ c = <<l, "end">>)
    <2>1. EndAt(s, k, l) <=> k \in 1..Len(t) /\ t[k] = <<l, "end">>
      BY <1>3 DEF EndAt
    <2>2. EndAt(s, k, l)' <=> k \in 1..Len(u) /\ u[k] = <<l, "end">>
      BY <1>6 DEF EndAt
    <2>4. PICK e : e = <<l, "end">>
      OBVIOUS
    <2>3. (k \in 1..Len(u) /\ u[k] = e) <=> (k \in 1..Len(t) /\ t[k] = e) \/ (k = Len(t) + 1 /\ c = e)
      <3>1. CASE k \in 1..Len(t)
        BY <1>5, <3>1
      <3>2. CASE k = Len(t) + 1
        BY <1>5, <3>2
      <3>3. CASE k \notin 1..Len(t) + 1
        BY <1>5, <3>3
      <3> QED
        BY <1>5, <3>1, <3>2, <3>3
    <2> QED
      BY <2>1, <2>2, <2>3, <2>4
  <1>8. ASSUME NEW p \in Paths, p # s, NEW k \in Nat, NEW l \in Lines
        PROVE  EndAt(p, k, l)' <=> EndAt(p, k, l)
    BY <1>1, <1>8 DEF EndAt
  <1>9. \A p \in Paths : /\ Len(log'[p].text) >= Len(log[p].text) /\ log'[p].inode = log[p].inode
                         /\ Len(log[p].text) \in Nat /\ Len(log'[p].text) \in Nat
    <2>1. \A p \in Paths \ {s} : log'[p] = log[p] /\ Len(log[p].text) \in Nat
      BY <1>1, <1>2
    <2>2. /\ Len(log'[s].text) >= Len(log[s].text) /\ log'[s].inode = log[s].inode
          /\ Len(log[s].text) \in Nat /\ Len(log'[s].text) \in Nat
      BY <1>1, <1>3, <1>5, <1>6
    <2> QED
      BY <2>1, <2>2
  <1> QED
    BY <1>0, <1>3, <1>7, <1>8, <1>9

\* The same, of what no ledger has counted and of a line that is done with it.
LEMMA Grown ==
  ASSUME TypeOK, NEW c \in Cells, AppendCell(c),
         \A l \in Lines : Done(l) => Done(l)',
         \A l \in Lines : c = <<l, "end">> => ~Done(l) /\ Done(l)'
  PROVE  /\ Once /\ Served => Once' /\ Served'
         /\ \A g \in LedgerType : Good(g) => Good(g)'
  <1>1. /\ \A p \in Paths, k \in Nat, l \in Lines :
              EndAt(p, k, l)' <=> \/ EndAt(p, k, l)
                                  \/ p = serving /\ k = Len(log[serving].text) + 1 /\ c = <<l, "end">>
        /\ \A p \in Paths : Len(log'[p].text) >= Len(log[p].text) /\ log'[p].inode = log[p].inode
        /\ \A p \in Paths : Len(log[p].text) \in Nat /\ Len(log'[p].text) \in Nat
    BY AppendedAt
  <1>2. ASSUME Once, Served PROVE Once' /\ Served'
    <2>1. Served'
      BY <1>1, <1>2 DEF Served
    <2>2. Once'
      BY <1>1, <1>2 DEF Once, Served
    <2> QED
      BY <2>1, <2>2
  <1>3. ASSUME NEW g \in LedgerType, Good(g) PROVE Good(g)'
    <2> SUFFICES ASSUME NEW l \in Lines, g.counted[l] # 0
                 PROVE  g.counted[l] = 1 /\ Done(l)' /\ Behind(g, l)'
      BY DEF Good
    <2>1. g.counted[l] = 1 /\ Done(l) /\ Behind(g, l)
      BY <1>3 DEF Good
    <2>2. ASSUME NEW p \in Paths, NEW k \in Nat, EndAt(p, k, l)'
          PROVE  /\ p = g.path /\ k <= g.offset
                 /\ g.offset <= Len(log'[p].text) /\ log'[p].inode = g.inode
      <3>1. EndAt(p, k, l)
        BY <1>1, <2>1, <2>2
      <3>2. /\ p = g.path /\ k <= g.offset
            /\ g.offset <= Len(log[p].text) /\ log[p].inode = g.inode
        BY <2>1, <3>1 DEF Behind
      <3>3. /\ Len(log'[p].text) >= Len(log[p].text) /\ log'[p].inode = log[p].inode
            /\ Len(log[p].text) \in Nat /\ Len(log'[p].text) \in Nat
        BY <1>1
      <3>4. g.offset <= Len(log'[p].text)
        BY <3>2, <3>3 DEF LedgerType
      <3> QED
        BY <3>2, <3>3, <3>4
    <2>3. Behind(g, l)'
      BY <2>2 DEF Behind
    <2> QED
      BY <2>1, <2>3
  <1> QED
    BY <1>2, <1>3

LEMMA CountsNext ==
  ASSUME NEW G, NEW M, NEW O, NEW R, trim'.pc = "idle", Once', Served',
         ledger' # None => ledger' = G /\ Good(G)',
         meter'.ledger = M, Good(M)', other'.ledger = O, Good(O)', reset'.ledger = R, Good(R)',
         meter'.pc = "read" => log'[M.path].inode = M.inode,
         other'.pc = "read" => log'[O.path].inode = O.inode
  PROVE  CountOn'
  BY DEF CountOn, Good, Behind

\* A refresh begins: it keeps the offset of a log it has counted lines of.
LEMMA StatCounts ==
  ASSUME TypeOK, CountOn, Stat
  PROVE  \E M : /\ M = meter'.ledger /\ Good(M) /\ M.path \in Paths /\ log[M.path].inode = M.inode
                /\ UNCHANGED <<log, open, dated, ledger, other, reset, trim>>
  <1>1. PICK old \in Loads, p \in Existing, len \in Nat, ino \in Inodes :
           /\ p \in Paths /\ p # 0 /\ len = Len(log[p].text) /\ ino = log[p].inode
           /\ Begins(old, meter'.ledger, meter.period, p, len, ino)
           /\ UNCHANGED <<log, open, dated, ledger, other, reset, trim>>
    BY Stated
  <1>2. PICK M : M = meter'.ledger
    OBVIOUS
  <1>3. old \in LedgerType
    BY <1>1, LoadsType
  <1>4. Good(old)
    BY <1>1, LoadsType, GoodNone, Initials DEF CountOn
  <1>5. Begins(old, M, meter.period, p, len, ino)
    BY <1>1, <1>2, <1>3
  <1>6. M.path = p /\ M.inode = ino
    BY <1>5 DEF Begins
  <1>7. ASSUME NEW l \in Lines, M.counted[l] # 0
        PROVE  M.counted[l] = 1 /\ Done(l) /\ Behind(M, l)
    <2>1. M.counted = old.counted /\ ~(old.path # 0 /\ old.path # p)
      BY <1>5, <1>7, Initials DEF Begins
    <2>2. old.counted[l] = 1 /\ Done(l) /\ Behind(old, l)
      BY <1>4, <1>7, <2>1 DEF Good
    <2>3. ASSUME NEW q \in Paths, NEW k \in Nat, EndAt(q, k, l)
          PROVE  q = M.path /\ k <= M.offset /\ M.offset <= Len(log[q].text) /\ log[q].inode = M.inode
      <3>1. q = old.path /\ k <= old.offset /\ old.offset <= Len(log[q].text) /\ log[q].inode = old.inode
        BY <2>2, <2>3 DEF Behind
      <3>2. old.path # 0 /\ q = p
        BY <2>1, <3>1, MeterAssumption
      <3>3. M.offset = old.offset
        <4>1. ~(len < old.offset) /\ old.inode = ino
          BY <1>1, <1>3, <3>1, <3>2 DEF LedgerType
        <4> QED
          BY <1>5, <2>1, <3>2, <4>1 DEF Begins
      <3> QED
        BY <1>1, <1>6, <3>1, <3>2, <3>3
    <2> QED
      BY <2>1, <2>2, <2>3 DEF Behind
  <1>8. Good(M)
    BY <1>7 DEF Good
  <1> QED
    BY <1>1, <1>2, <1>6, <1>8

\* A refresh reads: a line whose end lies after the offset was not counted.
LEMMA ReadCounts ==
  ASSUME TypeOK, CountOn, Read
  PROVE  \E M : /\ M = meter'.ledger /\ Good(M) /\ meter'.pc # "read"
                /\ UNCHANGED <<log, open, dated, ledger, other, reset, trim>>
  <1>1. PICK g \in LedgerType, new \in LedgerType, t \in Seq(Cells), to \in Nat, skip \in Nat, stop \in Nat :
            Reads(g, new, t, to, skip, stop)
    BY ReadDone
  <1>2. /\ g = meter.ledger /\ new = meter'.ledger /\ g.path \in Paths /\ g.offset \in Nat
        /\ t = log[g.path].text
        /\ to = g.offset \/ to <= Len(t)
        /\ StopsAt(t, g.offset, to, meter.first, skip, stop)
        /\ new.path = g.path /\ new.inode = g.inode /\ new.offset = stop
        /\ \A l \in Lines : new.counted[l] = IF l \in Whole(t, skip + 1, stop, g.period)
                                             THEN Min({g.counted[l] + 1, 2}) ELSE g.counted[l]
        /\ meter.pc = "read" /\ meter'.pc = "save"
        /\ UNCHANGED <<log, open, dated, ledger, other, reset, trim>>
    BY <1>1 DEF Reads
  <1>3. g.offset <= skip /\ skip <= stop /\ stop <= to
    BY <1>2 DEF StopsAt
  <1>4. Good(g) /\ log[g.path].inode = g.inode /\ Once /\ Served
    BY <1>2 DEF CountOn
  <1>5. Len(t) \in Nat
    OBVIOUS
  <1>6. ASSUME NEW l \in Lines, l \in Whole(t, skip + 1, stop, g.period)
        PROVE  new.counted[l] = 1 /\ Done(l) /\ Behind(new, l)
    <2>1. PICK k \in skip + 1 .. stop - 1 : t[k + 1] = <<l, "end">>
      BY <1>6 DEF Whole
    <2>2. k + 1 \in Nat /\ k + 1 > g.offset /\ k + 1 <= stop /\ k + 1 \in 1..Len(t) /\ stop <= Len(t)
      BY <1>2, <1>3, <1>5
    <2>3. EndAt(g.path, k + 1, l)
      BY <1>2, <2>1, <2>2 DEF EndAt
    <2>4. g.counted[l] = 0
      BY <1>2, <1>4, <2>2, <2>3 DEF Good, Behind
    <2>5. new.counted[l] = 1
      <3>1. new.counted[l] = Min({0 + 1, 2})
        BY <1>2, <1>6, <2>4
      <3> QED
        BY <3>1, MinTwo
    <2>6. Done(l)
      BY <1>2, <1>4, <2>2, <2>3 DEF Served
    <2>7. Behind(new, l)
      BY <1>2, <1>4, <2>2, <2>3 DEF Once, Behind
    <2> QED
      BY <2>5, <2>6, <2>7
  <1>7. ASSUME NEW l \in Lines, l \notin Whole(t, skip + 1, stop, g.period), new.counted[l] # 0
        PROVE  new.counted[l] = 1 /\ Done(l) /\ Behind(new, l)
    <2>1. g.counted[l] # 0 /\ new.counted[l] = g.counted[l]
      BY <1>2, <1>7
    <2>2. g.counted[l] = 1 /\ Done(l) /\ Behind(g, l)
      BY <1>4, <2>1 DEF Good
    <2>3. ASSUME NEW q \in Paths, NEW k \in Nat, EndAt(q, k, l)
          PROVE  q = new.path /\ k <= new.offset /\ new.offset <= Len(log[q].text) /\ log[q].inode = new.inode
      <3>1. q = g.path /\ k <= g.offset /\ g.offset <= Len(t) /\ log[q].inode = g.inode
        BY <1>2, <2>2, <2>3 DEF Behind
      <3>2. k <= stop /\ stop <= Len(t)
        BY <1>2, <1>3, <1>5, <3>1
      <3> QED
        BY <1>2, <3>1, <3>2
    <2> QED
      BY <2>1, <2>2, <2>3 DEF Behind
  <1>8. Good(new)
    BY <1>6, <1>7 DEF Good
  <1> QED
    BY <1>2, <1>8

LEMMA CountInit == Init => CountInv
  <1> SUFFICES ASSUME Init PROVE CountOn
    BY DEF CountInv
  <1>1. \A p \in Paths : log[p].text = <<>>
    BY DEF Init
  <1>2. \A p \in Paths, k \in Nat, l \in Lines : ~EndAt(p, k, l)
    BY <1>1, EmptySeq DEF EndAt
  <1>3. Once /\ Served
    BY <1>2 DEF Once, Served
  <1>4. /\ trim.pc = "idle" /\ meter.pc = "idle" /\ meter.ledger = Fresh /\ reset.ledger = Fresh
        /\ other.pc = "idle" /\ other.ledger = Fresh
        /\ ledger \in {Fresh, None}
    BY Initials DEF Init
  <1>5. Good(Fresh)
    BY Initials, GoodNone
  <1> QED
    BY <1>3, <1>4, <1>5 DEF CountOn

LEMMA CountStep == TypeOK /\ OpenOK /\ CountInv /\ [Next]_vars => CountInv'
  <1> SUFFICES ASSUME TypeOK, OpenOK, CountInv, [Next]_vars, upset' \cap {"trim", "race"} = {}
               PROVE  CountOn'
    BY DEF CountInv
  <1>0. CountOn /\ "trim" \notin upset' /\ "race" \notin upset'
    BY UpsetGrows DEF CountInv
  <1> PICK G : G = ledger
    OBVIOUS
  <1> PICK M : M = meter.ledger
    OBVIOUS
  <1> PICK O : O = other.ledger
    OBVIOUS
  <1> PICK R : R = reset.ledger
    OBVIOUS
  <1>2. /\ trim.pc = "idle" /\ Once /\ Served
        /\ ledger # None => Good(G)
        /\ Good(M) /\ Good(O) /\ Good(R)
        /\ meter.pc = "read" => M.path \in Existing /\ M.path \in Paths /\ log[M.path].inode = M.inode
        /\ other.pc = "read" => O.path \in Existing /\ O.path \in Paths /\ log[O.path].inode = O.inode
    BY <1>0, Types DEF CountOn, Existing
  <1>3. (ledger # None => G \in LedgerType) /\ M \in LedgerType /\ O \in LedgerType /\ R \in LedgerType
    BY Types DEF MeterType, ResetType
  <1>5. CASE ServeHead \/ ServeEnd
    <2>1. PICK c \in Cells : /\ AppendCell(c)
                             /\ \A l \in Lines : Done(l) => Done(l)'
                             /\ \A l \in Lines : c = <<l, "end">> => ~Done(l) /\ Done(l)'
                             /\ UNCHANGED <<ledger, meter, other, reset, trim>>
      <3>0. Len(dated) \in Nat
        BY Types
      <3>1. CASE ServeHead
        BY <3>0, <3>1, HeadServed DEF Done, Lines
      <3>2. CASE ServeEnd
        BY <3>0, <3>2, EndServed DEF Done, Lines
      <3> QED
        BY <1>5, <3>1, <3>2
    <2>2. /\ Once' /\ Served' /\ \A g \in LedgerType : Good(g) => Good(g)'
          /\ \A p \in Paths : log'[p].inode = log[p].inode
      BY <1>2, <2>1, Grown, AppendedAt
    <2> QED
      BY <1>2, <1>3, <2>1, <2>2, CountsNext
  <1>6. CASE CopyTruncate \/ RenameRotate \/ NewLog
    <2>1. /\ \A p \in Paths : log'[p] = log[p] \/ log'[p].text = <<>>
          /\ dated' = dated /\ open' \in {open, FALSE}
          /\ UNCHANGED <<ledger, meter, other, reset, trim>>
          /\ meter.pc = "read" => log'[M.path].inode = log[M.path].inode
          /\ other.pc = "read" => log'[O.path].inode = log[O.path].inode
      <3>0. Home \in Paths /\ serving \in Paths /\ log \in [Paths -> LogType]
        BY MeterAssumption, Types DEF Home
      <3>1. CASE CopyTruncate
        BY <1>2, <3>0, <3>1, EmptySeq, TextSet DEF CopyTruncate
      <3>2. CASE RenameRotate
        BY <1>0, <1>2, <3>0, <3>2, LogSet DEF RenameRotate, Spend
      <3>3. CASE NewLog
        <4>1. PICK i \in Inodes : log' = [log EXCEPT ![Home] = [there |-> TRUE, inode |-> i, text |-> <<>>]]
          BY <3>3 DEF NewLog
        <4>2. log'[Home].text = <<>> /\ \A q \in Paths \ {Home} : log'[q] = log[q]
          BY <3>0, <4>1, LogSet
        <4>3. (meter.pc = "read" => M.path # Home) /\ (other.pc = "read" => O.path # Home)
          BY <1>2, <3>3 DEF NewLog, Existing
        <4> QED
          BY <1>2, <3>3, <4>2, <4>3 DEF NewLog
      <3> QED
        BY <1>6, <3>1, <3>2, <3>3
    <2>2. Once' /\ Served' /\ \A g : Good(g) => Good(g)'
      BY <1>2, <2>1, Emptied
    <2> QED
      BY <1>2, <2>1, <2>2, CountsNext
  <1>7. CASE TrimRead \/ TrimTruncate \/ TrimWrite
    BY <1>0, <1>2, <1>7, TrimReads, TrimDone
  <1>8. ASSUME UNCHANGED <<log, open, dated>>
        PROVE  Once' /\ Served' /\ \A g : Good(g) => Good(g)'
    <2>1. \A p \in Paths : log'[p] = log[p]
      BY <1>8
    <2> QED
      BY <1>2, <1>8, <2>1, Emptied
  <1>9. Good(Fresh)'
    BY Initials, GoodNone
  <1>10. CASE MonthTurns \/ UNCHANGED vars
    <2>1. UNCHANGED <<log, open, dated, ledger, meter, other, reset, trim>>
      BY <1>10 DEF MonthTurns, vars
    <2> QED
      BY <1>2, <1>8, <2>1, CountsNext
  <1>11. CASE RefreshBegin \/ Save \/ RefreshFails
    <2>1. /\ UNCHANGED <<log, open, dated, other, reset, trim>>
          /\ meter'.ledger = Fresh /\ meter'.pc # "read"
          /\ ledger' \in {G, M, O, None}
      <3>1. CASE RefreshBegin
        BY <3>1, Initials DEF RefreshBegin, MeterType
      <3>2. CASE Save
        BY <3>2, Initials DEF Save, Saved
      <3>3. CASE RefreshFails
        BY <3>3, Initials DEF RefreshFails
      <3> QED
        BY <1>11, <3>1, <3>2, <3>3
    <2>2. Once' /\ Served' /\ Good(M)' /\ Good(O)' /\ Good(R)' /\ (ledger # None => Good(G)')
      BY <1>2, <1>8, <2>1
    <2>3. CASE ledger' = G
      BY <1>2, <1>9, <2>1, <2>2, <2>3, CountsNext
    <2>4. CASE ledger' = M
      BY <1>2, <1>9, <2>1, <2>2, <2>4, CountsNext
    <2>5. CASE ledger' = O
      BY <1>2, <1>9, <2>1, <2>2, <2>5, CountsNext
    <2>6. CASE ledger' = None
      BY <1>2, <1>9, <2>1, <2>2, <2>6, CountsNext
    <2> QED
      BY <2>1, <2>3, <2>4, <2>5, <2>6
  <1>17. CASE OverlapBegin \/ OtherGoesOn
    <2>1. /\ UNCHANGED <<log, open, dated, ledger, reset, trim>>
          /\ other' = meter
          /\ \/ meter' = other
             \/ meter'.ledger = Fresh /\ meter'.pc # "read"
      <3>0. month \in Months
        BY Types
      <3>1. CASE OverlapBegin
        BY <3>0, <3>1, Initials DEF OverlapBegin, MeterType
      <3>2. CASE OtherGoesOn
        BY <3>2 DEF OtherGoesOn
      <3> QED
        BY <1>17, <3>1, <3>2
    <2>2. Once' /\ Served' /\ Good(M)' /\ Good(O)' /\ Good(R)' /\ (ledger # None => Good(G)')
      BY <1>2, <1>8, <2>1
    <2>3. CASE meter' = other
      BY <1>2, <2>1, <2>2, <2>3, CountsNext
    <2>4. CASE meter'.ledger = Fresh /\ meter'.pc # "read"
      BY <1>2, <1>9, <2>1, <2>2, <2>4, CountsNext
    <2> QED
      BY <2>1, <2>3, <2>4
  <1>12. CASE Stat
    <2>1. PICK N : /\ N = meter'.ledger /\ Good(N) /\ N.path \in Paths /\ log[N.path].inode = N.inode
                   /\ UNCHANGED <<log, open, dated, ledger, other, reset, trim>>
      BY <1>0, <1>12, StatCounts
    <2>2. Once' /\ Served' /\ Good(N)' /\ Good(O)' /\ Good(R)' /\ (ledger # None => Good(G)')
      BY <1>2, <1>8, <2>1
    <2> QED
      BY <1>2, <2>1, <2>2, CountsNext
  <1>13. CASE Read
    <2>1. PICK N : /\ N = meter'.ledger /\ Good(N) /\ meter'.pc # "read"
                   /\ UNCHANGED <<log, open, dated, ledger, other, reset, trim>>
      BY <1>0, <1>13, ReadCounts
    <2>2. Once' /\ Served' /\ Good(N)' /\ Good(O)' /\ Good(R)' /\ (ledger # None => Good(G)')
      BY <1>2, <1>8, <2>1
    <2> QED
      BY <1>2, <2>1, <2>2, CountsNext
  <1>14. CASE ResetRead
    <2>1. PICK N : /\ N = reset'.ledger /\ (\A l \in Lines : N.counted[l] = 0)
                   /\ UNCHANGED <<log, open, dated, ledger, meter, other, trim>>
      BY <1>14, ResetDone, Initials
    <2>2. Once' /\ Served' /\ Good(N)' /\ Good(O)' /\ Good(M)' /\ (ledger # None => Good(G)')
      BY <1>2, <1>8, <2>1, GoodNone
    <2> QED
      BY <1>2, <2>1, <2>2, CountsNext
  <1>15. CASE ResetTruncate
    <2>1. reset'.ledger = R /\ ledger' = None /\ UNCHANGED <<log, open, dated, meter, other, trim>>
      BY <1>15, Types DEF ResetTruncate, ResetType
    <2>2. Once' /\ Served' /\ Good(R)' /\ Good(O)' /\ Good(M)'
      BY <1>2, <1>8, <2>1
    <2> QED
      BY <1>2, <2>1, <2>2, CountsNext
  <1>16. CASE ResetWrite \/ ResetDies
    <2>1. /\ reset'.ledger = Fresh /\ UNCHANGED <<log, open, dated, meter, other, trim>>
          /\ ledger' = R \/ ledger' = G
      BY <1>16, Initials DEF ResetWrite, ResetDies
    <2>2. Once' /\ Served' /\ Good(R)' /\ Good(O)' /\ Good(M)' /\ (ledger # None => Good(G)')
      BY <1>2, <1>8, <2>1
    <2>3. CASE ledger' = G
      BY <1>2, <1>9, <2>1, <2>2, <2>3, CountsNext
    <2>4. CASE ledger' = R
      BY <1>2, <1>9, <2>1, <2>2, <2>4, CountsNext
    <2> QED
      BY <2>1, <2>3, <2>4
  <1> QED
    BY <1>5, <1>6, <1>7, <1>10, <1>11, <1>12, <1>13, <1>14, <1>15, <1>16, <1>17
       DEF Next, WebServer, Trim, Meter, Reset

\* A refresh reads only what was appended: no line is added twice to the total of
\* a month, whatever is rotated, put away or replaced, whatever month it is and
\* however a reset meets a refresh or two processes refresh at once; a log cut by the size limit, and one replaced
\* between the stat and the open of one refresh, are left out.
THEOREM CountedOnceHolds == Spec => []CountedOnce
  BY Typed, CountInit, CountStep, CountResult, PTL DEF Spec

-----------------------------------------------------------------------------
(* The offset is where the total stands                                       *)

\* The log, if nothing happened to it but what the web server wrote: line l is at
\* the cells 2l - 1 and 2l, the last one may lack its end.
Text == log[serving].text
Rows ==
  /\ trim.pc = "idle" /\ Existing = {serving}
  /\ Len(Text) = IF open THEN 2 * Len(dated) - 1 ELSE 2 * Len(dated)
  /\ \A l \in 1..Len(dated) : /\ dated[l] <= month /\ Text[2 * l - 1] = <<l, "head">>
                              /\ 2 * l <= Len(Text) => Text[2 * l] = <<l, "end">>

\* A ledger whose offset is at the end of a line and whose total is what lies
\* before it of its month; the lines before the offset are of no later month.
Front(g) ==
  /\ g.path \in {0, serving} /\ g.period <= month
  /\ g.path = 0 => \A l \in Lines : g.counted[l] = 0
  /\ g.path # 0 => g.inode = log[serving].inode
  /\ \E m \in Nat : g.offset = 2 * m
  /\ g.offset <= Len(Text)
  /\ \A l \in 1..Len(dated) : 2 * l <= g.offset => dated[l] <= g.period
  /\ \A l \in 1..Len(dated) : dated[l] = g.period /\ 2 * l <= Len(Text) =>
        g.counted[l] = IF 2 * l <= g.offset THEN 1 ELSE 0
  /\ \A l \in Lines : 2 * l > Len(Text) => g.counted[l] = 0

FrontOn ==
  /\ Rows
  /\ ledger # None => Front(ledger)
  /\ Front(meter.ledger) /\ Front(other.ledger) /\ Front(reset.ledger)
  /\ meter.pc # "idle" => meter.period = month
  /\ meter.pc = "read" /\ meter.first => meter.ledger.offset = 0
  /\ other.pc # "idle" => other.period = month
  /\ other.pc = "read" /\ other.first => other.ledger.offset = 0
FrontInv == upset \subseteq {"reset", "overlap", "unread"} => FrontOn

LEMMA PeriodNat == \A g \in LedgerType : g.period \in Nat
  <1> SUFFICES ASSUME NEW g \in LedgerType PROVE g.period \in Nat
    OBVIOUS
  <1>1. g.period \in Months \cup {0}
    BY DEF LedgerType
  <1>2. CASE g.period = 0
    BY <1>2
  <1>3. CASE g.period \in 1..MaxMonth
    BY <1>3, MeterAssumption
  <1> QED
    BY <1>1, <1>2, <1>3 DEF Months

LEMMA Halves == \A j \in Nat \ {0} : \E l \in Nat \ {0} : j = 2 * l \/ j = 2 * l - 1
  <1> SUFFICES ASSUME NEW j \in Nat \ {0} PROVE \E l \in Nat \ {0} : j = 2 * l \/ j = 2 * l - 1
    OBVIOUS
  <1>1. (j + 1) \div 2 \in Nat \ {0} /\ (j = 2 * ((j + 1) \div 2) \/ j = 2 * ((j + 1) \div 2) - 1)
    OBVIOUS
  <1> QED
    BY <1>1

LEMMA Sizes ==
  ASSUME TypeOK
  PROVE  /\ Text \in Seq(Cells) /\ Len(Text) \in Nat
         /\ dated \in Seq(Months) /\ Len(dated) \in Nat /\ Len(dated) <= MaxLines
         /\ \A l \in 1..Len(dated) : l \in Lines /\ dated[l] \in Nat \ {0}
         /\ month \in Nat /\ serving \in Paths /\ serving # 0
  <1>1. dated \in Seq(Months) /\ Len(dated) <= MaxLines /\ month \in Months /\ serving \in Paths
    BY Types
  <1>2. Text \in Seq(Cells)
    BY Types DEF LogType, Text
  <1>3. \A l \in 1..Len(dated) : dated[l] \in Months
    BY <1>1
  <1>4. Months \subseteq Nat \ {0} /\ serving # 0
    BY <1>1, MeterAssumption, Initials
  <1>7. \A l \in 1..Len(dated) : l \in Lines
    BY <1>1, MeterAssumption DEF Lines
  <1>8. \A l \in 1..Len(dated) : dated[l] \in Nat \ {0}
    BY <1>3, <1>4
  <1>5. \A l \in 1..Len(dated) : l \in Lines /\ dated[l] \in Nat \ {0}
    BY <1>7, <1>8
  <1>6. Len(Text) \in Nat /\ Len(dated) \in Nat /\ month \in Nat
    BY <1>1, <1>2, <1>4
  <1> QED
    BY <1>1, <1>2, <1>4, <1>5, <1>6

\* A cell is the head or the end of the line its place says.
LEMMA Places ==
  ASSUME TypeOK, Rows, NEW j \in 1..Len(Text)
  PROVE  \E l \in 1..Len(dated) : \/ j = 2 * l /\ Text[j] = <<l, "end">>
                                  \/ j = 2 * l - 1 /\ Text[j] = <<l, "head">>
  <1>0. j \in Nat \ {0} /\ j <= Len(Text) /\ Len(Text) \in Nat /\ Len(dated) \in Nat
    BY Sizes
  <1>1. PICK l \in Nat \ {0} : j = 2 * l \/ j = 2 * l - 1
    BY <1>0, Halves
  <1>2. /\ Len(Text) = IF open THEN 2 * Len(dated) - 1 ELSE 2 * Len(dated)
        /\ open \in BOOLEAN
    BY Types DEF Rows
  <1>3. l \in 1..Len(dated)
    BY <1>0, <1>1, <1>2
  <1>4. Text[2 * l - 1] = <<l, "head">> /\ (2 * l <= Len(Text) => Text[2 * l] = <<l, "end">>)
    BY <1>3 DEF Rows
  <1> QED
    BY <1>0, <1>1, <1>3, <1>4

LEMMA FrontResult == TypeOK /\ FrontInv => Frontier
  <1> SUFFICES ASSUME TypeOK, FrontInv, ledger # None, upset \subseteq {"reset", "overlap", "unread"}, ledger.path # 0,
                      NEW k \in DOMAIN log[ledger.path].text,
                      log[ledger.path].text[k][2] = "end",
                      dated[log[ledger.path].text[k][1]] = ledger.period
               PROVE  ledger.counted[log[ledger.path].text[k][1]] = IF k <= ledger.offset THEN 1 ELSE 0
    BY DEF Frontier
  <1>1. Rows /\ Front(ledger)
    BY DEF FrontInv, FrontOn
  <1>2. log[ledger.path].text = Text
    BY <1>1 DEF Front, Text
  <1>3. k \in 1..Len(Text)
    BY <1>2, Sizes
  <1>4. PICK l \in 1..Len(dated) : \/ k = 2 * l /\ Text[k] = <<l, "end">>
                                   \/ k = 2 * l - 1 /\ Text[k] = <<l, "head">>
    BY <1>1, <1>3, Places
  <1>5. k = 2 * l /\ Text[k][1] = l
    BY <1>2, <1>4
  <1>6. 2 * l <= Len(Text) /\ dated[l] = ledger.period
    BY <1>2, <1>3, <1>5
  <1> QED
    BY <1>1, <1>2, <1>5, <1>6 DEF Front

LEMMA FrontFresh ==
  ASSUME TypeOK, FrontOn
  PROVE  Front(Fresh)
  <1>1. \E m \in Nat : 0 = 2 * m
    <2> WITNESS 0 \in Nat
    <2> QED
      OBVIOUS
  <1> QED
    BY <1>1, Sizes, Initials DEF Front

LEMMA FrontInit == Init => FrontInv
  <1> SUFFICES ASSUME Init PROVE FrontOn
    BY DEF FrontInv
  <1>1. TypeOK
    BY TypeInit
  <1>2. log[serving].text = <<>> /\ Existing = {serving} /\ dated = <<>> /\ open = FALSE
    <2>1. PICK i \in Inodes : log = [p \in Paths |-> [there |-> p = serving, inode |-> i, text |-> <<>>]]
      BY DEF Init
    <2> QED
      BY <2>1 DEF Init, Existing
  <1>3. Rows
    BY <1>2, Initials DEF Rows, Text, Init
  <1>4. Front(Fresh)
    <2>1. \E m \in Nat : 0 = 2 * m
      <3> WITNESS 0 \in Nat
      <3> QED
        OBVIOUS
    <2> QED
      BY <1>1, <2>1, Sizes, Initials DEF Front
  <1>5. /\ meter.pc = "idle" /\ meter.ledger = Fresh /\ reset.ledger = Fresh
        /\ other.pc = "idle" /\ other.ledger = Fresh
        /\ ledger \in {Fresh, None}
    BY Initials DEF Init
  <1> QED
    BY <1>3, <1>4, <1>5 DEF FrontOn

LEMMA FrontsNext ==
  ASSUME NEW G, NEW M, NEW O, NEW R, Rows',
         ledger' # None => ledger' = G /\ Front(G)',
         meter'.ledger = M, Front(M)', other'.ledger = O, Front(O)', reset'.ledger = R, Front(R)',
         meter'.pc # "idle" => meter'.period = month',
         meter'.pc = "read" /\ meter'.first => M.offset = 0,
         other'.pc # "idle" => other'.period = month',
         other'.pc = "read" /\ other'.first => O.offset = 0
  PROVE  FrontOn'
  <1>1. ledger' # None => Front(ledger)'
    BY DEF Front
  <1>2. Front(meter.ledger)'
    BY DEF Front
  <1>3. Front(other.ledger)'
    BY DEF Front
  <1>4. Front(reset.ledger)'
    BY DEF Front
  <1> QED
    BY <1>1, <1>2, <1>3, <1>4 DEF FrontOn

\* A line is served: its cells are after every offset, and no total has it yet.
LEMMA FrontServe ==
  ASSUME TypeOK, OpenOK, Rows, ServeHead \/ ServeEnd
  PROVE  Rows' /\ \A g \in LedgerType : Front(g) => Front(g)'
  <1>0. /\ Text \in Seq(Cells) /\ Len(Text) \in Nat /\ dated \in Seq(Months) /\ Len(dated) \in Nat
        /\ \A l \in 1..Len(dated) : l \in Lines /\ dated[l] \in Nat \ {0}
        /\ month \in Nat /\ serving \in Paths /\ open \in BOOLEAN
    BY Sizes, Types
  <1>1. PICK t \in Seq(Cells) : t = Text
    BY <1>0
  <1>2. PICK n \in Nat : n = Len(dated)
    BY <1>0
  <1>3. PICK d \in Seq(Months) : d = dated
    BY <1>0
  <1>4. PICK c \in Cells : AppendCell(c) /\ \/ ServeHead /\ c = <<n + 1, "head">>
                                            \/ ServeEnd /\ c = <<n, "end">> /\ n >= 1
    BY <1>2, HeadServed, EndServed DEF OpenOK, ServeEnd
  <1>5. serving' = serving /\ month' = month /\ trim' = trim
    BY DEF ServeHead, ServeEnd
  <1>6. /\ log'[serving].text = Append(t, c) /\ log'[serving].inode = log[serving].inode
        /\ Existing' = Existing
    BY <1>1, <1>4, Appended DEF Text
  <1>7. PICK u \in Seq(Cells) : u = Append(t, c)
    <2>1. Append(t, c) \in Seq(Cells)
      OBVIOUS
    <2> QED
      BY <2>1
  <1>8. Text' = u /\ Len(u) = Len(t) + 1 /\ u[Len(t) + 1] = c /\ \A k \in 1..Len(t) : u[k] = t[k]
    BY <1>5, <1>6, <1>7 DEF Text
  <1>9. PICK e \in Seq(Months) : e = dated'
    BY <1>0, HeadServed, EndServed
  <1>10. /\ Len(t) = IF open THEN 2 * n - 1 ELSE 2 * n
         /\ \A l \in 1..n : /\ d[l] <= month /\ t[2 * l - 1] = <<l, "head">>
                            /\ 2 * l <= Len(t) => t[2 * l] = <<l, "end">>
    BY <1>1, <1>2, <1>3 DEF Rows
  <1>11. /\ Len(t) \in Nat /\ \A l \in 1..n : e[l] = d[l]
         /\ \/ ~open /\ open' = TRUE /\ Len(e) = n + 1 /\ e[n + 1] = month /\ c = <<n + 1, "head">>
            \/ open /\ open' = FALSE /\ Len(e) = n /\ c = <<n, "end">> /\ n >= 1
    <2>1. CASE ServeHead /\ c = <<n + 1, "head">>
      BY <1>0, <1>2, <1>3, <1>9, <2>1, HeadServed
    <2>2. CASE ServeEnd /\ c = <<n, "end">> /\ n >= 1
      BY <1>0, <1>2, <1>3, <1>9, <2>2, EndServed
    <2> QED
      BY <1>4, <2>1, <2>2
  <1>12. Rows'
    <2>1. Len(u) = IF open' THEN 2 * Len(e) - 1 ELSE 2 * Len(e)
      <3>1. Len(u) = Len(t) + 1 /\ Len(t) = IF open THEN 2 * n - 1 ELSE 2 * n
        BY <1>8, <1>10
      <3>2. \/ open = FALSE /\ open' = TRUE /\ Len(e) = n + 1
            \/ open = TRUE /\ open' = FALSE /\ Len(e) = n
        BY <1>0, <1>11
      <3>3. CASE open = FALSE /\ open' = TRUE /\ Len(e) = n + 1
        BY <3>1, <3>3
      <3>4. CASE open = TRUE /\ open' = FALSE /\ Len(e) = n
        BY <3>1, <3>4
      <3> QED
        BY <3>2, <3>3, <3>4
    <2>2. ASSUME NEW l \in 1..Len(e)
          PROVE  /\ e[l] <= month /\ u[2 * l - 1] = <<l, "head">>
                 /\ 2 * l <= Len(u) => u[2 * l] = <<l, "end">>
      <3>1. CASE ~open
        <4>1. CASE l = n + 1
          BY <1>0, <1>8, <1>10, <1>11, <3>1, <4>1
        <4>2. CASE l \in 1..n
          <5>1. 2 * l - 1 \in 1..Len(t) /\ 2 * l \in 1..Len(t)
            BY <1>10, <1>11, <3>1, <4>2
          <5>2. u[2 * l - 1] = t[2 * l - 1] /\ u[2 * l] = t[2 * l]
            BY <1>8, <5>1
          <5>3. /\ d[l] <= month /\ t[2 * l - 1] = <<l, "head">> /\ e[l] = d[l]
                /\ 2 * l <= Len(t) => t[2 * l] = <<l, "end">>
            BY <1>10, <1>11, <4>2
          <5> QED
            BY <5>1, <5>2, <5>3
        <4> QED
          BY <1>11, <2>2, <3>1, <4>1, <4>2
      <3>2. CASE open
        <4>0. l \in 1..n
          BY <1>11, <3>2
        <4>1. CASE l = n
          <5>1. 2 * l - 1 \in 1..Len(t) /\ 2 * l = Len(t) + 1
            BY <1>10, <1>11, <3>2, <4>1
          <5> QED
            BY <1>8, <1>10, <1>11, <3>2, <4>0, <4>1, <5>1
        <4>2. CASE l # n
          <5>1. 2 * l - 1 \in 1..Len(t) /\ 2 * l \in 1..Len(t)
            BY <1>10, <1>11, <3>2, <4>0, <4>2
          <5>2. u[2 * l - 1] = t[2 * l - 1] /\ u[2 * l] = t[2 * l]
            BY <1>8, <5>1
          <5>3. /\ d[l] <= month /\ t[2 * l - 1] = <<l, "head">> /\ e[l] = d[l]
                /\ 2 * l <= Len(t) => t[2 * l] = <<l, "end">>
            BY <1>10, <1>11, <4>0
          <5> QED
            BY <5>1, <5>2, <5>3
        <4> QED
          BY <4>1, <4>2
      <3> QED
        BY <1>0, <3>1, <3>2
    <2> QED
      BY <1>5, <1>6, <1>8, <1>9, <2>1, <2>2 DEF Rows
  <1>13. ASSUME NEW g \in LedgerType, Front(g) PROVE Front(g)'
    <2>1. /\ g.path \in {0, serving} /\ g.period <= month
          /\ g.path = 0 => \A l \in Lines : g.counted[l] = 0
          /\ g.path # 0 => g.inode = log[serving].inode
          /\ \E m \in Nat : g.offset = 2 * m
          /\ g.offset <= Len(t)
          /\ \A l \in 1..n : 2 * l <= g.offset => d[l] <= g.period
          /\ \A l \in 1..n : d[l] = g.period /\ 2 * l <= Len(t) =>
                g.counted[l] = IF 2 * l <= g.offset THEN 1 ELSE 0
          /\ \A l \in Lines : 2 * l > Len(t) => g.counted[l] = 0
      BY <1>1, <1>2, <1>3, <1>13 DEF Front
    <2>2. g.offset \in Nat
      BY DEF LedgerType
    <2>3. g.offset <= Len(u)
      BY <1>8, <1>11, <2>1, <2>2
    <2>4. ASSUME NEW l \in 1..Len(e), 2 * l <= g.offset PROVE e[l] <= g.period
      BY <1>10, <1>11, <2>1, <2>2, <2>4
    <2>5. ASSUME NEW l \in 1..Len(e), e[l] = g.period, 2 * l <= Len(u)
          PROVE  g.counted[l] = IF 2 * l <= g.offset THEN 1 ELSE 0
      <3>1. CASE 2 * l <= Len(t)
        BY <1>10, <1>11, <2>1, <2>5, <3>1
      <3>2. CASE 2 * l > Len(t)
        <4>1. l \in 1..n /\ l \in Lines
          BY <1>0, <1>2, <1>8, <1>10, <1>11, <2>5
        <4> QED
          BY <1>8, <1>11, <2>1, <2>2, <3>2, <4>1
      <3> QED
        BY <1>11, <3>1, <3>2
    <2>6. ASSUME NEW l \in Lines, 2 * l > Len(u) PROVE g.counted[l] = 0
      BY <1>8, <1>11, <2>1, <2>6 DEF Lines
    <2> QED
      BY <1>5, <1>6, <1>8, <1>9, <2>1, <2>3, <2>4, <2>5, <2>6 DEF Front
  <1> QED
    BY <1>12, <1>13

\* A ledger of which only the offset and the total change, in a log that stays.
LEMMA FrontAt ==
  ASSUME TypeOK, Rows, NEW g \in LedgerType, NEW k \in Nat, g.offset = 2 * k, g.offset <= Len(Text),
         g.path = serving, g.inode = log[serving].inode, g.period = month,
         \A l \in 1..Len(dated) : dated[l] = month /\ 2 * l <= Len(Text) =>
            g.counted[l] = IF 2 * l <= g.offset THEN 1 ELSE 0,
         \A l \in Lines : 2 * l > Len(Text) => g.counted[l] = 0
  PROVE  Front(g)
  <1>1. /\ month \in Nat /\ serving # 0 /\ \A l \in 1..Len(dated) : dated[l] <= month
    BY Sizes DEF Rows
  <1>2. \A l \in 1..Len(dated) : 2 * l <= g.offset => dated[l] <= g.period
    BY <1>1
  <1>3. g.path \in {0, serving} /\ g.period <= month /\ (g.path = 0 => \A l \in Lines : g.counted[l] = 0)
    BY <1>1
  <1> QED
    BY <1>2, <1>3 DEF Front

\* A refresh begins: what it takes over of another month is nothing.
LEMMA StatFronts ==
  ASSUME TypeOK, FrontOn, Stat, "window" \notin upset'
  PROVE  \E M \in LedgerType :
           /\ M = meter'.ledger /\ Front(M) /\ (meter'.first => M.offset = 0) /\ meter'.period = month
           /\ UNCHANGED <<log, serving, open, month, dated, ledger, other, reset, trim>>
  <1>0. Rows /\ Existing = {serving} /\ (meter.period = month \/ meter.pc = "idle")
    BY DEF FrontOn, Rows
  <1>1. PICK old \in Loads, p \in Existing, len \in Nat, ino \in Inodes :
           /\ p # 0 /\ len = Len(log[p].text) /\ ino = log[p].inode
           /\ meter.pc = "stat" /\ meter'.ledger \in LedgerType
           /\ meter'.first = (old.path = 0) /\ meter'.period = meter.period
           /\ Begins(old, meter'.ledger, meter.period, p, len, ino)
           /\ "window" \notin upset' => ~(old.path = 0 /\ meter'.ledger.offset > 0)
           /\ UNCHANGED <<log, serving, open, month, dated, ledger, other, reset, trim>>
    BY Stated
  <1>2. Rows /\ p = serving /\ meter.period = month /\ len = Len(Text)
    BY <1>0, <1>1 DEF Text, FrontOn, Rows
  <1>3. PICK M \in LedgerType : M = meter'.ledger
    BY <1>1
  <1>4. old \in LedgerType
    BY <1>1, LoadsType
  <1>5. Front(old)
    BY <1>1, LoadsType, FrontFresh DEF FrontOn
  <1>6. Begins(old, M, month, serving, Len(Text), log[serving].inode)
    BY <1>1, <1>2, <1>3, <1>4
  <1>7. /\ M.period = month /\ M.path = serving /\ M.inode = log[serving].inode
        /\ old.path = 0 => M.offset = Max({len - FirstCells, 0})
        /\ old.path = 0 => ~(M.offset > 0)
        /\ old.path \in {0, serving} /\ M.offset \in Nat /\ old.offset \in Nat
        /\ Len(Text) \in Nat
    BY <1>1, <1>2, <1>3, <1>4, <1>5, <1>6, Sizes DEF Begins, Front, LedgerType
  <1>8. old.path # 0 => M.offset = old.offset
    <2> SUFFICES ASSUME old.path # 0 PROVE M.offset = old.offset
      OBVIOUS
    <2>1. old.path = serving /\ old.inode = log[serving].inode /\ old.offset <= Len(Text)
      BY <1>5 DEF Front
    <2>2. ~(Len(Text) < old.offset)
      BY <1>7, <2>1
    <2> QED
      BY <1>6, <2>1, <2>2 DEF Begins
  <1>9. M.counted = IF old.period # month THEN Fresh.counted ELSE old.counted
    BY <1>6, <1>7 DEF Begins
  <1>10. \E k \in Nat : M.offset = 2 * k
    <2>1. CASE old.path = 0
      <3>1. M.offset = 2 * 0
        BY <1>7, <2>1
      <3> QED
        BY <3>1
    <2>2. CASE old.path # 0
      BY <1>5, <1>8, <2>2 DEF Front
    <2> QED
      BY <2>1, <2>2
  <1>11. M.offset <= Len(Text)
    <2>1. CASE old.path = 0
      BY <1>7, <2>1
    <2>2. CASE old.path # 0
      BY <1>5, <1>8, <2>2 DEF Front
    <2> QED
      BY <2>1, <2>2
  <1>12. ASSUME NEW l \in 1..Len(dated), dated[l] = month, 2 * l <= Len(Text)
         PROVE  M.counted[l] = IF 2 * l <= M.offset THEN 1 ELSE 0
    <2>0. l \in Lines /\ l \in Nat \ {0} /\ month \in Nat /\ old.period \in Nat
      <3>3. l \in Lines /\ month \in Nat
        BY Sizes
      <3>4. l \in Nat \ {0}
        BY <3>3, Initials DEF Lines
      <3>5. old.period \in Nat
        BY <1>4, PeriodNat
      <3> QED
        BY <3>3, <3>4, <3>5
    <2>1. CASE old.path = 0
      <3>1. M.counted[l] = 0
        BY <1>5, <1>9, <2>0, <2>1, Initials DEF Front
      <3>2. ~(2 * l <= M.offset)
        BY <1>7, <2>0, <2>1
      <3> QED
        BY <3>1, <3>2
    <2>2. CASE old.path # 0 /\ old.period = month
      BY <1>5, <1>8, <1>9, <1>12, <2>2 DEF Front
    <2>3. CASE old.path # 0 /\ old.period # month
      <3>1. M.counted[l] = 0
        BY <1>9, <2>0, <2>3, Initials
      <3>2. old.period < month
        BY <1>5, <2>0, <2>3 DEF Front
      <3>3. ~(2 * l <= old.offset)
        <4>1. 2 * l <= old.offset => dated[l] <= old.period
          BY <1>5 DEF Front
        <4> QED
          BY <1>12, <2>0, <3>2, <4>1
      <3> QED
        BY <1>8, <2>3, <3>1, <3>3
    <2> QED
      BY <2>1, <2>2, <2>3
  <1>13. \A l \in Lines : 2 * l > Len(Text) => M.counted[l] = 0
    BY <1>5, <1>9, Initials DEF Front
  <1>14. PICK k \in Nat : M.offset = 2 * k
    BY <1>10
  <1>15. Front(M)
    BY <1>2, <1>7, <1>11, <1>12, <1>13, <1>14, FrontAt
  <1>16. meter'.first => M.offset = 0
    <2>1. meter'.first => old.path = 0
      BY <1>1, <1>4, Zenon
    <2>2. old.path = 0 => M.offset = 0
      BY <1>7
    <2> QED
      BY <2>1, <2>2
  <1> QED
    BY <1>1, <1>2, <1>3, <1>15, <1>16

\* A refresh reads from the end of a line to the end of a line: a chunk is larger
\* than a line.
LEMMA ReadFronts ==
  ASSUME TypeOK, FrontOn, Read
  PROVE  \E M \in LedgerType :
           /\ M = meter'.ledger /\ Front(M) /\ meter'.pc = "save" /\ meter'.period = month
           /\ UNCHANGED <<log, serving, open, month, dated, ledger, other, reset, trim>>
  <1>1. PICK g \in LedgerType, new \in LedgerType, t \in Seq(Cells), to \in Nat, skip \in Nat, stop \in Nat :
            Reads(g, new, t, to, skip, stop)
    BY ReadDone
  <1>2. /\ g = meter.ledger /\ new = meter'.ledger /\ g.path \in Existing /\ g.offset \in Nat
        /\ t = log[g.path].text
        /\ to = g.offset \/ to <= Len(t)
        /\ StopsAt(t, g.offset, to, meter.first, skip, stop)
        /\ new.period = g.period /\ new.path = g.path /\ new.inode = g.inode /\ new.offset = stop
        /\ g.period = meter.period
        /\ \A l \in Lines : new.counted[l] = IF l \in Whole(t, skip + 1, stop, g.period)
                                             THEN Min({g.counted[l] + 1, 2}) ELSE g.counted[l]
        /\ meter.pc = "read" /\ meter'.pc = "save" /\ meter'.period = meter.period
        /\ UNCHANGED <<log, serving, open, month, dated, ledger, other, reset, trim>>
    BY <1>1 DEF Reads
  <1>3. /\ Rows /\ Front(g) /\ g.path = serving /\ t = Text /\ g.period = month
        /\ (meter.first => g.offset = 0)
    BY <1>2 DEF FrontOn, Rows, Text
  <1>4. /\ Len(t) \in Nat /\ serving # 0 /\ Len(dated) \in Nat /\ month \in Nat
        /\ g.offset <= Len(t) /\ g.inode = log[serving].inode
        /\ g.offset \in Nat
    BY <1>2, <1>3, Sizes DEF Front
  <1>5. PICK m \in Nat : g.offset = 2 * m
    BY <1>3 DEF Front
  <1>6. /\ skip \in Nat /\ stop \in Nat /\ g.offset <= skip /\ skip <= stop /\ stop <= to
        /\ ~meter.first \/ g.offset = 0 => skip = g.offset
        /\ \A k \in Ends(t, g.offset + 1, to) : k <= stop
        /\ Ends(t, g.offset + 1, to) # {} => stop \in Ends(t, g.offset + 1, to)
        /\ Ends(t, g.offset + 1, to) = {} /\ to - g.offset # ChunkCells => stop = skip
    BY <1>2 DEF StopsAt
  <1>7. meter.first \in BOOLEAN
    BY Types DEF MeterType
  <1>8. skip = g.offset
    BY <1>3, <1>6, <1>7
  <1>9. stop <= Len(t)
    BY <1>2, <1>4, <1>6
  <1>10. \E k \in Nat : stop = 2 * k
    <2>1. CASE Ends(t, g.offset + 1, to) # {}
      <3>1. stop \in g.offset + 1 .. to /\ t[stop][2] = "end"
        BY <1>6, <2>1 DEF Ends
      <3>2. stop \in 1..Len(t)
        BY <1>4, <1>6, <1>9, <3>1
      <3>3. PICK l \in 1..Len(dated) : \/ stop = 2 * l /\ t[stop] = <<l, "end">>
                                       \/ stop = 2 * l - 1 /\ t[stop] = <<l, "head">>
        BY <1>3, <3>2, Places
      <3>4. stop = 2 * l /\ l \in Nat
        BY <1>4, <3>1, <3>3
      <3> QED
        BY <3>4
    <2>2. CASE Ends(t, g.offset + 1, to) = {} /\ to - g.offset # ChunkCells
      BY <1>5, <1>6, <1>8, <2>2
    <2>3. CASE Ends(t, g.offset + 1, to) = {} /\ to - g.offset = ChunkCells
      <3>1. ChunkCells \in Nat /\ ChunkCells >= 2
        BY MeterAssumption
      <3>2. to <= Len(t) /\ g.offset + 2 <= to
        BY <1>2, <1>4, <2>3, <3>1
      <3>3. 2 * (m + 1) \in 1..Len(t) /\ 2 * (m + 1) \in g.offset + 1 .. to
        BY <1>4, <1>5, <3>2
      <3>4. PICK l \in 1..Len(dated) : \/ 2 * (m + 1) = 2 * l /\ t[2 * (m + 1)] = <<l, "end">>
                                       \/ 2 * (m + 1) = 2 * l - 1 /\ t[2 * (m + 1)] = <<l, "head">>
        BY <1>3, <3>3, Places
      <3>5. t[2 * (m + 1)] = <<l, "end">>
        BY <1>4, <3>4
      <3>6. 2 * (m + 1) \in Ends(t, g.offset + 1, to)
        BY <3>3, <3>5 DEF Ends
      <3> QED
        BY <2>3, <3>6
    <2> QED
      BY <2>1, <2>2, <2>3
  \* A line is whole where its end lies.
  <1>11. ASSUME NEW l \in Lines, l \in Whole(t, skip + 1, stop, g.period)
         PROVE  g.offset < 2 * l /\ 2 * l <= stop
    <2>1. PICK k \in skip + 1 .. stop - 1 : t[k + 1] = <<l, "end">>
      BY <1>11 DEF Whole
    <2>2. k + 1 \in 1..Len(t) /\ k + 1 > g.offset /\ k + 1 <= stop
      BY <1>4, <1>6, <1>8, <1>9
    <2>3. PICK i \in 1..Len(dated) : \/ k + 1 = 2 * i /\ t[k + 1] = <<i, "end">>
                                     \/ k + 1 = 2 * i - 1 /\ t[k + 1] = <<i, "head">>
      BY <1>3, <2>2, Places
    <2>4. i = l /\ k + 1 = 2 * l
      BY <2>1, <2>3
    <2> QED
      BY <2>2, <2>4
  <1>12. ASSUME NEW l \in 1..Len(dated), dated[l] = month, 2 * l <= Len(t)
         PROVE  new.counted[l] = IF 2 * l <= stop THEN 1 ELSE 0
    <2>0. l \in Lines /\ l \in Nat \ {0}
      BY Sizes
    <2>1. g.counted[l] = IF 2 * l <= g.offset THEN 1 ELSE 0
      BY <1>3, <1>12 DEF Front
    <2>2. CASE l \in Whole(t, skip + 1, stop, g.period)
      <3>1. g.counted[l] = 0 /\ 2 * l <= stop
        BY <1>4, <1>11, <2>0, <2>1, <2>2
      <3>2. new.counted[l] = Min({0 + 1, 2})
        BY <1>2, <2>0, <2>2, <3>1
      <3> QED
        BY <3>1, <3>2, MinTwo
    <2>3. CASE l \notin Whole(t, skip + 1, stop, g.period)
      <3>1. new.counted[l] = g.counted[l]
        BY <1>2, <2>0, <2>3
      <3>2. ~(g.offset < 2 * l /\ 2 * l <= stop)
        <4> SUFFICES ASSUME g.offset < 2 * l, 2 * l <= stop PROVE FALSE
          OBVIOUS
        <4>1. 2 * l - 1 \in skip + 1 .. stop - 1
          BY <1>5, <1>6, <1>8, <2>0
        <4>2. t[2 * l - 1] = <<l, "head">> /\ t[2 * l] = <<l, "end">>
          BY <1>3, <1>12 DEF Rows
        <4>3. t[(2 * l - 1) + 1] = <<l, "end">>
          <5>1. (2 * l - 1) + 1 = 2 * l
            BY <2>0
          <5> QED
            BY <4>2, <5>1
        <4>4. l \in DOMAIN dated /\ dated[l] = g.period
          BY <1>3, <1>12, Sizes
        <4> QED
          BY <2>0, <2>3, <4>1, <4>2, <4>3, <4>4 DEF Whole
      <3> QED
        BY <1>4, <1>6, <2>0, <2>1, <3>1, <3>2
    <2> QED
      BY <2>2, <2>3
  <1>13. ASSUME NEW l \in Lines, 2 * l > Len(t) PROVE new.counted[l] = 0
    <2>1. l \notin Whole(t, skip + 1, stop, g.period)
      BY <1>4, <1>6, <1>9, <1>11, <1>13 DEF Lines
    <2>2. g.counted[l] = 0
      BY <1>3, <1>13 DEF Front
    <2> QED
      BY <1>2, <2>1, <2>2
  <1>14. PICK k \in Nat : stop = 2 * k
    BY <1>10
  <1>15. Front(new)
    BY <1>2, <1>3, <1>4, <1>9, <1>12, <1>13, <1>14, FrontAt
  <1> QED
    BY <1>2, <1>3, <1>15

LEMMA FrontStep == TypeOK /\ OpenOK /\ FrontInv /\ [Next]_vars => FrontInv'
  <1> SUFFICES ASSUME TypeOK, OpenOK, FrontInv, [Next]_vars, upset' \subseteq {"reset", "overlap", "unread"}
               PROVE  FrontOn'
    BY DEF FrontInv
  <1>0. FrontOn /\ \A w \in Upsets \ {"reset", "overlap", "unread"} : w \notin upset'
    BY UpsetGrows DEF FrontInv
  <1> PICK G : G = ledger
    OBVIOUS
  <1> PICK M : M = meter.ledger
    OBVIOUS
  <1> PICK O : O = other.ledger
    OBVIOUS
  <1> PICK R : R = reset.ledger
    OBVIOUS
  <1>2. /\ Rows /\ trim.pc = "idle"
        /\ ledger # None => Front(G)
        /\ Front(M) /\ Front(O) /\ Front(R)
        /\ meter.pc # "idle" => meter.period = month
        /\ meter.pc = "read" /\ meter.first => M.offset = 0
        /\ other.pc # "idle" => other.period = month
        /\ other.pc = "read" /\ other.first => O.offset = 0
        /\ Existing = {serving}
    BY <1>0 DEF FrontOn, Rows
  <1>3. (ledger # None => G \in LedgerType) /\ M \in LedgerType /\ O \in LedgerType /\ R \in LedgerType
    BY Types DEF MeterType, ResetType
  <1>4. Front(Fresh)
    BY <1>0, FrontFresh
  <1>5. CASE ServeHead \/ ServeEnd
    <2>1. Rows' /\ \A g \in LedgerType : Front(g) => Front(g)'
      BY <1>2, <1>5, FrontServe
    <2>2. UNCHANGED <<month, ledger, meter, other, reset, trim>>
      BY <1>5 DEF ServeHead, ServeEnd
    <2> QED
      BY <1>2, <1>3, <2>1, <2>2, FrontsNext
  <1>6. CASE CopyTruncate \/ RenameRotate \/ NewLog \/ TrimRead
    <2>1. upset' \cap {"rotate", "switch", "trim"} # {}
      BY <1>6 DEF CopyTruncate, RenameRotate, NewLog, TrimRead, Spend
    <2> QED
      BY <1>0, <2>1 DEF Upsets
  <1>7. CASE TrimTruncate \/ TrimWrite
    BY <1>2, <1>7, TrimDone
  <1>8. ASSUME UNCHANGED <<log, serving, open, dated, trim>>, month' \in Nat, month' >= month
        PROVE  Rows' /\ \A g \in LedgerType : Front(g) => Front(g)'
    <2>0. month \in Nat /\ \A l \in 1..Len(dated) : dated[l] \in Nat
      BY Sizes
    <2>1. Rows'
      <3>1. \A l \in 1..Len(dated) : dated[l] <= month'
        BY <1>2, <1>8, <2>0 DEF Rows
      <3> QED
        BY <1>2, <1>8, <3>1 DEF Rows, Text, Existing
    <2>2. ASSUME NEW g \in LedgerType, Front(g) PROVE Front(g)'
      <3>1. g.period <= month'
        <4>1. g.period \in Nat
          BY PeriodNat
        <4>2. g.period <= month
          BY <2>2 DEF Front
        <4> QED
          BY <1>8, <2>0, <4>1, <4>2
      <3> QED
        BY <1>8, <2>2, <3>1 DEF Front, Text
    <2> QED
      BY <2>1, <2>2
  <1>9. month \in Nat /\ Fresh \in LedgerType
    BY Sizes, Initials
  <1>10. CASE MonthTurns
    <2>1. /\ UNCHANGED <<log, serving, open, dated, ledger, meter, other, reset, trim>> /\ month' = month + 1
          /\ meter.pc = "idle" /\ other.pc = "idle"
      BY <1>0, <1>10 DEF MonthTurns, Upsets
    <2>2. Rows' /\ \A g \in LedgerType : Front(g) => Front(g)'
      BY <1>8, <1>9, <2>1
    <2> QED
      BY <1>2, <1>3, <2>1, <2>2, FrontsNext
  <1>11. ASSUME UNCHANGED <<log, serving, open, month, dated, trim>>
         PROVE  Rows' /\ \A g \in LedgerType : Front(g) => Front(g)'
    BY <1>8, <1>9, <1>11
  <1>12. CASE UNCHANGED vars
    <2>1. UNCHANGED <<log, serving, open, month, dated, ledger, meter, other, reset, trim>>
      BY <1>12 DEF vars
    <2>2. Rows' /\ \A g \in LedgerType : Front(g) => Front(g)'
      BY <1>11, <2>1
    <2> QED
      BY <1>2, <1>3, <2>1, <2>2, FrontsNext
  <1>13. CASE RefreshBegin \/ Save \/ RefreshFails
    <2>1. /\ UNCHANGED <<log, serving, open, month, dated, other, reset, trim>>
          /\ meter'.ledger = Fresh /\ meter'.pc # "read"
          /\ meter'.pc # "idle" => meter'.period = month
          /\ ledger' \in {G, M, O, None}
      <3>0. month \in Months
        BY Types
      <3>1. CASE RefreshBegin
        BY <3>0, <3>1, Initials DEF RefreshBegin, MeterType
      <3>2. CASE Save
        BY <3>2, Initials DEF Save, Saved
      <3>3. CASE RefreshFails
        BY <3>3, Initials DEF RefreshFails
      <3> QED
        BY <1>13, <3>1, <3>2, <3>3
    <2>2. Rows' /\ Front(M)' /\ Front(O)' /\ Front(R)' /\ Front(Fresh)' /\ (ledger # None => Front(G)')
      BY <1>2, <1>3, <1>4, <1>9, <1>11, <2>1
    <2>3. CASE ledger' = G
      BY <1>2, <2>1, <2>2, <2>3, FrontsNext
    <2>4. CASE ledger' = M
      BY <1>2, <2>1, <2>2, <2>4, FrontsNext
    <2>5. CASE ledger' = O
      BY <1>2, <2>1, <2>2, <2>5, FrontsNext
    <2>6. CASE ledger' = None
      BY <1>2, <2>1, <2>2, <2>6, FrontsNext
    <2> QED
      BY <2>1, <2>3, <2>4, <2>5, <2>6
  <1>19. CASE OverlapBegin \/ OtherGoesOn
    <2>1. /\ UNCHANGED <<log, serving, open, month, dated, ledger, reset, trim>>
          /\ other' = meter
          /\ \/ meter' = other
             \/ meter'.ledger = Fresh /\ meter'.pc # "read" /\ meter'.period = month
      <3>0. month \in Months
        BY Types
      <3>1. CASE OverlapBegin
        BY <3>0, <3>1, Initials DEF OverlapBegin, MeterType
      <3>2. CASE OtherGoesOn
        BY <3>2 DEF OtherGoesOn
      <3> QED
        BY <1>19, <3>1, <3>2
    <2>2. /\ Rows' /\ Front(M)' /\ Front(O)' /\ Front(R)' /\ Front(Fresh)'
          /\ ledger # None => Front(G)'
      BY <1>2, <1>3, <1>4, <1>9, <1>11, <2>1
    <2>3. CASE meter' = other
      BY <1>2, <2>1, <2>2, <2>3, FrontsNext
    <2>4. CASE meter'.ledger = Fresh /\ meter'.pc # "read" /\ meter'.period = month
      BY <1>2, <2>1, <2>2, <2>4, FrontsNext
    <2> QED
      BY <2>1, <2>3, <2>4
  <1>14. CASE Stat
    <2>1. PICK N \in LedgerType :
            /\ N = meter'.ledger /\ Front(N) /\ (meter'.first => N.offset = 0) /\ meter'.period = month
            /\ UNCHANGED <<log, serving, open, month, dated, ledger, other, reset, trim>>
      BY <1>0, <1>14, StatFronts DEF Upsets
    <2>2. Rows' /\ Front(N)' /\ Front(O)' /\ Front(R)' /\ (ledger # None => Front(G)')
      BY <1>2, <1>3, <1>11, <2>1
    <2> QED
      BY <1>2, <2>1, <2>2, FrontsNext
  <1>15. CASE Read
    <2>1. PICK N \in LedgerType :
            /\ N = meter'.ledger /\ Front(N) /\ meter'.pc = "save" /\ meter'.period = month
            /\ UNCHANGED <<log, serving, open, month, dated, ledger, other, reset, trim>>
      BY <1>0, <1>15, ReadFronts
    <2>2. Rows' /\ Front(N)' /\ Front(O)' /\ Front(R)' /\ (ledger # None => Front(G)')
      BY <1>2, <1>3, <1>11, <2>1
    <2> QED
      BY <1>2, <2>1, <2>2, FrontsNext
  <1>16. CASE ResetRead
    <2>1. /\ reset' \in ResetType /\ ledger \in LedgerType /\ ledger # None
          /\ reset'.ledger.counted = Fresh.counted /\ reset'.ledger.period \in 1..month
          /\ reset'.ledger.offset = 0 /\ reset'.ledger.path = ledger.path
          /\ reset'.ledger.inode = ledger.inode
          /\ UNCHANGED <<log, serving, open, month, dated, ledger, meter, other, trim>>
      BY <1>16, ResetDone
    <2>2. PICK N \in LedgerType : N = reset'.ledger
      BY <2>1 DEF ResetType
    <2>3. Front(N)
      <3>1. /\ N.path \in {0, serving} /\ N.period \in 1..month /\ (N.path # 0 => N.inode = log[serving].inode)
            /\ N.offset = 0 /\ \A l \in Lines : N.counted[l] = 0
        BY <1>2, <2>1, <2>2, Initials DEF Front
      <3>2. \E m \in Nat : N.offset = 2 * m
        <4>1. N.offset = 2 * 0
          BY <3>1
        <4> QED
          BY <4>1
      <3> QED
        BY <1>9, <3>1, <3>2, Sizes DEF Front
    <2>4. Rows' /\ Front(N)' /\ Front(O)' /\ Front(M)' /\ Front(G)'
      BY <1>2, <1>3, <1>11, <2>1, <2>3
    <2> QED
      BY <1>2, <2>1, <2>2, <2>4, FrontsNext
  <1>17. CASE ResetTruncate
    <2>1. reset'.ledger = R /\ ledger' = None /\ UNCHANGED <<log, serving, open, month, dated, meter, other, trim>>
      BY <1>17, Types DEF ResetTruncate, ResetType
    <2>2. Rows' /\ Front(R)' /\ Front(O)' /\ Front(M)'
      BY <1>2, <1>3, <1>11, <2>1
    <2> QED
      BY <1>2, <2>1, <2>2, FrontsNext
  <1>18. CASE ResetWrite \/ ResetDies
    <2>1. /\ reset'.ledger = Fresh /\ UNCHANGED <<log, serving, open, month, dated, meter, other, trim>>
          /\ ledger' = R \/ ledger' = G
      BY <1>18, Initials DEF ResetWrite, ResetDies
    <2>2. Rows' /\ Front(R)' /\ Front(O)' /\ Front(M)' /\ Front(Fresh)' /\ (ledger # None => Front(G)')
      BY <1>2, <1>3, <1>4, <1>9, <1>11, <2>1
    <2>3. CASE ledger' = G
      BY <1>2, <2>1, <2>2, <2>3, FrontsNext
    <2>4. CASE ledger' = R
      BY <1>2, <2>1, <2>2, <2>4, FrontsNext
    <2> QED
      BY <2>1, <2>3, <2>4
  <1> QED
    BY <1>5, <1>6, <1>7, <1>10, <1>12, <1>13, <1>14, <1>15, <1>16, <1>17, <1>18, <1>19
       DEF Next, WebServer, Trim, Meter, Reset

\* The offset of a ledger is where its total stands: if no log was rotated, cut or
\* replaced, a complete line of its month is in the total exactly if it ends
\* before the offset, also across months, after a reset that rewinds it, and
\* whichever of two refreshes of two processes is saved last.
THEOREM FrontierHolds == Spec => []Frontier
  BY Typed, FrontInit, FrontStep, FrontResult, PTL DEF Spec
=============================================================================
