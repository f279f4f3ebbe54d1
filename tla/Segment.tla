------------------------------- MODULE Segment -------------------------------
(***************************************************************************)
(* One segment file of the log with its sparse index: append, read, sync,  *)
(* the recovery scan of openSegment, and the creation of the next segment. *)
(*                                                                         *)
(* SyncLog takes for granted that a reopened log holds the records its     *)
(* files hold, each at its offset.  Here is the code that has to make that *)
(* true, on files that are bytes: a file is a sequence of cells, a record  *)
(* occupies as many cells as it is long, and positions count cells after   *)
(* the segment header.  Cells that are not a whole record never pass the   *)
(* checksum.                                                               *)
(*                                                                         *)
(* The segment and its index are two files with no order between their     *)
(* writes.  Until a file is synced a power failure may bring back any      *)
(* content it had since its last sync; `disk' and `ixDisk' are these       *)
(* contents.                                                               *)
(***************************************************************************)
EXTENDS Integers, Sequences, FiniteSets, SequencesExt, FiniteSetsExt

CONSTANTS
  Sizes,            \* sizes of encoded records, in cells
  IndexInterval,    \* indexIntervalBytes, in cells
  MaxSegmentCells,  \* Options.MaxSegmentBytes, in cells
  MaxAppends,       \* bound: calls of append
  MaxCrashes,       \* bound: kills and power failures
  Faults            \* what the environment may do, see FaultKind

(***************************************************************************)
(* "io"         a write, an index read or an index sync may fail;          *)
(* "kill"       the process may die: the page cache survives;              *)
(* "power"      the machine may lose power, except in the window of the    *)
(*              next fault;                                                *)
(* "unsettled"  it may also lose power after a recovery that cut a file    *)
(*              and before the next complete sync, and the read of an      *)
(*              index that outlived its records may fail;                  *)
(* "create"     it may crash, or a write fail, inside createSegment.       *)
(***************************************************************************)
FaultKind == {"io", "kill", "power", "unsettled", "create"}

ASSUME ConstantsAssumption ==
  /\ Sizes \subseteq Nat \ {0}
  /\ {IndexInterval, MaxSegmentCells, MaxAppends, MaxCrashes} \subseteq Nat
  /\ Faults \subseteq FaultKind

VARIABLES
  \* the two files, and what a power failure may leave of them
  file, ixFile, disk, ixDisk,
  successor,    \* the file of the next segment: absent, without header, whole
  \* segment, and while it is recovered the locals of recover
  phase, size, next, entries, lastIndexed,
  target,       \* what a sync in progress will have made durable, or -1
  rolling,      \* inside createSegment for the next segment
  \* observation only
  appends, crashes,
  repaired,     \* recovery cut a file and no sync has completed since
  written,      \* records this process appended, with their offsets
  acked         \* those a completed sync covers

files   == <<file, ixFile, disk, ixDisk>>
memory  == <<size, next, entries, lastIndexed>>
counts  == <<appends, crashes>>
vars    == <<files, successor, phase, memory, target, rolling, counts, repaired, written, acked>>

Init ==
  /\ file = <<>> /\ ixFile = <<>> /\ disk = {<<>>} /\ ixDisk = {<<>>}
  /\ successor = "absent" /\ phase = "open"
  /\ size = 0 /\ next = 0 /\ entries = <<>> /\ lastIndexed = 0
  /\ target = -1 /\ rolling = FALSE
  /\ appends = 0 /\ crashes = 0 /\ repaired = FALSE
  /\ written = {} /\ acked = {}

-----------------------------------------------------------------------------
(* Records in a file. *)

Cut(s, n) == SubSeq(s, 1, n)

\* encodeRecord: the cells of record id.
Encoded(id, n) == [k \in 1 .. n |-> [id |-> id, len |-> n, at |-> k]]

\* file.WriteAt.
WriteAt(f, p, cells) == Cut(f, p) \o cells \o SubSeq(f, p + Len(cells) + 1, Len(f))

\* A record's header can be read at p: its length says where the next one is.
HeaderAt(f, p) == p < Len(f) /\ f[p + 1].at = 1

\* readRecord succeeds at p: the whole record is there.
WholeAt(f, p) ==
  /\ HeaderAt(f, p)
  /\ p + f[p + 1].len <= Len(f)
  /\ \A k \in 1 .. f[p + 1].len : f[p + k] = [f[p + 1] EXCEPT !.at = k]

-----------------------------------------------------------------------------
(* The index. *)

Entry(r, p) == [rel |-> r, pos |-> p]

\* index.append: the entry goes into the slot after those in memory.
IndexAppend(r, p) ==
  /\ entries' = Append(entries, Entry(r, p))
  /\ ixFile' = WriteAt(ixFile, Len(entries), <<Entry(r, p)>>)
  /\ ixDisk' = ixDisk \cup {ixFile'}

IndexDue(p) == entries = <<>> \/ p - lastIndexed >= IndexInterval

\* Mutant of MaybeIndex: the entry names the record after the one at p.
MaybeIndexNext(r, p) ==
  IF IndexDue(p) THEN IndexAppend(r + 1, p) /\ lastIndexed' = p
                 ELSE UNCHANGED <<entries, ixFile, ixDisk, lastIndexed>>

MaybeIndex(r, p) ==
  IF IndexDue(p) THEN IndexAppend(r, p) /\ lastIndexed' = p
                 ELSE UNCHANGED <<entries, ixFile, ixDisk, lastIndexed>>

\* index.lookup: the closest entry at or before r; without one, the header.
Lookup(r) ==
  LET below == {i \in DOMAIN entries : entries[i].rel <= r}
  IN IF below = {} THEN Entry(0, 0) ELSE entries[Max(below)]

\* index.truncateFrom keeps the entries before the first one at p or beyond.
KeptBefore(p) ==
  LET beyond == {i \in DOMAIN entries : entries[i].pos >= p}
  IN IF beyond = {} THEN Len(entries) ELSE Min(beyond) - 1

-----------------------------------------------------------------------------
(* Reading. *)

Fail == -1

\* Where n records after p the next one starts, going by lengths alone.
Walk(p, n) ==
  LET to[i \in 0 .. n] ==
        IF i = 0 THEN p
        ELSE LET q == to[i - 1]
             IN IF q # Fail /\ HeaderAt(Cut(file, size), q) /\ q + file[q + 1].len <= size
                  THEN q + file[q + 1].len ELSE Fail
  IN to[n]

\* segment.read from a known position e: skip to the target and check it.
ReadFrom(e, o) ==
  LET p == Walk(e.pos, o - e.rel)
  IN IF p # Fail /\ WholeAt(Cut(file, size), p) THEN file[p + 1].id ELSE Fail

Read(o) == ReadFrom(Lookup(o), o)

-----------------------------------------------------------------------------
(* segment.append, under the log's lock. *)

Fits(n) == next = 0 \/ size + n <= MaxSegmentCells

CanAppend(n) ==
  /\ phase = "open" /\ ~rolling /\ successor # "whole"
  /\ appends < MaxAppends
  /\ Fits(n)

\* The contents the file passes through while n cells of new are written.
Passing(new, n) == {WriteAt(file, size, Cut(new, j)) : j \in 0 .. n}

AppendRecord(n) ==
  /\ CanAppend(n)
  /\ LET new == Encoded(appends, n)
     IN /\ file' = WriteAt(file, size, new)
        /\ disk' = disk \cup Passing(new, n)
  /\ MaybeIndex(next, size)
  /\ size' = size + n /\ next' = next + 1
  /\ appends' = appends + 1
  /\ written' = written \cup {[offset |-> next, id |-> appends]}
  /\ UNCHANGED <<successor, phase, target, rolling, crashes, repaired, acked>>

\* The write stops after j cells, or the record is written and its entry is not.
AppendFails(n) ==
  /\ "io" \in Faults
  /\ CanAppend(n)
  /\ \E j \in 0 .. n :
       /\ j = n => IndexDue(size)
       /\ LET new == Encoded(appends, n)
          IN /\ file' = WriteAt(file, size, Cut(new, j))
             /\ disk' = disk \cup Passing(new, j)
  /\ appends' = appends + 1
  /\ UNCHANGED <<ixFile, ixDisk, successor, phase, memory, target, rolling, crashes,
                 repaired, written, acked>>

-----------------------------------------------------------------------------
(* segment.sync: the segment, then the index. *)

\* Mutant of SyncFile: returns before the data is on disk.
SyncFileSkipped ==
  /\ phase = "open" /\ ~rolling /\ target = -1
  /\ target' = next
  /\ UNCHANGED <<files, successor, phase, memory, rolling, counts, repaired, written, acked>>

SyncFile ==
  /\ phase = "open" /\ ~rolling /\ target = -1
  /\ disk' = {file}
  /\ target' = next
  /\ UNCHANGED <<file, ixFile, ixDisk, successor, phase, memory, rolling, counts,
                 repaired, written, acked>>

\* index.sync, after which the waiting appends up to target return.
SyncIndex ==
  /\ phase = "open" /\ target # -1
  /\ ixDisk' = {ixFile}
  /\ acked' = acked \cup {w \in written : w.offset < target}
  /\ target' = -1 /\ repaired' = FALSE
  /\ UNCHANGED <<file, ixFile, disk, successor, phase, memory, rolling, counts, written>>

SyncIndexFails ==
  /\ "io" \in Faults
  /\ phase = "open" /\ target # -1
  /\ target' = -1
  /\ UNCHANGED <<files, successor, phase, memory, rolling, counts, repaired, written, acked>>

-----------------------------------------------------------------------------
(* Append's roll: sync under the lock, then createSegment. *)

\* O_EXCL creates the file; one that exists already is an error and stays.
CreateFile ==
  /\ phase = "open" /\ ~rolling /\ target = -1
  /\ disk = {file} /\ ixDisk = {ixFile}
  /\ \E n \in Sizes : ~ Fits(n)
  /\ successor = "absent"
  /\ successor' = "bare" /\ rolling' = TRUE
  /\ UNCHANGED <<files, phase, memory, target, counts, repaired, written, acked>>

\* Writing the header, and opening its index.
WriteHeader ==
  /\ phase = "open" /\ rolling
  /\ rolling' = FALSE
  /\ \/ successor' = "whole"
     \/ "create" \in Faults /\ UNCHANGED successor
  /\ UNCHANGED <<files, phase, memory, target, counts, repaired, written, acked>>

-----------------------------------------------------------------------------
(* Crashes. *)

Crash ==
  /\ crashes < MaxCrashes /\ phase # "down"
  /\ rolling => "create" \in Faults
  /\ crashes' = crashes + 1
  /\ phase' = "down" /\ target' = -1 /\ rolling' = FALSE /\ written' = {}
  /\ UNCHANGED <<memory, appends, repaired, acked>>

Kill ==
  /\ "kill" \in Faults
  /\ Crash
  /\ UNCHANGED <<files, successor>>

PowerLoss ==
  /\ "power" \in Faults
  /\ repaired => "unsettled" \in Faults
  /\ Crash
  /\ \E f \in disk, i \in ixDisk :
       /\ file' = f /\ disk' = {f}
       /\ ixFile' = i /\ ixDisk' = {i}
  /\ \/ UNCHANGED successor
     \/ successor = "bare" /\ successor' = "absent"

-----------------------------------------------------------------------------
(* openSegment. *)

\* The scan starts at position p with the record of relative offset r.
ScanFrom(r, p) ==
  /\ phase' = "scan"
  /\ next' = r /\ size' = p /\ lastIndexed' = p
  /\ UNCHANGED <<file, disk, successor, target, rolling, counts, written, acked>>

\* Mutant of Outlived: the index is never checked against the file.
OutlivedNever == FALSE

\* The index describes records the segment has lost.
Outlived == ixFile # <<>> /\ Last(ixFile).pos >= Len(file)

\* The last entry points inside the file: everything before it is trusted.
OpenAtLastEntry ==
  /\ phase \in {"down", "refused"}
  /\ ixFile # <<>> /\ ~Outlived
  /\ entries' = ixFile
  /\ ScanFrom(Last(ixFile).rel, Last(ixFile).pos)
  /\ UNCHANGED <<ixFile, ixDisk, repaired>>

\* It points beyond the end: the index is reset.
OpenResetsIndex ==
  /\ phase \in {"down", "refused"}
  /\ Outlived
  /\ entries' = <<>> /\ ixFile' = <<>> /\ ixDisk' = ixDisk \cup {<<>>}
  /\ repaired' = TRUE
  /\ ScanFrom(0, 0)

\* There is no index, or it cannot be read; the file keeps what it has.
OpenWithoutIndex ==
  /\ phase \in {"down", "refused"}
  /\ \/ ixFile = <<>>
     \/ /\ "io" \in Faults
        /\ Outlived => "unsettled" \in Faults
  /\ entries' = <<>>
  /\ ScanFrom(0, 0)
  /\ UNCHANGED <<ixFile, ixDisk, repaired>>

\* One turn of recover's loop.
ScanRecord ==
  /\ phase = "scan" /\ WholeAt(file, size)
  /\ MaybeIndex(next, size)
  /\ size' = size + file[size + 1].len /\ next' = next + 1
  /\ UNCHANGED <<file, disk, successor, phase, target, rolling, counts, repaired, written, acked>>

\* Open goes on to the next segment, and fails on one without a header.
Opened == phase' = IF successor = "bare" THEN "refused" ELSE "open"

ScanEnds ==
  /\ phase = "scan" /\ size = Len(file)
  /\ Opened
  /\ UNCHANGED <<files, successor, memory, target, rolling, counts, repaired, written, acked>>

\* Mutant of ScanCuts: the damaged tail stays, and counts as a record.
ScanCutsNothing ==
  /\ phase = "scan" /\ size < Len(file) /\ ~ WholeAt(file, size)
  /\ size' = Len(file) /\ next' = next + 1
  /\ Opened
  /\ UNCHANGED <<files, successor, entries, lastIndexed, target, rolling, counts, repaired,
                 written, acked>>

\* A torn or corrupt record: the file and the index end before it.
ScanCuts ==
  /\ phase = "scan" /\ size < Len(file) /\ ~ WholeAt(file, size)
  /\ file' = Cut(file, size) /\ disk' = disk \cup {file'}
  /\ entries' = Cut(entries, KeptBefore(size))
  /\ ixFile' = entries' /\ ixDisk' = ixDisk \cup {ixFile'}
  /\ repaired' = TRUE
  /\ Opened
  /\ UNCHANGED <<successor, size, next, lastIndexed, target, rolling, counts, written, acked>>

-----------------------------------------------------------------------------
Open == OpenAtLastEntry \/ OpenResetsIndex \/ OpenWithoutIndex

Recover == ScanRecord \/ ScanEnds \/ ScanCuts

Next ==
  \/ \E n \in Sizes : AppendRecord(n) \/ AppendFails(n)
  \/ SyncFile \/ SyncIndex \/ SyncIndexFails
  \/ CreateFile \/ WriteHeader
  \/ Kill \/ PowerLoss
  \/ Open \/ Recover

Spec == Init /\ [][Next]_vars

-----------------------------------------------------------------------------
\* The files hold cells and entries, and positions lie in the file.
TypeOK ==
  /\ \A i \in DOMAIN file :
       file[i].id \in 0 .. MaxAppends - 1 /\ file[i].len \in Sizes /\ file[i].at \in 1 .. file[i].len
  /\ file \in disk /\ ixFile \in ixDisk
  /\ phase \in {"open", "down", "scan", "refused"}
  /\ successor \in {"absent", "bare", "whole"}
  /\ phase \in {"open", "scan"} => size \in 0 .. Len(file) /\ next \in 0 .. size
  /\ phase = "open" => IsPrefix(entries, ixFile)
  /\ target \in -1 .. next /\ rolling \in BOOLEAN /\ repaired \in BOOLEAN

(***************************************************************************)
(* "Every offset the log claims to hold must be readable and intact", and  *)
(* the index is a derived artifact: a read through it returns the record   *)
(* that a scan of the whole segment finds at that offset.                  *)
(***************************************************************************)
ReadsAgree ==
  phase = "open" =>
    \A o \in 0 .. next - 1 : Read(o) # Fail /\ Read(o) = ReadFrom(Entry(0, 0), o)

(***************************************************************************)
(* The index "must never be able to make the log unreadable": a record     *)
(* whose append was answered is read back from its offset, after every     *)
(* crash and every recovery.                                               *)
(***************************************************************************)
AckedReadable ==
  phase = "open" => \A a \in acked : a.offset < next /\ Read(a.offset) = a.id

\* "A crashed writer never leaves a log that cannot be reopened."
Reopens == phase # "refused"

\* Cell i starts no record where one has to start, or continues none.
Breaks(i) ==
  IF file[i].at = 1 THEN i > 1 /\ file[i - 1].at # file[i - 1].len
                    ELSE i = 1 \/ file[i] # [file[i - 1] EXCEPT !.at = @ + 1]

\* How many whole records the file holds, one after the other from its start.
Records ==
  Cardinality({i \in DOMAIN file : file[i].at = file[i].len /\ \A j \in 1 .. i : ~ Breaks(j)})

(***************************************************************************)
(* The segment keeps the promise of a durable log at the level of bytes:   *)
(* whatever fails, only unacknowledged records at the end disappear.       *)
(***************************************************************************)
Promise == INSTANCE AckedLog WITH length <- Records, acknowledged <- {a.offset : a \in acked}
KeepsPromise == Promise!Spec
=============================================================================
