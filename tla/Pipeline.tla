------------------------------ MODULE Pipeline ------------------------------
(***************************************************************************)
(* From a POST to a row: the ingest handler appends an event to the log    *)
(* and answers 202, and the consumer drains the log into Postgres, a batch *)
(* of records, their dead letters and the new offset in one transaction.   *)
(*                                                                         *)
(* An event is a (tenant, idempotency key) pair, here one key, and a       *)
(* content, which stands for its fingerprint.  validate looks at lengths   *)
(* and spaces: it accepts some names that a Postgres text column does not. *)
(*                                                                         *)
(* The log is what SyncLog provides: a record can be read as soon as it is *)
(* written, is answered with 202 once it is on disk, and is lost only by a *)
(* power failure before that.                                              *)
(***************************************************************************)
EXTENDS Integers, Sequences, FiniteSets

CONSTANTS
  Keys,           \* (tenant_id, idempotency_key) pairs
  Contents,       \* payload fingerprints
  NoFingerprint,  \* the NULL fingerprint of a row older than migration 000002
  LegacyKeys,     \* keys with such a row
  Unstorable,     \* contents that validate accepts and Postgres never stores
  Requests,       \* the pairs of key and content that clients send
  BatchSize,      \* Options.BatchSize
  MaxRecords,     \* bound: the log never grows past this many records
  Faults          \* what the environment may do, see FaultKind

(***************************************************************************)
(* "io"      an append may fail after the record was written;              *)
(* "db"      a query or a connection may fail;                             *)
(* "kill"    the process may die;                                          *)
(* "power"   the machine may lose power, and the log what was not synced;  *)
(* "tail"    with them, records that the consumer has committed past;      *)
(* "rewind"  an operator may move the offset back to replay the log, or    *)
(*           lose it;                                                      *)
(* "foreign" a newer build may leave a record that event.Decode refuses.   *)
(***************************************************************************)
FaultKind == {"io", "db", "kill", "power", "tail", "rewind", "foreign"}

ASSUME ConstantsAssumption ==
  /\ NoFingerprint \notin Contents
  /\ LegacyKeys \subseteq Keys
  /\ Unstorable \subseteq Contents
  /\ Requests \subseteq Keys \X Contents
  /\ BatchSize \in Nat \ {0}
  /\ MaxRecords \in Nat
  /\ Faults \subseteq FaultKind

VARIABLES
  log,        \* the records, the one at offset o is log[o + 1]
  onDisk,     \* how many of them are synced
  inflight,   \* offsets whose requests have no answer yet
  acked,      \* offset and event of every request answered with 202
  \* Postgres
  rows,       \* events
  dead,       \* dead_letters
  offset,     \* consumer_offsets.next_offset; zero when there is no row
  \* the consumer
  pc, from, to, cur,
  txRows, txDead,   \* what the open transaction has inserted
  \* observation only
  high,       \* the highest offset ever committed
  calm        \* the faults are over

logVars == <<log, onDisk, inflight, acked>>
dbVars  == <<rows, dead, offset, high>>
runVars == <<pc, from, to, cur, txRows, txDead>>
vars    == <<logVars, dbVars, runVars, calm>>

Usage(k, c)  == [kind |-> IF c \in Unstorable THEN "unstorable" ELSE "usage", key |-> k, content |-> c]
Undecodable  == [kind |-> "undecodable"]
Records      == {Usage(k, c) : k \in Keys, c \in Contents} \cup {Undecodable}
Offsets      == 0 .. MaxRecords - 1

\* A row, with the offset it was stored from.
Row(k, c, o) == [key |-> k, content |-> c, off |-> o]
LegacyRows   == {Row(k, NoFingerprint, -1) : k \in LegacyKeys}

DeadLetter(o, why) == [off |-> o, reason |-> why, record |-> log[o + 1]]

(***************************************************************************)
(* "idle"      between two drains;                                         *)
(* "loop"      Drain is about to read the committed offset;                *)
(* "position"  Drain has read it, and is about to ask where the log ends;  *)
(* "batch"     processBatch has an open transaction.                       *)
(***************************************************************************)
PC == {"idle", "loop", "position", "batch"}

Init ==
  /\ log = <<>> /\ onDisk = 0 /\ inflight = {} /\ acked = {}
  /\ rows = LegacyRows /\ dead = {} /\ offset = 0 /\ high = 0
  /\ pc = "idle" /\ from = 0 /\ to = 0 /\ cur = 0
  /\ txRows = {} /\ txDead = {}
  /\ calm = FALSE

-----------------------------------------------------------------------------
(* Ingest: Handler.ServeHTTP on a valid request, and the log below it. *)

\* Mutant of Post: the handler waits for the record after its own.
PostWaitsForNext(k, c) ==
  /\ Len(log) < MaxRecords
  /\ log' = Append(log, Usage(k, c))
  /\ inflight' = inflight \cup {Len(log) + 1}
  /\ UNCHANGED <<onDisk, acked, dbVars, runVars, calm>>

\* Encode and Append: the record is in the file and the handler waits for it.
Post(k, c) ==
  /\ Len(log) < MaxRecords
  /\ log' = Append(log, Usage(k, c))
  /\ inflight' = inflight \cup {Len(log)}
  /\ UNCHANGED <<onDisk, acked, dbVars, runVars, calm>>

\* Another build of the service leaves a record, and no request waits for it.
PostForeign ==
  /\ "foreign" \in Faults
  /\ Len(log) < MaxRecords
  /\ log' = Append(log, Undecodable)
  /\ UNCHANGED <<onDisk, inflight, acked, dbVars, runVars, calm>>

\* The group commit.
Fsync ==
  /\ onDisk < Len(log)
  /\ onDisk' = Len(log)
  /\ UNCHANGED <<log, inflight, acked, dbVars, runVars, calm>>

\* Mutant of Accept: answers before the record is on disk.
AcceptEarly(o) ==
  /\ inflight' = inflight \ {o}
  /\ acked' = acked \cup {[off |-> o, event |-> log[o + 1]]}
  /\ UNCHANGED <<log, onDisk, dbVars, runVars, calm>>

\* Append returned an offset: 202.
Accept(o) ==
  /\ o < onDisk
  /\ inflight' = inflight \ {o}
  /\ acked' = acked \cup {[off |-> o, event |-> log[o + 1]]}
  /\ UNCHANGED <<log, onDisk, dbVars, runVars, calm>>

\* Append returned an error: 500, and the record may be in the log all the same.
Refuse(o) ==
  /\ "io" \in Faults /\ ~calm
  /\ inflight' = inflight \ {o}
  /\ UNCHANGED <<log, onDisk, acked, dbVars, runVars, calm>>

-----------------------------------------------------------------------------
(* The consumer. *)

Smaller(a, b) == IF a < b THEN a ELSE b
Larger(a, b)  == IF a > b THEN a ELSE b

\* A query, the connection or the whole database may fail, for now.
DbMayFail == "db" \in Faults /\ ~calm

\* Locals go, and a transaction that did not commit with what it inserted.
Return(p) ==
  /\ pc' = p
  /\ from' = 0 /\ to' = 0 /\ cur' = 0 /\ txRows' = {} /\ txDead' = {}

\* Consumer.NextOffset.
ReadOffset ==
  /\ pc \in {"idle", "loop"}
  /\ from' = offset
  /\ pc' = "position"
  /\ UNCHANGED <<logVars, dbVars, to, cur, txRows, txDead, calm>>

\* Nothing past the offset: Drain returns.
CaughtUp ==
  /\ pc = "position"
  /\ from >= Len(log)
  /\ Return("idle")
  /\ UNCHANGED <<logVars, dbVars, calm>>

\* Mutant of BeginBatch: the offset is committed before the batch, on its own.
BeginBatchOffsetFirst ==
  /\ pc = "position"
  /\ from < Len(log)
  /\ to' = Smaller(from + BatchSize, Len(log))
  /\ offset' = to' /\ high' = Larger(high, to')
  /\ cur' = from
  /\ txRows' = {} /\ txDead' = {}
  /\ pc' = "batch"
  /\ UNCHANGED <<logVars, rows, dead, from, calm>>

BeginBatch ==
  /\ pc = "position"
  /\ from < Len(log)
  /\ to' = Smaller(from + BatchSize, Len(log))
  /\ cur' = from
  /\ txRows' = {} /\ txDead' = {}
  /\ pc' = "batch"
  /\ UNCHANGED <<logVars, dbVars, from, calm>>

\* The record processBatch reads next, and what its transaction sees.
Reading == pc = "batch" /\ cur < to
Record  == log[cur + 1]
Stored  == {r \in rows \cup txRows : r.key = Record.key}

\* One record read, with one of the three outcomes.
Advance ==
  /\ cur' = cur + 1
  /\ UNCHANGED <<logVars, dbVars, pc, from, to, calm>>

\* insertDeadLetter: ON CONFLICT (consumer, log_offset) DO NOTHING.
AddDeadLetter(why) ==
  /\ txDead' = IF \E d \in dead \cup txDead : d.off = cur
                 THEN txDead ELSE txDead \cup {DeadLetter(cur, why)}
  /\ UNCHANGED txRows

\* Mutant of StepOver: an undecodable record fails the batch.
StepOverFails ==
  /\ Reading
  /\ Record.kind = "undecodable"
  /\ Return("idle")
  /\ UNCHANGED <<logVars, dbVars, calm>>

StepOver ==
  /\ Reading
  /\ Record.kind = "undecodable"
  /\ AddDeadLetter("undecodable")
  /\ Advance

\* Mutant of ApplyInserted: the insert does not go through the transaction.
ApplyInsertedOutsideTx ==
  /\ Reading
  /\ Record.kind = "usage" /\ Stored = {}
  /\ rows' = rows \cup {Row(Record.key, Record.content, cur)}
  /\ cur' = cur + 1
  /\ UNCHANGED <<logVars, dead, offset, high, txRows, txDead, pc, from, to, calm>>

ApplyInserted ==
  /\ Reading
  /\ Record.kind = "usage" /\ Stored = {}
  /\ txRows' = txRows \cup {Row(Record.key, Record.content, cur)}
  /\ UNCHANGED txDead
  /\ Advance

\* A row without a fingerprint can only be taken for the same event.
ApplyDuplicate ==
  /\ Reading
  /\ Record.kind = "usage"
  /\ \E r \in Stored : r.content \in {NoFingerprint, Record.content}
  /\ UNCHANGED <<txRows, txDead>>
  /\ Advance

ApplyConflict ==
  /\ Reading
  /\ Record.kind = "usage"
  /\ \E r \in Stored : r.content \notin {NoFingerprint, Record.content}
  /\ AddDeadLetter("key_reuse")
  /\ Advance

(***************************************************************************)
(* commitOffset and tx.Commit.  When the connection dies under the commit  *)
(* the transaction may have committed although Drain reports an error.     *)
(***************************************************************************)
Commit ==
  /\ pc = "batch" /\ cur = to
  /\ rows' = rows \cup txRows /\ dead' = dead \cup txDead
  /\ offset' = to /\ high' = Larger(high, to)
  /\ \/ Return("loop")
     \/ DbMayFail /\ Return("idle")
  /\ UNCHANGED <<logVars, calm>>

\* Drain returns an error: a query fails, or Postgres refuses the record.
DrainFails ==
  /\ \/ DbMayFail /\ pc # "idle"
     \/ Reading /\ Record.kind = "unstorable"
  /\ Return("idle")
  /\ UNCHANGED <<logVars, dbVars, calm>>

-----------------------------------------------------------------------------
(* What the environment does. *)

\* Requests without an answer never get one.
Restart == inflight' = {} /\ Return("idle")

\* kill -9: the page cache keeps the log, Postgres rolls the batch back.
Kill ==
  /\ "kill" \in Faults /\ ~calm
  /\ Restart
  /\ UNCHANGED <<log, onDisk, acked, dbVars, calm>>

\* The log keeps what was synced and some of the rest; Postgres keeps commits.
PowerLoss ==
  /\ "power" \in Faults /\ ~calm
  /\ \E n \in onDisk .. Len(log) :
       /\ "tail" \notin Faults => n >= high
       /\ log' = SubSeq(log, 1, n) /\ onDisk' = n
  /\ Restart
  /\ UNCHANGED <<acked, dbVars, calm>>

\* The offset moves back, whatever the consumer is doing.
Rewind ==
  /\ "rewind" \in Faults /\ ~calm
  /\ \E n \in 0 .. offset : offset' = n
  /\ UNCHANGED <<logVars, rows, dead, high, runVars, calm>>

Subside ==
  /\ ~calm /\ calm' = TRUE
  /\ UNCHANGED <<logVars, dbVars, runVars>>

Ingest ==
  \/ \E q \in Requests : Post(q[1], q[2])
  \/ PostForeign
  \/ Fsync
  \/ \E o \in inflight : Accept(o) \/ Refuse(o)

Drain ==
  \/ ReadOffset \/ CaughtUp \/ BeginBatch
  \/ StepOver \/ ApplyInserted \/ ApplyDuplicate \/ ApplyConflict
  \/ Commit \/ DrainFails

Next == Ingest \/ Drain \/ Kill \/ PowerLoss \/ Rewind \/ Subside

Spec == Init /\ [][Next]_vars

(***************************************************************************)
(* runConsumer's ticker starts a drain for as long as the process lives,   *)
(* and logs an error and tries again at the next tick when one fails.      *)
(***************************************************************************)
FairSpec == Spec /\ WF_vars(Drain)

-----------------------------------------------------------------------------
Letters == [off : Offsets, reason : {"undecodable", "key_reuse"}, record : Records]
AnyRow  == [key : Keys, content : Contents, off : Offsets] \cup LegacyRows

\* Everything has the type the code gives it, and the counters their bounds.
TypeOK ==
  /\ log \in Seq(Records) /\ Len(log) <= MaxRecords
  /\ onDisk \in 0 .. Len(log)
  /\ inflight \subseteq 0 .. Len(log) - 1
  /\ acked \subseteq [off : Offsets, event : Records]
  /\ rows \subseteq AnyRow /\ txRows \subseteq AnyRow
  /\ dead \subseteq Letters /\ txDead \subseteq Letters
  /\ offset \in 0 .. MaxRecords /\ high \in offset .. MaxRecords
  /\ pc \in PC
  /\ from \in 0 .. MaxRecords /\ to \in 0 .. MaxRecords /\ cur \in 0 .. MaxRecords
  /\ calm \in BOOLEAN

-----------------------------------------------------------------------------
(* The reference: what the first n records say the database should hold. *)

IsUsage(o) == log[o + 1].kind = "usage"
KeyAt(o)   == log[o + 1].key

\* o is where its key first appears.
First(o) ==
  /\ IsUsage(o) /\ KeyAt(o) \notin LegacyKeys
  /\ \A p \in 0 .. o - 1 : IsUsage(p) => KeyAt(p) # KeyAt(o)

\* o reuses the key of an earlier record for something else.
Reused(o) ==
  /\ IsUsage(o)
  /\ \E p \in 0 .. o - 1 : First(p) /\ KeyAt(p) = KeyAt(o) /\ log[p + 1] # log[o + 1]

RowsOf(n) ==
  LegacyRows \cup {Row(KeyAt(o), log[o + 1].content, o) : o \in {p \in 0 .. n - 1 : First(p)}}

LettersOf(n) ==
  {DeadLetter(o, "undecodable") : o \in {p \in 0 .. n - 1 : log[p + 1].kind = "undecodable"}}
    \cup {DeadLetter(o, "key_reuse") : o \in {p \in 0 .. n - 1 : Reused(p)}}

(***************************************************************************)
(* Exactly once, I2 and I5 together: whatever fails and however often the  *)
(* log is replayed, the events table and the dead letters are exactly what *)
(* the log up to the highest committed offset determines.  The first       *)
(* record of a key is stored once, a reuse is dead-lettered once, nothing  *)
(* of an abandoned batch survives.                                         *)
(***************************************************************************)
DatabaseIsReplay == rows = RowsOf(high) /\ dead = LettersOf(high)

(***************************************************************************)
(* I3: whatever was answered with 202 and lies below the offset is in the  *)
(* events table, or in dead_letters as the record it was.                  *)
(***************************************************************************)
NothingSilentlyLost ==
  \A a \in acked : a.off < offset =>
    \/ \E r \in rows : r.key = a.event.key /\ r.content \in {NoFingerprint, a.event.content}
    \/ \E d \in dead : d.off = a.off /\ d.record = a.event

\* DurableLog's promise, kept by the log the handler and the consumer share.
Promise == INSTANCE AckedLog WITH
             length <- Len(log), acknowledged <- {a.off : a \in acked}
KeepsPromise == Promise!Spec

(***************************************************************************)
(* "A record the consumer cannot apply is written to dead_letters, in the  *)
(* same transaction that advances past it": once the faults are over the   *)
(* offset reaches the end of the log, again and again, whatever is on it.  *)
(***************************************************************************)
CatchesUp == calm ~> offset >= Len(log)

\* One of the next batch's records can never be stored.
Blocked ==
  \E o \in offset .. Smaller(offset + BatchSize, Len(log)) - 1 : log[o + 1].kind = "unstorable"

(***************************************************************************)
(* Nothing else stops the consumer: once the faults are over it reaches    *)
(* the end of the log, past undecodable and reused records and whatever it *)
(* was doing when the last fault hit, or a batch that Postgres refuses.    *)
(***************************************************************************)
CatchesUpOrBlocked == calm ~> (offset >= Len(log) \/ Blocked)
=============================================================================
