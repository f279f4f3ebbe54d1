--------------------------- MODULE PipelineProofs ---------------------------
(***************************************************************************)
(* Proofs about Pipeline, for any number of keys, contents, records and    *)
(* faults and any batch size: the type invariant and the promise of the    *)
(* log, which hold under every fault; and that the tables are a function   *)
(* of the log, through retries, kills, ambiguous commits, rewinds and      *)
(* power failures, as long as none takes a record that the consumer has    *)
(* committed past, so that nothing that was answered with 202 is lost.     *)
(***************************************************************************)
EXTENDS Pipeline, TLAPS

-----------------------------------------------------------------------------
(* Type correctness. *)

\* An open batch lies inside the log.
BatchBounds == pc = "batch" => cur <= to /\ to <= Len(log)

\* A record that decodes has a key and a content, which say what it is.
LEMMA RecordShape ==
  ASSUME NEW r \in Records, r.kind # "undecodable"
  PROVE  r.key \in Keys /\ r.content \in Contents /\ r = Usage(r.key, r.content)
<1>1. PICK k \in Keys, c \in Contents : r = Usage(k, c)
  BY DEF Records, Undecodable
<1> QED
  BY <1>1 DEF Usage

\* The record at an offset of the log is a record.
LEMMA RecordAt ==
  ASSUME log \in Seq(Records), NEW o \in 0 .. Len(log) - 1
  PROVE  log[o + 1] \in Records
OBVIOUS

\* A dead letter of a record in the log is well formed.
LEMMA LetterType ==
  ASSUME TypeOK, NEW o \in 0 .. Len(log) - 1, NEW why \in {"undecodable", "key_reuse"}
  PROVE  DeadLetter(o, why) \in Letters
<1>1. log[o + 1] \in Records
  BY RecordAt DEF TypeOK
<1>2. o \in Offsets
  BY ConstantsAssumption DEF TypeOK, Offsets
<1> QED
  BY <1>1, <1>2 DEF DeadLetter, Letters

\* The empty log and database have their types.
LEMMA TypeInit == Init => TypeOK /\ BatchBounds
<1> SUFFICES ASSUME Init PROVE TypeOK /\ BatchBounds
  OBVIOUS
<1>1. log \in Seq(Records) /\ Len(log) = 0
  BY DEF Init
<1>2. rows \subseteq AnyRow
  BY DEF Init, AnyRow
<1>3. /\ onDisk = 0 /\ inflight = {} /\ acked = {} /\ dead = {}
      /\ offset = 0 /\ high = 0 /\ pc = "idle" /\ from = 0 /\ to = 0 /\ cur = 0
      /\ txRows = {} /\ txDead = {}
  BY DEF Init
<1>4. calm \in BOOLEAN
  BY Zenon DEF Init
<1>5. inflight \subseteq 0 .. Len(log) - 1 /\ onDisk \in 0 .. Len(log)
  BY <1>1, <1>3
<1>6. MaxRecords \in Nat
  BY ConstantsAssumption
<1> QED
  BY <1>1, <1>2, <1>3, <1>4, <1>5, <1>6 DEF TypeOK, BatchBounds, PC

\* What a client sends makes a record that decodes.
LEMMA RequestIsRecord ==
  ASSUME NEW q \in Requests
  PROVE  Usage(q[1], q[2]) \in Records /\ Usage(q[1], q[2]).kind # "undecodable"
<1>1. q[1] \in Keys /\ q[2] \in Contents
  BY ConstantsAssumption
<1>2. Usage(q[1], q[2]).kind # "undecodable"
  BY DEF Usage
<1> QED
  BY <1>1, <1>2 DEF Records

\* Ingest and the log keep the types.
LEMMA TypeIngest ==
  ASSUME TypeOK, BatchBounds, Ingest
  PROVE  TypeOK' /\ BatchBounds'
<1>1. ASSUME NEW q \in Requests, Post(q[1], q[2])
      PROVE  TypeOK' /\ BatchBounds'
  <2>1. Usage(q[1], q[2]) \in Records
    BY RequestIsRecord
  <2>2. log' \in Seq(Records) /\ Len(log') = Len(log) + 1
    BY <1>1, <2>1 DEF Post, TypeOK
  <2>3. inflight' \subseteq 0 .. Len(log') - 1 /\ onDisk' \in 0 .. Len(log')
    <3>1. Len(log) \in Nat
      BY DEF TypeOK
    <3>2. inflight' \subseteq inflight \cup {Len(log)} /\ onDisk' = onDisk
      BY <1>1 DEF Post
    <3> QED
      BY <2>2, <3>1, <3>2 DEF TypeOK
  <2> QED
    BY <1>1, <2>2, <2>3, ConstantsAssumption DEF Post, TypeOK, BatchBounds, dbVars, runVars
<1>2. CASE PostForeign
  <2>1. Undecodable \in Records
    BY DEF Records
  <2>2. log' \in Seq(Records) /\ Len(log') = Len(log) + 1
    BY <1>2, <2>1 DEF PostForeign, TypeOK
  <2>3. inflight' \subseteq 0 .. Len(log') - 1 /\ onDisk' \in 0 .. Len(log')
    <3>1. Len(log) \in Nat
      BY DEF TypeOK
    <3>2. inflight' \subseteq inflight \cup {Len(log)} /\ onDisk' = onDisk
      BY <1>2 DEF PostForeign
    <3> QED
      BY <2>2, <3>1, <3>2 DEF TypeOK
  <2> QED
    BY <1>2, <2>2, <2>3, ConstantsAssumption DEF PostForeign, TypeOK, BatchBounds, dbVars, runVars
<1>3. CASE Fsync
  BY <1>3 DEF Fsync, TypeOK, BatchBounds, dbVars, runVars
<1>4. ASSUME NEW o \in inflight, Accept(o)
      PROVE  TypeOK' /\ BatchBounds'
  <2>1. o \in 0 .. Len(log) - 1 /\ o \in Offsets
    BY ConstantsAssumption DEF TypeOK, Offsets
  <2>2. log[o + 1] \in Records
    BY <2>1, RecordAt DEF TypeOK
  <2>3. acked' \subseteq [off : Offsets, event : Records]
    BY <1>4, <2>1, <2>2 DEF Accept, TypeOK
  <2> QED
    BY <1>4, <2>3 DEF Accept, TypeOK, BatchBounds, dbVars, runVars
<1>5. ASSUME NEW o \in inflight, Refuse(o)
      PROVE  TypeOK' /\ BatchBounds'
  BY <1>5 DEF Refuse, TypeOK, BatchBounds, dbVars, runVars
<1> QED
  BY <1>1, <1>2, <1>3, <1>4, <1>5 DEF Ingest

\* Reading the offset, finding nothing, and starting a batch.
LEMMA TypePosition ==
  ASSUME TypeOK, BatchBounds, ReadOffset \/ CaughtUp \/ BeginBatch
  PROVE  TypeOK' /\ BatchBounds'
<1> USE DEF logVars, dbVars
<1>1. CASE ReadOffset
  BY <1>1 DEF ReadOffset, TypeOK, BatchBounds, PC
<1>2. CASE CaughtUp
  BY <1>2, ConstantsAssumption DEF CaughtUp, Return, TypeOK, BatchBounds, PC
<1>3. CASE BeginBatch
  <2>1. /\ to' \in 0 .. MaxRecords /\ to' <= Len(log) /\ from <= to'
        /\ cur' = from
    BY <1>3, ConstantsAssumption DEF BeginBatch, Smaller, TypeOK
  <2> QED
    BY <1>3, <2>1 DEF BeginBatch, TypeOK, BatchBounds, PC
<1> QED
  BY <1>1, <1>2, <1>3

\* Applying one record.
LEMMA TypeApply ==
  ASSUME TypeOK, BatchBounds,
         StepOver \/ ApplyInserted \/ ApplyDuplicate \/ ApplyConflict
  PROVE  TypeOK' /\ BatchBounds'
<1>1. Reading /\ Advance
  BY DEF StepOver, ApplyInserted, ApplyDuplicate, ApplyConflict
<1>2. cur \in 0 .. Len(log) - 1 /\ cur \in Offsets /\ cur + 1 <= to
  BY <1>1, ConstantsAssumption DEF Reading, TypeOK, BatchBounds, Offsets
<1>3. Record \in Records
  BY <1>2, RecordAt DEF TypeOK, Record
<1>4. txDead' \subseteq Letters
  <2>1. ASSUME NEW why \in {"undecodable", "key_reuse"}, AddDeadLetter(why)
        PROVE  txDead' \subseteq Letters
    BY <1>2, <2>1, LetterType DEF AddDeadLetter, TypeOK
  <2>2. CASE UNCHANGED txDead
    BY <2>2 DEF TypeOK
  <2> QED
    BY <2>1, <2>2 DEF StepOver, ApplyInserted, ApplyDuplicate, ApplyConflict
<1>5. txRows' \subseteq AnyRow
  <2>1. CASE ApplyInserted
    <3>1. Row(Record.key, Record.content, cur) \in AnyRow
      BY <1>2, <1>3, <2>1, RecordShape DEF ApplyInserted, Row, AnyRow
    <3> QED
      BY <2>1, <3>1 DEF ApplyInserted, TypeOK
  <2>2. CASE UNCHANGED txRows
    BY <2>2 DEF TypeOK
  <2> QED
    BY <2>1, <2>2 DEF StepOver, ApplyDuplicate, ApplyConflict, AddDeadLetter
<1>6. /\ pc = "batch" /\ cur' = cur + 1 /\ UNCHANGED calm
      /\ UNCHANGED <<log, onDisk, inflight, acked, rows, dead, offset, high, pc, from, to>>
  BY <1>1 DEF Reading, Advance, logVars, dbVars
<1>7. cur' \in 0 .. MaxRecords /\ cur' <= to
  BY <1>2, <1>6, ConstantsAssumption DEF TypeOK, Offsets
<1>8. BatchBounds'
  BY <1>6, <1>7 DEF BatchBounds
<1>9. TypeOK'
  BY <1>4, <1>5, <1>6, <1>7 DEF TypeOK
<1> QED
  BY <1>8, <1>9

\* Committing a batch, and every way of losing one.
LEMMA TypeEnd ==
  ASSUME TypeOK, BatchBounds, Commit \/ DrainFails \/ Kill \/ PowerLoss
  PROVE  TypeOK' /\ BatchBounds'
<1>1. /\ from' = 0 /\ to' = 0 /\ cur' = 0 /\ txRows' = {} /\ txDead' = {}
      /\ pc' \in {"idle", "loop"}
  BY DEF Commit, DrainFails, Kill, PowerLoss, Restart, Return
<1>2. calm' \in BOOLEAN
  BY DEF Commit, DrainFails, Kill, PowerLoss, TypeOK
<1>3. MaxRecords \in Nat
  BY ConstantsAssumption
<1>4. CASE Commit
  BY <1>1, <1>2, <1>3, <1>4 DEF Commit, Larger, TypeOK, BatchBounds, PC, logVars
<1>5. CASE DrainFails
  <2>1. pc' = "idle"
    BY <1>5 DEF DrainFails, Return
  <2> QED
    BY <1>1, <1>2, <1>3, <1>5, <2>1 DEF DrainFails, TypeOK, BatchBounds, PC, logVars, dbVars
<1>6. CASE Kill
  BY <1>1, <1>2, <1>3, <1>6 DEF Kill, Restart, TypeOK, BatchBounds, PC, dbVars
<1>7. CASE PowerLoss
  <2>1. PICK n \in onDisk .. Len(log) : log' = SubSeq(log, 1, n) /\ onDisk' = n
    BY <1>7 DEF PowerLoss
  <2>2. log' \in Seq(Records) /\ Len(log') = n /\ n <= MaxRecords /\ n \in Nat
    <3>1. n \in Nat /\ n <= Len(log) /\ \A i \in 1 .. n : log[i] \in Records
      BY DEF TypeOK
    <3>2. 1 \in Int /\ n \in Int
      BY <3>1
    <3>3. SubSeq(log, 1, n) \in Seq(Records) /\ Len(SubSeq(log, 1, n)) = IF 1 <= n THEN n - 1 + 1 ELSE 0
      BY <3>1, <3>2
    <3>4. ASSUME NEW k, k = IF 1 <= n THEN n - 1 + 1 ELSE 0 PROVE k = n
      BY <3>1, <3>4
    <3>5. n <= MaxRecords
      BY <3>1, ConstantsAssumption DEF TypeOK
    <3> QED
      BY Zenon, <2>1, <3>1, <3>3, <3>4, <3>5
  <2>3. inflight' = {} /\ UNCHANGED <<acked, dbVars>>
    BY <1>7 DEF PowerLoss, Restart
  <2> QED
    BY <1>1, <1>2, <1>3, <2>1, <2>2, <2>3 DEF TypeOK, BatchBounds, PC, dbVars
<1> QED
  BY <1>4, <1>5, <1>6, <1>7

\* The offset moves back, or the faults end.
LEMMA TypeRest ==
  ASSUME TypeOK, BatchBounds, Rewind \/ Subside \/ UNCHANGED vars
  PROVE  TypeOK' /\ BatchBounds'
<1> USE DEF logVars, dbVars, runVars
<1>1. CASE Rewind
  <2>1. /\ offset' \in 0 .. offset
        /\ UNCHANGED <<logVars, rows, dead, high, runVars, calm>>
    BY <1>1 DEF Rewind
  <2>2. offset' \in 0 .. MaxRecords /\ high \in offset' .. MaxRecords
    BY <2>1, ConstantsAssumption DEF TypeOK
  <2> QED
    BY <2>1, <2>2 DEF TypeOK, BatchBounds
<1>2. CASE Subside
  <2>1. calm' \in BOOLEAN /\ UNCHANGED <<logVars, dbVars, runVars>>
    BY <1>2, Zenon DEF Subside
  <2> QED
    BY <2>1 DEF TypeOK, BatchBounds
<1>3. CASE UNCHANGED vars
  BY <1>3 DEF vars, TypeOK, BatchBounds
<1> QED
  BY <1>1, <1>2, <1>3

\* Every step keeps the types and the bounds of the batch.
LEMMA TypeStep == TypeOK /\ BatchBounds /\ [Next]_vars => TypeOK' /\ BatchBounds'
BY TypeIngest, TypePosition, TypeApply, TypeEnd, TypeRest DEF Next, Drain

(***************************************************************************)
(* Type correctness, under every fault: log, database and consumer always  *)
(* have the types the code gives them.                                     *)
(***************************************************************************)
THEOREM TypeCorrect == Spec => []TypeOK
<1>1. Spec => [](TypeOK /\ BatchBounds)
  BY TypeInit, TypeStep, PTL DEF Spec
<1> QED
  BY <1>1, PTL

-----------------------------------------------------------------------------
(* The promise of the log. *)

\* Whatever was answered with 202 is on disk.
AckedOnDisk == \A a \in acked : a.off < onDisk

\* A power failure leaves what was synced.
LEMMA TailLost ==
  ASSUME TypeOK, PowerLoss
  PROVE  /\ Len(log') \in onDisk .. Len(log) /\ onDisk' = Len(log')
         /\ UNCHANGED acked
PROOF
  <1>1. PICK n \in onDisk .. Len(log) : log' = SubSeq(log, 1, n) /\ onDisk' = n
    BY DEF PowerLoss
  <1>2. n \in Nat /\ n <= Len(log) /\ \A i \in 1 .. n : log[i] \in Records
    BY DEF TypeOK
  <1>3. Len(SubSeq(log, 1, n)) = IF 1 <= n THEN n - 1 + 1 ELSE 0
    BY <1>2
  <1>4. Len(SubSeq(log, 1, n)) = n
    BY <1>2, <1>3
  <1> QED
    BY <1>1, <1>4 DEF PowerLoss

LEMMA AckedStep ==
  ASSUME TypeOK, AckedOnDisk, [Next]_vars
  PROVE  AckedOnDisk'
PROOF
  <1>1. onDisk \in Nat /\ Len(log) \in Nat /\ onDisk <= Len(log)
    BY DEF TypeOK
  <1>2. \A a \in acked : a.off \in Nat
    BY ConstantsAssumption DEF TypeOK, Offsets
  <1>3. CASE PowerLoss
    BY <1>1, <1>2, <1>3, TailLost DEF AckedOnDisk
  <1>4. CASE Fsync
    BY <1>1, <1>2, <1>4 DEF Fsync, AckedOnDisk
  <1>5. ASSUME NEW o \in inflight, Accept(o) PROVE AckedOnDisk'
    BY <1>5 DEF Accept, AckedOnDisk
  <1>6. CASE UNCHANGED <<onDisk, acked>>
    BY <1>6 DEF AckedOnDisk
  <1>7. Rewind \/ Subside \/ Kill \/ UNCHANGED vars \/ Drain => UNCHANGED <<onDisk, acked>>
    BY DEF Rewind, Subside, Kill, vars, logVars, Drain, ReadOffset, CaughtUp, BeginBatch, StepOver,
           ApplyInserted, ApplyDuplicate, ApplyConflict, Advance, Commit, DrainFails
  <1>8. ASSUME NEW k, NEW c, Post(k, c) PROVE UNCHANGED <<onDisk, acked>>
    BY <1>8 DEF Post
  <1>9. PostForeign => UNCHANGED <<onDisk, acked>>
    BY DEF PostForeign
  <1>10. ASSUME NEW o, Refuse(o) PROVE UNCHANGED <<onDisk, acked>>
    BY <1>10 DEF Refuse
  <1> QED
    BY <1>3, <1>4, <1>5, <1>6, <1>7, <1>8, <1>9, <1>10 DEF Next, Ingest

\* Every step of the pipeline is a step of the promise, or leaves its log alone.
LEMMA PromiseStep ==
  ASSUME TypeOK, AckedOnDisk, [Next]_vars
  PROVE  [Promise!Next]_<<Len(log), {a.off : a \in acked}>>
PROOF
  <1> DEFINE offs == {a.off : a \in acked}
  <1>1. onDisk \in Nat /\ Len(log) \in Nat /\ onDisk <= Len(log)
    BY DEF TypeOK
  <1>2. \A a \in acked : a.off \in Nat /\ a.off < onDisk
    BY ConstantsAssumption DEF TypeOK, Offsets, AckedOnDisk
  <1>3. CASE PowerLoss
    <2>1. Len(log') \in 0 .. Len(log) /\ offs' = offs /\ offs \subseteq 0 .. Len(log') - 1
      BY <1>1, <1>2, <1>3, TailLost
    <2> QED
      BY <2>1 DEF Promise!Next, Promise!LoseTail
  <1>4. ASSUME NEW o \in inflight, Accept(o) PROVE Promise!Acknowledge
    <2>1. o \in 0 .. Len(log) - 1 /\ Len(log') = Len(log)
      BY <1>4 DEF Accept, TypeOK
    <2>2. offs' = offs \cup {o}
      <3> DEFINE new == [off |-> o, event |-> log[o + 1]]
      <3>1. acked' = acked \cup {new} /\ new.off = o
        BY <1>4 DEF Accept
      <3> HIDE DEF new
      <3> QED
        BY <3>1
    <2> QED
      BY <2>1, <2>2 DEF Promise!Acknowledge
  <1>5. ASSUME NEW k, NEW c, Post(k, c) PROVE Promise!Grow
    BY <1>5 DEF Post, Promise!Grow, TypeOK
  <1>6. PostForeign => Promise!Grow
    BY DEF PostForeign, Promise!Grow, TypeOK
  <1>7. Rewind \/ Subside \/ Kill \/ Fsync \/ UNCHANGED vars \/ Drain => UNCHANGED <<log, acked>>
    BY DEF Rewind, Subside, Kill, Fsync, vars, logVars, Drain, ReadOffset, CaughtUp, BeginBatch,
           StepOver, ApplyInserted, ApplyDuplicate, ApplyConflict, Advance, Commit, DrainFails
  <1>8. ASSUME NEW o, Refuse(o) PROVE UNCHANGED <<log, acked>>
    BY <1>8 DEF Refuse
  <1>9. UNCHANGED <<log, acked>> => UNCHANGED <<Len(log), offs>>
    OBVIOUS
  <1> HIDE DEF offs
  <1>10. CASE \E o \in inflight : Accept(o) \/ Refuse(o)
    BY <1>4, <1>8, <1>9, <1>10 DEF Promise!Next, offs
  <1>11. CASE (\E q \in Requests : Post(q[1], q[2])) \/ PostForeign
    BY <1>5, <1>6, <1>11 DEF Promise!Next
  <1> QED
    BY <1>3, <1>7, <1>9, <1>10, <1>11 DEF Next, Ingest, offs

(***************************************************************************)
(* The log that handler and consumer share keeps DurableLog's promise      *)
(* under every fault of the model: no 202 for a record that can disappear, *)
(* and no offset of such a record given to another.                        *)
(***************************************************************************)
THEOREM PromiseIsKept == Spec => KeepsPromise
PROOF
  <1>1. Init => Promise!Init /\ AckedOnDisk
    BY DEF Init, Promise!Init, AckedOnDisk
  <1>2. Spec => []AckedOnDisk
    BY <1>1, AckedStep, TypeCorrect, PTL DEF Spec
  <1> QED
    BY <1>1, <1>2, PromiseStep, TypeCorrect, PTL DEF Spec, KeepsPromise, Promise!Spec

-----------------------------------------------------------------------------
(* Exactly once. *)

\* No power failure takes a record that the consumer has committed past.
TailKept == "tail" \notin Faults

\* A record that processBatch can get past.
Usable(o) == log[o + 1].kind # "unstorable"

\* What the consumer has passed, it could apply.
PassedUsable ==
  /\ \A o \in 0 .. high - 1 : Usable(o)
  /\ pc = "batch" => \A o \in from .. cur - 1 : Usable(o)

\* Every key of the log has a first record.
KeysHaveFirst ==
  \A o \in 0 .. Len(log) - 1 : IsUsage(o) /\ KeyAt(o) \notin LegacyKeys =>
    \E p \in 0 .. o : First(p) /\ KeyAt(p) = KeyAt(o)

\* What is committed, and where a batch starts, lies inside the log.
Positions ==
  /\ high <= Len(log)
  /\ pc \in {"position", "batch"} => from <= high
  /\ pc = "batch" => from <= cur

\* How far the transaction sees the log applied.
Reached == Larger(high, cur)

\* The transaction sees the database as it would be with its batch committed.
BatchIsReplay ==
  pc = "batch" => rows \cup txRows = RowsOf(Reached) /\ dead \cup txDead = LettersOf(Reached)

\* A request in flight, or answered with 202, is about a record that decodes.
Decodes(o) == log[o + 1].kind # "undecodable"

RequestsInLog ==
  /\ \A o \in inflight : Decodes(o)
  /\ \A a \in acked : a.off < Len(log) /\ Decodes(a.off) /\ a.event = log[a.off + 1]

ReplayInv ==
  /\ KeysHaveFirst /\ Positions /\ PassedUsable
  /\ DatabaseIsReplay /\ BatchIsReplay /\ RequestsInLog

\* One more record adds at most one row.
LEMMA OneMoreRow ==
  ASSUME NEW n \in Nat
  PROVE  /\ First(n) => RowsOf(n + 1) = RowsOf(n) \cup {Row(KeyAt(n), log[n + 1].content, n)}
         /\ ~First(n) => RowsOf(n + 1) = RowsOf(n)
<1>1. 0 .. (n + 1) - 1 = (0 .. n - 1) \cup {n}
  OBVIOUS
<1> HIDE DEF First, Row, KeyAt
<1>2. CASE First(n)
  <2>1. {p \in 0 .. (n + 1) - 1 : First(p)} = {p \in 0 .. n - 1 : First(p)} \cup {n}
    BY <1>1, <1>2
  <2> QED
    BY <1>2, <2>1 DEF RowsOf
<1>3. CASE ~First(n)
  <2>1. {p \in 0 .. (n + 1) - 1 : First(p)} = {p \in 0 .. n - 1 : First(p)}
    BY <1>1, <1>3
  <2> QED
    BY <1>3, <2>1 DEF RowsOf
<1> QED
  BY <1>2, <1>3

\* One more record adds at most one dead letter.
LEMMA OneMoreLetter ==
  ASSUME NEW n \in Nat
  PROVE  /\ log[n + 1].kind = "undecodable" =>
              LettersOf(n + 1) = LettersOf(n) \cup {DeadLetter(n, "undecodable")}
         /\ Reused(n) => LettersOf(n + 1) = LettersOf(n) \cup {DeadLetter(n, "key_reuse")}
         /\ log[n + 1].kind # "undecodable" /\ ~Reused(n) => LettersOf(n + 1) = LettersOf(n)
<1> DEFINE U(o) == log[o + 1].kind = "undecodable"
           Us(k) == {p \in 0 .. k - 1 : U(p)}
           Rs(k) == {p \in 0 .. k - 1 : Reused(p)}
<1>1. 0 .. (n + 1) - 1 = (0 .. n - 1) \cup {n}
  OBVIOUS
<1>2. ~ (U(n) /\ Reused(n))
  BY DEF Reused, IsUsage
<1>3. \A k : LettersOf(k) = {DeadLetter(o, "undecodable") : o \in Us(k)}
                            \cup {DeadLetter(o, "key_reuse") : o \in Rs(k)}
  BY DEF LettersOf
<1>4. /\ U(n) => Us(n + 1) = Us(n) \cup {n}
      /\ ~U(n) => Us(n + 1) = Us(n)
      /\ Reused(n) => Rs(n + 1) = Rs(n) \cup {n}
      /\ ~Reused(n) => Rs(n + 1) = Rs(n)
  BY <1>1
<1> HIDE DEF Us, Rs
<1>5. CASE U(n)
  BY <1>2, <1>3, <1>4, <1>5
<1>6. CASE Reused(n)
  BY <1>2, <1>3, <1>4, <1>6
<1>7. CASE ~U(n) /\ ~Reused(n)
  BY <1>3, <1>4, <1>7, Zenon
<1> QED
  BY <1>5, <1>6, <1>7

(***************************************************************************)
(* What the first n records say depends on these alone: it stays when the  *)
(* log grows, and when it loses a tail behind them.                        *)
(***************************************************************************)
LEMMA SamePrefix ==
  ASSUME NEW n \in Nat, \A o \in 0 .. n - 1 : log'[o + 1] = log[o + 1]
  PROVE  /\ \A o \in 0 .. n - 1 :
              /\ IsUsage(o)' <=> IsUsage(o)
              /\ KeyAt(o)' = KeyAt(o)
              /\ First(o)' <=> First(o)
         /\ \A m \in 0 .. n : RowsOf(m)' = RowsOf(m) /\ LettersOf(m)' = LettersOf(m)
<1>1. \A o \in 0 .. n - 1 : log'[o + 1] = log[o + 1]
  OBVIOUS
<1>2. \A o \in 0 .. n - 1 : (IsUsage(o)' <=> IsUsage(o)) /\ KeyAt(o)' = KeyAt(o)
  BY <1>1 DEF IsUsage, KeyAt
<1>3. \A o \in 0 .. n - 1 : First(o)' <=> First(o)
  <2> SUFFICES ASSUME NEW o \in 0 .. n - 1 PROVE First(o)' <=> First(o)
    OBVIOUS
  <2>1. \A p \in 0 .. o - 1 : p \in 0 .. n - 1
    OBVIOUS
  <2> QED
    BY <1>2, <2>1 DEF First
<1>4. \A o \in 0 .. n - 1 : Reused(o)' <=> Reused(o)
  <2> SUFFICES ASSUME NEW o \in 0 .. n - 1 PROVE Reused(o)' <=> Reused(o)
    OBVIOUS
  <2>1. \A p \in 0 .. o - 1 : p \in 0 .. n - 1
    OBVIOUS
  <2> QED
    BY <1>1, <1>2, <1>3, <2>1 DEF Reused
<1>5. ASSUME NEW m \in 0 .. n
      PROVE  RowsOf(m)' = RowsOf(m) /\ LettersOf(m)' = LettersOf(m)
  <2>1. \A p \in 0 .. m - 1 : p \in 0 .. n - 1
    OBVIOUS
  <2>2. {p \in 0 .. m - 1 : First(p)'} = {p \in 0 .. m - 1 : First(p)}
    BY <1>3, <2>1
  <2>3. \A o \in {p \in 0 .. m - 1 : First(p)} :
          Row(KeyAt(o), log[o + 1].content, o)' = Row(KeyAt(o), log[o + 1].content, o)
    BY <1>1, <1>2, <2>1 DEF Row
  <2>4. RowsOf(m)' = RowsOf(m)
    BY <2>2, <2>3, Zenon DEF RowsOf, LegacyRows, Row
  <2>5. {p \in 0 .. m - 1 : Reused(p)'} = {p \in 0 .. m - 1 : Reused(p)}
    BY <1>4, <2>1
  <2>6. {p \in 0 .. m - 1 : log'[p + 1].kind = "undecodable"}
          = {p \in 0 .. m - 1 : log[p + 1].kind = "undecodable"}
    BY <1>1, <2>1
  <2>7. \A o \in 0 .. m - 1 : /\ DeadLetter(o, "undecodable")' = DeadLetter(o, "undecodable")
                             /\ DeadLetter(o, "key_reuse")' = DeadLetter(o, "key_reuse")
    BY <1>1, <2>1 DEF DeadLetter
  <2>8. LettersOf(m)' = LettersOf(m)
    BY <2>5, <2>6, <2>7, Zenon DEF LettersOf
  <2> QED
    BY <2>4, <2>8
<1> QED
  BY <1>2, <1>3, <1>5

\* The invariant holds of an empty log.
LEMMA ReplayInit == Init => ReplayInv
<1> SUFFICES ASSUME Init PROVE ReplayInv
  OBVIOUS
<1>1. Len(log) = 0 /\ 0 .. Len(log) - 1 = {} /\ 0 .. 0 - 1 = {}
  BY DEF Init
<1>2. RowsOf(0) = LegacyRows /\ LettersOf(0) = {}
  BY <1>1 DEF RowsOf, LettersOf
<1> QED
  BY <1>1, <1>2 DEF Init, ReplayInv, KeysHaveFirst, Positions, PassedUsable,
                    DatabaseIsReplay, BatchIsReplay, RequestsInLog

\* A record is appended, by this build or by another.
LEMMA ReplayPost ==
  ASSUME TypeOK, BatchBounds, ReplayInv,
         NEW r \in Records, log' = Append(log, r),
         \/ inflight' \subseteq inflight
         \/ r.kind # "undecodable" /\ inflight' = inflight \cup {Len(log)},
         UNCHANGED <<acked, dbVars, runVars>>
  PROVE  ReplayInv'
<1> USE DEF dbVars, runVars
<1>0. /\ Len(log') = Len(log) + 1 /\ Len(log) \in Nat
      /\ \A o \in 0 .. Len(log) - 1 :
              /\ log'[o + 1] = log[o + 1]
              /\ IsUsage(o)' <=> IsUsage(o)
              /\ KeyAt(o)' = KeyAt(o)
              /\ First(o)' <=> First(o)
      /\ \A n \in 0 .. Len(log) : RowsOf(n)' = RowsOf(n) /\ LettersOf(n)' = LettersOf(n)
  <2>1. Len(log') = Len(log) + 1 /\ Len(log) \in Nat
    BY DEF TypeOK
  <2>2. \A o \in 0 .. Len(log) - 1 : log'[o + 1] = log[o + 1]
    BY DEF TypeOK
  <2> QED
    BY <2>1, <2>2, SamePrefix
<1>1. KeysHaveFirst'
  <2> SUFFICES ASSUME NEW o \in 0 .. Len(log') - 1, IsUsage(o)', KeyAt(o)' \notin LegacyKeys
               PROVE  \E p \in 0 .. o : First(p)' /\ KeyAt(p)' = KeyAt(o)'
    BY DEF KeysHaveFirst
  <2>1. CASE o < Len(log)
    <3>1. o \in 0 .. Len(log) - 1
      BY <1>0, <2>1
    <3>2. PICK p \in 0 .. o : First(p) /\ KeyAt(p) = KeyAt(o)
      BY <1>0, <3>1 DEF ReplayInv, KeysHaveFirst
    <3>3. p \in 0 .. Len(log) - 1
      BY <1>0, <3>1
    <3> QED
      BY <1>0, <3>1, <3>2, <3>3
  <2>2. CASE o = Len(log) /\ \A p \in 0 .. o - 1 : IsUsage(p)' => KeyAt(p)' # KeyAt(o)'
    <3>1. First(o)'
      BY <2>2 DEF First
    <3>2. o \in 0 .. o
      BY <1>0
    <3> QED
      BY <3>1, <3>2
  <2>3. CASE o = Len(log) /\ \E p \in 0 .. o - 1 : IsUsage(p)' /\ KeyAt(p)' = KeyAt(o)'
    <3>1. PICK p \in 0 .. o - 1 : IsUsage(p)' /\ KeyAt(p)' = KeyAt(o)'
      BY <2>3
    <3>2. p \in 0 .. Len(log) - 1
      BY <2>3, <3>1
    <3>3. PICK q \in 0 .. p : First(q) /\ KeyAt(q) = KeyAt(p)
      BY <1>0, <3>1, <3>2 DEF ReplayInv, KeysHaveFirst
    <3>4. q \in 0 .. Len(log) - 1 /\ q \in 0 .. o
      BY <1>0, <2>3, <3>2
    <3> QED
      BY <1>0, <3>1, <3>2, <3>3, <3>4
  <2>4. o < Len(log) \/ o = Len(log)
    BY <1>0
  <2> QED
    BY <2>1, <2>2, <2>3, <2>4
<1>2. Positions'
  BY <1>0 DEF ReplayInv, Positions, TypeOK
<1>3. DatabaseIsReplay'
  <2>1. high \in 0 .. Len(log)
    BY DEF ReplayInv, Positions, TypeOK
  <2> QED
    BY <1>0, <2>1 DEF ReplayInv, DatabaseIsReplay
<1>4. BatchIsReplay'
  <2> SUFFICES ASSUME pc = "batch"
               PROVE  rows \cup txRows = RowsOf(Reached)' /\ dead \cup txDead = LettersOf(Reached)'
    BY DEF BatchIsReplay
  <2>1. Reached \in 0 .. Len(log) /\ Reached' = Reached
    BY DEF ReplayInv, Positions, BatchBounds, TypeOK, Reached, Larger
  <2> HIDE DEF Reached
  <2>2. \A n \in 0 .. Len(log) : n = Reached' => RowsOf(n)' = RowsOf(Reached)' /\ LettersOf(n)' = LettersOf(Reached)'
    OBVIOUS
  <2> QED
    BY <1>0, <2>1, <2>2 DEF ReplayInv, BatchIsReplay
<1>5. RequestsInLog'
  <2>1. ASSUME NEW o, o = Len(log) PROVE Decodes(o)' <=> r.kind # "undecodable"
    BY <1>0, <2>1 DEF TypeOK, Decodes
  <2>2. \A o \in inflight : o \in 0 .. Len(log) - 1 /\ Decodes(o)
    BY DEF TypeOK, ReplayInv, RequestsInLog
  <2>3. \A a \in acked : a.off \in 0 .. Len(log) - 1
    BY ConstantsAssumption, SMTT(30) DEF TypeOK, ReplayInv, RequestsInLog, Offsets
  <2>4. \A o \in 0 .. Len(log) - 1 : Decodes(o)' <=> Decodes(o)
    BY <1>0 DEF Decodes
  <2>5. \A o \in inflight' : Decodes(o)'
    BY <2>1, <2>2, <2>4
  <2> QED
    BY <1>0, <2>3, <2>4, <2>5 DEF ReplayInv, RequestsInLog
<1>6. PassedUsable'
  <2>1. \A o \in 0 .. Len(log) - 1 : Usable(o)' <=> Usable(o)
    BY <1>0 DEF Usable
  <2>2. \A o \in 0 .. high - 1 : o \in 0 .. Len(log) - 1
    BY DEF ReplayInv, Positions, TypeOK
  <2>3. pc = "batch" => \A o \in from .. cur - 1 : o \in 0 .. Len(log) - 1
    BY DEF BatchBounds, TypeOK
  <2> QED
    BY <2>1, <2>2, <2>3 DEF ReplayInv, PassedUsable
<1> QED
  BY <1>1, <1>2, <1>3, <1>4, <1>5, <1>6 DEF ReplayInv

\* What the records say depends on the log alone.
LEMMA SameLog ==
  ASSUME UNCHANGED log
  PROVE  /\ \A n : RowsOf(n)' = RowsOf(n) /\ LettersOf(n)' = LettersOf(n)
         /\ \A o : (Decodes(o)' <=> Decodes(o)) /\ (Usable(o)' <=> Usable(o))
         /\ KeysHaveFirst' <=> KeysHaveFirst
<1>1. \A o : (Decodes(o)' <=> Decodes(o)) /\ (Usable(o)' <=> Usable(o))
  BY Zenon DEF Decodes, Usable
<1>2. \A o : First(o)' <=> First(o)
  BY Zenon DEF First, IsUsage, KeyAt
<1>3. \A n : RowsOf(n)' = RowsOf(n)
  BY SMTT(30) DEF RowsOf, First, IsUsage, KeyAt, LegacyRows, Row
<1>4. \A n : LettersOf(n)' = LettersOf(n)
  BY SMTT(30) DEF LettersOf, Reused, First, IsUsage, KeyAt, DeadLetter
<1>5. KeysHaveFirst' <=> KeysHaveFirst
  BY SMTT(30) DEF KeysHaveFirst, First, IsUsage, KeyAt
<1> QED
  BY <1>1, <1>3, <1>4, <1>5, Zenon

\* A row is a legacy row, or the row of the first record of its key.
LEMMA RowCases ==
  ASSUME NEW n, NEW r \in RowsOf(n)
  PROVE  \/ \E k \in LegacyKeys : r = Row(k, NoFingerprint, -1)
         \/ \E p \in 0 .. n - 1 : First(p) /\ r = Row(KeyAt(p), log[p + 1].content, p)
BY DEF RowsOf, LegacyRows

\* A dead letter below n is about a record below n.
LEMMA LetterOffset ==
  ASSUME NEW n, NEW d \in LettersOf(n)
  PROVE  d.off \in 0 .. n - 1
BY DEF LettersOf, DeadLetter

\* A key has one first record.
LEMMA FirstIsUnique ==
  ASSUME NEW p \in Nat, NEW q \in Nat, First(p), First(q), KeyAt(p) = KeyAt(q)
  PROVE  p = q
<1>1. CASE p < q
  BY <1>1 DEF First
<1>2. CASE q < p
  BY <1>2 DEF First
<1> QED
  BY <1>1, <1>2

\* A row of the key of a usage record below n is there as soon as n is reached.
LEMMA KeyIsStored ==
  ASSUME TypeOK, KeysHaveFirst, NEW n \in 0 .. Len(log), NEW o \in 0 .. n - 1, IsUsage(o)
  PROVE  \/ Row(KeyAt(o), NoFingerprint, -1) \in RowsOf(n) /\ KeyAt(o) \in LegacyKeys
         \/ \E p \in 0 .. o : /\ First(p) /\ KeyAt(p) = KeyAt(o)
                             /\ Row(KeyAt(p), log[p + 1].content, p) \in RowsOf(n)
<1>1. CASE KeyAt(o) \in LegacyKeys
  BY <1>1 DEF RowsOf, LegacyRows
<1>2. CASE KeyAt(o) \notin LegacyKeys
  <2>1. o \in 0 .. Len(log) - 1
    BY DEF TypeOK
  <2>2. PICK p \in 0 .. o : First(p) /\ KeyAt(p) = KeyAt(o)
    BY <1>2, <2>1 DEF KeysHaveFirst
  <2>3. p \in 0 .. n - 1
    OBVIOUS
  <2>4. Row(KeyAt(p), log[p + 1].content, p) \in RowsOf(n)
    BY <2>2, <2>3 DEF RowsOf
  <2> QED
    BY <2>2, <2>4
<1> QED
  BY <1>1, <1>2

\* What holds whenever processBatch looks at a record.
LEMMA AtRecord ==
  ASSUME TypeOK, BatchBounds, ReplayInv, Reading
  PROVE  /\ cur \in 0 .. Len(log) - 1 /\ high \in 0 .. Len(log)
         /\ Record \in Records /\ Record = log[cur + 1]
         /\ rows \cup txRows = RowsOf(Reached) /\ dead \cup txDead = LettersOf(Reached)
         /\ cur < high => Reached = high /\ Larger(high, cur + 1) = high
         /\ cur >= high => Reached = cur /\ Larger(high, cur + 1) = cur + 1
         /\ Reached \in 0 .. Len(log)
<1>1. cur \in 0 .. Len(log) - 1 /\ high \in 0 .. Len(log)
  BY DEF TypeOK, BatchBounds, Reading, ReplayInv, Positions
<1>2. Record \in Records
  BY <1>1, RecordAt DEF TypeOK, Record
<1> QED
  BY <1>1, <1>2 DEF Reading, ReplayInv, BatchIsReplay, Reached, Larger, Record

(***************************************************************************)
(* Each outcome leaves the transaction with what the log says up to and    *)
(* including the record: nothing new below high, the right thing above it. *)
(***************************************************************************)
LEMMA StepOverReplays ==
  ASSUME TypeOK, BatchBounds, ReplayInv, StepOver, NEW m, m = Larger(high, cur + 1)
  PROVE  rows \cup txRows' = RowsOf(m) /\ dead \cup txDead' = LettersOf(m)
<1>1. Reading /\ Record.kind = "undecodable" /\ AddDeadLetter("undecodable")
  BY DEF StepOver
<1>2. ~First(cur) /\ log[cur + 1].kind = "undecodable"
  BY <1>1, AtRecord DEF First, IsUsage
<1>3. CASE cur < high
  <2>1. DeadLetter(cur, "undecodable") \in LettersOf(high)
    BY <1>1, <1>2, <1>3, AtRecord DEF LettersOf
  <2>2. DeadLetter(cur, "undecodable").off = cur
    BY DEF DeadLetter
  <2>3. UNCHANGED <<txRows, txDead>>
    BY <1>1, <1>3, <2>1, <2>2, AtRecord DEF AddDeadLetter
  <2> QED
    BY <1>1, <1>3, <2>3, AtRecord
<1>4. CASE cur >= high
  <2>1. \A d \in dead \cup txDead : d.off # cur
    BY <1>1, <1>4, AtRecord, LetterOffset
  <2>2. txDead' = txDead \cup {DeadLetter(cur, "undecodable")} /\ UNCHANGED txRows
    BY <1>1, <2>1 DEF AddDeadLetter
  <2>3. RowsOf(cur + 1) = RowsOf(cur)
    BY <1>1, <1>2, AtRecord, OneMoreRow
  <2>4. LettersOf(cur + 1) = LettersOf(cur) \cup {DeadLetter(cur, "undecodable")}
    BY <1>1, <1>2, AtRecord, OneMoreLetter
  <2> QED
    BY <1>1, <1>4, <2>2, <2>3, <2>4, AtRecord
<1> QED
  BY <1>1, <1>3, <1>4, AtRecord

\* A key that is not stored: its first record, above high.
LEMMA InsertReplays ==
  ASSUME TypeOK, BatchBounds, ReplayInv, ApplyInserted, NEW m, m = Larger(high, cur + 1)
  PROVE  rows \cup txRows' = RowsOf(m) /\ dead \cup txDead' = LettersOf(m)
<1>1. /\ Reading /\ Record.kind = "usage" /\ Stored = {}
      /\ txRows' = txRows \cup {Row(Record.key, Record.content, cur)} /\ UNCHANGED txDead
  BY DEF ApplyInserted
<1>2. /\ IsUsage(cur) /\ KeyAt(cur) = Record.key /\ KeysHaveFirst
      /\ log[cur + 1] = Record /\ cur \in Nat
  <2>1. cur \in 0 .. Len(log) - 1 /\ Record = log[cur + 1]
    BY <1>1, AtRecord, Zenon
  <2>2. cur \in Nat
    BY <2>1
  <2> QED
    BY <1>1, <2>1, <2>2, Zenon DEF IsUsage, KeyAt, ReplayInv
<1>3. \A r \in RowsOf(Reached) : r.key # KeyAt(cur)
  BY <1>1, <1>2, AtRecord DEF Stored
<1>4. ASSUME NEW o \in 0 .. Reached - 1, IsUsage(o), KeyAt(o) = KeyAt(cur)
      PROVE  FALSE
  <2>1. \E r \in RowsOf(Reached) : r.key = KeyAt(o)
    BY <1>1, <1>2, <1>4, AtRecord, KeyIsStored, Zenon DEF Row
  <2> QED
    BY <1>3, <1>4, <2>1
<1>5. cur >= high
  BY <1>1, <1>2, <1>4, AtRecord
<1>6. KeyAt(cur) \notin LegacyKeys
  <2>1. \A k \in LegacyKeys : Row(k, NoFingerprint, -1) \in RowsOf(Reached)
    BY DEF RowsOf, LegacyRows
  <2>2. \A k \in LegacyKeys : Row(k, NoFingerprint, -1).key = k
    BY DEF Row
  <2> QED
    BY <1>3, <2>1, <2>2
<1>7. First(cur)
  BY <1>1, <1>2, <1>4, <1>5, <1>6, AtRecord DEF First
<1>8. ~Reused(cur) /\ log[cur + 1].kind # "undecodable"
  BY <1>1, <1>2, <1>4, <1>5, AtRecord DEF Reused, First, IsUsage
<1>9. RowsOf(cur + 1) = RowsOf(cur) \cup {Row(Record.key, Record.content, cur)}
  BY <1>2, <1>7, OneMoreRow
<1>10. LettersOf(cur + 1) = LettersOf(cur)
  BY <1>1, <1>8, AtRecord, OneMoreLetter
<1> QED
  BY <1>1, <1>5, <1>9, <1>10, AtRecord

\* A key that is stored with the same content, or with none.
LEMMA DuplicateReplays ==
  ASSUME TypeOK, BatchBounds, ReplayInv, ApplyDuplicate, NEW m, m = Larger(high, cur + 1)
  PROVE  rows \cup txRows' = RowsOf(m) /\ dead \cup txDead' = LettersOf(m)
<1>1. Reading /\ Record.kind = "usage" /\ UNCHANGED <<txRows, txDead>>
  BY DEF ApplyDuplicate
<1>2. IsUsage(cur) /\ KeyAt(cur) = Record.key /\ log[cur + 1] = Record
  BY <1>1, AtRecord DEF IsUsage, KeyAt
<1>3. CASE cur < high
  BY <1>1, <1>3, AtRecord
<1>4. CASE cur >= high
  <2>1. PICK r \in RowsOf(cur) : r.key = Record.key /\ r.content \in {NoFingerprint, Record.content}
    BY <1>1, <1>4, AtRecord DEF ApplyDuplicate, Stored
  <2>2. ~First(cur) /\ ~Reused(cur)
    <3>1. CASE \E k \in LegacyKeys : r = Row(k, NoFingerprint, -1)
      BY <1>2, <2>1, <3>1 DEF Row, First, Reused
    <3>2. ASSUME NEW p \in 0 .. cur - 1, First(p), r = Row(KeyAt(p), log[p + 1].content, p)
          PROVE  ~First(cur) /\ ~Reused(cur)
      <4>1. IsUsage(p) /\ KeyAt(p) = KeyAt(cur)
        BY <1>2, <2>1, <3>2 DEF Row, First
      <4>2. p \in 0 .. Len(log) - 1 /\ p \in Nat
        BY <1>1, AtRecord
      <4>3. log[p + 1] \in Records
        BY <4>2, RecordAt DEF TypeOK
      <4>4. log[p + 1].content \in Contents /\ log[p + 1] = Usage(KeyAt(p), log[p + 1].content)
        BY <4>1, <4>3, RecordShape DEF IsUsage, KeyAt
      <4>5. log[p + 1].content = Record.content
        BY <2>1, <3>2, <4>4, ConstantsAssumption DEF Row
      <4>6. log[p + 1] = log[cur + 1]
        BY <1>1, <1>2, <4>1, <4>4, <4>5, AtRecord, RecordShape
      <4>7. \A q \in 0 .. cur - 1 : First(q) /\ KeyAt(q) = KeyAt(cur) => q = p
        BY <3>2, <4>1, <4>2, FirstIsUnique
      <4> QED
        BY <4>1, <4>6, <4>7 DEF First, Reused
    <3> QED
      BY <3>1, <3>2, RowCases
  <2>3. log[cur + 1].kind # "undecodable"
    BY <1>1, <1>2, Zenon
  <2>4. RowsOf(cur + 1) = RowsOf(cur) /\ LettersOf(cur + 1) = LettersOf(cur)
    BY <1>1, <2>2, <2>3, AtRecord, OneMoreRow, OneMoreLetter
  <2> QED
    BY <1>1, <1>4, <2>4, AtRecord
<1> QED
  BY <1>1, <1>3, <1>4, AtRecord

\* A key that is stored with another content.
LEMMA ConflictReplays ==
  ASSUME TypeOK, BatchBounds, ReplayInv, ApplyConflict, NEW m, m = Larger(high, cur + 1)
  PROVE  rows \cup txRows' = RowsOf(m) /\ dead \cup txDead' = LettersOf(m)
<1>1. Reading /\ Record.kind = "usage" /\ AddDeadLetter("key_reuse")
  BY DEF ApplyConflict
<1>2. IsUsage(cur) /\ KeyAt(cur) = Record.key /\ log[cur + 1] = Record /\ cur \in Nat
  BY <1>1, AtRecord, SMTT(30) DEF IsUsage, KeyAt
<1>3. PICK r \in RowsOf(Reached) : /\ r.key = Record.key
                                   /\ r.content \notin {NoFingerprint, Record.content}
  BY <1>1, AtRecord DEF ApplyConflict, Stored
<1>4. PICK p \in 0 .. Reached - 1 : First(p) /\ r = Row(KeyAt(p), log[p + 1].content, p)
  BY <1>3, RowCases DEF Row
<1>5. KeyAt(p) = KeyAt(cur) /\ log[p + 1].content # Record.content /\ p \in Nat
  BY <1>1, <1>2, <1>3, <1>4, AtRecord DEF Row
<1>6. p < cur
  <2>1. p # cur
    BY <1>2, <1>5
  <2>2. ~ (cur < p)
    BY <1>2, <1>4, <1>5 DEF First
  <2> QED
    BY <1>2, <1>5, <2>1, <2>2
<1>7. Reused(cur) /\ ~First(cur)
  <2>1. p \in 0 .. cur - 1 /\ IsUsage(p)
    BY <1>2, <1>4, <1>5, <1>6 DEF First
  <2>2. log[p + 1] # log[cur + 1]
    BY <1>2, <1>5
  <2> QED
    BY <1>2, <1>4, <1>5, <2>1, <2>2 DEF Reused, First
<1>8. CASE cur < high
  <2>1. DeadLetter(cur, "key_reuse") \in LettersOf(high)
    BY <1>1, <1>2, <1>7, <1>8, AtRecord DEF LettersOf
  <2>2. DeadLetter(cur, "key_reuse").off = cur
    BY DEF DeadLetter
  <2>3. UNCHANGED <<txRows, txDead>>
    BY <1>1, <1>8, <2>1, <2>2, AtRecord DEF AddDeadLetter
  <2> QED
    BY <1>1, <1>8, <2>3, AtRecord
<1>9. CASE cur >= high
  <2>1. \A d \in dead \cup txDead : d.off # cur
    BY <1>1, <1>9, AtRecord, LetterOffset
  <2>2. txDead' = txDead \cup {DeadLetter(cur, "key_reuse")} /\ UNCHANGED txRows
    BY <1>1, <2>1 DEF AddDeadLetter
  <2>3. RowsOf(cur + 1) = RowsOf(cur)
    BY <1>2, <1>7, OneMoreRow
  <2>4. LettersOf(cur + 1) = LettersOf(cur) \cup {DeadLetter(cur, "key_reuse")}
    BY <1>2, <1>7, OneMoreLetter
  <2> QED
    BY <1>1, <1>9, <2>2, <2>3, <2>4, AtRecord
<1> QED
  BY <1>1, <1>8, <1>9, AtRecord

\* One record of a batch, with any of its four outcomes.
LEMMA ReplayApply ==
  ASSUME TypeOK, BatchBounds, ReplayInv,
         StepOver \/ ApplyInserted \/ ApplyDuplicate \/ ApplyConflict
  PROVE  ReplayInv'
<1> DEFINE m == Larger(high, cur + 1)
<1>1. rows \cup txRows' = RowsOf(m) /\ dead \cup txDead' = LettersOf(m)
  BY StepOverReplays, InsertReplays, DuplicateReplays, ConflictReplays
<1>2. Reading /\ Advance
  BY DEF StepOver, ApplyInserted, ApplyDuplicate, ApplyConflict
<1>3. UNCHANGED <<log, inflight, acked, rows, dead, high, offset, pc, from>> /\ cur' = cur + 1
  BY <1>2 DEF Advance, logVars, dbVars
<1>4. Reached' = m
  BY <1>3 DEF Reached, Larger
<1>5. Positions'
  BY <1>3 DEF Positions, ReplayInv, TypeOK
<1>6. KeysHaveFirst' /\ DatabaseIsReplay'
  BY <1>3, SameLog DEF ReplayInv, DatabaseIsReplay
<1>7. RequestsInLog'
  BY <1>3, SameLog DEF ReplayInv, RequestsInLog
<1>8. BatchIsReplay'
  BY <1>1, <1>3, <1>4, SameLog DEF BatchIsReplay
<1>9. PassedUsable'
  <2>1. Usable(cur)
    BY DEF Usable, Record, StepOver, ApplyInserted, ApplyDuplicate, ApplyConflict
  <2>2. \A o \in from .. cur' - 1 : o = cur \/ o \in from .. cur - 1
    BY <1>3 DEF TypeOK
  <2> QED
    BY <1>2, <1>3, <2>1, <2>2, SameLog DEF ReplayInv, PassedUsable, Reading
<1> QED
  BY <1>5, <1>6, <1>7, <1>8, <1>9 DEF ReplayInv

\* Drain reads where it is, and either returns or opens a batch there.
LEMMA ReplayPosition ==
  ASSUME TypeOK, BatchBounds, ReplayInv, ReadOffset \/ CaughtUp \/ BeginBatch
  PROVE  ReplayInv'
<1>1. UNCHANGED <<log, inflight, acked, rows, dead, high, offset>>
  BY DEF ReadOffset, CaughtUp, BeginBatch, logVars, dbVars
<1>2. KeysHaveFirst' /\ DatabaseIsReplay' /\ RequestsInLog'
  BY <1>1, SameLog DEF ReplayInv, DatabaseIsReplay, RequestsInLog
<1>3. Positions'
  BY <1>1 DEF ReadOffset, CaughtUp, BeginBatch, Return, Positions, ReplayInv, TypeOK
<1>4. BatchIsReplay'
  <2>1. CASE ReadOffset \/ CaughtUp
    BY <2>1 DEF ReadOffset, CaughtUp, Return, BatchIsReplay
  <2>2. CASE BeginBatch
    <3>1. txRows' = {} /\ txDead' = {} /\ cur' = from /\ from <= high
      BY <2>2 DEF BeginBatch, ReplayInv, Positions
    <3>2. Reached' = high
      BY <1>1, <3>1 DEF Reached, Larger, TypeOK
    <3> QED
      BY <1>1, <3>1, <3>2, SameLog DEF BatchIsReplay, ReplayInv, DatabaseIsReplay
  <2> QED
    BY <2>1, <2>2
<1>5. PassedUsable'
  <2>1. pc' = "batch" => cur' = from' /\ from' \in Nat
    BY DEF ReadOffset, CaughtUp, BeginBatch, Return, TypeOK
  <2> QED
    BY <1>1, <2>1, SameLog DEF ReplayInv, PassedUsable
<1> QED
  BY <1>2, <1>3, <1>4, <1>5 DEF ReplayInv

\* A batch commits, with its offset.
LEMMA ReplayCommit ==
  ASSUME TypeOK, BatchBounds, ReplayInv, Commit
  PROVE  ReplayInv'
<1>1. /\ UNCHANGED <<log, inflight, acked>>
      /\ pc = "batch" /\ cur = to /\ pc' \in {"loop", "idle"}
      /\ rows' = rows \cup txRows /\ dead' = dead \cup txDead /\ high' = Larger(high, to)
  BY DEF Commit, Return, logVars
<1>2. high' = Reached
  BY <1>1 DEF Reached
<1>3. DatabaseIsReplay'
  BY <1>1, <1>2, SameLog DEF DatabaseIsReplay, ReplayInv, BatchIsReplay
<1>4. KeysHaveFirst' /\ RequestsInLog'
  BY <1>1, SameLog, Zenon DEF ReplayInv, RequestsInLog
<1>5. Positions'
  BY <1>1 DEF Positions, ReplayInv, TypeOK, BatchBounds, Larger
<1>6. BatchIsReplay'
  BY <1>1 DEF BatchIsReplay
<1>7. PassedUsable'
  <2>1. \A o \in 0 .. high' - 1 : o \in 0 .. high - 1 \/ o \in from .. cur - 1
    BY <1>1 DEF Larger, ReplayInv, Positions, TypeOK
  <2> QED
    BY <1>1, <2>1, SameLog DEF ReplayInv, PassedUsable
<1> QED
  BY <1>3, <1>4, <1>5, <1>6, <1>7 DEF ReplayInv

\* A batch is abandoned: nothing of it was committed.
LEMMA ReplayEnd ==
  ASSUME TypeOK, BatchBounds, ReplayInv, DrainFails \/ Kill
  PROVE  ReplayInv'
<1>1. /\ UNCHANGED <<log, acked, rows, dead, high>>
      /\ pc' = "idle" /\ inflight' \subseteq inflight
  BY DEF DrainFails, Kill, Restart, Return, logVars, dbVars
<1>2. KeysHaveFirst' /\ DatabaseIsReplay'
  BY <1>1, SameLog DEF ReplayInv, DatabaseIsReplay
<1>3. RequestsInLog'
  BY <1>1, SameLog DEF ReplayInv, RequestsInLog
<1>4. Positions' /\ BatchIsReplay' /\ PassedUsable'
  BY <1>1, SameLog DEF Positions, BatchIsReplay, PassedUsable, ReplayInv
<1> QED
  BY <1>2, <1>3, <1>4 DEF ReplayInv

\* The log and what the consumer sees of it stay; requests may be answered.
LEMMA ReplayRest ==
  ASSUME TypeOK, BatchBounds, ReplayInv,
         \/ Fsync \/ Rewind \/ Subside \/ UNCHANGED vars
         \/ \E o \in inflight : Accept(o) \/ Refuse(o)
  PROVE  ReplayInv'
<1>1. UNCHANGED <<log, rows, dead, high, pc, from, cur, txRows, txDead>>
  BY DEF Fsync, Rewind, Subside, Accept, Refuse, vars, logVars, dbVars, runVars
<1>2. /\ inflight' \subseteq inflight
      /\ \/ acked' = acked
         \/ \E o \in inflight : acked' = acked \cup {[off |-> o, event |-> log[o + 1]]}
  BY DEF Fsync, Rewind, Subside, Accept, Refuse, vars, logVars
<1>3. KeysHaveFirst' /\ DatabaseIsReplay'
  BY <1>1, SameLog DEF ReplayInv, DatabaseIsReplay
<1>4. Positions'
  BY <1>1 DEF Positions, ReplayInv
<1>5. BatchIsReplay'
  <2>1. Reached' = Reached
    BY <1>1 DEF Reached
  <2> QED
    BY <1>1, <2>1, SameLog DEF BatchIsReplay, ReplayInv
<1>6. RequestsInLog'
  <2>1. \A o \in inflight : Decodes(o) /\ o < Len(log)
    BY DEF ReplayInv, RequestsInLog, TypeOK
  <2>2. \A a \in acked' : a.off < Len(log) /\ Decodes(a.off) /\ a.event = log[a.off + 1]
    BY <1>2, <2>1 DEF ReplayInv, RequestsInLog
  <2> QED
    BY <1>1, <1>2, <2>1, <2>2, SameLog DEF RequestsInLog
<1>7. PassedUsable'
  BY <1>1, SameLog DEF ReplayInv, PassedUsable
<1> QED
  BY <1>3, <1>4, <1>5, <1>6, <1>7 DEF ReplayInv

\* A power failure keeps what was answered and what the consumer has passed.
LEMMA ReplayPowerLoss ==
  ASSUME TailKept, TypeOK, AckedOnDisk, ReplayInv, PowerLoss
  PROVE  ReplayInv'
<1> DEFINE n == Len(log')
<1>1. PICK k \in onDisk .. Len(log) : k >= high /\ log' = SubSeq(log, 1, k)
  BY DEF PowerLoss, TailKept
<1>2. /\ n = k /\ n \in Nat /\ n <= Len(log) /\ n >= high /\ n >= onDisk
      /\ \A o \in 0 .. n - 1 : log'[o + 1] = log[o + 1]
  <2>1. k \in Nat /\ k <= Len(log) /\ \A i \in 1 .. k : log[i] \in Records
    BY DEF TypeOK
  <2>2. Len(SubSeq(log, 1, k)) = IF 1 <= k THEN k - 1 + 1 ELSE 0
    BY <2>1
  <2>3. Len(SubSeq(log, 1, k)) = k
    BY <2>1, <2>2
  <2>4. \A i \in 1 .. k : SubSeq(log, 1, k)[i] = log[i]
    BY <2>1
  <2>5. \A o \in 0 .. k - 1 : o + 1 \in 1 .. k
    BY <2>1
  <2> QED
    BY <1>1, <2>1, <2>3, <2>4, <2>5 DEF TypeOK
<1> HIDE DEF n
<1>3. inflight' = {} /\ pc' = "idle" /\ UNCHANGED <<acked, rows, dead, high>>
  BY DEF PowerLoss, Restart, Return, dbVars
<1>4. high \in 0 .. n /\ high \in Nat
  BY <1>2 DEF TypeOK
<1>5. KeysHaveFirst'
  <2> SUFFICES ASSUME NEW o \in 0 .. n - 1, IsUsage(o)', KeyAt(o)' \notin LegacyKeys
               PROVE  \E p \in 0 .. o : First(p)' /\ KeyAt(p)' = KeyAt(o)'
    BY DEF KeysHaveFirst, n
  <2>1. o \in 0 .. Len(log) - 1 /\ IsUsage(o) /\ KeyAt(o)' = KeyAt(o)
    BY <1>2, SamePrefix DEF TypeOK
  <2>2. PICK p \in 0 .. o : First(p) /\ KeyAt(p) = KeyAt(o)
    BY <2>1 DEF ReplayInv, KeysHaveFirst
  <2>3. p \in 0 .. n - 1
    BY <1>2
  <2>4. First(p)' /\ KeyAt(p)' = KeyAt(p)
    BY <1>2, <2>2, <2>3, SamePrefix
  <2> QED
    BY <2>1, <2>2, <2>4
<1>6. Positions' /\ BatchIsReplay'
  BY <1>3, <1>4 DEF Positions, BatchIsReplay, n
<1>7. DatabaseIsReplay'
  <2>1. RowsOf(high)' = RowsOf(high) /\ LettersOf(high)' = LettersOf(high)
    <3>1. \A m \in 0 .. n : RowsOf(m)' = RowsOf(m) /\ LettersOf(m)' = LettersOf(m)
      BY <1>2, SamePrefix
    <3>2. \A m : m = high' => RowsOf(m)' = RowsOf(high)' /\ LettersOf(m)' = LettersOf(high)'
      OBVIOUS
    <3> QED
      BY <1>3, <1>4, <3>1, <3>2
  <2> QED
    BY <1>3, <2>1 DEF ReplayInv, DatabaseIsReplay
<1>8. PassedUsable'
  <2>1. \A o \in 0 .. high - 1 : Usable(o)'
    <3>1. \A o \in 0 .. high - 1 : o \in 0 .. n - 1 /\ Usable(o)
      BY <1>2, <1>4 DEF ReplayInv, PassedUsable
    <3> QED
      BY <1>2, <3>1 DEF Usable
  <2> QED
    BY <1>3, <2>1 DEF PassedUsable
<1>9. RequestsInLog'
  <2>1. \A a \in acked : a.off \in 0 .. n - 1
    BY <1>2, ConstantsAssumption DEF AckedOnDisk, TypeOK, Offsets
  <2>2. \A a \in acked : Decodes(a.off) /\ a.event = log[a.off + 1]
    BY DEF ReplayInv, RequestsInLog
  <2>3. \A a \in acked : a.off < n /\ Decodes(a.off)' /\ a.event = log'[a.off + 1]
    BY <1>2, <2>1, <2>2 DEF Decodes
  <2> QED
    BY <1>3, <2>3 DEF RequestsInLog, n
<1> QED
  BY <1>5, <1>6, <1>7, <1>8, <1>9 DEF ReplayInv

\* Every step preserves the invariant.
LEMMA ReplayStep ==
  ASSUME TailKept
  PROVE  TypeOK /\ BatchBounds /\ AckedOnDisk /\ ReplayInv /\ [Next]_vars => ReplayInv'
<1> SUFFICES ASSUME TypeOK, BatchBounds, AckedOnDisk, ReplayInv, [Next]_vars PROVE ReplayInv'
  OBVIOUS
<1>1. ASSUME NEW q \in Requests, Post(q[1], q[2])
      PROVE  ReplayInv'
  <2>1. Usage(q[1], q[2]) \in Records /\ Usage(q[1], q[2]).kind # "undecodable"
    BY RequestIsRecord
  <2>2. /\ log' = Append(log, Usage(q[1], q[2])) /\ inflight' = inflight \cup {Len(log)}
        /\ UNCHANGED <<acked, dbVars, runVars>>
    BY <1>1 DEF Post
  <2> QED
    BY <2>1, <2>2, ReplayPost
<1>2. CASE PostForeign
  <2>1. Undecodable \in Records
    BY DEF Records
  <2>2. /\ log' = Append(log, Undecodable) /\ inflight' \subseteq inflight
        /\ UNCHANGED <<acked, dbVars, runVars>>
    BY <1>2 DEF PostForeign
  <2> QED
    BY <2>1, <2>2, ReplayPost
<1>3. CASE PowerLoss
  BY <1>3, ReplayPowerLoss
<1> QED
  BY <1>1, <1>2, <1>3, ReplayApply, ReplayPosition, ReplayCommit, ReplayEnd, ReplayRest
     DEF Next, Ingest, Drain

\* The invariant holds throughout.
LEMMA ReplayAlways ==
  ASSUME TailKept
  PROVE  Spec => [](TypeOK /\ BatchBounds /\ AckedOnDisk /\ ReplayInv)
<1>1. Init => TypeOK /\ BatchBounds /\ AckedOnDisk /\ ReplayInv
  BY TypeInit, ReplayInit DEF Init, AckedOnDisk
<1>2. TypeOK /\ BatchBounds /\ AckedOnDisk /\ ReplayInv /\ [Next]_vars
        => (TypeOK /\ BatchBounds /\ AckedOnDisk /\ ReplayInv)'
  BY TypeStep, AckedStep, ReplayStep
<1> QED
  BY <1>1, <1>2, PTL DEF Spec

(***************************************************************************)
(* Exactly once, for any number of keys, contents and records, any batch   *)
(* size and any mix of failed queries, lost commits, kills, rewinds and    *)
(* power failures: as long as no failure takes a record that the consumer  *)
(* has committed past, the tables processBatch writes are what the log up  *)
(* to the highest committed offset determines.                             *)
(***************************************************************************)
THEOREM ReplayIsExact ==
  ASSUME TailKept
  PROVE  Spec => []DatabaseIsReplay
<1>1. ReplayInv => DatabaseIsReplay
  BY DEF ReplayInv
<1> QED
  BY <1>1, ReplayAlways, PTL

\* Below the committed offset an acknowledged event has its row or its letter.
LEMMA InvariantMeansNotLost ==
  ASSUME TypeOK, ReplayInv
  PROVE  NothingSilentlyLost
<1> SUFFICES ASSUME NEW a \in acked, a.off < offset
             PROVE  \/ \E r \in rows : /\ r.key = a.event.key
                                       /\ r.content \in {NoFingerprint, a.event.content}
                    \/ \E d \in dead : d.off = a.off /\ d.record = a.event
  BY DEF NothingSilentlyLost
<1> DEFINE o == a.off
<1>1. /\ o \in Nat /\ o \in 0 .. high - 1 /\ high \in 0 .. Len(log)
      /\ IsUsage(o) /\ a.event = log[o + 1] /\ KeyAt(o) = a.event.key
  <2>1. o \in Nat /\ o \in 0 .. high - 1 /\ high \in 0 .. Len(log)
    BY ConstantsAssumption, SMTT(30) DEF TypeOK, ReplayInv, Positions, Offsets
  <2>2. a.event = log[o + 1] /\ Decodes(o) /\ Usable(o)
    BY <2>1 DEF ReplayInv, RequestsInLog, PassedUsable
  <2>3. log[o + 1] \in Records
    BY <2>1, RecordAt DEF TypeOK
  <2>4. IsUsage(o)
    <3>1. log[o + 1] = Usage(log[o + 1].key, log[o + 1].content)
      BY <2>2, <2>3, RecordShape DEF Decodes
    <3> QED
      BY <2>2, <3>1 DEF Usage, Usable, IsUsage
  <2> QED
    BY <2>1, <2>2, <2>4 DEF KeyAt
<1>2. rows = RowsOf(high) /\ dead = LettersOf(high) /\ KeysHaveFirst
  BY DEF ReplayInv, DatabaseIsReplay
<1> HIDE DEF o
<1>3. CASE Row(KeyAt(o), NoFingerprint, -1) \in RowsOf(high)
  BY <1>1, <1>2, <1>3 DEF Row
<1>4. ASSUME NEW p \in 0 .. o, First(p), KeyAt(p) = KeyAt(o),
             Row(KeyAt(p), log[p + 1].content, p) \in RowsOf(high)
      PROVE  \/ \E r \in rows : /\ r.key = a.event.key
                                /\ r.content \in {NoFingerprint, a.event.content}
             \/ \E d \in dead : d.off = a.off /\ d.record = a.event
  <2>1. CASE log[p + 1] = log[o + 1]
    BY <1>1, <1>2, <1>4, <2>1, Zenon DEF Row
  <2>2. CASE log[p + 1] # log[o + 1]
    <3>1. p \in 0 .. o - 1
      BY <1>1, <2>2, SMTT(30)
    <3>2. Reused(o)
      BY <1>1, <1>4, <2>2, <3>1 DEF Reused
    <3>3. DeadLetter(o, "key_reuse") \in dead
      BY <1>1, <1>2, <3>2 DEF LettersOf
    <3> QED
      BY <1>1, <3>3 DEF DeadLetter, o
  <2> QED
    BY <2>1, <2>2
<1> QED
  BY <1>1, <1>2, <1>3, <1>4, KeyIsStored, Zenon

(***************************************************************************)
(* I3 under the same assumptions: an event answered with 202 that the      *)
(* consumer has passed is stored, or dead-lettered as the record it was.   *)
(***************************************************************************)
THEOREM NothingIsLost ==
  ASSUME TailKept
  PROVE  Spec => []NothingSilentlyLost
<1>1. TypeOK /\ ReplayInv => NothingSilentlyLost
  BY InvariantMeansNotLost
<1> QED
  BY <1>1, ReplayAlways, PTL
=============================================================================
