------------------------------- MODULE SyncLog -------------------------------
(***************************************************************************)
(* The append path of the broker's log: Log.Append with its four sync      *)
(* policies, the segment roll, the group-commit coordinator (waitFor and   *)
(* markSynced), fsync, Close, and what a killed process or a power failure *)
(* leaves behind for the next Open.                                        *)
(*                                                                         *)
(* A record is its offset: payloads never matter here.  A segment file is  *)
(* named by its base offset, so the active segment holds the records       *)
(* base .. next-1, and an fsync of it that starts when the log ends at     *)
(* `next' covers exactly these.  Segment sizes are counted in records; an  *)
(* oversize payload forces the roll early.                                 *)
(*                                                                         *)
(* Each action is one critical section of the code: a stretch under l.mu   *)
(* (Append), under c.mu (one turn of waitFor's loop), the RLock in         *)
(* syncActive, or the end of an fsync.  The fsync of a roll happens under  *)
(* l.mu and is part of Append.                                             *)
(***************************************************************************)
EXTENDS Integers

CONSTANTS
  Writers,             \* goroutines that call Append
  Policy,              \* Options.Sync
  SyncEveryNRecords,   \* Options.SyncEveryNRecords
  MaxSegmentRecords,   \* Options.MaxSegmentBytes, counted in records
  MaxRecords,          \* bound: the log never grows past this many records
  Faults               \* what the environment may do, see FaultKind

Policies == {"Never", "Always", "EveryN", "Group"}

(***************************************************************************)
(* "io"     a write or a file creation may fail;                           *)
(* "sync"   an fsync may fail and leave the records for a later one;       *)
(* "drop"   a failed fsync marks the dirty pages clean, so a later fsync   *)
(*          succeeds without them;                                         *)
(* "kill"   the process may die: the page cache survives;                  *)
(* "power"  the machine may lose power: only what was synced must survive; *)
(* "close"  Close may run while appends are still in flight, as it does    *)
(*          when the HTTP server's shutdown times out.                     *)
(***************************************************************************)
FaultKind == {"io", "sync", "drop", "kill", "power", "close"}

ASSUME ConstantsAssumption ==
  /\ Policy \in Policies
  /\ SyncEveryNRecords \in Nat \ {0}
  /\ MaxSegmentRecords \in Nat \ {0}
  /\ MaxRecords \in Nat
  /\ Faults \subseteq FaultKind

VARIABLES
  \* the files, and what the kernel holds of them
  present,    \* offsets a reader of the log's files finds
  bases,      \* base offset of every segment
  durable,    \* offsets that are on disk
  dropped,    \* offsets whose dirty pages a failed fsync discarded
  ghost,      \* the active file holds a whole record past the tracked size
  \* Log
  base, next, \* the active segment's baseOffset and nextOffset
  seq,        \* l.seq
  sinceSync,  \* l.sinceSync
  closed,     \* l.segments = nil
  \* syncCoordinator
  synced, pending, syncing, err,
  \* the goroutines
  pc,         \* where each one is in Append
  mySeq,      \* the sequence its record got
  target,     \* waitFor's captured target
  flushing,   \* the records the fsync it is in covers
  \* observation only
  opened,     \* next when the log was opened
  acked,      \* offsets Append returned without an error
  witnessed   \* a sync failed since this append began

fileVars == <<present, bases, durable, dropped, ghost>>
logVars  == <<base, next, seq, sinceSync, closed>>
condVars == <<synced, pending, syncing, err>>
callVars == <<pc, mySeq, target, flushing>>
obsVars  == <<opened, acked, witnessed>>
vars     == <<fileVars, logVars, condVars, callVars, obsVars>>

(***************************************************************************)
(* "ready"    about to take a turn of waitFor's loop;                      *)
(* "blocked"  in cond.Wait;                                                *)
(* "capture"  about to call syncActive;                                    *)
(* "flush"    inside fsync.                                                *)
(***************************************************************************)
PC == {"idle", "ready", "blocked", "capture", "flush"}

TypeOK ==
  /\ present \subseteq 0 .. MaxRecords - 1
  /\ bases \subseteq 0 .. MaxRecords
  /\ durable \subseteq present
  /\ dropped \subseteq 0 .. MaxRecords - 1
  /\ ghost \in BOOLEAN
  /\ base \in 0 .. MaxRecords /\ next \in base .. MaxRecords
  /\ seq \in 0 .. MaxRecords
  /\ sinceSync \in 0 .. seq
  /\ closed \in BOOLEAN
  /\ synced \in 0 .. seq /\ pending \in synced .. seq
  /\ syncing \in BOOLEAN /\ err \in BOOLEAN
  /\ pc \in [Writers -> PC]
  /\ mySeq \in [Writers -> 0 .. MaxRecords]
  /\ target \in [Writers -> 0 .. MaxRecords]
  /\ flushing \in [Writers -> SUBSET (0 .. MaxRecords - 1)]
  /\ opened \in 0 .. MaxRecords
  /\ acked \subseteq 0 .. MaxRecords - 1
  /\ witnessed \in [Writers -> BOOLEAN]

\* Open of an empty directory: createSegment(dir, 0) and a fresh coordinator.
Init ==
  /\ present = {} /\ bases = {0} /\ durable = {} /\ dropped = {}
  /\ ghost = FALSE
  /\ base = 0 /\ next = 0 /\ seq = 0 /\ sinceSync = 0 /\ closed = FALSE
  /\ synced = 0 /\ pending = 0 /\ syncing = FALSE /\ err = FALSE
  /\ pc = [w \in Writers |-> "idle"]
  /\ mySeq = [w \in Writers |-> 0]
  /\ target = [w \in Writers |-> 0]
  /\ flushing = [w \in Writers |-> {}]
  /\ opened = 0 /\ acked = {}
  /\ witnessed = [w \in Writers |-> FALSE]

-----------------------------------------------------------------------------
\* The offset of the record whose sequence is s: both count the same appends.
OffsetOf(s) == opened + s - 1

Larger(a, b) == IF a > b THEN a ELSE b

\* segment.sync that succeeds on the records S: file.Sync, then index.sync.
FsyncOk(S) ==
  /\ durable' = durable \cup (S \ dropped)
  /\ UNCHANGED dropped

(***************************************************************************)
(* segment.sync that returns an error: file.Sync failed, or it succeeded   *)
(* and index.sync failed.                                                  *)
(***************************************************************************)
FsyncFails(S) ==
  /\ "sync" \in Faults
  /\ \/ /\ UNCHANGED durable
        /\ dropped' = IF "drop" \in Faults THEN dropped \cup (S \ durable) ELSE dropped
     \/ FsyncOk(S)

\* Mutant of Broadcast: the waiters are not woken.
BroadcastForgotten(w, p) == pc' = [pc EXCEPT ![w] = p]

\* cond.Broadcast, in the middle of setting w's own program counter to p.
Broadcast(w, p) ==
  pc' = [x \in Writers |-> IF x = w THEN p
                           ELSE IF pc[x] = "blocked" THEN "ready" ELSE pc[x]]

\* Mutant of MarkSynced: takes the record about to be written for a synced one.
MarkSyncedTooFar(s) ==
  /\ synced' = Larger(s + 1, synced)
  /\ pending' = Larger(s + 1, pending)
  /\ UNCHANGED <<syncing, err>>

\* syncCoordinator.markSynced; its Broadcast is the caller's.
MarkSynced(s) ==
  /\ synced' = Larger(s, synced)
  /\ pending' = Larger(s, pending)
  /\ UNCHANGED <<syncing, err>>

\* A sync failed: every append in flight may be told so.
Witness == witnessed' = [x \in Writers |-> pc[x] # "idle"]

-----------------------------------------------------------------------------
\* The roll condition of Append.  An oversize payload overflows any segment.
RollDue(oversize) ==
  /\ next > base
  /\ oversize \/ next - base >= MaxSegmentRecords

\* Mutant of FlushOutgoing: the outgoing segment is not flushed.
FlushOutgoingSkipped == UNCHANGED <<durable, dropped>> /\ MarkSynced(seq)

(***************************************************************************)
(* The first half of a roll: every policy but Never flushes the outgoing   *)
(* segment and tells the coordinator that all sequences are durable.       *)
(***************************************************************************)
FlushOutgoing ==
  IF Policy = "Never" THEN UNCHANGED <<durable, dropped, condVars>>
                      ELSE FsyncOk(base .. next - 1) /\ MarkSynced(seq)

\* The second half: createSegment(dir, active.nextOffset).
StartSegment == base' = next /\ bases' = bases \cup {next}

SyncDue == \/ Policy = "Always"
           \/ Policy = "EveryN" /\ sinceSync + 1 >= SyncEveryNRecords

\* Append's switch on the policy: sync, wait for the group, or return.
AfterWrite == IF SyncDue THEN "capture" ELSE IF Policy = "Group" THEN "ready" ELSE "idle"

\* segment.append and the counters Append keeps.
Write(w) ==
  /\ present' = present \cup {next}
  /\ next' = next + 1
  /\ ghost' = FALSE
  /\ seq' = seq + 1
  /\ sinceSync' = IF Policy = "EveryN" /\ SyncDue THEN 0 ELSE sinceSync + 1
  /\ mySeq' = [mySeq EXCEPT ![w] = seq + 1]
  /\ witnessed' = [witnessed EXCEPT ![w] = FALSE]
  /\ acked' = IF AfterWrite = "idle" THEN acked \cup {next} ELSE acked
  /\ UNCHANGED <<closed, target, flushing, opened>>

(***************************************************************************)
(* segment.append that returns an error: nothing was written, or the       *)
(* record was and its index entry was not.  Either way size and nextOffset *)
(* stay, so the next append overwrites the bytes; a restart before that    *)
(* recovers the record.                                                    *)
(***************************************************************************)
WriteFails ==
  /\ ghost' \in BOOLEAN
  /\ UNCHANGED <<present, next, seq, sinceSync, closed, mySeq, target, flushing, obsVars>>

CanAppend(w) == pc[w] = "idle" /\ ~closed /\ next < MaxRecords

AppendInPlace(w) ==
  /\ CanAppend(w)
  /\ ~ RollDue(FALSE)
  /\ Write(w)
  /\ pc' = [pc EXCEPT ![w] = AfterWrite]
  /\ UNCHANGED <<bases, durable, dropped, base, condVars>>

AppendAfterRoll(w) ==
  /\ CanAppend(w)
  /\ \E oversize \in BOOLEAN : RollDue(oversize)
  /\ FlushOutgoing /\ StartSegment
  /\ Write(w)
  /\ Broadcast(w, AfterWrite)

AppendFailsInPlace(w) ==
  /\ "io" \in Faults
  /\ CanAppend(w)
  /\ ~ RollDue(FALSE)
  /\ WriteFails
  /\ UNCHANGED <<bases, durable, dropped, base, condVars, pc>>

\* "sync on segment roll": the roll is abandoned before anything changed.
RollSyncFails(w) ==
  /\ CanAppend(w)
  /\ \E oversize \in BOOLEAN : RollDue(oversize)
  /\ Policy # "Never"
  /\ FsyncFails(base .. next - 1)
  /\ UNCHANGED <<present, bases, ghost, logVars, condVars, callVars, obsVars>>

\* createSegment fails after the outgoing segment was flushed.
RollCreateFails(w) ==
  /\ "io" \in Faults
  /\ CanAppend(w)
  /\ \E oversize \in BOOLEAN : RollDue(oversize)
  /\ FlushOutgoing
  /\ Broadcast(w, "idle")
  /\ UNCHANGED <<present, bases, ghost, logVars, mySeq, target, flushing, obsVars>>

\* The roll succeeds and the write into the new segment does not.
RollWriteFails(w) ==
  /\ "io" \in Faults
  /\ CanAppend(w)
  /\ \E oversize \in BOOLEAN : RollDue(oversize)
  /\ FlushOutgoing /\ StartSegment
  /\ Broadcast(w, "idle")
  /\ WriteFails

-----------------------------------------------------------------------------
(***************************************************************************)
(* One turn of waitFor's loop, under c.mu.  pending is raised on entry; on *)
(* a later turn it is already at least mySeq.                              *)
(***************************************************************************)
Turn(w) == pc[w] = "ready" /\ pending' = Larger(mySeq[w], pending)

ReturnSynced(w) ==
  /\ Turn(w)
  /\ synced >= mySeq[w]
  /\ pc' = [pc EXCEPT ![w] = "idle"]
  /\ acked' = acked \cup {OffsetOf(mySeq[w])}
  /\ UNCHANGED <<fileVars, logVars, synced, syncing, err, mySeq, target, flushing,
                 opened, witnessed>>

ReturnErr(w) ==
  /\ Turn(w)
  /\ synced < mySeq[w] /\ err
  /\ pc' = [pc EXCEPT ![w] = "idle"]
  /\ UNCHANGED <<fileVars, logVars, synced, syncing, err, mySeq, target, flushing, obsVars>>

CondWait(w) ==
  /\ Turn(w)
  /\ synced < mySeq[w] /\ ~err /\ syncing
  /\ pc' = [pc EXCEPT ![w] = "blocked"]
  /\ UNCHANGED <<fileVars, logVars, synced, syncing, err, mySeq, target, flushing, obsVars>>

\* Mutant of BecomeSyncer: does not look whether somebody else is syncing.
BecomeSyncerAnyway(w) ==
  /\ Turn(w)
  /\ synced < mySeq[w] /\ ~err
  /\ syncing' = TRUE /\ err' = FALSE
  /\ target' = [target EXCEPT ![w] = pending']
  /\ pc' = [pc EXCEPT ![w] = "capture"]
  /\ UNCHANGED <<fileVars, logVars, synced, mySeq, flushing, obsVars>>

BecomeSyncer(w) ==
  /\ Turn(w)
  /\ synced < mySeq[w] /\ ~err /\ ~syncing
  /\ syncing' = TRUE /\ err' = FALSE
  /\ target' = [target EXCEPT ![w] = pending']
  /\ pc' = [pc EXCEPT ![w] = "capture"]
  /\ UNCHANGED <<fileVars, logVars, synced, mySeq, flushing, obsVars>>

-----------------------------------------------------------------------------
\* Mutant of SyncReturnsNil: claims what is pending now, not the target.
SyncReturnsNilTooMuch(w) ==
  /\ syncing' = FALSE
  /\ synced' = Larger(pending, synced)
  /\ Broadcast(w, "idle")
  /\ acked' = acked \cup {OffsetOf(mySeq[w])}
  /\ UNCHANGED <<present, bases, ghost, logVars, pending, err, mySeq, target, opened, witnessed>>

(***************************************************************************)
(* What follows doSync() = nil.  Under Group the coordinator claims the    *)
(* captured target, wakes the waiters and goes round the loop, whose first *)
(* test returns; the other policies return at once.                        *)
(***************************************************************************)
SyncReturnsNil(w) ==
  /\ IF Policy = "Group"
       THEN /\ syncing' = FALSE
            /\ synced' = Larger(target[w], synced)
            /\ Broadcast(w, IF synced' >= mySeq[w] THEN "idle" ELSE "ready")
            /\ acked' = IF synced' >= mySeq[w] THEN acked \cup {OffsetOf(mySeq[w])} ELSE acked
       ELSE /\ pc' = [pc EXCEPT ![w] = "idle"]
            /\ acked' = acked \cup {OffsetOf(mySeq[w])}
            /\ UNCHANGED <<syncing, synced>>
  /\ UNCHANGED <<present, bases, ghost, logVars, pending, err, mySeq, target, opened, witnessed>>

\* syncActive on an open log: the RLock fixes the segment, and fsync starts.
SyncActive(w) ==
  /\ pc[w] = "capture" /\ ~closed
  /\ flushing' = [flushing EXCEPT ![w] = base .. next - 1]
  /\ pc' = [pc EXCEPT ![w] = "flush"]
  /\ UNCHANGED <<fileVars, logVars, condVars, mySeq, target, obsVars>>

\* syncActive on a closed log: no segments, so there is "nothing to sync".
SyncActiveClosed(w) ==
  /\ pc[w] = "capture" /\ closed
  /\ SyncReturnsNil(w)
  /\ UNCHANGED <<durable, dropped, flushing>>

FlushOk(w) ==
  /\ pc[w] = "flush"
  /\ FsyncOk(flushing[w])
  /\ flushing' = [flushing EXCEPT ![w] = {}]
  /\ SyncReturnsNil(w)

(***************************************************************************)
(* doSync() returns an error.  waitFor records it for the other waiters.   *)
(* On a closed log the file is gone and fsync fails by itself.             *)
(***************************************************************************)
FlushFails(w) ==
  /\ pc[w] = "flush"
  /\ \/ FsyncFails(flushing[w])
     \/ closed /\ UNCHANGED <<durable, dropped>>
  /\ flushing' = [flushing EXCEPT ![w] = {}]
  /\ IF Policy = "Group"
       THEN /\ syncing' = FALSE /\ err' = TRUE
            /\ Broadcast(w, "idle")
            /\ Witness
       ELSE /\ pc' = [pc EXCEPT ![w] = "idle"]
            /\ UNCHANGED <<syncing, err, witnessed>>
  /\ UNCHANGED <<present, bases, ghost, logVars, synced, pending, mySeq, target, opened, acked>>

\* Log.Sync: every segment in turn under l.mu, up to the first that fails.
Sync ==
  /\ ~closed
  /\ \/ FsyncOk(present)
     \/ "sync" \in Faults /\ \E b \in bases : FsyncOk({o \in present : o < b})
  /\ UNCHANGED <<present, bases, ghost, logVars, condVars, callVars, obsVars>>

\* Log.Close: drops the segments without a sync.
Close ==
  /\ ~closed
  /\ "close" \in Faults \/ \A w \in Writers : pc[w] = "idle"
  /\ closed' = TRUE
  /\ UNCHANGED <<fileVars, base, next, seq, sinceSync, condVars, callVars, obsVars>>

-----------------------------------------------------------------------------
\* What a new process starts from once Open has recovered n as the next offset.
Reopen(n) ==
  /\ next' = n /\ opened' = n
  /\ ghost' = FALSE /\ seq' = 0 /\ sinceSync' = 0 /\ closed' = FALSE
  /\ synced' = 0 /\ pending' = 0 /\ syncing' = FALSE /\ err' = FALSE
  /\ pc' = [w \in Writers |-> "idle"]
  /\ mySeq' = [w \in Writers |-> 0]
  /\ target' = [w \in Writers |-> 0]
  /\ flushing' = [w \in Writers |-> {}]
  /\ witnessed' = [w \in Writers |-> FALSE]
  /\ UNCHANGED <<bases, base, acked>>

\* What the files hold for a reader that trusts lengths and checksums alone.
OnFile == IF ghost THEN present \cup {next} ELSE present

\* The process exits or is killed; the page cache keeps every write.
Kill ==
  /\ closed \/ "kill" \in Faults
  /\ present' = OnFile
  /\ Reopen(IF ghost THEN next + 1 ELSE next)
  /\ UNCHANGED <<durable, dropped>>

\* Log.Read finds both in one segment.
SameSegment(o, p) == \A b \in bases : b <= o <=> b <= p

(***************************************************************************)
(* The machine loses power.  Each file keeps what was synced and some      *)
(* prefix of the rest, and recovery truncates it there.                    *)
(***************************************************************************)
PowerLoss ==
  /\ "power" \in Faults
  /\ \E kept \in SUBSET OnFile, n \in base .. next + 1 :
       /\ durable \subseteq kept
       /\ \A o \in kept, p \in OnFile : p < o /\ SameSegment(o, p) => p \in kept
       /\ {o \in kept : o >= base} = base .. n - 1
       /\ present' = kept /\ durable' = kept /\ dropped' = {}
       /\ Reopen(n)

-----------------------------------------------------------------------------
Append(w) ==
  \/ AppendInPlace(w) \/ AppendAfterRoll(w) \/ AppendFailsInPlace(w)
  \/ RollSyncFails(w) \/ RollCreateFails(w) \/ RollWriteFails(w)

\* What a goroutine inside Append does next.
Proceed(w) ==
  \/ ReturnSynced(w) \/ ReturnErr(w) \/ CondWait(w) \/ BecomeSyncer(w)
  \/ SyncActive(w) \/ SyncActiveClosed(w) \/ FlushOk(w) \/ FlushFails(w)

Next ==
  \/ \E w \in Writers : Append(w) \/ Proceed(w)
  \/ Sync \/ Close \/ Kill \/ PowerLoss

Spec == Init /\ [][Next]_vars

(***************************************************************************)
(* The Go scheduler runs every runnable goroutine and fsync returns.       *)
(* Nothing obliges anybody to call Append, Sync or Close.                  *)
(***************************************************************************)
FairSpec == Spec /\ \A w \in Writers : WF_vars(Proceed(w))

-----------------------------------------------------------------------------
(***************************************************************************)
(* Append's promise under SyncAlways and SyncGroup: the record is on disk  *)
(* before Append returns, so no failure that follows can take it away.     *)
(***************************************************************************)
AckedDurable == acked \subseteq durable

\* "Every sequence at or below synced is on disk" (syncCoordinator.synced).
SyncedOnDisk == \A s \in 1 .. synced : OffsetOf(s) \in durable

\* Offsets start at zero and increase by one, with no gaps (Log).
NoGaps == present = 0 .. next - 1

-----------------------------------------------------------------------------
(***************************************************************************)
(* The bookkeeping that keeps the types right under every policy and every *)
(* fault: sequences and offsets count the same appends, a call in flight   *)
(* holds a sequence that was given out, a syncer's target covers its own   *)
(* record, and an fsync covers records that are in the file.               *)
(***************************************************************************)
Bookkeeping ==
  /\ next = opened + seq
  /\ ghost => next < MaxRecords
  /\ base .. next - 1 \subseteq present
  /\ \A w \in Writers :
       /\ pc[w] # "idle" => 1 <= mySeq[w] /\ mySeq[w] <= seq
       /\ Policy = "Group" /\ pc[w] \in {"capture", "flush"} =>
            mySeq[w] <= target[w] /\ target[w] <= pending
       /\ flushing[w] \subseteq present

\* The last sequence whose record w's fsync will be taken to have flushed.
Claim(w) == IF Policy = "Group" THEN target[w] ELSE mySeq[w]

(***************************************************************************)
(* Why an acknowledgement is backed by a sync: rolled segments are on      *)
(* disk, what the coordinator calls synced is on disk, and everything an   *)
(* fsync in flight will claim is on disk or among the records it flushes.  *)
(***************************************************************************)
FlushCovers ==
  /\ dropped = {}
  /\ closed => \A w \in Writers : pc[w] = "idle"
  /\ 0 .. base - 1 \subseteq durable
  /\ SyncedOnDisk
  /\ \A w \in Writers : pc[w] = "flush" =>
       \A s \in 1 .. Claim(w) : OffsetOf(s) \in durable \cup flushing[w]

(***************************************************************************)
(* Others queue rather than start a second fsync: under Group at most one  *)
(* goroutine is between BecomeSyncer and the end of its fsync, and syncing *)
(* says whether there is one.                                              *)
(***************************************************************************)
OneSyncer ==
  Policy = "Group" =>
    /\ syncing <=> \E w \in Writers : pc[w] \in {"capture", "flush"}
    /\ \A v, w \in Writers : pc[v] \in {"capture", "flush"} /\ pc[w] \in {"capture", "flush"} => v = w

(***************************************************************************)
(* waitFor's err is "cleared when the next sync attempt begins": an append *)
(* is failed only by a sync that failed while the append was in flight.    *)
(***************************************************************************)
FailureIsFresh == [][\A w \in Writers : ReturnErr(w) => witnessed[w]]_vars

(***************************************************************************)
(* DurableLog's promise, as the abstract log states it: acknowledged       *)
(* records keep their offsets through every crash and power failure.       *)
(***************************************************************************)
Promise == INSTANCE AckedLog WITH length <- next, acknowledged <- acked
KeepsPromise == Promise!Spec

\* Every Append returns: no waiter is left asleep, whatever fails.
AppendReturns == \A w \in Writers : pc[w] # "idle" ~> pc[w] = "idle"
=============================================================================
