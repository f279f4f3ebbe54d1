--------------------------- MODULE SyncLogProofs ---------------------------
(***************************************************************************)
(* Proofs about SyncLog for every set of writers and every bound.          *)
(***************************************************************************)
EXTENDS SyncLog, TLAPS

(***************************************************************************)
(* TypeOK and Bookkeeping, regrouped by the kind of reasoning they need.   *)
(***************************************************************************)
Numbers ==
  /\ base \in Nat /\ next \in Nat /\ base <= next /\ next <= MaxRecords
  /\ seq \in Nat /\ seq <= MaxRecords
  /\ sinceSync \in Nat /\ sinceSync <= seq
  /\ synced \in Nat /\ pending \in Nat /\ synced <= pending /\ pending <= seq
  /\ opened \in Nat /\ next = opened + seq

Flags ==
  /\ ghost \in BOOLEAN /\ closed \in BOOLEAN /\ syncing \in BOOLEAN /\ err \in BOOLEAN
  /\ witnessed \in [Writers -> BOOLEAN]

Records ==
  /\ present \subseteq 0 .. MaxRecords - 1
  /\ base .. next - 1 \subseteq present
  /\ bases \subseteq 0 .. MaxRecords
  /\ durable \subseteq present
  /\ dropped \subseteq 0 .. MaxRecords - 1
  /\ acked \subseteq 0 .. MaxRecords - 1
  /\ flushing \in [Writers -> SUBSET present]
  /\ ghost => next < MaxRecords

Calls ==
  /\ pc \in [Writers -> PC]
  /\ mySeq \in [Writers -> 0 .. MaxRecords]
  /\ target \in [Writers -> 0 .. MaxRecords]
  /\ \A w \in Writers :
       /\ pc[w] # "idle" => 1 <= mySeq[w] /\ mySeq[w] <= seq
       /\ Policy = "Group" /\ pc[w] \in {"capture", "flush"} =>
            mySeq[w] <= target[w] /\ target[w] <= pending

TInv == Numbers /\ Flags /\ Records /\ Calls

\* The invariant is the type invariant and the bookkeeping, grouped by what steps change.
LEMMA Regrouped == TInv <=> TypeOK /\ Bookkeeping
BY ConstantsAssumption DEF TInv, Numbers, Flags, Records, Calls, TypeOK, Bookkeeping

\* Open on an empty directory.
LEMMA InitTInv == Init => TInv
<1> SUFFICES ASSUME Init PROVE TInv OBVIOUS
<1> USE ConstantsAssumption DEF Init
<1>1. Numbers BY DEF Numbers
<1>2. Flags BY Zenon DEF Flags
<1>3. Records BY DEF Records
<1>4. Calls BY DEF Calls, PC
<1> QED BY <1>1, <1>2, <1>3, <1>4 DEF TInv

\* An fsync, whatever it returns, only adds records of the log to the disk.
LEMMA FsyncTyped ==
  ASSUME NEW S, S \subseteq present, Records, FsyncOk(S) \/ FsyncFails(S)
  PROVE  /\ durable' \subseteq present /\ durable \subseteq durable'
         /\ dropped' \subseteq 0 .. MaxRecords - 1
BY Zenon DEF FsyncOk, FsyncFails, Records

\* The first half of a roll keeps the coordinator within what was appended.
LEMMA FlushOutgoingTyped ==
  ASSUME TInv, FlushOutgoing
  PROVE  /\ durable' \subseteq present /\ durable \subseteq durable'
         /\ dropped' \subseteq 0 .. MaxRecords - 1
         /\ synced' \in Nat /\ pending' \in Nat
         /\ synced <= synced' /\ synced' <= pending' /\ pending <= pending' /\ pending' <= seq
         /\ UNCHANGED <<syncing, err>>
<1>1. base .. next - 1 \subseteq present BY DEF TInv, Records
<1>2. CASE Policy = "Never"
  <2>1. UNCHANGED <<durable, dropped, synced, pending, syncing, err>>
    BY <1>2 DEF FlushOutgoing, condVars
  <2> QED BY <2>1 DEF TInv, Records, Numbers
<1>3. CASE Policy # "Never"
  <2>1. FsyncOk(base .. next - 1) /\ MarkSynced(seq) BY <1>3 DEF FlushOutgoing
  <2> QED BY <1>1, <2>1, FsyncTyped DEF MarkSynced, Larger, TInv, Numbers
<1> QED BY <1>2, <1>3

\* Append without a roll.
LEMMA AppendInPlaceTInv ==
  ASSUME TInv, NEW w \in Writers, AppendInPlace(w) PROVE TInv'
<1> USE ConstantsAssumption DEF AppendInPlace, CanAppend, Write
<1>1. Numbers' BY DEF TInv, Numbers, condVars
<1>2. Flags' BY Zenon DEF TInv, Flags, condVars
<1>3. Records' BY DEF TInv, Numbers, Records
<1>4. Calls' BY DEF TInv, Numbers, Calls, condVars, AfterWrite, SyncDue, PC
<1> QED BY <1>1, <1>2, <1>3, <1>4 DEF TInv

\* Append that rolls to a new segment first.
LEMMA AppendAfterRollTInv ==
  ASSUME TInv, NEW w \in Writers, AppendAfterRoll(w) PROVE TInv'
<1> USE ConstantsAssumption, FlushOutgoingTyped DEF AppendAfterRoll, CanAppend, Write, StartSegment
<1>1. Numbers' BY DEF TInv, Numbers
<1>2. Flags' BY Zenon DEF TInv, Flags
<1>3. Records' BY DEF TInv, Numbers, Records
<1>4. Calls' BY DEF TInv, Numbers, Calls, AfterWrite, SyncDue, PC, Broadcast
<1> QED BY <1>1, <1>2, <1>3, <1>4 DEF TInv

\* Append whose write fails, with and without a roll.
LEMMA AppendFailsTInv ==
  ASSUME TInv, NEW w \in Writers, AppendFailsInPlace(w) \/ RollWriteFails(w) PROVE TInv'
<1> USE ConstantsAssumption DEF CanAppend, WriteFails, obsVars
<1>1. CASE AppendFailsInPlace(w)
  <2> USE <1>1 DEF AppendFailsInPlace, condVars
  <2>1. Numbers' BY DEF TInv, Numbers
  <2>2. Flags' BY DEF TInv, Flags
  <2>3. Records' BY DEF TInv, Numbers, Records
  <2>4. Calls' BY DEF TInv, Calls
  <2> QED BY <2>1, <2>2, <2>3, <2>4 DEF TInv
<1>2. CASE RollWriteFails(w)
  <2> USE <1>2, FlushOutgoingTyped DEF RollWriteFails, StartSegment
  <2>1. Numbers' BY DEF TInv, Numbers
  <2>2. Flags' BY DEF TInv, Flags
  <2>3. Records' BY DEF TInv, Numbers, Records
  <2>4. Calls' BY DEF TInv, Numbers, Calls, Broadcast, PC
  <2> QED BY <2>1, <2>2, <2>3, <2>4 DEF TInv
<1> QED BY <1>1, <1>2

\* Append whose roll fails, in the sync or in createSegment.
LEMMA RollFailsTInv ==
  ASSUME TInv, NEW w \in Writers, RollSyncFails(w) \/ RollCreateFails(w) PROVE TInv'
<1> USE ConstantsAssumption DEF CanAppend, logVars, obsVars
<1>1. CASE RollSyncFails(w)
  <2> USE <1>1 DEF RollSyncFails, condVars, callVars
  <2>0. /\ durable' \subseteq present
        /\ dropped' \subseteq 0 .. MaxRecords - 1
    BY FsyncTyped, Zenon DEF TInv, Records
  <2>1. Numbers' BY DEF TInv, Numbers
  <2>2. Flags' BY DEF TInv, Flags
  <2>3. Records' BY <2>0 DEF TInv, Records
  <2>4. Calls' BY DEF TInv, Calls
  <2> QED BY <2>1, <2>2, <2>3, <2>4 DEF TInv
<1>2. CASE RollCreateFails(w)
  <2> USE <1>2, FlushOutgoingTyped DEF RollCreateFails
  <2>1. Numbers' BY DEF TInv, Numbers
  <2>2. Flags' BY DEF TInv, Flags
  <2>3. Records' BY DEF TInv, Records
  <2>4. Calls' BY DEF TInv, Numbers, Calls, Broadcast, PC
  <2> QED BY <2>1, <2>2, <2>3, <2>4 DEF TInv
<1> QED BY <1>1, <1>2

\* One turn of the loop of waitFor.
LEMMA TurnTInv ==
  ASSUME TInv, NEW w \in Writers,
         ReturnSynced(w) \/ ReturnErr(w) \/ CondWait(w) \/ BecomeSyncer(w)
  PROVE TInv'
<1> USE ConstantsAssumption DEF ReturnSynced, ReturnErr, CondWait, BecomeSyncer, Turn, Larger
<1>1. Numbers' BY DEF TInv, Numbers, Calls, logVars, obsVars
<1>2. Flags' BY Zenon DEF TInv, Flags, logVars, fileVars, obsVars
<1>3. Records'
  <2>1. OffsetOf(mySeq[w]) \in 0 .. MaxRecords - 1
    BY DEF TInv, Numbers, Calls, OffsetOf
  <2>2. acked' \subseteq acked \cup {OffsetOf(mySeq[w])} BY DEF obsVars
  <2>3. UNCHANGED <<present, bases, durable, dropped, ghost, base, next, flushing>>
    BY DEF logVars, fileVars
  <2> HIDE DEF ReturnSynced, ReturnErr, CondWait, BecomeSyncer
  <2> QED BY <2>1, <2>2, <2>3 DEF TInv, Records
<1>4. Calls' BY DEF TInv, Numbers, Calls, PC, logVars
<1> QED BY <1>1, <1>2, <1>3, <1>4 DEF TInv

\* syncActive picks the segment to flush.
LEMMA SyncActiveTInv ==
  ASSUME TInv, NEW w \in Writers, SyncActive(w) PROVE TInv'
<1> USE ConstantsAssumption DEF SyncActive
<1>1. Numbers' BY DEF TInv, Numbers, logVars, condVars, obsVars
<1>2. Flags' BY DEF TInv, Flags, logVars, fileVars, condVars, obsVars
<1>3. Records' BY DEF TInv, Records, logVars, fileVars, obsVars
<1>4. Calls' BY DEF TInv, Numbers, Calls, PC, logVars, condVars
<1> QED BY <1>1, <1>2, <1>3, <1>4 DEF TInv

\* A sync that returned nil, whatever it flushed.
LEMMA SyncReturnsNilTInv ==
  ASSUME TInv, NEW w \in Writers, pc[w] \in {"capture", "flush"}, SyncReturnsNil(w),
         durable' \subseteq present, dropped' \subseteq 0 .. MaxRecords - 1,
         flushing' \in [Writers -> SUBSET present]
  PROVE  TInv'
<1> USE ConstantsAssumption DEF SyncReturnsNil, Larger
<1>1. Numbers' BY DEF TInv, Numbers, Calls, logVars
<1>2. Flags' BY Zenon DEF TInv, Flags, logVars
<1>3. Records'
  <2>1. OffsetOf(mySeq[w]) \in 0 .. MaxRecords - 1
    BY DEF TInv, Numbers, Calls, OffsetOf
  <2>2. acked' \subseteq acked \cup {OffsetOf(mySeq[w])} OBVIOUS
  <2> QED BY <2>1, <2>2 DEF TInv, Records, logVars
<1>4. Calls' BY DEF TInv, Numbers, Calls, Broadcast, PC, logVars
<1> QED BY <1>1, <1>2, <1>3, <1>4 DEF TInv

\* The flush returns, with or without an error.
LEMMA FlushTInv ==
  ASSUME TInv, NEW w \in Writers, SyncActiveClosed(w) \/ FlushOk(w) \/ FlushFails(w)
  PROVE  TInv'
<1> USE ConstantsAssumption
<1>1. CASE SyncActiveClosed(w)
  BY <1>1, SyncReturnsNilTInv DEF SyncActiveClosed, TInv, Records
<1>2. CASE FlushOk(w)
  BY <1>2, SyncReturnsNilTInv, FsyncTyped DEF FlushOk, TInv, Records
<1>3. CASE FlushFails(w)
  <2> USE <1>3 DEF FlushFails, Witness
  <2>0. /\ durable' \subseteq present
        /\ dropped' \subseteq 0 .. MaxRecords - 1
        /\ flushing' \in [Writers -> SUBSET present]
    BY FsyncTyped, Zenon DEF TInv, Records
  <2>1. Numbers' BY DEF TInv, Numbers, logVars
  <2>2. Flags' BY Zenon DEF TInv, Flags, logVars
  <2>3. Records' BY <2>0 DEF TInv, Records, logVars
  <2>4. Calls' BY SMTT(30) DEF TInv, Numbers, Calls, Broadcast, PC, logVars
  <2> QED BY <2>1, <2>2, <2>3, <2>4 DEF TInv
<1> QED BY <1>1, <1>2, <1>3

\* Log.Sync and Log.Close.
LEMMA SyncCloseTInv ==
  ASSUME TInv, Sync \/ Close PROVE TInv'
<1> USE ConstantsAssumption
<1>1. CASE Sync
  <2> USE <1>1 DEF Sync
  <2>0. /\ durable' \subseteq present
        /\ dropped' \subseteq 0 .. MaxRecords - 1
    BY Zenon DEF FsyncOk, TInv, Records
  <2>1. Numbers' BY DEF TInv, Numbers, logVars, condVars, obsVars
  <2>2. Flags' BY DEF TInv, Flags, logVars, condVars, obsVars
  <2>3. Records' BY <2>0 DEF TInv, Records, logVars, callVars, obsVars
  <2>4. Calls' BY DEF TInv, Calls, logVars, condVars, callVars
  <2> QED BY <2>1, <2>2, <2>3, <2>4 DEF TInv
<1>2. CASE Close
  <2> USE <1>2 DEF Close
  <2>1. Numbers' BY DEF TInv, Numbers, condVars, obsVars
  <2>2. Flags' BY DEF TInv, Flags, fileVars, condVars, obsVars
  <2>3. Records' BY DEF TInv, Records, fileVars, callVars, obsVars
  <2>4. Calls' BY DEF TInv, Calls, condVars, callVars
  <2> QED BY <2>1, <2>2, <2>3, <2>4 DEF TInv
<1> QED BY <1>1, <1>2

\* Open starts from files whose active segment is base .. n-1.
LEMMA ReopenTInv ==
  ASSUME TInv, NEW n \in Nat, n <= MaxRecords, base <= n, Reopen(n),
         present' \subseteq 0 .. MaxRecords - 1, base .. n - 1 \subseteq present',
         durable' \subseteq present', dropped' \subseteq 0 .. MaxRecords - 1
  PROVE  TInv'
<1> USE ConstantsAssumption DEF Reopen
<1>1. Numbers' BY DEF TInv, Numbers
<1>2. Flags' BY Zenon DEF TInv, Flags
<1>3. Records' BY DEF TInv, Records
<1>4. Calls' BY DEF TInv, Calls, PC
<1> QED BY <1>1, <1>2, <1>3, <1>4 DEF TInv

\* The process or the machine dies, and Open recovers.
LEMMA RestartTInv ==
  ASSUME TInv, Kill \/ PowerLoss PROVE TInv'
<1> USE ConstantsAssumption
<1>1. OnFile \subseteq 0 .. MaxRecords - 1 /\ present \subseteq OnFile
  BY DEF OnFile, TInv, Records, Numbers
<1>2. CASE Kill
  <2> DEFINE n == IF ghost THEN next + 1 ELSE next
  <2>1. n \in Nat /\ n <= MaxRecords /\ base <= n BY DEF TInv, Records, Numbers
  <2>2. base .. n - 1 \subseteq OnFile BY DEF TInv, Records, Numbers, OnFile
  <2>3. Reopen(n) /\ present' = OnFile /\ UNCHANGED <<durable, dropped>> BY <1>2 DEF Kill
  <2> HIDE DEF n
  <2> QED BY <1>1, <2>1, <2>2, <2>3, ReopenTInv DEF TInv, Records
<1>3. CASE PowerLoss
  <2>1. PICK kept \in SUBSET OnFile, n \in base .. next + 1 :
          /\ {o \in kept : o >= base} = base .. n - 1
          /\ present' = kept /\ durable' = kept /\ dropped' = {}
          /\ Reopen(n)
    BY <1>3 DEF PowerLoss
  <2>2. n \in Nat /\ base <= n /\ base \in Nat /\ next \in Nat BY DEF TInv, Numbers
  <2>3. n <= MaxRecords
    <3>1. CASE n = base BY <3>1 DEF TInv, Numbers
    <3>2. CASE n # base
      <4>1. n - 1 \in kept BY <2>1, <2>2, <3>2
      <4> QED BY <1>1, <2>2, <4>1
    <3> QED BY <3>1, <3>2
  <2>4. base .. n - 1 \subseteq kept BY <2>1
  <2> QED BY <1>1, <2>1, <2>2, <2>3, <2>4, ReopenTInv
<1> QED BY <1>2, <1>3

\* Every step keeps the types.
LEMMA NextTInv == TInv /\ [Next]_vars => TInv'
<1> SUFFICES ASSUME TInv, [Next]_vars PROVE TInv' OBVIOUS
<1>1. ASSUME NEW w \in Writers, Append(w) PROVE TInv'
  BY <1>1, AppendInPlaceTInv, AppendAfterRollTInv, AppendFailsTInv, RollFailsTInv DEF Append
<1>2. ASSUME NEW w \in Writers, Proceed(w) PROVE TInv'
  BY <1>2, TurnTInv, SyncActiveTInv, FlushTInv DEF Proceed
<1>3. CASE Sync \/ Close \/ Kill \/ PowerLoss
  BY <1>3, SyncCloseTInv, RestartTInv
<1>4. CASE UNCHANGED vars
  <2> USE <1>4 DEF vars, fileVars, logVars, condVars, callVars, obsVars
  <2>1. Numbers' BY DEF TInv, Numbers
  <2>2. Flags' BY DEF TInv, Flags
  <2>3. Records' BY DEF TInv, Records
  <2>4. Calls' BY DEF TInv, Calls
  <2> QED BY <2>1, <2>2, <2>3, <2>4 DEF TInv
<1> QED BY <1>1, <1>2, <1>3, <1>4 DEF Next

\* The types hold throughout.
LEMMA AlwaysTInv == Spec => []TInv
BY InitTInv, NextTInv, PTL DEF Spec

(***************************************************************************)
(* The types hold under every policy and whatever the environment does:    *)
(* in particular synced <= pending <= seq, and only records that are in    *)
(* the file ever count as durable.                                         *)
(***************************************************************************)
THEOREM TypeCorrect == Spec => []TypeOK
BY AlwaysTInv, Regrouped, PTL

-----------------------------------------------------------------------------
(***************************************************************************)
(* Durability.  Policy Never rolls without a sync, a discarded page breaks *)
(* the meaning of fsync, and a Close under in-flight appends answers them  *)
(* without one: the theorems below assume none of the three.               *)
(***************************************************************************)
Sound == Policy # "Never" /\ "drop" \notin Faults /\ "close" \notin Faults

InFlight ==
  \A w \in Writers : pc[w] = "flush" =>
    \A s \in 1 .. Claim(w) : OffsetOf(s) \in durable \cup flushing[w]

DInv == NoGaps /\ FlushCovers

\* Every record is on disk or in the active segment, the next fsync's target.
LEMMA ActiveHoldsTheRest ==
  ASSUME TInv, 0 .. base - 1 \subseteq durable
  PROVE  \A s \in 1 .. seq : OffsetOf(s) \in durable \cup (base .. next - 1)
BY DEF TInv, Numbers, OffsetOf

\* An fsync in flight keeps covering its claim while durable only grows.
LEMMA InFlightStable ==
  ASSUME InFlight, durable \subseteq durable', opened' = opened,
         \A x \in Writers : pc'[x] = "flush" =>
           /\ pc[x] = "flush" /\ target'[x] = target[x]
           /\ mySeq'[x] = mySeq[x] /\ flushing'[x] = flushing[x]
  PROVE  InFlight'
BY DEF InFlight, Claim, OffsetOf

\* What is on disk may grow under a synced that stays.
LEMMA SyncedStable ==
  ASSUME SyncedOnDisk, durable \subseteq durable', opened' = opened, synced' = synced
  PROVE  SyncedOnDisk'
BY DEF SyncedOnDisk, OffsetOf

\* After the first half of a roll the whole log is on disk.
LEMMA FlushOutgoingDurable ==
  ASSUME Sound, TInv, DInv, FlushOutgoing, opened' = opened
  PROVE  /\ durable \subseteq durable' /\ dropped' = {}
         /\ 0 .. next - 1 \subseteq durable'
         /\ SyncedOnDisk'
<1>1. FsyncOk(base .. next - 1) /\ MarkSynced(seq) BY DEF Sound, FlushOutgoing
<1>2. durable' = durable \cup (base .. next - 1) /\ dropped' = {}
  BY <1>1 DEF FsyncOk, DInv, FlushCovers
<1>3. 0 .. next - 1 \subseteq durable'
  BY <1>2 DEF DInv, FlushCovers, TInv, Numbers
<1>4. synced' <= seq /\ synced' \in Nat BY FlushOutgoingTyped DEF TInv, Numbers
<1>5. SyncedOnDisk' BY <1>3, <1>4 DEF SyncedOnDisk, OffsetOf, TInv, Numbers
<1> QED BY <1>2, <1>3, <1>5

\* Nothing is promised of an empty log.
LEMMA InitDInv == Init => DInv
BY DEF Init, DInv, NoGaps, FlushCovers, SyncedOnDisk

\* An append keeps the promise: what it leaves behind on a roll is synced.
LEMMA AppendDInv ==
  ASSUME Sound, TInv, DInv, NEW w \in Writers, AppendInPlace(w) \/ AppendAfterRoll(w)
  PROVE  DInv' /\ durable \subseteq durable'
<1> USE DEF CanAppend, Write
<1>0. InFlight /\ SyncedOnDisk BY DEF DInv, FlushCovers, InFlight
<1>1. next \in Nat /\ base \in Nat /\ base <= next BY DEF TInv, Numbers
<1>2. /\ present' = present \cup {next} /\ next' = next + 1
      /\ opened' = opened /\ closed' = closed /\ ~closed
      /\ mySeq' = [mySeq EXCEPT ![w] = seq + 1] /\ UNCHANGED <<target, flushing>>
  BY Zenon DEF AppendInPlace, AppendAfterRoll
<1>3. NoGaps' BY <1>1, <1>2 DEF DInv, NoGaps
<1>4. AfterWrite \in {"idle", "ready", "capture"} BY DEF AfterWrite
<1>5. \A x \in Writers : pc'[x] = "flush" => pc[x] = "flush" /\ x # w
  BY <1>4, Zenon DEF AppendInPlace, AppendAfterRoll, Broadcast, TInv, Calls
<1>6. CASE AppendInPlace(w)
  <2>1. UNCHANGED <<durable, dropped, base, synced>> BY <1>6, Zenon DEF AppendInPlace, condVars
  <2>2. InFlight' BY <1>0, <1>2, <1>5, <2>1, InFlightStable DEF TInv, Calls
  <2>3. SyncedOnDisk' BY <1>0, <1>2, <2>1, SyncedStable
  <2> QED BY <1>2, <1>3, <2>1, <2>2, <2>3, Zenon DEF DInv, FlushCovers, InFlight
<1>7. CASE AppendAfterRoll(w)
  <2>1. FlushOutgoing /\ base' = next BY <1>7 DEF AppendAfterRoll, StartSegment
  <2>2. /\ durable \subseteq durable' /\ dropped' = {}
        /\ 0 .. next - 1 \subseteq durable' /\ SyncedOnDisk'
    BY <1>2, <2>1, FlushOutgoingDurable
  <2>3. InFlight' BY <1>0, <1>2, <1>5, <2>2, InFlightStable DEF TInv, Calls
  <2> QED BY <1>2, <1>3, <2>1, <2>2, <2>3 DEF DInv, FlushCovers, InFlight
<1> QED BY <1>6, <1>7

\* A failed append acknowledges nothing and takes nothing off the disk.
LEMMA AppendFailsDInv ==
  ASSUME Sound, TInv, DInv, NEW w \in Writers,
         AppendFailsInPlace(w) \/ RollWriteFails(w) \/ RollSyncFails(w) \/ RollCreateFails(w)
  PROVE  DInv' /\ durable \subseteq durable' /\ acked' = acked
<1> USE DEF CanAppend, WriteFails
<1>0. InFlight /\ SyncedOnDisk BY DEF DInv, FlushCovers, InFlight
<1>1. next \in Nat /\ base \in Nat /\ base <= next BY DEF TInv, Numbers
<1>2. /\ UNCHANGED <<present, next, opened, closed, mySeq, target, flushing, acked>> /\ ~closed
  BY Zenon DEF AppendFailsInPlace, RollWriteFails, RollSyncFails, RollCreateFails,
         logVars, callVars, obsVars
<1>3. NoGaps' BY <1>2 DEF DInv, NoGaps
<1>4. \A x \in Writers : pc'[x] = "flush" => pc[x] = "flush"
  BY Zenon DEF AppendFailsInPlace, RollWriteFails, RollSyncFails, RollCreateFails, callVars, Broadcast
<1>5. CASE AppendFailsInPlace(w)
  <2>1. UNCHANGED <<durable, dropped, base, synced>> BY <1>5 DEF AppendFailsInPlace, condVars
  <2>2. InFlight' BY <1>0, <1>2, <1>4, <2>1, InFlightStable, Zenon
  <2>3. SyncedOnDisk' BY <1>0, <1>2, <2>1, SyncedStable, Zenon
  <2> QED BY <1>2, <1>3, <2>1, <2>2, <2>3, Zenon DEF DInv, FlushCovers, InFlight
<1>6. CASE RollSyncFails(w)
  <2>1. UNCHANGED <<base, synced>> BY <1>6, Zenon DEF RollSyncFails, condVars, logVars
  <2>2. durable \subseteq durable' /\ dropped' = {}
    BY <1>6, Zenon DEF RollSyncFails, FsyncFails, FsyncOk, Sound, DInv, FlushCovers
  <2>3. InFlight' BY <1>0, <1>2, <1>4, <2>2, InFlightStable
  <2>4. SyncedOnDisk' BY <1>0, <1>2, <2>1, <2>2, SyncedStable, Zenon
  <2> QED BY <1>2, <1>3, <2>1, <2>2, <2>3, <2>4, Zenon DEF DInv, FlushCovers, InFlight
<1>7. CASE RollWriteFails(w) \/ RollCreateFails(w)
  <2>1. FlushOutgoing /\ (base' = next \/ base' = base)
    BY <1>7 DEF RollWriteFails, RollCreateFails, StartSegment, logVars
  <2>2. /\ durable \subseteq durable' /\ dropped' = {}
        /\ 0 .. next - 1 \subseteq durable' /\ SyncedOnDisk'
    BY <1>2, <2>1, FlushOutgoingDurable
  <2>3. InFlight' BY <1>0, <1>2, <1>4, <2>2, InFlightStable
  <2>4. 0 .. base' - 1 \subseteq durable' BY <1>1, <2>1, <2>2
  <2> QED BY <1>2, <1>3, <2>2, <2>3, <2>4 DEF DInv, FlushCovers, InFlight
<1> QED BY <1>5, <1>6, <1>7

\* A turn of waitFor acknowledges only what synced covers.
LEMMA TurnDInv ==
  ASSUME Sound, TInv, DInv, NEW w \in Writers,
         ReturnSynced(w) \/ ReturnErr(w) \/ CondWait(w) \/ BecomeSyncer(w)
  PROVE  DInv' /\ durable' = durable
<1> USE DEF ReturnSynced, ReturnErr, CondWait, BecomeSyncer, Turn
<1>0. InFlight /\ SyncedOnDisk BY DEF DInv, FlushCovers, InFlight
<1>1. UNCHANGED <<present, durable, dropped, base, next, closed, opened, synced, mySeq, flushing>>
  BY Zenon DEF fileVars, logVars, obsVars
<1>2. ~closed BY Zenon DEF DInv, FlushCovers
<1>3. \A x \in Writers : pc'[x] = "flush" => pc[x] = "flush" /\ target'[x] = target[x]
  BY DEF TInv, Calls
<1> HIDE DEF ReturnSynced, ReturnErr, CondWait, BecomeSyncer, Turn
<1>4. InFlight' BY <1>0, <1>1, <1>3, InFlightStable, Zenon
<1>5. SyncedOnDisk' BY <1>0, <1>1, SyncedStable
<1>6. NoGaps' BY <1>1 DEF DInv, NoGaps
<1> QED BY <1>1, <1>2, <1>4, <1>5, <1>6, Zenon DEF DInv, FlushCovers, InFlight

\* The heart of the matter: at the RLock, what will be claimed is on disk or in the file.
LEMMA SyncActiveDInv ==
  ASSUME Sound, TInv, DInv, NEW w \in Writers, SyncActive(w)
  PROVE  DInv' /\ durable' = durable /\ acked' = acked
<1> USE DEF SyncActive
<1>0. InFlight /\ SyncedOnDisk BY DEF DInv, FlushCovers, InFlight
<1>1. UNCHANGED <<present, durable, dropped, base, next, closed, opened, synced, mySeq, target, acked>>
  BY DEF fileVars, logVars, obsVars, condVars
<1>2. Claim(w) \in 0 .. seq BY DEF Claim, TInv, Numbers, Calls
<1>3. \A s \in 1 .. Claim(w) : OffsetOf(s) \in durable \cup (base .. next - 1)
  BY <1>2, ActiveHoldsTheRest DEF DInv, FlushCovers, TInv, Numbers
<1>4. flushing'[w] = base .. next - 1
  BY DEF TInv, Records
<1>5. ASSUME NEW x \in Writers, pc'[x] = "flush"
      PROVE  \A s \in 1 .. Claim(x) : OffsetOf(s) \in durable \cup flushing'[x]
  <2>1. CASE x = w BY <1>3, <1>4, <2>1, Zenon
  <2>2. CASE x # w
    <3>1. pc[x] = "flush" /\ flushing'[x] = flushing[x]
      BY <1>5, <2>2 DEF TInv, Records, Calls
    <3> QED BY <1>0, <3>1 DEF InFlight
  <2> QED BY <2>1, <2>2
<1>6. InFlight' BY <1>1, <1>5 DEF InFlight, Claim, OffsetOf
<1>7. SyncedOnDisk' BY <1>0, <1>1, SyncedStable
<1>8. NoGaps' BY <1>1, Zenon DEF DInv, NoGaps
<1> QED BY <1>1, <1>6, <1>7, <1>8 DEF DInv, FlushCovers, InFlight

\* A successful flush moves synced no further than the flush reached.
LEMMA FlushOkDInv ==
  ASSUME Sound, TInv, DInv, NEW w \in Writers, FlushOk(w)
  PROVE  /\ DInv' /\ durable \subseteq durable'
         /\ acked' \subseteq acked \cup {OffsetOf(mySeq[w])}
         /\ OffsetOf(mySeq[w]) \in durable'
<1> USE DEF FlushOk, SyncReturnsNil
<1>0. InFlight /\ SyncedOnDisk /\ dropped = {} /\ ~closed
  BY Zenon DEF DInv, FlushCovers, InFlight
<1>1. UNCHANGED <<present, base, next, closed, opened, mySeq, target>> BY Zenon DEF logVars
<1>2. durable' = durable \cup flushing[w] /\ dropped' = {} BY <1>0, Zenon DEF FsyncOk
<1>3. \A s \in 1 .. Claim(w) : OffsetOf(s) \in durable' BY <1>0, <1>2, Zenon DEF InFlight
<1>4. synced' = synced \/ (Policy = "Group" /\ synced' = target[w])
  BY DEF Larger
<1>5. SyncedOnDisk'
  <2>1. CASE synced' = synced BY <1>0, <1>1, <1>2, <2>1, SyncedStable
  <2>2. CASE Policy = "Group" /\ synced' = target[w]
    BY <1>1, <1>3, <2>2, Zenon DEF SyncedOnDisk, OffsetOf, Claim
  <2> QED BY <1>4, <2>1, <2>2, Zenon
<1>6. \A x \in Writers : pc'[x] = "flush" => pc[x] = "flush" /\ x # w
  BY Zenon DEF Broadcast, TInv, Calls
<1>7. \A x \in Writers : x # w => flushing'[x] = flushing[x]
  BY DEF TInv, Records
<1>8. InFlight' BY <1>0, <1>1, <1>2, <1>6, <1>7, InFlightStable, Zenon
<1>9. mySeq[w] \in 1 .. Claim(w) BY SMTT(30) DEF Claim, TInv, Calls
<1>10. NoGaps' BY <1>1, Zenon DEF DInv, NoGaps
<1>11. acked' \subseteq acked \cup {OffsetOf(mySeq[w])} OBVIOUS
<1>12. DInv' BY <1>0, <1>1, <1>2, <1>5, <1>8, <1>10, Zenon DEF DInv, FlushCovers, InFlight
<1> QED BY <1>2, <1>3, <1>9, <1>11, <1>12

\* A failed flush moves nothing.
LEMMA FlushFailsDInv ==
  ASSUME Sound, TInv, DInv, NEW w \in Writers, FlushFails(w)
  PROVE  DInv' /\ durable \subseteq durable' /\ acked' = acked
<1> USE DEF FlushFails
<1>0. InFlight /\ SyncedOnDisk /\ dropped = {} /\ ~closed
  BY DEF DInv, FlushCovers, InFlight
<1>1. UNCHANGED <<present, base, next, closed, opened, mySeq, target, synced, acked>> BY DEF logVars
<1>2. durable \subseteq durable' /\ dropped' = {} BY <1>0 DEF FsyncFails, FsyncOk, Sound
<1>3. \A x \in Writers : pc'[x] = "flush" => pc[x] = "flush" /\ x # w
  BY DEF Broadcast, TInv, Calls
<1>4. \A x \in Writers : x # w => flushing'[x] = flushing[x]
  BY Zenon DEF TInv, Records
<1>5. InFlight' BY <1>0, <1>1, <1>2, <1>3, <1>4, InFlightStable
<1>6. SyncedOnDisk' BY <1>0, <1>1, <1>2, SyncedStable
<1>7. NoGaps' BY <1>1 DEF DInv, NoGaps
<1> QED BY <1>0, <1>1, <1>2, <1>5, <1>6, <1>7 DEF DInv, FlushCovers, InFlight

\* Log.Sync and Log.Close only add to the disk.
LEMMA SyncCloseDInv ==
  ASSUME Sound, TInv, DInv, Sync \/ Close
  PROVE  DInv' /\ durable \subseteq durable' /\ UNCHANGED <<next, acked>>
<1>0. InFlight /\ SyncedOnDisk /\ dropped = {} BY DEF DInv, FlushCovers, InFlight
<1>1. UNCHANGED <<present, base, next, opened, mySeq, target, synced, pc, flushing, acked>>
  BY DEF Sync, Close, fileVars, logVars, condVars, callVars, obsVars
<1>2. durable \subseteq durable' /\ dropped' = {}
  BY <1>0 DEF Sync, Close, FsyncOk, fileVars
<1>3. closed' => \A x \in Writers : pc[x] = "idle"
  BY Zenon DEF Sync, Close, logVars, Sound
<1>4. InFlight' BY <1>0, <1>1, <1>2, InFlightStable
<1>5. SyncedOnDisk' BY <1>0, <1>1, <1>2, SyncedStable
<1>6. NoGaps' BY <1>1 DEF DInv, NoGaps
<1>7. 0 .. base' - 1 \subseteq durable' BY <1>1, <1>2 DEF DInv, FlushCovers
<1>8. closed' => \A x \in Writers : pc'[x] = "idle" BY <1>1, <1>3
<1>9. DInv' BY <1>2, <1>4, <1>5, <1>6, <1>7, <1>8 DEF DInv, FlushCovers, InFlight
<1> QED BY <1>1, <1>2, <1>9

\* A crash keeps every record that was on disk.
LEMMA RestartDInv ==
  ASSUME Sound, TInv, DInv, Kill \/ PowerLoss
  PROVE  DInv' /\ durable \subseteq durable' /\ acked' = acked
<1>1. /\ base' = base /\ synced' = 0 /\ closed' = FALSE /\ acked' = acked
      /\ \A w \in Writers : pc'[w] = "idle"
  BY DEF Kill, PowerLoss, Reopen
<1>2. SyncedOnDisk' BY <1>1 DEF SyncedOnDisk
<1>3. present = 0 .. next - 1 /\ 0 .. base - 1 \subseteq durable /\ dropped = {}
  BY DEF DInv, FlushCovers, NoGaps
<1>4. next \in Nat /\ base \in Nat /\ base <= next /\ durable \subseteq present
  BY DEF TInv, Numbers, Records
<1>5. NoGaps' /\ durable \subseteq durable' /\ dropped' = {}
  <2>1. CASE Kill
    <3>1. /\ present' = OnFile /\ next' = IF ghost THEN next + 1 ELSE next
          /\ UNCHANGED <<durable, dropped>>
      BY <2>1 DEF Kill, Reopen
    <3>2. present' = 0 .. next' - 1
      <4>1. CASE ghost
        <5>1. present' = (0 .. next - 1) \cup {next} /\ next' = next + 1
          BY <1>3, <3>1, <4>1 DEF OnFile
        <5> QED BY <1>4, <5>1
      <4>2. CASE ~ghost BY <1>3, <3>1, <4>2 DEF OnFile
      <4> QED BY <4>1, <4>2
    <3> QED BY <1>3, <3>1, <3>2 DEF NoGaps
  <2>2. CASE PowerLoss
    <3>1. PICK kept \in SUBSET OnFile, n \in base .. next + 1 :
            /\ durable \subseteq kept
            /\ {o \in kept : o >= base} = base .. n - 1
            /\ present' = kept /\ durable' = kept /\ dropped' = {}
            /\ next' = n
      BY <2>2 DEF PowerLoss, Reopen
    <3>2. kept \subseteq Nat BY <1>3, <1>4 DEF OnFile
    <3>3. \A o \in kept : o >= base => o \in base .. n - 1 BY <3>1
    <3>4. base .. n - 1 \subseteq kept BY <3>1
    <3>5. 0 .. base - 1 \subseteq kept BY <1>3, <3>1
    <3>6. kept = 0 .. n - 1
      <4>1. n \in Int /\ base <= n BY <1>4
      <4>2. ASSUME NEW o \in kept PROVE o \in 0 .. n - 1 BY <1>4, <3>2, <3>3, <4>1
      <4>3. ASSUME NEW o \in 0 .. n - 1 PROVE o \in kept BY <1>4, <3>4, <3>5, <4>1
      <4> QED BY <4>2, <4>3, Zenon
    <3> QED BY <3>1, <3>6 DEF NoGaps
  <2> QED BY <2>1, <2>2
<1>6. 0 .. base' - 1 \subseteq durable' BY <1>1, <1>3, <1>5
<1>7. DInv' BY <1>1, <1>2, <1>5, <1>6 DEF DInv, FlushCovers
<1> QED BY <1>1, <1>5, <1>7

(***************************************************************************)
(* What one step does for a sound setup: the invariant survives, nothing   *)
(* leaves the disk, and with a durable policy whatever gets acknowledged   *)
(* is on it.                                                               *)
(***************************************************************************)
DurablePolicy == Policy \in {"Always", "Group"}

\* Every step keeps the invariant, and none takes a record off the disk.
LEMMA StepDInv ==
  ASSUME Sound, TInv, DInv, [Next]_vars
  PROVE  DInv' /\ durable \subseteq durable'
<1>1. ASSUME NEW w \in Writers, Append(w) PROVE DInv' /\ durable \subseteq durable'
  BY <1>1, AppendDInv, AppendFailsDInv DEF Append
<1>2. ASSUME NEW w \in Writers, Proceed(w) PROVE DInv' /\ durable \subseteq durable'
  <2>1. CASE SyncActiveClosed(w)
    BY <2>1, Zenon DEF SyncActiveClosed, DInv, FlushCovers
  <2> QED BY <1>2, <2>1, TurnDInv, SyncActiveDInv, FlushOkDInv, FlushFailsDInv DEF Proceed
<1>3. CASE Sync \/ Close \/ Kill \/ PowerLoss
  BY <1>3, SyncCloseDInv, RestartDInv, Zenon
<1>4. CASE UNCHANGED vars
  BY <1>4 DEF vars, fileVars, logVars, condVars, callVars, obsVars, DInv, NoGaps, FlushCovers,
     SyncedOnDisk, OffsetOf, Claim
<1> QED BY <1>1, <1>2, <1>3, <1>4 DEF Next

\* Every step keeps what was acknowledged on disk.
LEMMA StepAcks ==
  ASSUME Sound, DurablePolicy, TInv, DInv, AckedDurable, [Next]_vars
  PROVE  AckedDurable'
<1>0. durable \subseteq durable' BY StepDInv
<1>1. ASSUME NEW w \in Writers, Append(w) PROVE acked' = acked
  <2>1. CASE AppendInPlace(w) \/ AppendAfterRoll(w)
    BY <2>1, Zenon DEF AppendInPlace, AppendAfterRoll, Write, AfterWrite, SyncDue, DurablePolicy
  <2> QED BY <1>1, <2>1, AppendFailsDInv DEF Append
<1>2. ASSUME NEW w \in Writers, Proceed(w) PROVE acked' \subseteq durable'
  <2>1. CASE ReturnSynced(w)
    <3>1. mySeq[w] \in 1 .. synced BY <2>1, SMTT(30) DEF ReturnSynced, Turn, TInv, Numbers, Calls
    <3>2. OffsetOf(mySeq[w]) \in durable BY <3>1 DEF DInv, FlushCovers, SyncedOnDisk
    <3> QED BY <1>0, <2>1, <3>2 DEF ReturnSynced, AckedDurable
  <2>2. CASE ReturnErr(w) \/ CondWait(w) \/ BecomeSyncer(w)
    BY <1>0, <2>2 DEF ReturnErr, CondWait, BecomeSyncer, obsVars, AckedDurable
  <2>3. CASE SyncActiveClosed(w)
    BY <2>3 DEF SyncActiveClosed, DInv, FlushCovers
  <2>4. CASE FlushOk(w) BY <1>0, <2>4, FlushOkDInv DEF AckedDurable
  <2>5. CASE SyncActive(w) \/ FlushFails(w)
    BY <1>0, <2>5, SyncActiveDInv, FlushFailsDInv DEF AckedDurable
  <2> QED BY <1>2, <2>1, <2>2, <2>3, <2>4, <2>5 DEF Proceed
<1>3. CASE Sync \/ Close \/ Kill \/ PowerLoss
  BY <1>0, <1>3, SyncCloseDInv, RestartDInv DEF AckedDurable
<1>4. CASE UNCHANGED vars BY <1>4 DEF vars, fileVars, obsVars, AckedDurable
<1> QED BY <1>0, <1>1, <1>2, <1>3, <1>4 DEF Next, AckedDurable

\* Both are parts of the one inductive invariant.
LEMMA LogIsSound == ASSUME Sound PROVE Spec => [](NoGaps /\ SyncedOnDisk)
<1>1. Init => DInv BY InitDInv
<1>2. TInv /\ DInv /\ [Next]_vars => DInv' BY StepDInv
<1>3. DInv => NoGaps /\ SyncedOnDisk BY DEF DInv, FlushCovers
<1> QED BY <1>1, <1>2, <1>3, AlwaysTInv, PTL DEF Spec

(***************************************************************************)
(* The log's offsets have no gaps, under every policy that syncs on a      *)
(* roll, through crashes, power failures and failed syncs.                 *)
(***************************************************************************)
THEOREM OffsetsHaveNoGaps == ASSUME Sound PROVE Spec => []NoGaps
BY LogIsSound, PTL

(***************************************************************************)
(* What waitFor and markSynced call synced is on disk: the target captured *)
(* before the lock is released never claims a record the fsync missed.     *)
(***************************************************************************)
THEOREM SyncedIsOnDisk == ASSUME Sound PROVE Spec => []SyncedOnDisk
BY LogIsSound, PTL

(***************************************************************************)
(* Append's promise under SyncAlways and SyncGroup, and so the promise     *)
(* behind ingest's 202: an acknowledged record is on disk.                 *)
(***************************************************************************)
THEOREM AcksAreDurable == ASSUME Sound, DurablePolicy PROVE Spec => []AckedDurable
<1>1. Init => DInv /\ AckedDurable BY InitDInv DEF Init, AckedDurable
<1>2. TInv /\ (DInv /\ AckedDurable) /\ [Next]_vars => (DInv /\ AckedDurable)'
  BY StepDInv, StepAcks
<1> QED BY <1>1, <1>2, AlwaysTInv, PTL DEF Spec

-----------------------------------------------------------------------------
\* Every step of the log is a step of the abstract log, or leaves it alone.
LEMMA StepKeepsPromise ==
  ASSUME Sound, DurablePolicy, TInv, DInv, AckedDurable, [Next]_vars
  PROVE  Promise!Next \/ UNCHANGED <<next, acked>>
<1> USE DEF Promise!Next, Promise!Grow, Promise!Acknowledge, Promise!LoseTail
<1>0. next \in Nat /\ next' \in Nat /\ base \in Nat BY NextTInv DEF TInv, Numbers
<1>1. AckedDurable' /\ DInv' /\ durable \subseteq durable' BY StepAcks, StepDInv
<1>2. durable' \subseteq 0 .. next' - 1 /\ acked \subseteq 0 .. next' - 1
  BY <1>1, NextTInv DEF TInv, Records, DInv, NoGaps, AckedDurable
<1>3. ASSUME NEW w \in Writers, Append(w) PROVE Promise!Grow \/ UNCHANGED <<next, acked>>
  <2>1. CASE AppendInPlace(w) \/ AppendAfterRoll(w)
    BY <2>1, Zenon DEF AppendInPlace, AppendAfterRoll, Write, AfterWrite, SyncDue, DurablePolicy
  <2>2. CASE AppendFailsInPlace(w) \/ RollWriteFails(w) \/ RollSyncFails(w) \/ RollCreateFails(w)
    BY <2>2, Zenon DEF AppendFailsInPlace, RollWriteFails, RollSyncFails, RollCreateFails,
       WriteFails, logVars, obsVars
  <2> QED BY <1>3, <2>1, <2>2 DEF Append
<1>4. ASSUME NEW w \in Writers, Proceed(w) PROVE Promise!Acknowledge \/ UNCHANGED <<next, acked>>
  <2>1. next' = next
    BY <1>4, Zenon DEF Proceed, ReturnSynced, ReturnErr, CondWait, BecomeSyncer, SyncActive,
       SyncActiveClosed, FlushOk, FlushFails, SyncReturnsNil, logVars
  <2>2. acked' = acked \/ acked' = acked \cup {OffsetOf(mySeq[w])}
    BY <1>4, Zenon DEF Proceed, ReturnSynced, ReturnErr, CondWait, BecomeSyncer, SyncActive,
       SyncActiveClosed, FlushOk, FlushFails, SyncReturnsNil, obsVars
  <2>3. acked' \subseteq 0 .. next - 1 BY <1>1, <1>2, <2>1 DEF AckedDurable
  <2> QED BY <2>1, <2>2, <2>3, Zenon
<1>5. CASE Sync \/ Close
  BY <1>5, SyncCloseDInv
<1>6. CASE Kill
  BY <1>0, <1>6 DEF Kill, Reopen
<1>7. CASE PowerLoss
  <2>1. next' \in base .. next + 1 /\ acked' = acked BY <1>7 DEF PowerLoss, Reopen
  <2>2. next' \in 0 .. next \/ next' = next + 1 BY <1>0, <2>1
  <2> QED BY <1>2, <2>1, <2>2, Zenon
<1>8. CASE UNCHANGED vars BY <1>8 DEF vars, logVars, obsVars
<1> QED BY <1>3, <1>4, <1>5, <1>6, <1>7, <1>8, Zenon DEF Next

(***************************************************************************)
(* The log behind an acknowledgement implements the abstract log: offsets  *)
(* are consecutive, and no failure takes an acknowledged record away or    *)
(* gives its offset to another record.                                     *)
(***************************************************************************)
THEOREM LogKeepsPromise == ASSUME Sound, DurablePolicy PROVE Spec => KeepsPromise
<1>1. Init => DInv /\ AckedDurable /\ Promise!Init
  BY InitDInv DEF Init, AckedDurable, Promise!Init
<1>2. TInv /\ (DInv /\ AckedDurable) /\ [Next]_vars => (DInv /\ AckedDurable)'
  BY StepDInv, StepAcks
<1>3. TInv /\ (DInv /\ AckedDurable) /\ [Next]_vars => [Promise!Next]_<<next, acked>>
  BY StepKeepsPromise
<1> QED BY <1>1, <1>2, <1>3, AlwaysTInv, PTL DEF Spec, KeepsPromise, Promise!Spec
-----------------------------------------------------------------------------
Sleeping(w) == pc[w] \notin {"capture", "flush"}

\* A step that leaves syncing alone, and everybody where they are in doSync.
LEMMA OneSyncerKept ==
  ASSUME OneSyncer, syncing' = syncing, \A x \in Writers : Sleeping(x)' <=> Sleeping(x)
  PROVE  OneSyncer'
BY DEF OneSyncer, Sleeping

\* The goroutine that was syncing stops, and says so.
LEMMA OneSyncerEnds ==
  ASSUME OneSyncer, Policy = "Group", NEW w \in Writers, ~ Sleeping(w), syncing' = FALSE,
         Sleeping(w)', \A x \in Writers : Sleeping(x) => Sleeping(x)'
  PROVE  OneSyncer'
BY DEF OneSyncer, Sleeping

(***************************************************************************)
(* Under Group one goroutine syncs at a time, whatever fails and whoever   *)
(* closes the log: syncing is set and cleared with the syncer's turn.      *)
(***************************************************************************)
THEOREM OneSyncerAtATime == Spec => []OneSyncer
<1>1. Init => OneSyncer BY DEF Init, OneSyncer
<1>2. ASSUME TInv, OneSyncer, [Next]_vars PROVE OneSyncer'
  <2>0. SUFFICES ASSUME Policy = "Group" PROVE OneSyncer' BY DEF OneSyncer
  <2>1. pc \in [Writers -> PC] BY <1>2 DEF TInv, Calls
  <2>2. ASSUME NEW w \in Writers, Append(w) PROVE OneSyncer'
    <3>0. pc[w] = "idle" /\ AfterWrite = "ready"
      BY <2>0, <2>2, Zenon
      DEF Append, AppendInPlace, AppendAfterRoll, AppendFailsInPlace, RollSyncFails,
         RollCreateFails, RollWriteFails, CanAppend, AfterWrite, SyncDue
    <3>1. syncing' = syncing
      BY <2>0, <2>2, Zenon
      DEF Append, AppendInPlace, AppendAfterRoll, AppendFailsInPlace, RollSyncFails,
         RollCreateFails, RollWriteFails, condVars, FlushOutgoing, MarkSynced
    <3>2. \/ pc' = pc \/ pc' = [pc EXCEPT ![w] = "ready"]
          \/ Broadcast(w, "ready") \/ Broadcast(w, "idle")
      BY <2>2, <3>0, Zenon
      DEF Append, AppendInPlace, AppendAfterRoll, AppendFailsInPlace, RollSyncFails,
         RollCreateFails, RollWriteFails, callVars
    <3>3. \A x \in Writers : Sleeping(x)' <=> Sleeping(x)
      BY <2>1, <3>0, <3>2 DEF Broadcast, Sleeping
    <3> QED BY <1>2, <3>1, <3>3, OneSyncerKept
  <2>3. ASSUME NEW w \in Writers, ReturnSynced(w) \/ ReturnErr(w) \/ CondWait(w) PROVE OneSyncer'
    <3>1. syncing' = syncing /\ \A x \in Writers : Sleeping(x)' <=> Sleeping(x)
      BY <2>1, <2>3 DEF ReturnSynced, ReturnErr, CondWait, Turn, Sleeping
    <3> QED BY <1>2, <3>1, OneSyncerKept
  <2>4. ASSUME NEW w \in Writers, BecomeSyncer(w) PROVE OneSyncer'
    <3>1. /\ ~syncing /\ syncing' = TRUE /\ pc' = [pc EXCEPT ![w] = "capture"]
      BY <2>4 DEF BecomeSyncer
    <3>2. \A x \in Writers : Sleeping(x) BY <1>2, <2>0, <3>1 DEF OneSyncer, Sleeping
    <3>3. \A x \in Writers : Sleeping(x)' <=> x # w BY <2>1, <3>1, <3>2 DEF Sleeping
    <3> QED BY <3>1, <3>3 DEF OneSyncer, Sleeping
  <2>5. ASSUME NEW w \in Writers, SyncActive(w) PROVE OneSyncer'
    <3>1. syncing' = syncing /\ \A x \in Writers : Sleeping(x)' <=> Sleeping(x)
      BY <2>1, <2>5 DEF SyncActive, condVars, Sleeping
    <3> QED BY <1>2, <3>1, OneSyncerKept
  <2>6. ASSUME NEW w \in Writers, SyncActiveClosed(w) \/ FlushOk(w) \/ FlushFails(w) PROVE OneSyncer'
    <3>1. ~ Sleeping(w) BY <2>6 DEF SyncActiveClosed, FlushOk, FlushFails, Sleeping
    <3>2. syncing' = FALSE /\ (Broadcast(w, "idle") \/ Broadcast(w, "ready"))
      BY <2>0, <2>6, Zenon DEF SyncActiveClosed, FlushOk, FlushFails, SyncReturnsNil
    <3>3. Sleeping(w)' /\ \A x \in Writers : Sleeping(x) => Sleeping(x)'
      BY <2>1, <3>2 DEF Broadcast, Sleeping
    <3> QED BY <1>2, <2>0, <3>1, <3>2, <3>3, OneSyncerEnds, Zenon
  <2>7. CASE UNCHANGED <<syncing, pc>> BY <1>2, <2>7 DEF OneSyncer
  <2>8. ASSUME NEW n, Reopen(n) PROVE OneSyncer' BY <2>8 DEF Reopen, OneSyncer
  <2>9. Sync \/ Close \/ UNCHANGED vars => UNCHANGED <<syncing, pc>>
    BY DEF Sync, Close, vars, condVars, callVars
  <2>10. Kill \/ PowerLoss => OneSyncer' BY <2>8 DEF Kill, PowerLoss
  <2> QED BY <1>2, <2>2, <2>3, <2>4, <2>5, <2>6, <2>7, <2>9, <2>10 DEF Next, Proceed
<1> QED BY <1>1, <1>2, AlwaysTInv, PTL DEF Spec

=============================================================================
