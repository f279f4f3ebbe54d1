# LedgerLine in TLA+

LedgerLine takes usage events over HTTP, keeps them in a log it implements
itself, moves them into Postgres exactly once, prices them, posts them to a
double-entry ledger and issues invoices.  These modules model the parts in which
several things happen at once, something fails half-way, or a number can go
wrong.  TLC checks them on small instances; TLAPS proves the central properties
for every value of the constants.

## The system

| Part | Source | Module | Status |
|---|---|---|---|
| Append, roll, group commit, close, reopen | `broker/log/log.go`, `sync.go`, parts of `segment.go` | `SyncLog` | modelled |
| Segment recovery, sparse index, framing | `segment.go`, `index.go`, `record.go` | `Segment` | modelled |
| What a log behind an acknowledgement promises | `DurableLog` in `log.go` | `AckedLog` | abstract specification |
| Ingest endpoint | `billing/ingest/handler.go` | `Pipeline`, `Metering` | modelled |
| Request validation | `billing/ingest/validate.go` | `Metering`, `Pipeline` | modelled |
| Event encoding, fingerprint | `billing/event/event.go` | `Metering`, as classes in `Pipeline` | partly |
| Consumer, dead letters, offset | `billing/consumer/consumer.go` | `Pipeline` | modelled |
| Amounts | `billing/ledger/amount.go` | `Amount`, `Decimal` | all but `String` |
| Pricing, quantities | `billing/pricing/*.go` | `Pricing`, `Decimal`, `Metering` | modelled |
| Periods, closing, invoices | `billing/invoicing/*.go` | `Invoicing`, `Metering` | modelled |
| Ledger accounts and postings | `billing/ledger/ledger.go`, `store.go` | `Invoicing`, `Metering` | what Close uses |
| Process wiring | `cmd/ingest/main.go` | `Pipeline`, `SyncLog` | scheduling and shutdown |
| Chaos suite | `chaos/*.go` | its checks are definitions and properties here | test code |
| Test database | `internal/testdb` | - | no part in production |

A request reaches `handler.go`, which appends the event to the log under the
`SyncGroup` policy and answers 202.  A ticker in `main.go` runs the consumer's
`Drain`, which applies a batch of records and moves its offset in one Postgres
transaction.  `Service.Close` later prices the events that no invoice has
stamped, posts the total to the ledger, and issues the invoice, again in one
transaction.

`AckedLog` is the joint between the parts: `Segment` (bytes), `SyncLog`
(goroutines) and `Pipeline` (requests) are each shown to implement it, and
`Pipeline` relies on the log through nothing else.  `Invoicing` sees the consumer
as the commit of a set of events.  `Metering` follows the data through all of
them, one request at a time, where the other modules have the concurrency.

## The modules

**SyncLog.**  `present`, `durable` and `dropped` are the records in the files,
on the disk, and in pages a failed fsync threw away.  `base`, `next`, `seq`,
`sinceSync` and `closed` are the fields of `Log`; `synced`, `pending`, `syncing`
and `err` those of `syncCoordinator`; `pc`, `mySeq`, `target` and `flushing` the
locals of each goroutine in `Append`.  An action is one critical section: the
body of `Append` under `l.mu` (with the roll and its fsync), one turn of
`waitFor`'s loop (`ReturnSynced`, `ReturnErr`, `CondWait`, `BecomeSyncer`), the
choice of the segment in `syncActive`, the end of an fsync.  `Kill` and
`PowerLoss` end with `Reopen`, which is `Open` on what is left.  Which faults may
happen is the constant `Faults`.
Abstractions: a record is its offset; sizes are counted in records, and an
oversize payload rolls early; a `createSegment` that fails leaves no file (what
it really leaves is in `Segment`); an fsync of a file makes its directory entry
durable.  Calling `Append` after `Close` panics in the code and is left out.

**Segment.**  The files behind one segment.  A file is a sequence of cells, a
record as many cells as it is long, an index file a sequence of entries; `disk`
and `ixDisk` are the contents a power failure may bring back, every content since
the last sync of that file.  `size`, `next`, `entries` and `lastIndexed` are the
fields of `segment` and `index`, and while `phase` is `"scan"` the locals of
`recover`.  Actions: `append` and its two ways to fail, the two halves of
`segment.sync`, `createSegment` as file and header, three ways to find the index
at `openSegment`, one turn of the recovery scan and its two ends.
Abstractions: the checksum accepts exactly the whole records; pages reach the
disk in the order they were written; a kill does not tear a write (ADR-0006,
lines 100-117), a power failure and a failing write do; a power failure spares a
header that was written.

**AckedLog.**  Two variables, the length of the log and the acknowledged
offsets: the log grows by one, acknowledges some of what it has, or loses a tail
that holds nothing acknowledged.

**Pipeline.**  `log`, `onDisk`, `inflight` and `acked` are the log and the
requests; `rows`, `dead` and `offset` the tables; `pc`, `from`, `to`, `cur`,
`txRows`, `txDead` the consumer and its open transaction.  One action per query.
A commit can succeed and report a failure.  A key stands for a tenant and an
idempotency key, a content for a fingerprint; rows older than migration 000002
have none.  `Unstorable` contents are those that `validate` accepts, since it looks
at lengths and spaces only, and that Postgres refuses in every attempt: a name with
U+0000 in it.  A foreign record is one of a newer build, which does not decode.

**Invoicing.**  `state`, `stored`, `billedOn`, `invoices` and `ledger` are
committed rows; the rest belongs to the calls of `Close` in progress.  One action
per statement, at READ COMMITTED, with the row locks it takes: the period
(`FOR UPDATE`), the receivable and revenue accounts (`ON CONFLICT DO UPDATE`),
the idempotency key of the ledger.  `Rollback` may end a call at any statement,
and a commit may succeed without the caller learning of it.  An invoice is
identified by its period.  Locks on event rows are left out: two `Close` calls
of one tenant are serialised by its receivable account before either stamps.
`CheckMoneyConserved` and `CheckEventsBilledAtMostOnce` are the queries of the
chaos suite.

**Amount, Decimal, Pricing, Metering.**  Go's integers wrap and the code detects
it from the result, so `Amount` has `Wrap` at a width that is a constant, and an
error is a value outside that width.  `Decimal` is `ParseAmount` and
`ParseQuantity`, one action per turn of `parseDigits`' loop, beside the same
number in unbounded arithmetic.  `Pricing` is `Rate` with its three price models,
and two reference definitions of what a price says, without loops: exact, and with
each part that has a price of its own rounded by itself.  `Metering` puts them in their order: `validate`, `CanonicalQuantity`
and the fingerprint; the insert, with the rounding of the `NUMERIC` column and
the comparison of fingerprints; `gatherUsage`; `Rate`; `buildEntry` and
`NewTransaction`; the lines a retried `Close` reads back.  Texts are sequences of
characters here, because whether two texts mean the same number is what the
properties are about.  Names are accepted or not; hashes are taken to be
injective.

Each module carries, beside some definitions, a mutant of that definition: the
same code with a plausible mistake, under which the property named in
`PROJECT.json` fails.

## The runs

Passing runs:

| Run | Shows | Distinct states |
|---|---|---|
| SyncLogGroup | Group commit: acknowledged records are on disk, `synced` never overstates, no gaps, one fsync at a time, implements `AckedLog` | 370,460 |
| SyncLogLive | Every `Append` returns under all faults, `Close` under appends in flight included | 87,956 |
| SegmentRecovery | After every recovery a read through the index finds what a full scan finds, acknowledged records are read back, the bytes implement `AckedLog` | 434,273 |
| PipelineReplay | Under every fault: the tables are what the log determines, nothing answered with 202 is skipped, no 202 for a record that can disappear; once faults are over the consumer reaches the end of the log or a batch Postgres refuses | 622,018 |
| InvoicingClose | Ledger and invoices agree, each invoice has its entry, no double charge, charged is stamped, issued is final; one invoice per closed period, no lock cycle, retries see the same amounts, the chaos suite's checks hold at every moment, every `Close` returns | 115,674 |
| MeteringExact | From the text of a request to the invoice and back, every number is the one that was written, or an error | 220,872 |

Runs that end in a counterexample, each a disagreement between the code and what
a comment, a test or a document says of it (quoted in `PROJECT.json`):

| Run | What happens |
|---|---|
| SegmentStaleIndex | A recovery cuts the files and syncs neither; a second power failure brings old index entries back, one points into the middle of a new record, and recovery appends behind half a record |
| SegmentBareHeader | A crash between creating a segment file and writing its header leaves a file that every later `Open` refuses |
| PipelineTailLoss | The consumer commits past an unsynced record; after a power failure its offset holds another, acknowledged event that is never read |
| PipelineWedged | Without any fault: an event with U+0000 in its name is answered with 202, Postgres refuses it, every drain fails on its batch and nothing behind it is read |
| InvoicingLostUsage | An event committed between the sum and the stamp is stamped and never charged |
| MeteringRounding | Half-up "is applied ONCE per meter": a graduated price is rounded in each tier it charges, and a line is further than half a unit from its exact price |

SegmentRecovery leaves out the window of SegmentStaleIndex (`"unsettled"`: a power
failure after a recovery that cut a file and before the next sync, and an
unreadable index that has outlived its records) and does not ask for `Reopens`.
Everything else in it is unrestricted, so these are the only two ways found in
which the files fail.  In the same way PipelineReplay leaves out what PipelineTailLoss
shows (`"tail"`: a power failure that takes records the consumer has committed past),
and asks of the consumer what PipelineWedged leaves: `CatchesUpOrBlocked`.
MeteringExact has the rounding that the code does have: `PricedByTiers` compares
each line with its tiers to the unit.

### Counterexamples outside the runs

The theorems below have assumptions; dropping one is how to see it is needed.

| Change | Fails | Because |
|---|---|---|
| SyncLogGroup with `"close"` in `Faults` | `AckedDurable` | `Close` under an append in flight: `syncActive` finds no segment and reports success (`log.go:298`), against `log.go:214` |
| SyncLogGroup with `"drop"` in `Faults` | `AckedDurable` | A failed fsync discards its pages, the second fsync of a roll succeeds on nothing and `markSynced` acknowledges the lost records |
| SyncLogGroup with `PROPERTY FailureIsFresh`, without `SYMMETRY` | `FailureIsFresh` | Only a syncer clears `err` and nobody becomes one: after one failed fsync later appends fail with no sync tried, against `sync.go:40-41`.  The sticky error is also what keeps group commit from the retry of the line above |
| InvoicingClose with `Serves <- RunPerPeriod`, `Periods = {1, 2}`, `Events = {1}` | `BilledOnce` | Two periods of one tenant closed together charge a late event twice, against `PLAN.md:83` |
| The same with `PeriodRow <- ColonTenants`, `EventRow <- ColonUsage`, `Events = {1, 2}` | `EntryBehindInvoice`, `LedgerMatchesInvoices` | `TransactionKey` joins with a colon; two invoices share a key and one has no entry, against `store.go:184` |

Seen while modelling, and in no run:

- Under `SyncNever` a roll syncs nothing, so a power failure can cut an earlier
  segment and leave a gap.  Under `SyncEveryN` appenders go on while the N-th
  one's fsync runs, so more than N acknowledged records can be off the disk.
  `OpenDurable` refuses both policies.
- `Stats.Accounted` is false after a batch that was rolled back, though nothing
  vanished; `Stats` are left out of the model.
- `ErrNothingToBill` is also the answer for usage that prices to zero.  That usage
  stays unbilled and is priced with the next period's, where the earlier period's
  free allowance no longer counts.  `Late` is not stored, so a retried `Close`
  returns its invoice without it.
- The smallest `Amount` has a `String` that `ParseAmount` refuses.
- `CheckNoDoubleBilling` in the chaos suite can report a correct system: a row may
  be stored for a request that was answered with an error, or before its 202 was
  counted.  `CheckNothingSilentlyLost` looks for the key only, so it does not see
  a loss hidden by another event of the same key; `NothingSilentlyLost` does.

### Bounds

- SyncLog: three appenders are the least for a syncer, a waiter its fsync covers
  and one it does not.  Two records to a segment and five records make two rolls,
  one of them while an fsync is in flight.
- Segment: records of one and two cells are the least that makes a shorter record
  overwrite a longer one.  An index entry every two cells makes records with and
  without one.  Five cells and four appends fill a segment, fail in it and reach
  `createSegment`; three crashes allow a crash during the recovery from a crash,
  and one after it.  SegmentStaleIndex needs five appends.
- Pipeline: three log records and batches of two make a batch end inside the log,
  and let a key be inserted, repeated and reused.  Clients send one key with two
  contents and with one that cannot be stored, and a key with a row that has no
  fingerprint.
- Invoicing: two periods of one tenant and one of another, two meters and five
  events give late usage and usage that prices to zero; each run can be charged for
  both meters at the same time, the least that could make two runs wait for each
  other in a circle.  One run closes the other's period too, so that two calls meet
  on one period.  A meter without a price would need a sixth event and is left to
  the theorems; `GatherFails`, which it shares with a period without usage, is not.
- Metering: twelve-bit integers with two places for amounts and three for
  quantities keep the order of 64 bits, six and nine: factors far above ten and
  far below the width.  All texts up to five characters over an alphabet with a
  point, a sign, a mark and three digits reach every early return, and with 555 a
  wrap-around that `parseDigits` does not see; the other inputs mix tiers, halves,
  the largest numbers and rewritten retries.

`MaxRecords`, `MaxAppends`, `MaxCrashes` and `MaxLength` are the bounds on what
could grow.  Symmetry is used for the appenders of SyncLogGroup, which checks safety
only.

### Fairness

- SyncLog: weak fairness of each goroutine's own steps.  The scheduler runs what
  is runnable and fsync returns; nobody has to call `Append`, `Sync` or `Close`.
- Pipeline: weak fairness of `Drain`.  `runConsumer`'s ticker starts a drain
  again after any error.  `CatchesUp` and `CatchesUpOrBlocked` are asked only from
  when faults are over.
- Invoicing: a call that again and again does not wait for a row takes its steps
  again and again.  Every statement is answered, by a result or an error, and
  Postgres queues those that wait for a row, so that none is passed over for ever.

The Metering runs do not check deadlock: a behaviour is the history of one input,
and ends.

## The proofs

**SyncLogProofs.**  `TypeCorrect` and `OneSyncerAtATime` hold for all policies and
faults; the first needs the facts of `Bookkeeping` (sequences and offsets count
the same appends, a target covers the syncer's own record).  `OffsetsHaveNoGaps`,
`SyncedIsOnDisk`, `AcksAreDurable` and `LogKeepsPromise` assume `Sound`: the policy
is not `SyncNever`, fsync does not drop pages, and `Close` does not run under
appends; each of these is needed, as above.  The last two also assume a policy that
promises durability, so they are what covers `SyncAlways`, as the first two cover
`SyncEveryN`: the runs use `SyncGroup`, the policy of `main.go`.
`NoGaps` and `AckedDurable` are not inductive: the invariant adds `FlushCovers`,
which says that rolled segments are on disk and that whatever an fsync in flight
will claim is on disk already or among what it is flushing.  This is where
capturing the target before unlocking, and syncing at a roll, are used.

**PipelineProofs.**  `TypeCorrect` and `PromiseIsKept` hold under all faults: a request
is answered only for what is on disk, and a power failure takes only what is not.
`ReplayIsExact` and `NothingIsLost` assume that a power failure leaves the records the
consumer has committed past, which PipelineTailLoss shows to be needed.  The tables are compared with `RowsOf(n)` and `LettersOf(n)`, defined on
the log alone.  The inductive invariant `ReplayInv` adds that each key has a
first record, that positions lie in the log, and that an open transaction sees
the tables of a log applied up to the larger of its cursor and the highest
offset ever committed: the last covers a replay after a rewind, which must change
nothing until it passes that offset.  A batch with a record that cannot be stored never
commits, so no such record lies below an offset that was ever committed.

**InvoicingProofs.**  For any tenants, periods, events, plan and number of runs.
The inductive invariant `IInv` says that no row is locked twice (`Disjoint`), that
every invoice is the one its period and its charged events determine and its
period is closed (`InvoiceInv`), and for each call what it holds and knows at each
statement (`CallInv`): inside, it has the lock of a period that is open; from
`buildEntry` on, its tenant's receivable account; what it gathered is usage of that
tenant from before the period's end; and at the commit, the events it stamps were
unstamped and the others it gathered were not.  From it follow `TypeCorrect`,
`ClosedIsInvoiced`, `ChargesAreMarked` and `IssuedStays`.

**ChargeProofs.**  Three results that rest on `IInv`.  `AmountsRepeat` adds
that whatever a call was told is what an invoice says (`AnswersFromInvoices`), and
a period has one invoice.  `BilledAtMostOnce` adds that what a call has gathered is on no invoice yet
(`Fresh`), which needs `RunsApart`: no two runs close different periods of one
tenant.  `EntriesMatch` adds that whoever is past `PostTx` has inserted its entry
(`WillPost`), which needs `KeysDiffer`: no two periods share a ledger key.

**LockOrderProofs.**  `RunsNeverDeadlock`: a run holds only what comes before what
it waits for, in the order period, receivable account, revenue accounts by meter,
ledger key (`LocksInOrder`); every waiting run it waits for is therefore further
along (`Rank`), and a circle would be further along than itself.  Meters are numbers
up to some bound, in the place of the sorted names.

**DecimalProofs.**  For integers of any width and any scale of at least one digit
of which one unit fits.  `AddIsExact`: the test of `Add` on the wrapped sum is
right.  `ParsingIsExact`: a parsed number is the number in the text.  The test in
`parseDigits` is not right, it misses some wrap-arounds.  The invariant says that
the integer part is exact, or it is out of range and the number read is still at
least two ninths of it (`Drift`): large enough for the test that follows the scaling
to refuse it.  For the fraction it says that the digits so far leave room for the
rest of the scale.

**PricingProofs.**  `FlatPriceWithinRounding` and `FlatPriceGrowsWithUsage`: what
`multiply` returns is the exact product rounded half away from zero, off by half a
unit at most and monotone in the quantity, for every factor and width.  The first is the
bound of MeteringRounding, for the prices that do round once.

Only model-checked: liveness (`AppendReturns`, `CatchesUpOrBlocked`, `CloseReturns`;
fairness is beyond the prover); everything about `Segment`;
`LedgerMatchesInvoices` and `ChecksPassAnytime`, which are sums over sets of
entries; and the properties of Metering other than `ParsedExactly`, whose sums,
tiers and renderings are folds and recursive functions.

## Not modelled

- JSON and HTTP: decoding of request bodies, size limits, status codes other than
  202, the bytes of a record and of the fingerprint.  They are functions of one
  request with nothing to interleave.
- `Amount.String`, logging, and the `Stats` of the consumer.
- `Store.Post`, `CreateAccount`, `EnsureAccount` and `AccountByName` outside a
  caller's transaction: nothing in the billing path calls them.  The triggers of
  the migrations, the deferred check that entries balance among them, are second
  lines of defence: `IssuedIsFinal` and `EntryMovesTheTotal` show that the code
  does not run into them.
- The order of signals and timeouts in `main.go`, beyond `Close` under appends.
- A transaction of a dead process that commits late, and a second consumer of the
  same name: the code has no fencing, and `main.go` starts one.
- Deadlock between the consumer and `Close` on event rows, which Postgres resolves
  by aborting one of the two; both retry.
- A single model from POST to invoice: `AckedLog` and the commit of a set of
  events are narrow enough to check the parts on either side, and the product of
  their states is out of reach.
- `internal/testdb` and the harness of the chaos suite, which are test code.
