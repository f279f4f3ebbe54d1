----------------------------- MODULE Invoicing ------------------------------
(***************************************************************************)
(* Closing billing periods: Service.EnsurePeriod and Service.Close, with   *)
(* the ledger posting they make, running beside the consumer that stores   *)
(* events.                                                                 *)
(*                                                                         *)
(* Close is one Postgres transaction at READ COMMITTED, the default that   *)
(* BeginTx(ctx, nil) gives: each statement sees what is committed when the *)
(* statement starts, and what this transaction wrote.  Each action is one  *)
(* statement, or a few of which only one can meet another transaction.     *)
(* Row locks are held until the transaction ends.                          *)
(*                                                                         *)
(* A price has a free allowance and a unit price above it: the graduated   *)
(* plan with a first tier at zero, the least that lets usage price to      *)
(* zero.  Times are numbers.                                               *)
(***************************************************************************)
EXTENDS Integers, Sequences, FiniteSets, FiniteSetsExt

CONSTANTS
  Closers,    \* concurrent calls of Close: billing runs and their retries
  Periods,    \* billing_periods.id
  Events,     \* events.id
  PeriodRow,  \* id -> [tenant, label, start, end]
  EventRow,   \* id -> [tenant, meter, quantity, at]
  Plan,       \* meter -> [free, unit]; a meter may have no price
  Serves,     \* the periods each billing run closes
  None,       \* NULL
  Faults      \* {"db"} if a query or a connection may fail, or {}

ASSUME ConstantsAssumption ==
  /\ \A p \in Periods : PeriodRow[p].start < PeriodRow[p].end
  /\ \A p, q \in Periods : PeriodRow[p] # PeriodRow[q] \/ p = q
  /\ \A e \in Events : EventRow[e].quantity >= 0
  /\ \A m \in DOMAIN Plan : Plan[m].free >= 0 /\ Plan[m].unit >= 0
  /\ Serves \in [Closers -> SUBSET Periods]
  /\ None \notin Periods
  /\ Faults \subseteq {"db"}

VARIABLES
  \* committed rows
  state,      \* billing_periods.state, or "absent"
  stored,     \* the events the consumer has committed
  billedOn,   \* events.invoice_id, as the period of the invoice
  invoices,   \* invoices with their line items
  ledger,     \* ledger_transactions with their postings
  \* the calls of Close
  pc, period,
  gathered,   \* the events unbilledUsage summed
  todo,       \* meters whose revenue account is still to be ensured
  posting,    \* PostTx inserted the entry, and did not find its key taken
  marked,     \* the events markBilled stamped
  held,       \* the rows the transaction has locked
  \* observation only
  answers     \* period and invoice of every Close that returned one

dbVars   == <<state, stored, billedOn, invoices, ledger>>
callVars == <<pc, period, gathered, todo, posting, marked, held>>
vars     == <<dbVars, callVars, answers>>

PC == {"idle", "lock", "gather", "account", "revenue", "post", "mark", "commit"}

Init ==
  /\ state = [p \in Periods |-> "absent"]
  /\ stored = {} /\ invoices = {} /\ ledger = {}
  /\ billedOn = [e \in Events |-> None]
  /\ pc = [c \in Closers |-> "idle"]
  /\ period = [c \in Closers |-> None]
  /\ gathered = [c \in Closers |-> {}]
  /\ todo = [c \in Closers |-> {}]
  /\ posting = [c \in Closers |-> FALSE]
  /\ marked = [c \in Closers |-> {}]
  /\ held = [c \in Closers |-> {}]
  /\ answers = {}

-----------------------------------------------------------------------------
(* Names and keys. *)

ReceivableAccount(t) == <<"receivable:", t>>
RevenueAccount(m)    == <<"revenue:", m>>

\* usage:<tenant>:<label>.  Tenants and labels are sequences of characters.
TransactionKey(p) == <<"usage", ":">> \o PeriodRow[p].tenant \o <<":">> \o PeriodRow[p].label

-----------------------------------------------------------------------------
(* Pricing. *)

Larger(a, b) == IF a > b THEN a ELSE b

MetersOf(S)    == {EventRow[e].meter : e \in S}
UsageOf(S, m)  == {e \in S : EventRow[e].meter = m}
Quantity(S, m) == MapThenSumSet(LAMBDA e : EventRow[e].quantity, UsageOf(S, m))

\* pricing.Rate: usage is summed per meter, and the sum is priced.
Price(m, q) == Plan[m].unit * Larger(0, q - Plan[m].free)

(***************************************************************************)
(* buildEntry's lines.  A line is late when some of its usage happened     *)
(* before the period began.                                                *)
(***************************************************************************)
LineItems(p, S) ==
  {[meter    |-> m,
    quantity |-> Quantity(S, m),
    amount   |-> Price(m, Quantity(S, m)),
    late     |-> \E e \in UsageOf(S, m) : EventRow[e].at < PeriodRow[p].start] :
     m \in MetersOf(S)}

\* What insertLineItem keeps of a line and invoiceForPeriod reads back.
Persisted(lines) == {[l EXCEPT !.late = FALSE] : l \in lines}

Total(lines) == MapThenSumSet(LAMBDA l : l.amount, lines)

\* Lines that price to zero make no transfer.
Charged(lines) == {l \in lines : l.amount # 0}

\* NewTransaction: a debit of the receivable and a credit of the revenue.
Postings(t, lines) ==
  UNION {{[line |-> l.meter, account |-> ReceivableAccount(t), amount |-> l.amount],
          [line |-> l.meter, account |-> RevenueAccount(l.meter), amount |-> -l.amount]} :
           l \in Charged(lines)}

Sum(postings) == MapThenSumSet(LAMBDA x : x.amount, postings)

-----------------------------------------------------------------------------
(* The rest of the system. *)

\* EnsurePeriod; an existing period is left as it is.
EnsurePeriod(p) ==
  /\ state[p] = "absent"
  /\ state' = [state EXCEPT ![p] = "open"]
  /\ UNCHANGED <<stored, billedOn, invoices, ledger, callVars, answers>>

\* The consumer commits a batch.
StoreBatch(S) ==
  /\ S # {}
  /\ stored' = stored \cup S
  /\ UNCHANGED <<state, billedOn, invoices, ledger, callVars, answers>>

-----------------------------------------------------------------------------
(* Close. *)

Tenant(c) == PeriodRow[period[c]].tenant

\* Mutant of Unbilled: invoice_id IS NULL is missing.
UnbilledOrNot(p) ==
  {e \in stored : /\ EventRow[e].tenant = PeriodRow[p].tenant
                  /\ EventRow[e].at < PeriodRow[p].end}

\* The WHERE clause that unbilledUsage and markBilled share.
Unbilled(p) ==
  {e \in stored : /\ EventRow[e].tenant = PeriodRow[p].tenant
                  /\ billedOn[e] = None
                  /\ EventRow[e].at < PeriodRow[p].end}

\* Mutant of NextMeter: the order of an unsorted map, different for every run.
NextMeterUnsorted(c) == IF c = Min(Closers) THEN Min(todo[c]) ELSE Max(todo[c])

\* Revenue accounts are ensured in the order Rate sorts the lines.
NextMeter(c) == Min(todo[c])

\* The row c has to lock next, if any: SELECT FOR UPDATE takes the period's, an upsert
\* its account's and the INSERT of the transaction its key's.
Needs(c) ==
  CASE pc[c] = "lock" -> {<<"period", period[c]>>}
    [] pc[c] = "account" -> {ReceivableAccount(Tenant(c))}
    [] pc[c] = "revenue" /\ todo[c] # {} -> {RevenueAccount(NextMeter(c))}
    [] pc[c] = "post" -> {<<"key", TransactionKey(period[c])>>}
    [] OTHER -> {}

WaitsFor(c, d) == c # d /\ Needs(c) \cap held[d] # {}

\* A statement that locks rows waits for the transactions that hold them.
Lock(c) ==
  /\ \A d \in Closers : ~ WaitsFor(c, d)
  /\ held' = [held EXCEPT ![c] = @ \cup Needs(c)]

\* The transaction is over, committed or not.
End(c) ==
  /\ pc' = [pc EXCEPT ![c] = "idle"]
  /\ period' = [period EXCEPT ![c] = None]
  /\ gathered' = [gathered EXCEPT ![c] = {}]
  /\ todo' = [todo EXCEPT ![c] = {}]
  /\ posting' = [posting EXCEPT ![c] = FALSE]
  /\ marked' = [marked EXCEPT ![c] = {}]
  /\ held' = [held EXCEPT ![c] = {}]

\* Close is called.  A period that does not exist is ErrPeriodNotFound.
Call(c, p) ==
  /\ pc[c] = "idle" /\ state[p] # "absent"
  /\ pc' = [pc EXCEPT ![c] = "lock"]
  /\ period' = [period EXCEPT ![c] = p]
  /\ UNCHANGED <<dbVars, gathered, todo, posting, marked, held, answers>>

\* SELECT ... FOR UPDATE finds the period open.
LockOpen(c) ==
  /\ pc[c] = "lock"
  /\ Lock(c)
  /\ state[period[c]] = "open"
  /\ pc' = [pc EXCEPT ![c] = "gather"]
  /\ UNCHANGED <<dbVars, period, gathered, todo, posting, marked, answers>>

\* Mutant of LockClosed: the invoice is summed again from the stamped events.
LockClosedSumsAgain(c) ==
  /\ pc[c] = "lock"
  /\ \A d \in Closers : ~ WaitsFor(c, d)
  /\ state[period[c]] = "closed"
  /\ LET lines == LineItems(period[c], {e \in Events : billedOn[e] = period[c]})
     IN answers' = answers \cup {[period |-> period[c], total |-> Total(lines), lines |-> lines]}
  /\ End(c)
  /\ UNCHANGED dbVars

\* It finds it closed: the stored invoice is returned with ErrPeriodClosed.
LockClosed(c) ==
  /\ pc[c] = "lock"
  /\ \A d \in Closers : ~ WaitsFor(c, d)
  /\ state[period[c]] = "closed"
  /\ \E i \in invoices :
       /\ i.period = period[c]
       /\ answers' = answers \cup {[period |-> i.period, total |-> i.total, lines |-> i.lines]}
  /\ End(c)
  /\ UNCHANGED dbVars

\* gatherUsage and Rate.
Gather(c) ==
  /\ pc[c] = "gather"
  /\ Unbilled(period[c]) # {}
  /\ MetersOf(Unbilled(period[c])) \subseteq DOMAIN Plan
  /\ gathered' = [gathered EXCEPT ![c] = Unbilled(period[c])]
  /\ pc' = [pc EXCEPT ![c] = "account"]
  /\ UNCHANGED <<dbVars, period, todo, posting, marked, held, answers>>

\* Mutant of GatherFails: returns without rolling back, and keeps its locks.
GatherFailsLeaks(c) ==
  /\ pc[c] = "gather"
  /\ \/ Unbilled(period[c]) = {}
     \/ ~ MetersOf(Unbilled(period[c])) \subseteq DOMAIN Plan
  /\ pc' = [pc EXCEPT ![c] = "idle"]
  /\ UNCHANGED <<dbVars, period, gathered, todo, posting, marked, held, answers>>

\* No usage, or a meter Rate has no price for.
GatherFails(c) ==
  /\ pc[c] = "gather"
  /\ \/ Unbilled(period[c]) = {}
     \/ ~ MetersOf(Unbilled(period[c])) \subseteq DOMAIN Plan
  /\ End(c)
  /\ UNCHANGED <<dbVars, answers>>

Lines(c) == LineItems(period[c], gathered[c])

\* Mutant of EnsureReceivable: goes through the plan's meters, not the lines'.
EnsureReceivableWholePlan(c) ==
  /\ pc[c] = "account"
  /\ Lock(c)
  /\ todo' = [todo EXCEPT ![c] = DOMAIN Plan]
  /\ pc' = [pc EXCEPT ![c] = "revenue"]
  /\ UNCHANGED <<dbVars, period, gathered, posting, marked, answers>>

\* buildEntry: the tenant's account, then one account for each charged line.
EnsureReceivable(c) ==
  /\ pc[c] = "account"
  /\ Lock(c)
  /\ todo' = [todo EXCEPT ![c] = {l.meter : l \in Charged(Lines(c))}]
  /\ pc' = [pc EXCEPT ![c] = "revenue"]
  /\ UNCHANGED <<dbVars, period, gathered, posting, marked, answers>>

EnsureRevenue(c) ==
  /\ pc[c] = "revenue" /\ todo[c] # {}
  /\ Lock(c)
  /\ todo' = [todo EXCEPT ![c] = @ \ {NextMeter(c)}]
  /\ UNCHANGED <<dbVars, pc, period, gathered, posting, marked, answers>>

\* Everything priced to zero: ErrNothingToBill.
NothingCharged(c) ==
  /\ pc[c] = "revenue" /\ Charged(Lines(c)) = {}
  /\ End(c)
  /\ UNCHANGED <<dbVars, answers>>

EntryBuilt(c) ==
  /\ pc[c] = "revenue" /\ todo[c] = {} /\ Charged(Lines(c)) # {}
  /\ pc' = [pc EXCEPT ![c] = "post"]
  /\ UNCHANGED <<dbVars, period, gathered, todo, posting, marked, held, answers>>

\* Mutant of Post: the entry is posted in a transaction of its own.
PostOnItsOwn(c) ==
  /\ pc[c] = "post"
  /\ Lock(c)
  /\ ledger' = IF \E x \in ledger : x.key = TransactionKey(period[c]) THEN ledger
               ELSE ledger \cup {[key |-> TransactionKey(period[c]),
                                  postings |-> Postings(Tenant(c), Lines(c))]}
  /\ pc' = [pc EXCEPT ![c] = "mark"]
  /\ UNCHANGED <<state, stored, billedOn, invoices, period, gathered, todo, posting, marked, answers>>

(***************************************************************************)
(* PostTx, insertInvoice and the line items.  A key that is already posted *)
(* is no error: the invoice then points at the entry that has it.  An      *)
(* entry that does not balance, or a second invoice for the period, is an  *)
(* error; neither arises while the period's row is locked.                 *)
(***************************************************************************)
Post(c) ==
  /\ pc[c] = "post"
  /\ Lock(c)
  /\ Sum(Postings(Tenant(c), Lines(c))) = 0
  /\ \A i \in invoices : i.period # period[c]
  /\ posting' = [posting EXCEPT ![c] = \A x \in ledger : x.key # TransactionKey(period[c])]
  /\ pc' = [pc EXCEPT ![c] = "mark"]
  /\ UNCHANGED <<dbVars, period, gathered, todo, marked, answers>>

\* Mutant of MarkBilled: only usage inside the period is stamped.
MarkBilledInWindow(c) ==
  /\ pc[c] = "mark"
  /\ marked' = [marked EXCEPT ![c] =
       {e \in Unbilled(period[c]) : EventRow[e].at >= PeriodRow[period[c]].start}]
  /\ pc' = [pc EXCEPT ![c] = "commit"]
  /\ UNCHANGED <<dbVars, period, gathered, todo, posting, held, answers>>

\* Mutant of MarkBilled: whatever the tenant has is stamped.
MarkBilledAgain(c) ==
  /\ pc[c] = "mark"
  /\ marked' = [marked EXCEPT ![c] = {e \in stored : EventRow[e].tenant = Tenant(c)}]
  /\ pc' = [pc EXCEPT ![c] = "commit"]
  /\ UNCHANGED <<dbVars, period, gathered, todo, posting, held, answers>>

\* Mutant of MarkBilled: the stamps are written outside the transaction.
MarkBilledOutsideTx(c) ==
  /\ pc[c] = "mark"
  /\ marked' = [marked EXCEPT ![c] = Unbilled(period[c])]
  /\ billedOn' = [e \in Events |-> IF e \in Unbilled(period[c]) THEN period[c] ELSE billedOn[e]]
  /\ pc' = [pc EXCEPT ![c] = "commit"]
  /\ UNCHANGED <<state, stored, invoices, ledger, period, gathered, todo, posting, held, answers>>

\* markBilled and closePeriod.
MarkBilled(c) ==
  /\ pc[c] = "mark"
  /\ marked' = [marked EXCEPT ![c] = Unbilled(period[c])]
  /\ pc' = [pc EXCEPT ![c] = "commit"]
  /\ UNCHANGED <<dbVars, period, gathered, todo, posting, held, answers>>

\* `charged' is what the total was computed from: no column holds it.
Invoice(c) ==
  [period |-> period[c], total |-> Total(Lines(c)), lines |-> Persisted(Lines(c)),
   key |-> TransactionKey(period[c]), charged |-> gathered[c]]

\* Mutant of Commit: the period is left open.
CommitLeavesOpen(c) ==
  /\ pc[c] = "commit"
  /\ billedOn' = [e \in Events |-> IF e \in marked[c] THEN period[c] ELSE billedOn[e]]
  /\ invoices' = invoices \cup {Invoice(c)}
  /\ ledger' = ledger \cup {[key |-> TransactionKey(period[c]),
                             postings |-> Postings(Tenant(c), Lines(c))]}
  /\ End(c)
  /\ UNCHANGED <<state, stored, answers>>

(***************************************************************************)
(* tx.Commit.  When the connection dies under it the transaction may have  *)
(* committed although Close returns an error and no invoice.               *)
(***************************************************************************)
Commit(c) ==
  /\ pc[c] = "commit"
  /\ state' = [state EXCEPT ![period[c]] = "closed"]
  /\ billedOn' = [e \in Events |-> IF e \in marked[c] THEN period[c] ELSE billedOn[e]]
  /\ invoices' = invoices \cup {Invoice(c)}
  /\ ledger' = IF posting[c]
                 THEN ledger \cup {[key |-> TransactionKey(period[c]),
                                    postings |-> Postings(Tenant(c), Lines(c))]}
                 ELSE ledger
  /\ \/ answers' = answers \cup {[period |-> period[c], total |-> Total(Lines(c)), lines |-> Lines(c)]}
     \/ "db" \in Faults /\ UNCHANGED answers
  /\ End(c)
  /\ UNCHANGED stored

\* A query fails, the connection dies or the process does: Postgres rolls back.
Rollback(c) ==
  /\ "db" \in Faults
  /\ pc[c] # "idle"
  /\ End(c)
  /\ UNCHANGED <<dbVars, answers>>

Proceed(c) ==
  \/ LockOpen(c) \/ LockClosed(c) \/ Gather(c) \/ GatherFails(c)
  \/ EnsureReceivable(c) \/ EnsureRevenue(c) \/ NothingCharged(c) \/ EntryBuilt(c)
  \/ Post(c) \/ MarkBilled(c) \/ Commit(c)

Next ==
  \/ \E p \in Periods : EnsurePeriod(p)
  \/ \E S \in SUBSET (Events \ stored) : StoreBatch(S)
  \/ \E c \in Closers : Proceed(c) \/ Rollback(c) \/ \E p \in Serves[c] : Call(c, p)

Spec == Init /\ [][Next]_vars

Runnable(c) == pc[c] # "idle" /\ \A d \in Closers : ~ WaitsFor(c, d)

Moves(c) == pc'[c] # pc[c] \/ todo'[c] # todo[c]

(***************************************************************************)
(* Every statement is answered, by its result or by an error, and Postgres *)
(* queues the transactions that wait for a row, so none is passed over for *)
(* ever.  A call that does not wait has a step to take: a closed period    *)
(* has its invoice and an open one has none (ClosedMeansInvoiced).         *)
(***************************************************************************)
FairSpec == Spec /\ \A c \in Closers : []<>Runnable(c) => []<><<Moves(c)>>_vars

-----------------------------------------------------------------------------
\* Every row and every call has the shape the schema and the code give it.
TypeOK ==
  /\ state \in [Periods -> {"absent", "open", "closed"}]
  /\ stored \subseteq Events
  /\ billedOn \in [Events -> Periods \cup {None}]
  /\ \A i \in invoices : i.period \in Periods /\ i.charged \subseteq stored
  /\ pc \in [Closers -> PC]
  /\ period \in [Closers -> Periods \cup {None}]
  /\ gathered \in [Closers -> SUBSET Events]
  /\ \A c \in Closers : todo[c] \subseteq MetersOf(gathered[c])
  /\ posting \in [Closers -> BOOLEAN]
  /\ marked \in [Closers -> SUBSET Events]

\* The balance of an account, over every transaction of the ledger.
Balance(a) ==
  MapThenSumSet(LAMBDA x : Sum({y \in x.postings : y.account = a}), ledger)

IsDebitNormal(a) == \E p \in Periods : a = ReceivableAccount(PeriodRow[p].tenant)

\* The balance with the sign an accountant reads it with.
NormalBalance(a) == IF IsDebitNormal(a) THEN Balance(a) ELSE -Balance(a)

TrialBalance == MapThenSumSet(LAMBDA x : Sum(x.postings), ledger)

(***************************************************************************)
(* I1: no invoice without its ledger entry and no entry without its        *)
(* invoice.  What a tenant owes is what its invoices say, and what a meter *)
(* earned is what the lines say, whatever was retried or rolled back.      *)
(***************************************************************************)
LedgerMatchesInvoices ==
  /\ \A t \in {PeriodRow[p].tenant : p \in Periods} :
       NormalBalance(ReceivableAccount(t)) =
         MapThenSumSet(LAMBDA i : i.total, {i \in invoices : PeriodRow[i.period].tenant = t})
  /\ \A m \in DOMAIN Plan :
       NormalBalance(RevenueAccount(m)) =
         MapThenSumSet(LAMBDA i : Total({l \in i.lines : l.meter = m}), invoices)

\* What buildEntry makes of the usage an invoice charged.
EntryOf(i) ==
  Postings(PeriodRow[i.period].tenant, LineItems(i.period, i.charged))

(***************************************************************************)
(* Never "an invoice exists with no ledger entry behind it, or the         *)
(* reverse": every invoice has one entry under its key, made of exactly    *)
(* the usage it charged, and every entry has its invoice.                  *)
(***************************************************************************)
EntryBehindInvoice ==
  /\ \A i \in invoices : [key |-> i.key, postings |-> EntryOf(i)] \in ledger
  /\ \A x \in ledger : \E i \in invoices : x = [key |-> i.key, postings |-> EntryOf(i)]
  /\ \A x, y \in ledger : x.key = y.key => x = y

-----------------------------------------------------------------------------
(* The checks the chaos suite makes of the database. *)

CheckMoneyConserved == TrialBalance = 0

\* No stamp without its invoice, and no invoice that contradicts its lines.
CheckEventsBilledAtMostOnce ==
  /\ \A e \in stored : billedOn[e] # None => \E i \in invoices : i.period = billedOn[e]
  /\ \A i \in invoices : i.total = Total(i.lines)

(***************************************************************************)
(* The suite's checks hold at every moment, not only when the system is at *)
(* rest: whatever is in flight, no committed stamp points at an invoice    *)
(* that is not there, and totals, lines and postings agree.                *)
(***************************************************************************)
ChecksPassAnytime == CheckMoneyConserved /\ CheckEventsBilledAtMostOnce

-----------------------------------------------------------------------------
\* I2: no event is part of what two invoices charge.
BilledOnce ==
  \A i, j \in invoices : i.period # j.period => i.charged \cap j.charged = {}

(***************************************************************************)
(* A charged event is stamped, by the invoice that charged it or by one    *)
(* that got there first, so that no later run gathers it again.            *)
(***************************************************************************)
ChargedIsMarked == \A i \in invoices : \A e \in i.charged : billedOn[e] # None

(***************************************************************************)
(* "Inside one transaction the snapshot is stable, so the two sets are     *)
(* identical": an event stamped with an invoice is part of its total.      *)
(***************************************************************************)
MarkedIsCharged ==
  \A e \in Events : billedOn[e] # None =>
    \E i \in invoices : i.period = billedOn[e] /\ e \in i.charged

(***************************************************************************)
(* A period is closed exactly when it has its invoice, and it has one:     *)
(* nothing of a Close that failed half-way is left behind.                 *)
(***************************************************************************)
ClosedMeansInvoiced ==
  \A p \in Periods :
    Cardinality({i \in invoices : i.period = p}) = IF state[p] = "closed" THEN 1 ELSE 0

(***************************************************************************)
(* Billing runs never wait for each other in a circle, whichever tenants,  *)
(* periods and meters they bill.                                           *)
(***************************************************************************)
NoLockCycle ==
  ~ \E S \in (SUBSET Closers) \ {{}} : \A c \in S : \E d \in S : WaitsFor(c, d)

\* I4: an issued invoice never changes, and a stamped event never moves.
IssuedIsFinal ==
  [][/\ invoices \subseteq invoices'
     /\ \A e \in Events : billedOn[e] # None => billedOn'[e] = billedOn[e]]_vars

(***************************************************************************)
(* A retried Close is told the amounts the first one was told.             *)
(***************************************************************************)
SameAmounts ==
  \A a, b \in answers :
    a.period = b.period => a.total = b.total /\ Persisted(a.lines) = Persisted(b.lines)

\* Every Close returns.
CloseReturns == \A c \in Closers : pc[c] # "idle" ~> pc[c] = "idle"
=============================================================================
