---------------------------- MODULE ChargeProofs ----------------------------
(***************************************************************************)
(* What an invoice charges, proved from the invariant of InvoicingProofs:  *)
(* no event is charged twice, every invoice has its ledger entry, and      *)
(* whoever asks is told the same amounts.                                  *)
(***************************************************************************)
EXTENDS InvoicingProofs

-----------------------------------------------------------------------------
(* No event is charged twice. *)

(***************************************************************************)
(* Different billing runs never close different periods of one tenant.     *)
(* They may close the same one.                                            *)
(***************************************************************************)
RunsApart ==
  \A c, d \in Closers : c # d =>
    \A p \in Serves[c], q \in Serves[d] : PeriodRow[p].tenant = PeriodRow[q].tenant => p = q

\* What a call has gathered is on no invoice yet.
Fresh ==
  \A c \in Closers : pc[c] \in Gathered => \A i \in invoices : gathered[c] \cap i.charged = {}

\* A call has gathered something only by Gather.
LEMMA OnlyGather ==
  ASSUME CallType, NEW c \in Closers, Step(c), ~ Commit(c), ~ Gather(c), pc'[c] \in Gathered
  PROVE  pc[c] \in Gathered /\ gathered'[c] = gathered[c]
PROOF
  <1> USE DEF CallType, PC, Gathered
  <1>1. CASE End(c)
    BY <1>1 DEF End
  <1>2. ASSUME NEW p \in Serves[c], Call(c, p) PROVE FALSE
    BY <1>2 DEF Call
  <1>3. CASE LockOpen(c)
    BY <1>3 DEF LockOpen
  <1>4. CASE EnsureReceivable(c) \/ EnsureRevenue(c) \/ EntryBuilt(c) \/ Post(c) \/ MarkBilled(c)
    BY <1>4 DEF EnsureReceivable, EnsureRevenue, EntryBuilt, Post, MarkBilled
  <1> HIDE DEF CallType, PC, Gathered
  <1> QED
    BY <1>1, <1>2, <1>3, <1>4 DEF Step, Proceed, Rollback, LockClosed, GatherFails, NothingCharged

LEMMA FreshUncommitted ==
  ASSUME IInv, Fresh, NEW c \in Closers, Step(c), ~ Commit(c)
  PROVE  Fresh' /\ invoices' = invoices
PROOF
  <1> USE DEF IInv
  <1>1. invoices' = invoices
    BY CallInvOwn DEF dbVars
  <1>2. Others(c)
    BY StepIsLocal
  <1>3. ASSUME NEW d \in Closers, d # c, pc'[d] \in Gathered, NEW i \in invoices
        PROVE  gathered'[d] \cap i.charged = {}
    BY <1>2, <1>3 DEF Others, Fresh
  <1>4. ASSUME pc'[c] \in Gathered, NEW i \in invoices
        PROVE  gathered'[c] \cap i.charged = {}
    <2>1. CASE Gather(c)
      <3>1. gathered'[c] = Unbilled(period[c])
        BY <2>1 DEF Gather, CallType
      <3> QED
        BY <3>1 DEF Unbilled, ChargedIsMarked
    <2>2. CASE ~ Gather(c)
      BY <1>4, <2>2, OnlyGather DEF Fresh
    <2> QED
      BY <2>1, <2>2
  <1> QED
    BY <1>1, <1>3, <1>4 DEF Fresh

LEMMA FreshCommit ==
  ASSUME RunsApart, IInv, Fresh, BilledOnce, NEW c \in Closers, Commit(c)
  PROVE  Fresh' /\ BilledOnce'
PROOF
  <1> USE DEF IInv
  <1>1. Others(c)
    BY StepIsLocal DEF Step, Proceed
  <1>2. /\ pc[c] = "commit" /\ period[c] \in Periods /\ End(c)
        /\ invoices' = invoices \cup {Issued(period[c], gathered[c])}
    BY CommitEffect
  <1>3. \A i \in invoices' : i \in invoices \/ (i = Issued(period[c], gathered[c]) /\ i.charged = gathered[c])
    BY <1>2 DEF Issued
  <1>4. \A i \in invoices : gathered[c] \cap i.charged = {}
    BY <1>2 DEF Fresh, Gathered
  <1>5. ASSUME NEW d \in Closers, d # c, pc[d] \in Gathered
        PROVE  gathered[d] \cap gathered[c] = {}
    <2>1. period[d] # period[c]
      BY <1>2, <1>5, Apart, Zenon DEF Inside, Gathered
    <2>2. period[c] \in Serves[c] /\ period[d] \in Serves[d]
      BY <1>2, <1>5 DEF CallType, Gathered
    <2>3. PeriodRow[period[d]].tenant # PeriodRow[period[c]].tenant
      BY <1>5, <2>1, <2>2 DEF RunsApart
    <2>4. CallInv(c) /\ CallInv(d)
      OBVIOUS
    <2> QED
      BY <1>2, <1>5, <2>3, <2>4, Zenon DEF CallInv, Billable, Gathered
  <1>6. Fresh'
    <2>1. pc'[c] = "idle"
      BY <1>2 DEF End, CallType
    <2> QED
      BY <1>1, <1>3, <1>5, <2>1 DEF Fresh, Others, Gathered
  <1>7. BilledOnce'
    BY <1>3, <1>4 DEF BilledOnce
  <1> QED
    BY <1>6, <1>7

(***************************************************************************)
(* No event is charged by two invoices when different runs leave each      *)
(* other's tenants alone: what is gathered was unstamped, what is charged  *)
(* is stamped, and two runs inside one tenant would be inside one period.  *)
(***************************************************************************)
THEOREM BilledAtMostOnce == ASSUME RunsApart PROVE Spec => []BilledOnce
PROOF
  <1>1. Init => Fresh /\ BilledOnce
    BY DEF Init, Fresh, BilledOnce
  <1>2. ASSUME IInv, Fresh, BilledOnce, [Next]_vars PROVE Fresh' /\ BilledOnce'
    <2>1. CASE UNCHANGED <<pc, gathered, invoices>>
      BY <1>2, <2>1 DEF Fresh, BilledOnce
    <2>2. ASSUME NEW c \in Closers, Step(c) PROVE Fresh' /\ BilledOnce'
      <3>1. CASE Commit(c)
        BY <1>2, <3>1, FreshCommit
      <3>2. CASE ~ Commit(c)
        <4>1. Fresh' /\ invoices' = invoices
          BY <1>2, <2>2, <3>2, FreshUncommitted
        <4> QED
          BY <1>2, <4>1 DEF BilledOnce
      <3> QED
        BY <3>1, <3>2
    <2>3. ASSUME NEW p \in Periods, EnsurePeriod(p) PROVE UNCHANGED <<pc, gathered, invoices>>
      BY <2>3 DEF EnsurePeriod, callVars
    <2>4. ASSUME NEW S \in SUBSET (Events \ stored), StoreBatch(S)
          PROVE  UNCHANGED <<pc, gathered, invoices>>
      BY <2>4 DEF StoreBatch, callVars
    <2>5. UNCHANGED vars => UNCHANGED <<pc, gathered, invoices>>
      BY DEF vars, dbVars, callVars
    <2> QED
      BY <1>2, <2>1, <2>2, <2>3, <2>4, <2>5 DEF Next, Step
  <1> QED
    BY <1>1, <1>2, Invariant, PTL DEF Spec

-----------------------------------------------------------------------------
(* Invoices and ledger entries. *)

\* The key tells periods apart: no tenant and label contain the separator.
KeysDiffer == \A p, q \in Periods : TransactionKey(p) = TransactionKey(q) => p = q

\* The entry behind the invoice of period p that charges S.
EntryFor(p, S) ==
  [key |-> TransactionKey(p), postings |-> Postings(PeriodRow[p].tenant, LineItems(p, S))]

\* PostTx has inserted the entry of every call that is past it.
WillPost == \A c \in Closers : pc[c] \in {"mark", "commit"} => posting[c]

LEMMA EntryOfIssued ==
  ASSUME InvoiceInv, NEW i \in invoices
  PROVE  [key |-> i.key, postings |-> EntryOf(i)] = EntryFor(i.period, i.charged)
PROOF
  <1>1. i = Issued(i.period, i.charged)
    BY DEF InvoiceInv
  <1>2. i.key = TransactionKey(i.period)
    BY <1>1 DEF Issued
  <1> QED
    BY <1>2 DEF EntryOf, EntryFor

\* An open period's key is not taken.
LEMMA KeyIsFree ==
  ASSUME KeysDiffer, InvoiceInv, EntryBehindInvoice,
         NEW p \in Periods, state[p] = "open", NEW x \in ledger
  PROVE  x.key # TransactionKey(p)
PROOF
  <1>1. PICK i \in invoices : x = [key |-> i.key, postings |-> EntryOf(i)]
    BY DEF EntryBehindInvoice
  <1>2. x = EntryFor(i.period, i.charged)
    BY <1>1, EntryOfIssued
  <1>3. x.key = TransactionKey(i.period)
    BY <1>2 DEF EntryFor
  <1>4. i.period \in Periods /\ i.period # p
    BY DEF InvoiceInv
  <1> QED
    BY <1>3, <1>4 DEF KeysDiffer

LEMMA WillPostStep ==
  ASSUME KeysDiffer, IInv, EntryBehindInvoice, WillPost, NEW c \in Closers, Step(c)
  PROVE  WillPost'
PROOF
  <1> USE DEF IInv
  <1>1. Others(c)
    BY StepIsLocal
  <1>2. ASSUME NEW d \in Closers, d # c, pc'[d] \in {"mark", "commit"} PROVE posting'[d]
    BY <1>1, <1>2 DEF Others, WillPost
  <1>3. ASSUME pc'[c] \in {"mark", "commit"} PROVE posting'[c]
    <2> USE DEF CallType, PC
    <2>1. CASE Post(c)
      <3>1. pc[c] = "post" /\ CallInv(c) /\ period[c] \in Periods
        BY <2>1, ConstantsAssumption, Zenon DEF Post
      <3>2. state[period[c]] = "open"
        BY <3>1 DEF CallInv, Inside
      <3>3. \A x \in ledger : x.key # TransactionKey(period[c])
        BY <3>1, <3>2, KeyIsFree
      <3> QED
        BY <2>1, <3>3 DEF Post
    <2>2. CASE MarkBilled(c)
      <3>1. posting'[c] = posting[c] /\ pc[c] = "mark"
        BY <2>2 DEF MarkBilled
      <3> QED
        BY <3>1 DEF WillPost
    <2>3. CASE End(c)
      BY <1>3, <2>3 DEF End
    <2>4. ASSUME NEW p \in Serves[c], Call(c, p) PROVE FALSE
      BY <1>3, <2>4, Zenon DEF Call
    <2>5. CASE LockOpen(c) \/ Gather(c) \/ EnsureReceivable(c) \/ EnsureRevenue(c) \/ EntryBuilt(c)
      BY <1>3, <2>5, Zenon DEF LockOpen, Gather, EnsureReceivable, EnsureRevenue, EntryBuilt
    <2> HIDE DEF CallType, PC, IInv
    <2> QED
      BY <2>1, <2>2, <2>3, <2>4, <2>5, Zenon
      DEF Step, Proceed, Rollback, LockClosed, GatherFails, NothingCharged, Commit
  <1> QED
    BY <1>2, <1>3 DEF WillPost

LEMMA EntryCommit ==
  ASSUME KeysDiffer, IInv, EntryBehindInvoice, WillPost, NEW c \in Closers, Commit(c)
  PROVE  EntryBehindInvoice'
PROOF
  <1> DEFINE issued == Issued(period[c], gathered[c])
             entry == EntryFor(period[c], gathered[c])
  <1>1. /\ pc[c] = "commit" /\ period[c] \in Periods /\ state[period[c]] = "open"
        /\ invoices' = invoices \cup {issued}
    BY CommitEffect
  <1>2. ledger' = ledger \cup {entry}
    BY <1>1 DEF Commit, WillPost, EntryFor, Lines, Tenant
  <1>3. [key |-> issued.key, postings |-> EntryOf(issued)] = entry /\ entry.key = TransactionKey(period[c])
    BY Zenon DEF Issued, EntryOf, EntryFor
  <1>4. \A x \in ledger : x.key # TransactionKey(period[c])
    BY <1>1, KeyIsFree DEF IInv
  <1> HIDE DEF issued, entry
  <1>5. \A i \in invoices' : [key |-> i.key, postings |-> EntryOf(i)] \in ledger'
    BY <1>1, <1>2, <1>3 DEF EntryBehindInvoice
  <1>6. \A x \in ledger' : \E i \in invoices' : x = [key |-> i.key, postings |-> EntryOf(i)]
    BY <1>1, <1>2, <1>3 DEF EntryBehindInvoice
  <1>7. \A x, y \in ledger' : x.key = y.key => x = y
    BY <1>2, <1>3, <1>4 DEF EntryBehindInvoice
  <1> QED
    BY <1>5, <1>6, <1>7 DEF EntryBehindInvoice, EntryOf

(***************************************************************************)
(* I1: when keys tell periods apart, every invoice has its own entry,      *)
(* every entry its invoice, and the entry is what the invoice charged:     *)
(* PostTx never finds the key of an open period taken.                     *)
(***************************************************************************)
THEOREM EntriesMatch == ASSUME KeysDiffer PROVE Spec => []EntryBehindInvoice
PROOF
  <1>1. Init => EntryBehindInvoice /\ WillPost
    BY DEF Init, EntryBehindInvoice, WillPost
  <1>2. ASSUME IInv, EntryBehindInvoice, WillPost, [Next]_vars
        PROVE  EntryBehindInvoice' /\ WillPost'
    <2>1. UNCHANGED <<invoices, ledger>> => EntryBehindInvoice'
      BY <1>2 DEF EntryBehindInvoice, EntryOf
    <2>2. ASSUME NEW c \in Closers, Step(c) PROVE EntryBehindInvoice' /\ WillPost'
      <3>1. WillPost'
        BY <1>2, <2>2, WillPostStep
      <3>2. CASE Commit(c)
        BY <1>2, <3>1, <3>2, EntryCommit
      <3>3. CASE ~ Commit(c)
        BY <1>2, <2>1, <2>2, <3>1, <3>3, CallInvOwn DEF IInv, dbVars
      <3> QED
        BY <3>2, <3>3
    <2>3. CASE UNCHANGED <<pc, posting, invoices, ledger>>
      BY <1>2, <2>1, <2>3 DEF WillPost
    <2>4. ASSUME NEW p \in Periods, EnsurePeriod(p)
          PROVE  UNCHANGED <<pc, posting, invoices, ledger>>
      BY <2>4 DEF EnsurePeriod, callVars
    <2>5. ASSUME NEW S \in SUBSET (Events \ stored), StoreBatch(S)
          PROVE  UNCHANGED <<pc, posting, invoices, ledger>>
      BY <2>5 DEF StoreBatch, callVars
    <2>6. UNCHANGED vars => UNCHANGED <<pc, posting, invoices, ledger>>
      BY DEF vars, dbVars, callVars
    <2> QED
      BY <1>2, <2>2, <2>3, <2>4, <2>5, <2>6 DEF Next, Step
  <1> QED
    BY <1>1, <1>2, Invariant, PTL DEF Spec

-----------------------------------------------------------------------------
(* Answers. *)

\* Storing what was stored changes nothing more.
LEMMA PersistedTwice ==
  ASSUME NEW p, NEW S
  PROVE  Persisted(Persisted(LineItems(p, S))) = Persisted(LineItems(p, S))
  BY DEF Persisted, LineItems

\* Every answer was read off an invoice.
AnswersFromInvoices ==
  \A a \in answers : \E i \in invoices :
    a.period = i.period /\ a.total = i.total /\ Persisted(a.lines) = i.lines

LEMMA AnswersStep ==
  ASSUME IInv, AnswersFromInvoices, [Next]_vars
  PROVE  AnswersFromInvoices'
PROOF
  <1>0. invoices \subseteq invoices'
    BY Zenon DEF Next, vars, dbVars, EnsurePeriod, StoreBatch, Proceed, Rollback, Call, LockOpen,
           LockClosed, Gather, GatherFails, EnsureReceivable, EnsureRevenue, NothingCharged,
           EntryBuilt, Post, MarkBilled, Commit
  <1>1. CASE answers' = answers
    BY <1>0, <1>1 DEF AnswersFromInvoices
  <1>2. ASSUME NEW c \in Closers, LockClosed(c) PROVE AnswersFromInvoices'
    <2>1. PICK i \in invoices :
            answers' = answers \cup {[period |-> i.period, total |-> i.total, lines |-> i.lines]}
      BY <1>2 DEF LockClosed
    <2>2. i = Issued(i.period, i.charged)
      BY DEF IInv, InvoiceInv
    <2>3. i.lines = Persisted(LineItems(i.period, i.charged))
      BY <2>2 DEF Issued
    <2>4. Persisted(i.lines) = i.lines
      BY <2>3, PersistedTwice
    <2> QED
      BY <1>0, <2>1, <2>4 DEF AnswersFromInvoices
  <1>3. ASSUME NEW c \in Closers, Commit(c) PROVE AnswersFromInvoices'
    <2>1. \/ answers' = answers
          \/ answers' = answers \cup {[period |-> period[c], total |-> Total(Lines(c)), lines |-> Lines(c)]}
      BY <1>3 DEF Commit
    <2>2. Invoice(c) \in invoices'
      BY <1>3 DEF Commit
    <2>3. /\ Invoice(c).period = period[c] /\ Invoice(c).total = Total(Lines(c))
          /\ Invoice(c).lines = Persisted(Lines(c))
      BY DEF Invoice
    <2> QED
      BY <1>0, <1>1, <2>1, <2>2, <2>3, SMTT(30) DEF AnswersFromInvoices
  <1> QED
    BY <1>1, <1>2, <1>3, Zenon DEF Next, vars, EnsurePeriod, StoreBatch, Proceed, Rollback, Call,
       LockOpen, Gather, GatherFails, EnsureReceivable, EnsureRevenue, NothingCharged,
       EntryBuilt, Post, MarkBilled

(***************************************************************************)
(* Whoever closes a period, and however often, is told the same amounts.   *)
(***************************************************************************)
THEOREM AmountsRepeat == Spec => []SameAmounts
PROOF
  <1>1. Init => AnswersFromInvoices
    BY DEF Init, AnswersFromInvoices
  <1>2. IInv /\ AnswersFromInvoices => SameAmounts
    BY DEF IInv, InvoiceInv, AnswersFromInvoices, SameAmounts
  <1> QED
    BY <1>1, <1>2, AnswersStep, Invariant, PTL DEF Spec

=============================================================================
