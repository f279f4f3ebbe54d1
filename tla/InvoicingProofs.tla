--------------------------- MODULE InvoicingProofs --------------------------
(***************************************************************************)
(* Close, proved for any number of billing runs, periods and events.       *)
(*                                                                         *)
(* The argument is about locks.  A Close holds its period's row from the   *)
(* moment it found the period open, and the tenant's receivable account    *)
(* from before it posts until it ends.  So no two of them are inside one   *)
(* period, and no two stamp the events of one tenant at the same time.     *)
(***************************************************************************)
EXTENDS Invoicing, FiniteSetTheorems, TLAPS

\* Past the period's lock, past the query that gathers, past the account's lock.
Inside   == {"gather", "account", "revenue", "post", "mark", "commit"}
Gathered == {"account", "revenue", "post", "mark", "commit"}
Posting  == {"revenue", "post", "mark", "commit"}

\* Usage Close may bill: of this tenant and from before the period's end.
Billable(p, S) ==
  \A e \in S : /\ e \in stored
               /\ EventRow[e].tenant = PeriodRow[p].tenant
               /\ EventRow[e].at < PeriodRow[p].end

DbType ==
  /\ state \in [Periods -> {"absent", "open", "closed"}]
  /\ stored \subseteq Events
  /\ billedOn \in [Events -> Periods \cup {None}]

CallType ==
  /\ pc \in [Closers -> PC]
  /\ period \in [Closers -> Periods \cup {None}]
  /\ gathered \in [Closers -> SUBSET Events]
  /\ todo = [c \in Closers |-> todo[c]]
  /\ \A c \in Closers : todo[c] \subseteq MetersOf(gathered[c])
  /\ \A c \in Closers : pc[c] \in {"idle", "lock", "gather"} => todo[c] = {}
  /\ posting \in [Closers -> BOOLEAN]
  /\ marked \in [Closers -> SUBSET Events]
  /\ held = [c \in Closers |-> held[c]]
  /\ \A c \in Closers : pc[c] # "idle" => period[c] \in Serves[c]

\* What a call of Close holds and knows, at each place of its text.
CallInv(c) ==
  /\ pc[c] \in Inside => /\ <<"period", period[c]>> \in held[c]
                         /\ state[period[c]] = "open"
  /\ pc[c] \in Posting => ReceivableAccount(Tenant(c)) \in held[c]
  /\ pc[c] \in Gathered => Billable(period[c], gathered[c])
  /\ pc[c] = "commit" => /\ Billable(period[c], marked[c])
                         /\ \A e \in marked[c] : billedOn[e] = None
                         /\ \A e \in gathered[c] \ marked[c] : billedOn[e] # None

\* The invoice of period p that charges S.
Issued(p, S) ==
  [period |-> p, total |-> Total(LineItems(p, S)), lines |-> Persisted(LineItems(p, S)),
   key |-> TransactionKey(p), charged |-> S]

InvoiceInv ==
  /\ \A i \in invoices : /\ i.period \in Periods /\ i.charged \subseteq stored
                         /\ i = Issued(i.period, i.charged)
                         /\ state[i.period] = "closed"
  /\ \A i, j \in invoices : i.period = j.period => i = j
  /\ \A p \in Periods : state[p] = "closed" => \E i \in invoices : i.period = p

Disjoint == \A c, d \in Closers : c # d => held[c] \cap held[d] = {}

IInv ==
  /\ DbType /\ CallType /\ Disjoint /\ InvoiceInv /\ ChargedIsMarked
  /\ \A c \in Closers : CallInv(c)

\* The variables of every other call are left alone.
Others(c) ==
  \A d \in Closers \ {c} :
    /\ pc'[d] = pc[d] /\ period'[d] = period[d] /\ gathered'[d] = gathered[d]
    /\ todo'[d] = todo[d] /\ posting'[d] = posting[d] /\ marked'[d] = marked[d]
    /\ held'[d] = held[d]

\* What one call of Close may do.
Step(c) == Proceed(c) \/ Rollback(c) \/ \E p \in Serves[c] : Call(c, p)

-----------------------------------------------------------------------------
(* Locks. *)

\* No two calls are inside one period, or posting for one tenant.
LEMMA Apart ==
  ASSUME Disjoint, \A x \in Closers : CallInv(x), NEW c \in Closers, NEW d \in Closers, c # d
  PROVE  /\ pc[c] \in Inside /\ pc[d] \in Inside => period[c] # period[d]
         /\ pc[c] \in Posting /\ pc[d] \in Posting => Tenant(c) # Tenant(d)
PROOF
  <1>1. held[c] \cap held[d] = {}
    BY DEF Disjoint
  <1> QED
    BY <1>1, Zenon DEF CallInv, Tenant

\* A step of one call leaves the others' variables alone.
LEMMA StepIsLocal ==
  ASSUME CallType, NEW c \in Closers, Step(c)
  PROVE  Others(c)
PROOF
  <1> USE DEF CallType, Others
  <1>1. CASE End(c)
    BY <1>1 DEF End
  <1>2. ASSUME NEW p \in Serves[c], Call(c, p) PROVE Others(c)
    BY <1>2 DEF Call
  <1>3. CASE LockOpen(c)
    BY <1>3 DEF LockOpen, Lock
  <1>4. CASE Gather(c)
    BY <1>4 DEF Gather
  <1>5. CASE EnsureReceivable(c)
    BY <1>5 DEF EnsureReceivable, Lock
  <1>6. CASE EnsureRevenue(c)
    BY <1>6 DEF EnsureRevenue, Lock
  <1>7. CASE EntryBuilt(c)
    BY <1>7 DEF EntryBuilt
  <1>8. CASE Post(c)
    BY <1>8 DEF Post, Lock
  <1>9. CASE MarkBilled(c)
    BY <1>9 DEF MarkBilled
  <1> HIDE DEF Others, CallType
  <1> QED
    BY <1>1, <1>2, <1>3, <1>4, <1>5, <1>6, <1>7, <1>8, <1>9
    DEF Step, Proceed, Rollback, LockClosed, GatherFails, NothingCharged, Commit

\* The types of a call's variables.
LEMMA CallTypeStep ==
  ASSUME CallType, DbType, NEW c \in Closers, Step(c)
  PROVE  CallType'
PROOF
  <1> USE DEF CallType, PC
  <1>0. Serves \in [Closers -> SUBSET Periods]
    BY ConstantsAssumption
  <1>1. CASE End(c)
    BY <1>1, Zenon DEF End
  <1>2. ASSUME NEW p \in Serves[c], Call(c, p) PROVE CallType'
    BY <1>0, <1>2 DEF Call
  <1>3. CASE LockOpen(c)
    BY <1>3, Zenon DEF LockOpen, Lock
  <1>4. CASE Gather(c)
    <2>1. Unbilled(period[c]) \in SUBSET Events
      BY DEF Unbilled, DbType
    <2>2. todo[c] = {}
      BY <1>4 DEF Gather
    <2> QED
      BY <1>4, <2>1, <2>2 DEF Gather
  <1>5. CASE EnsureReceivable(c)
    <2>1. {l.meter : l \in Charged(Lines(c))} \subseteq MetersOf(gathered[c])
      BY DEF Charged, Lines, LineItems
    <2> QED
      BY <1>5, <2>1, Zenon DEF EnsureReceivable, Lock
  <1>6. CASE EnsureRevenue(c)
    BY <1>6, Zenon DEF EnsureRevenue, Lock
  <1>7. CASE EntryBuilt(c)
    BY <1>7 DEF EntryBuilt
  <1>8. CASE Post(c)
    BY <1>8, Zenon DEF Post, Lock
  <1>9. CASE MarkBilled(c)
    <2>1. Unbilled(period[c]) \in SUBSET Events
      BY Zenon DEF Unbilled, DbType
    <2> QED
      BY <1>9, <2>1 DEF MarkBilled
  <1> HIDE DEF CallType, PC
  <1> QED
    BY <1>1, <1>2, <1>3, <1>4, <1>5, <1>6, <1>7, <1>8, <1>9
    DEF Step, Proceed, Rollback, LockClosed, GatherFails, NothingCharged, Commit

\* Two calls never hold the same row.
LEMMA DisjointStep ==
  ASSUME CallType, Disjoint, NEW c \in Closers, Step(c)
  PROVE  Disjoint'
PROOF
  <1>1. Others(c)
    BY StepIsLocal
  <1>2. CASE held'[c] \subseteq held[c]
    BY <1>1, <1>2 DEF Disjoint, Others
  <1>3. CASE Lock(c)
    <2>1. held'[c] = held[c] \cup Needs(c)
      BY <1>3 DEF Lock, CallType
    <2>2. \A d \in Closers : d # c => Needs(c) \cap held[d] = {}
      BY <1>3 DEF Lock, WaitsFor
    <2> QED
      BY <1>1, <2>1, <2>2 DEF Disjoint, Others
  <1>4. CASE End(c)
    BY <1>2, <1>4 DEF End, CallType
  <1> QED
    BY <1>2, <1>3, <1>4
    DEF Step, Proceed, Rollback, LockOpen, LockClosed, Gather, GatherFails, EnsureReceivable,
        EnsureRevenue, NothingCharged, EntryBuilt, Post, MarkBilled, Commit, Call

-----------------------------------------------------------------------------
(* What a call holds and knows. *)

\* A step of another call, the consumer or EnsurePeriod does not take it away.
LEMMA CallInvKept ==
  ASSUME NEW d \in Closers, CallInv(d),
         pc'[d] = pc[d], period'[d] = period[d], gathered'[d] = gathered[d],
         marked'[d] = marked[d], held'[d] = held[d],
         stored \subseteq stored',
         pc[d] \in Inside => state'[period[d]] = state[period[d]],
         \A e \in Events : billedOn[e] # None => billedOn'[e] # None,
         pc[d] = "commit" => \A e \in marked[d] : billedOn'[e] = billedOn[e],
         gathered[d] \subseteq Events
  PROVE  CallInv(d)'
  BY ZenonT(60) DEF CallInv, Billable, Tenant

\* A step of the call itself, other than the commit.
LEMMA CallInvOwn ==
  ASSUME DbType, CallType, Disjoint, NEW c \in Closers, CallInv(c), Step(c), ~ Commit(c)
  PROVE  CallInv(c)' /\ UNCHANGED dbVars
PROOF
  <1> USE DEF CallType, PC, Inside, Gathered, Posting, dbVars
  <1>1. CASE End(c) /\ UNCHANGED dbVars
    BY <1>1 DEF End, CallInv
  <1>2. ASSUME NEW p \in Serves[c], Call(c, p) PROVE CallInv(c)' /\ UNCHANGED dbVars
    BY <1>2 DEF Call, CallInv
  <1>3. CASE LockOpen(c)
    <2>1. Needs(c) = {<<"period", period[c]>>}
      BY <1>3 DEF LockOpen, Needs
    <2> QED
      BY <1>3, <2>1 DEF LockOpen, Lock, CallInv
  <1>4. CASE Gather(c)
    <2>1. Billable(period[c], Unbilled(period[c]))
      BY DEF Billable, Unbilled
    <2> QED
      BY <1>4, <2>1 DEF Gather, CallInv, Billable
  <1>5. CASE EnsureReceivable(c)
    <2>1. Needs(c) = {ReceivableAccount(Tenant(c))}
      BY <1>5 DEF EnsureReceivable, Needs
    <2> QED
      BY <1>5, <2>1 DEF EnsureReceivable, Lock, CallInv, Tenant, Billable
  <1>6. CASE EnsureRevenue(c)
    BY <1>6 DEF EnsureRevenue, Lock, CallInv, Tenant, Billable
  <1>7. CASE EntryBuilt(c)
    BY <1>7 DEF EntryBuilt, CallInv, Tenant, Billable
  <1>8. CASE Post(c)
    BY <1>8 DEF Post, Lock, CallInv, Tenant, Billable
  <1>9. CASE MarkBilled(c)
    <2>1. /\ Billable(period[c], Unbilled(period[c]))
          /\ \A e \in Unbilled(period[c]) : billedOn[e] = None
          /\ \A e \in gathered[c] \ Unbilled(period[c]) : billedOn[e] # None
      BY <1>9 DEF Billable, Unbilled, MarkBilled, CallInv
    <2> QED
      BY <1>9, <2>1 DEF MarkBilled, CallInv, Tenant, Billable
  <1> HIDE DEF CallType, PC, Inside, Gathered, Posting, dbVars
  <1> QED
    BY <1>1, <1>2, <1>3, <1>4, <1>5, <1>6, <1>7, <1>8, <1>9
    DEF Step, Proceed, Rollback, LockClosed, GatherFails, NothingCharged

-----------------------------------------------------------------------------
(* The invariant, step by step. *)

LEMMA InvInit == Init => IInv
PROOF
  <1> SUFFICES ASSUME Init PROVE IInv
    OBVIOUS
  <1>1. DbType /\ CallType
    BY DEF Init, DbType, CallType, PC
  <1>2. Disjoint /\ InvoiceInv /\ ChargedIsMarked
    BY DEF Init, Disjoint, InvoiceInv, ChargedIsMarked
  <1>3. \A c \in Closers : CallInv(c)
    BY DEF Init, CallInv, Inside, Gathered, Posting
  <1> QED
    BY <1>1, <1>2, <1>3 DEF IInv

\* A step of a call that commits nothing.
LEMMA InvUncommitted ==
  ASSUME IInv, NEW c \in Closers, Step(c), ~ Commit(c)
  PROVE  IInv'
PROOF
  <1> USE DEF IInv
  <1>1. CallInv(c)' /\ UNCHANGED dbVars
    BY CallInvOwn
  <1>2. CallType' /\ Disjoint' /\ Others(c)
    BY CallTypeStep, DisjointStep, StepIsLocal
  <1>3. ASSUME NEW d \in Closers \ {c} PROVE CallInv(d)'
    <2>1. CallInv(d) /\ gathered[d] \subseteq Events
      BY DEF CallType
    <2> QED
      BY <1>1, <1>2, <2>1, CallInvKept DEF Others, dbVars
  <1>4. DbType' /\ InvoiceInv' /\ ChargedIsMarked'
    BY <1>1 DEF DbType, InvoiceInv, ChargedIsMarked, dbVars, Issued
  <1> QED
    BY <1>1, <1>2, <1>3, <1>4

\* EnsurePeriod opens a period no call has seen.
LEMMA InvEnsurePeriod ==
  ASSUME IInv, NEW p \in Periods, EnsurePeriod(p)
  PROVE  IInv'
PROOF
  <1> USE DEF IInv
  <1>1. /\ state[p] = "absent" /\ state' = [state EXCEPT ![p] = "open"]
        /\ UNCHANGED <<stored, billedOn, invoices, ledger, callVars, answers>>
    BY DEF EnsurePeriod
  <1>2. DbType' /\ CallType' /\ Disjoint' /\ ChargedIsMarked'
    BY <1>1 DEF DbType, CallType, Disjoint, ChargedIsMarked, callVars
  <1>3. InvoiceInv'
    BY <1>1 DEF InvoiceInv, DbType, Issued
  <1>4. ASSUME NEW d \in Closers PROVE CallInv(d)'
    <2>1. CallInv(d) /\ gathered[d] \subseteq Events
      BY DEF CallType
    <2>2. pc[d] \in Inside => state'[period[d]] = state[period[d]]
      BY <1>1, <2>1 DEF CallInv, DbType
    <2> QED
      BY <1>1, <2>1, <2>2, CallInvKept DEF callVars
  <1> QED
    BY <1>2, <1>3, <1>4

\* The consumer adds events.
LEMMA InvStoreBatch ==
  ASSUME IInv, NEW S \in SUBSET (Events \ stored), StoreBatch(S)
  PROVE  IInv'
PROOF
  <1> USE DEF IInv
  <1>1. /\ stored' = stored \cup S
        /\ UNCHANGED <<state, billedOn, invoices, ledger, callVars, answers>>
    BY DEF StoreBatch
  <1>2. DbType' /\ CallType' /\ Disjoint' /\ ChargedIsMarked'
    BY <1>1 DEF DbType, CallType, Disjoint, ChargedIsMarked, callVars
  <1>3. InvoiceInv'
    BY <1>1 DEF InvoiceInv, Issued
  <1>4. ASSUME NEW d \in Closers PROVE CallInv(d)'
    <2>1. CallInv(d) /\ gathered[d] \subseteq Events
      BY Zenon DEF CallType
    <2> QED
      BY <1>1, <2>1, CallInvKept DEF callVars
  <1> QED
    BY <1>2, <1>3, <1>4

\* The fields of an invoice the proofs speak of.
LEMMA IssuedFields ==
  ASSUME NEW p, NEW S
  PROVE  Issued(p, S).period = p /\ Issued(p, S).charged = S
  BY DEF Issued

\* What the commit of one Close does to the tables.
LEMMA CommitEffect ==
  ASSUME IInv, NEW c \in Closers, Commit(c)
  PROVE  /\ pc[c] = "commit" /\ period[c] \in Periods /\ state[period[c]] = "open"
         /\ state' = [state EXCEPT ![period[c]] = "closed"]
         /\ invoices' = invoices \cup {Issued(period[c], gathered[c])}
         /\ \A i \in invoices : i.period # period[c]
         /\ \A e \in Events : billedOn'[e] = IF e \in marked[c] THEN period[c] ELSE billedOn[e]
         /\ \A e \in Events : billedOn[e] # None => billedOn'[e] = billedOn[e]
         /\ gathered[c] \subseteq stored /\ stored' = stored
         /\ End(c)
PROOF
  <1> USE DEF IInv
  <1>1. pc[c] = "commit" /\ period[c] \in Periods
    BY ConstantsAssumption DEF Commit, CallType
  <1>2. CallInv(c)
    OBVIOUS
  <1>3. /\ state[period[c]] = "open" /\ gathered[c] \subseteq stored
        /\ \A e \in marked[c] : billedOn[e] = None
    BY <1>1, <1>2 DEF CallInv, Inside, Gathered, Billable
  <1>4. Invoice(c) = Issued(period[c], gathered[c])
    BY DEF Invoice, Issued, Lines
  <1>5. \A i \in invoices : i.period # period[c]
    BY <1>3 DEF InvoiceInv
  <1> QED
    BY <1>1, <1>3, <1>4, <1>5 DEF Commit

LEMMA InvCommit ==
  ASSUME IInv, NEW c \in Closers, Commit(c)
  PROVE  IInv'
PROOF
  <1> USE DEF IInv
  <1>0. Step(c)
    BY DEF Step, Proceed
  <1>1. CallType' /\ Disjoint' /\ Others(c)
    BY <1>0, CallTypeStep, DisjointStep, StepIsLocal
  <1>2. /\ pc[c] = "commit" /\ period[c] \in Periods /\ state[period[c]] = "open"
        /\ state' = [state EXCEPT ![period[c]] = "closed"]
        /\ invoices' = invoices \cup {Issued(period[c], gathered[c])}
        /\ \A i \in invoices : i.period # period[c]
        /\ \A e \in Events : billedOn'[e] = IF e \in marked[c] THEN period[c] ELSE billedOn[e]
        /\ \A e \in Events : billedOn[e] # None => billedOn'[e] = billedOn[e]
        /\ gathered[c] \subseteq stored /\ stored' = stored
        /\ End(c)
    BY CommitEffect
  <1>3. DbType'
    BY <1>2 DEF DbType, Commit
  <1>4. InvoiceInv'
    <2>1. \A i \in invoices' :
            \/ i \in invoices
            \/ i = Issued(period[c], gathered[c]) /\ i.period = period[c] /\ i.charged = gathered[c]
      <3>1. invoices' = invoices \cup {Issued(period[c], gathered[c])}
        BY <1>2, Zenon
      <3> QED
        BY ONLY <3>1, IssuedFields, SMTT(30)
    <2>2. \A i \in invoices' : /\ i.period \in Periods /\ i.charged \subseteq stored'
                               /\ i = Issued(i.period, i.charged)
                               /\ state'[i.period] = "closed"
      BY <1>2, <2>1 DEF InvoiceInv, DbType
    <2>3. \A i, j \in invoices' : i.period = j.period => i = j
      BY <1>2, <2>1 DEF InvoiceInv
    <2>4. ASSUME NEW p \in Periods, state'[p] = "closed" PROVE \E i \in invoices' : i.period = p
      <3>1. CASE p = period[c]
        <4>1. Issued(period[c], gathered[c]).period = p
          BY <3>1 DEF Issued
        <4> QED
          BY <1>2, <4>1
      <3>2. CASE p # period[c]
        <4>1. state[p] = "closed"
          BY <1>2, <2>4, <3>2 DEF DbType
        <4>2. PICK i \in invoices : i.period = p
          BY <4>1 DEF InvoiceInv
        <4> QED
          BY <1>2, <4>2
      <3> QED
        BY <3>1, <3>2
    <2> QED
      BY <2>2, <2>3, <2>4 DEF InvoiceInv, Issued
  <1>5. ChargedIsMarked'
    <2>1. \A e \in gathered[c] : e \in Events /\ billedOn'[e] # None
      <3>1. CallInv(c) /\ gathered[c] \subseteq Events
        BY Zenon DEF CallType
      <3>2. period[c] # None
        BY <1>2, ConstantsAssumption, Zenon
      <3> QED
        BY <1>2, <3>1, <3>2 DEF CallInv
    <2>2. \A i \in invoices : \A e \in i.charged : e \in Events /\ billedOn[e] # None
      BY DEF ChargedIsMarked, InvoiceInv, DbType
    <2>3. \A i \in invoices' : i \in invoices \/ i.charged = gathered[c]
      <3>1. invoices' = invoices \cup {Issued(period[c], gathered[c])}
        BY <1>2, Zenon
      <3> QED
        BY ONLY <3>1, IssuedFields, SMTT(30)
    <2>4. \A e \in Events : billedOn[e] # None => billedOn'[e] # None
      BY <1>2, Zenon
    <2> QED
      BY <2>1, <2>2, <2>3, <2>4, Zenon DEF ChargedIsMarked
  <1>6. ASSUME NEW d \in Closers PROVE CallInv(d)'
    <2>1. CASE d = c
      BY <1>2, <2>1, Zenon DEF End, CallInv, CallType, Inside, Gathered, Posting
    <2>2. CASE d # c
      <3>1. CallInv(d) /\ CallInv(c) /\ gathered[d] \subseteq Events /\ marked[d] \subseteq Events
        BY DEF CallType
      <3>2. pc[d] \in Inside => period[d] # period[c] /\ period[d] \in Periods
        BY <1>2, <2>2, Apart, ConstantsAssumption, Zenon DEF Inside, CallType
      <3>3. pc[d] = "commit" => \A e \in marked[d] : billedOn'[e] = billedOn[e]
        <4>1. pc[d] = "commit" => Tenant(d) # Tenant(c)
          BY <1>2, <2>2, Apart, Zenon DEF Posting
        <4> QED
          BY <1>2, <3>1, <4>1, Zenon DEF CallInv, Billable, Tenant
      <3>4. pc[d] \in Inside => state'[period[d]] = state[period[d]]
        BY <1>2, <3>2 DEF DbType
      <3>5. /\ pc'[d] = pc[d] /\ period'[d] = period[d] /\ gathered'[d] = gathered[d]
            /\ marked'[d] = marked[d] /\ held'[d] = held[d]
        BY <1>1, <2>2 DEF Others
      <3> QED
        BY <1>2, <3>1, <3>3, <3>4, <3>5, CallInvKept
    <2> QED
      BY <2>1, <2>2
  <1> QED
    BY <1>1, <1>3, <1>4, <1>5, <1>6

LEMMA InvNext == IInv /\ [Next]_vars => IInv'
PROOF
  <1> SUFFICES ASSUME IInv, [Next]_vars PROVE IInv'
    OBVIOUS
  <1>1. CASE UNCHANGED vars
    <2>1. DbType' /\ CallType' /\ Disjoint' /\ InvoiceInv' /\ ChargedIsMarked'
      BY <1>1, Zenon DEF IInv, DbType, CallType, Disjoint, InvoiceInv, ChargedIsMarked, Issued,
                  vars, dbVars, callVars
    <2>2. \A c \in Closers : CallInv(c)'
      BY <1>1, Zenon DEF IInv, CallInv, Billable, Tenant, vars, dbVars, callVars
    <2> QED
      BY <2>1, <2>2 DEF IInv
  <1>2. CASE Next
    <2>1. ASSUME NEW p \in Periods, EnsurePeriod(p) PROVE IInv'
      BY <2>1, InvEnsurePeriod
    <2>2. ASSUME NEW S \in SUBSET (Events \ stored), StoreBatch(S) PROVE IInv'
      BY <2>2, InvStoreBatch
    <2>3. ASSUME NEW c \in Closers, Step(c) PROVE IInv'
      BY <2>3, InvUncommitted, InvCommit
    <2> QED
      BY <1>2, <2>1, <2>2, <2>3 DEF Next, Step
  <1> QED
    BY <1>1, <1>2

LEMMA Invariant == Spec => []IInv
  BY InvInit, InvNext, PTL DEF Spec

-----------------------------------------------------------------------------
(* What follows. *)

(***************************************************************************)
(* Rows and calls have their types, whichever runs close whichever         *)
(* periods, and whatever fails.                                            *)
(***************************************************************************)
THEOREM TypeCorrect == Spec => []TypeOK
PROOF
  <1>1. IInv => TypeOK
    BY DEF IInv, DbType, CallType, InvoiceInv, TypeOK
  <1> QED
    BY <1>1, Invariant, PTL

(***************************************************************************)
(* A period is closed exactly when it has its one invoice: Close commits   *)
(* both or neither, and the period's row lets in one Close.                *)
(***************************************************************************)
THEOREM ClosedIsInvoiced == Spec => []ClosedMeansInvoiced
PROOF
  <1>1. ASSUME IInv PROVE ClosedMeansInvoiced
    <2> SUFFICES ASSUME NEW p \in Periods
                 PROVE  Cardinality({i \in invoices : i.period = p}) =
                          IF state[p] = "closed" THEN 1 ELSE 0
      BY DEF ClosedMeansInvoiced
    <2>1. CASE state[p] = "closed"
      <3>1. PICK i \in invoices : i.period = p
        BY <1>1, <2>1 DEF IInv, InvoiceInv
      <3>2. {j \in invoices : j.period = p} = {i}
        BY <1>1, <3>1 DEF IInv, InvoiceInv
      <3>3. Cardinality({i}) = 1
        BY FS_Singleton, Zenon
      <3> QED
        BY <2>1, <3>2, <3>3
    <2>2. CASE state[p] # "closed"
      <3>1. {j \in invoices : j.period = p} = {}
        BY <1>1, <2>2 DEF IInv, InvoiceInv
      <3> QED
        BY <2>2, <3>1, FS_EmptySet
    <2> QED
      BY <2>1, <2>2
  <1> QED
    BY <1>1, Invariant, PTL

(***************************************************************************)
(* What an invoice charged is stamped: the usage gathered is stamped by    *)
(* this Close, or was by one that committed in between.                    *)
(***************************************************************************)
THEOREM ChargesAreMarked == Spec => []ChargedIsMarked
PROOF
  <1>1. IInv => ChargedIsMarked
    BY DEF IInv
  <1> QED
    BY <1>1, Invariant, PTL

(***************************************************************************)
(* No step changes an issued invoice or moves a stamp: the receivable's    *)
(* lock keeps two Closes of one tenant from stamping at the same time.     *)
(***************************************************************************)
THEOREM IssuedStays == Spec => IssuedIsFinal
PROOF
  <1> DEFINE Final == /\ invoices \subseteq invoices'
                      /\ \A e \in Events : billedOn[e] # None => billedOn'[e] = billedOn[e]
  <1>1. ASSUME IInv, Next PROVE Final
    <2>1. CASE UNCHANGED <<billedOn, invoices>>
      BY <2>1
    <2>2. ASSUME NEW c \in Closers, Step(c), ~ Commit(c) PROVE Final
      <3>1. UNCHANGED dbVars
        BY <1>1, <2>2, CallInvOwn DEF IInv
      <3> QED
        BY <2>1, <3>1 DEF dbVars
    <2>3. ASSUME NEW c \in Closers, Commit(c) PROVE Final
      BY <1>1, <2>3, CommitEffect
    <2>4. ASSUME NEW p \in Periods, EnsurePeriod(p) PROVE Final
      BY <2>1, <2>4 DEF EnsurePeriod
    <2>5. ASSUME NEW S \in SUBSET (Events \ stored), StoreBatch(S) PROVE Final
      BY <2>1, <2>5 DEF StoreBatch
    <2> QED
      BY <1>1, <2>2, <2>3, <2>4, <2>5 DEF Next, Step
  <1>2. IInv /\ [Next]_vars => [Final]_vars
    BY <1>1
  <1> QED
    BY <1>2, Invariant, PTL DEF Spec, IssuedIsFinal
=============================================================================
