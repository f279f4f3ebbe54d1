-------------------------- MODULE LockOrderProofs ---------------------------
(***************************************************************************)
(* Billing runs never deadlock, for any number of them.                    *)
(*                                                                         *)
(* Close takes its locks in one order: the period, the receivable account, *)
(* the revenue accounts as Rate sorts their meters, the transaction key.   *)
(* Whoever waits therefore waits for one that has come further, and one of *)
(* any group has come furthest.                                            *)
(***************************************************************************)
EXTENDS InvoicingProofs, WellFoundedInduction

\* Meters are compared by their place in the order of their names.
MetersOrdered(b) == b \in Nat /\ \A e \in Events : EventRow[e].meter \in 0 .. b

\* The locks a Close may hold, at each place of its text.
Revenues(S) == {RevenueAccount(m) : m \in S}

HeldAtMost(c) ==
  CASE pc[c] \in {"idle", "lock"} -> {}
    [] pc[c] \in {"gather", "account"} -> {<<"period", period[c]>>}
    [] pc[c] = "revenue" ->
         {<<"period", period[c]>>, ReceivableAccount(Tenant(c))}
           \cup Revenues({m \in MetersOf(gathered[c]) : \A n \in todo[c] : m < n})
    [] pc[c] = "post" ->
         {<<"period", period[c]>>, ReceivableAccount(Tenant(c))} \cup Revenues(MetersOf(gathered[c]))
    [] OTHER -> held[c]

LocksInOrder == \A c \in Closers : held[c] \subseteq HeldAtMost(c)

-----------------------------------------------------------------------------
LEMMA LeastNatural ==
  ASSUME NEW T, T \subseteq Nat, T # {}
  PROVE  \E x \in T : \A y \in T : x <= y
PROOF
  <1> DEFINE R == {ss \in Nat \X Nat : ss[1] < ss[2]}
  <1>1. IsWellFoundedOn(R, Nat)
    BY NatLessThanWellFounded DEF OpToRel
  <1> HIDE DEF R
  <1>2. PICK x \in T : \A y \in T : ~ (<<y, x>> \in R)
    BY <1>1, WFMin, Zenon
  <1>3. \A y \in T : ~ (y < x)
    BY <1>2, Zenon DEF R
  <1> QED
    BY <1>3

\* The next meter is the first of those left.
LEMMA NextMeterIsFirst ==
  ASSUME NEW b, MetersOrdered(b), CallType, NEW c \in Closers, todo[c] # {}
  PROVE  NextMeter(c) \in todo[c] /\ \A n \in todo[c] : NextMeter(c) <= n
PROOF
  <1>1. todo[c] \subseteq Nat
    BY DEF CallType, MetersOf, MetersOrdered
  <1>2. \E x \in todo[c] : \A y \in todo[c] : x <= y
    BY <1>1, LeastNatural
  <1> QED
    BY <1>2 DEF NextMeter, Min

\* A step of a call takes its locks in order.
LEMMA LocksInOrderStep ==
  ASSUME NEW b, MetersOrdered(b), IInv, LocksInOrder, NEW c \in Closers, Step(c)
  PROVE  LocksInOrder'
PROOF
  <1>1. Others(c) /\ CallType'
    BY StepIsLocal, CallTypeStep DEF IInv
  <1>2. ASSUME NEW d \in Closers, d # c PROVE held'[d] \subseteq HeldAtMost(d)'
    BY <1>1, <1>2, Zenon DEF Others, LocksInOrder, HeldAtMost, Tenant
  <1>3. held'[c] \subseteq HeldAtMost(c)'
    <2> USE DEF CallType, PC
    <2>0. CallType /\ held[c] \subseteq HeldAtMost(c)
      BY DEF LocksInOrder, IInv
    <2>1. CASE End(c)
      BY <2>0, <2>1 DEF End
    <2>2. ASSUME NEW p \in Serves[c], Call(c, p) PROVE held'[c] \subseteq HeldAtMost(c)'
      BY <2>0, <2>2 DEF Call, HeldAtMost
    <2>3. CASE LockOpen(c)
      <3>1. Needs(c) = {<<"period", period[c]>>}
        BY <2>3 DEF LockOpen, Needs
      <3> QED
        BY <2>0, <2>3, <3>1 DEF LockOpen, Lock, HeldAtMost
    <2>4. CASE Gather(c)
      BY <2>0, <2>4 DEF Gather, HeldAtMost
    <2>5. CASE EnsureReceivable(c)
      <3>1. Needs(c) = {ReceivableAccount(Tenant(c))}
        BY <2>5 DEF EnsureReceivable, Needs
      <3> QED
        BY <2>0, <2>5, <3>1 DEF EnsureReceivable, Lock, HeldAtMost, Tenant
    <2>6. CASE EnsureRevenue(c)
      <3>1. pc[c] = "revenue" /\ todo[c] # {}
        BY <2>6 DEF EnsureRevenue
      <3>2. NextMeter(c) \in todo[c] /\ \A n \in todo[c] : NextMeter(c) <= n
        BY <2>0, <3>1, NextMeterIsFirst
      <3>3. todo[c] \subseteq MetersOf(gathered[c]) /\ MetersOf(gathered[c]) \subseteq Nat
        BY <2>0 DEF MetersOf, MetersOrdered
      <3>4. /\ held'[c] = held[c] \cup {RevenueAccount(NextMeter(c))}
            /\ todo'[c] = todo[c] \ {NextMeter(c)}
            /\ UNCHANGED <<pc, period, gathered>>
        BY <2>0, <2>6, <3>1 DEF EnsureRevenue, Lock, Needs
      <3>5. \A n \in todo'[c] : NextMeter(c) < n
        BY <3>2, <3>3, <3>4
      <3> QED
        BY <2>0, <3>1, <3>2, <3>3, <3>4, <3>5 DEF HeldAtMost, Revenues, Tenant
    <2>7. CASE EntryBuilt(c)
      BY <2>0, <2>7 DEF EntryBuilt, HeldAtMost, Revenues, Tenant
    <2>8. CASE Post(c)
      BY <2>0, <2>8 DEF Post, HeldAtMost
    <2>9. CASE MarkBilled(c)
      BY <2>0, <2>9 DEF MarkBilled, HeldAtMost
    <2> HIDE DEF CallType, PC
    <2> QED
      BY <2>1, <2>2, <2>3, <2>4, <2>5, <2>6, <2>7, <2>8, <2>9
      DEF Step, Proceed, Rollback, LockClosed, GatherFails, NothingCharged, Commit
  <1> QED
    BY <1>2, <1>3 DEF LocksInOrder

-----------------------------------------------------------------------------
\* How far a waiting call has come.
Rank(b, c) ==
  CASE pc[c] = "lock" -> 0
    [] pc[c] = "account" -> 1
    [] pc[c] = "revenue" -> 2 + NextMeter(c)
    [] pc[c] = "post" -> b + 3

\* A call that waits for one that waits itself waits for one that is further.
LEMMA WaitsForFurther ==
  ASSUME NEW b, MetersOrdered(b), IInv, LocksInOrder,
         NEW c \in Closers, NEW d \in Closers, WaitsFor(c, d), Needs(d) # {}
  PROVE  Rank(b, c) \in 0 .. b + 3 /\ Rank(b, d) \in 0 .. b + 3 /\ Rank(b, c) < Rank(b, d)
PROOF
  <1>0. CallType /\ b \in Nat /\ held[d] \subseteq HeldAtMost(d)
    BY DEF IInv, MetersOrdered, LocksInOrder
  <1>1. ASSUME NEW x \in Closers, Needs(x) # {}
        PROVE  /\ pc[x] \in {"lock", "account", "revenue", "post"}
               /\ pc[x] = "revenue" => /\ NextMeter(x) \in 0 .. b /\ NextMeter(x) \in todo[x]
                                       /\ Needs(x) = {RevenueAccount(NextMeter(x))}
               /\ Rank(b, x) \in 0 .. b + 3
    <2>1. /\ pc[x] \in {"lock", "account", "revenue", "post"}
          /\ pc[x] = "revenue" => todo[x] # {} /\ Needs(x) = {RevenueAccount(NextMeter(x))}
      BY <1>1 DEF Needs
    <2>2. pc[x] = "revenue" => NextMeter(x) \in todo[x]
      BY <1>0, <2>1, NextMeterIsFirst
    <2>3. todo[x] \subseteq 0 .. b
      BY <1>0 DEF CallType, MetersOf, MetersOrdered
    <2> QED
      BY <1>0, <2>1, <2>2, <2>3 DEF Rank
  <1>2. PICK l \in Needs(c) : l \in held[d]
    BY DEF WaitsFor
  <1>3. /\ Rank(b, c) \in 0 .. b + 3 /\ Rank(b, d) \in 0 .. b + 3
        /\ pc[c] \in {"lock", "account", "revenue", "post"}
        /\ pc[d] \in {"lock", "account", "revenue", "post"}
    BY <1>1, <1>2
  <1>4. l \in HeldAtMost(d) /\ pc[d] # "lock"
    BY <1>0, <1>2, Zenon DEF HeldAtMost
  <1>5. pc[d] = "revenue" => NextMeter(d) \in 0 .. b /\ NextMeter(d) \in todo[d]
    BY <1>1
  <1>6. CASE pc[c] = "lock"
    BY <1>0, <1>3, <1>4, <1>5, <1>6 DEF Rank
  <1>7. CASE pc[c] = "account"
    <2>1. l = ReceivableAccount(Tenant(c))
      BY <1>2, <1>7 DEF Needs
    <2>2. pc[d] # "account"
      BY <1>4, <2>1 DEF HeldAtMost, ReceivableAccount
    <2> QED
      BY <1>0, <1>3, <1>4, <1>5, <1>7, <2>2 DEF Rank
  <1>8. CASE pc[c] = "revenue"
    <2>1. l = RevenueAccount(NextMeter(c)) /\ NextMeter(c) \in 0 .. b
      BY <1>1, <1>2, <1>8
    <2>2. pc[d] # "account"
      BY <1>4, <2>1 DEF HeldAtMost, RevenueAccount
    <2>3. pc[d] = "revenue" => NextMeter(c) < NextMeter(d)
      BY <1>4, <1>5, <2>1 DEF HeldAtMost, Revenues, RevenueAccount, ReceivableAccount
    <2> QED
      BY <1>0, <1>3, <1>4, <1>5, <1>8, <2>1, <2>2, <2>3 DEF Rank
  <1>9. CASE pc[c] = "post"
    <2>1. l = <<"key", TransactionKey(period[c])>>
      BY <1>2, <1>9 DEF Needs
    <2> QED
      BY <1>3, <1>4, <2>1 DEF HeldAtMost, Revenues, RevenueAccount, ReceivableAccount
  <1> QED
    BY <1>3, <1>6, <1>7, <1>8, <1>9

(***************************************************************************)
(* No circle of waiting: of a group that all wait for each other, nobody   *)
(* could have come furthest.                                               *)
(***************************************************************************)
THEOREM RunsNeverDeadlock ==
  ASSUME NEW b, MetersOrdered(b)
  PROVE  Spec => []NoLockCycle
PROOF
  <1>1. Init => LocksInOrder
    BY DEF Init, LocksInOrder
  <1>2. ASSUME IInv, LocksInOrder, [Next]_vars PROVE LocksInOrder'
    <2>1. CASE UNCHANGED callVars
      BY <1>2, <2>1 DEF LocksInOrder, HeldAtMost, Tenant, callVars
    <2>2. ASSUME NEW c \in Closers, Step(c) PROVE LocksInOrder'
      BY <1>2, <2>2, LocksInOrderStep
    <2> QED
      BY <1>2, <2>1, <2>2 DEF Next, Step, EnsurePeriod, StoreBatch, vars
  <1>3. ASSUME IInv, LocksInOrder PROVE NoLockCycle
    <2> SUFFICES ASSUME NEW S \in SUBSET Closers, S # {},
                        \A c \in S : \E d \in S : WaitsFor(c, d)
                 PROVE  FALSE
      BY DEF NoLockCycle
    <2>1. \A c \in S : c \in Closers /\ Needs(c) # {}
      BY DEF WaitsFor
    <2>2. \A c \in S : \E d \in S : /\ Rank(b, c) \in 0 .. b + 3 /\ Rank(b, d) \in 0 .. b + 3
                                    /\ Rank(b, c) < Rank(b, d)
      BY <1>3, <2>1, WaitsForFurther
    <2> DEFINE Ahead(c) == b + 3 - Rank(b, c)
               T == {Ahead(c) : c \in S}
    <2>3. b \in Nat
      BY DEF MetersOrdered
    <2>4. \A c \in S : Ahead(c) \in Nat /\ \E d \in S : Ahead(d) < Ahead(c)
      BY <2>2, <2>3
    <2> HIDE DEF Ahead
    <2>5. T \subseteq Nat /\ T # {}
      BY <2>4
    <2>6. PICK x \in T : \A y \in T : x <= y
      BY <2>5, LeastNatural, Zenon
    <2>7. PICK c \in S : x = Ahead(c)
      BY <2>6
    <2>8. PICK d \in S : Ahead(d) < Ahead(c)
      BY <2>4
    <2>9. Ahead(c) <= Ahead(d) /\ Ahead(c) \in Nat /\ Ahead(d) \in Nat
      BY <2>4, <2>6, <2>7
    <2> QED
      BY <2>8, <2>9
  <1> QED
    BY <1>1, <1>2, <1>3, Invariant, PTL DEF Spec

=============================================================================
