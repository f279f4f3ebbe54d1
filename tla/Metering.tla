------------------------------ MODULE Metering ------------------------------
(***************************************************************************)
(* What happens to a quantity, from the text a client sends to the amount  *)
(* on the invoice: ingest validates it and fingerprints it, the consumer   *)
(* stores it or recognises a repeated key, Close sums, parses and prices   *)
(* it and builds the ledger entry, and a retried Close reads the invoice   *)
(* back.  The unit price is itself read from text.                         *)
(*                                                                         *)
(* One behaviour is the history of one input: a list of requests, of which *)
(* the valid ones are one tenant's, and the text of a price.  Pipeline and *)
(* Invoicing have the concurrency and the faults; here every step succeeds *)
(* or fails by its data alone.                                             *)
(***************************************************************************)
EXTENDS Decimal, Pricing

CONSTANTS
  Inputs,              \* [requests, price]
  PlanAt(_),           \* the plan, for a unit price
  BadStrings,          \* names that are empty, too long or have space around them
  Now, MaxClockSkew, MaxBackfillAge,
  MaxIntegerDigits, MaxFractionDigits,
  ColumnScale,         \* events.quantity is NUMERIC(38, ColumnScale)
  MaxFraction          \* bound: no text has more decimal places

ASSUME MeteringAssumption ==
  /\ QuantityFactor = Factor("quantity")
  /\ ColumnScale <= MaxFraction /\ MaxFraction <= MaxPow

VARIABLES
  input,
  step,
  posted,      \* how many requests were handled
  log,         \* the events that were accepted, as the log keeps them
  applied,     \* how many of them the consumer has applied
  rows,        \* events, in the order they were stored
  duplicates, conflicts,   \* the offsets that were not stored
  unitPrice,
  usages,      \* gatherUsage's result, row by row
  items,       \* Rate's result, the invoice's line items
  total, postings,
  readBack     \* the line items a later call reads

storeVars    == <<input, posted, log, applied, rows, duplicates, conflicts>>
billVars     == <<unitPrice, usages, items, total, postings, readBack>>
meteringVars == <<step, storeVars, billVars>>

vars == <<parseVars, meteringVars>>

Steps == {"ingest", "price", "gather", "entry", "issued", "read",
          "unpriced", "nothing", "failed", "unreadable"}

Init ==
  /\ ParseInit
  /\ input \in Inputs
  /\ step = "ingest" /\ posted = 0 /\ log = <<>> /\ applied = 0
  /\ rows = <<>> /\ duplicates = {} /\ conflicts = {}
  /\ unitPrice = 0 /\ usages = <<>> /\ items = <<>>
  /\ total = 0 /\ postings = <<>> /\ readBack = <<>>

-----------------------------------------------------------------------------
(* Ingest. *)

AllDigits(s) == s # <<>> /\ \A j \in DOMAIN s : s[j] \in Digits

\* strings.TrimLeft(s, "0") and strings.TrimRight(s, "0").
TrimLeft(s)  == LET kept == {j \in DOMAIN s : s[j] # 0}
                IN IF kept = {} THEN <<>> ELSE SubSeq(s, Min(kept), Len(s))
TrimRight(s) == LET kept == {j \in DOMAIN s : s[j] # 0}
                IN IF kept = {} THEN <<>> ELSE SubSeq(s, 1, Max(kept))

\* Mutant of ValidQuantity: the decimal places are not counted.
ValidQuantityAnyScale(t) ==
  /\ AllDigits(IntegerPart(t))
  /\ HasPoint(t) => AllDigits(FractionPart(t))
  /\ Len(TrimLeft(IntegerPart(t))) <= MaxIntegerDigits

\* validateQuantity.
ValidQuantity(t) ==
  /\ AllDigits(IntegerPart(t))
  /\ HasPoint(t) => AllDigits(FractionPart(t))
  /\ Len(TrimLeft(IntegerPart(t))) <= MaxIntegerDigits
  /\ Len(FractionPart(t)) <= MaxFractionDigits

\* validateOccurredAt.
ValidOccurredAt(time) == time <= Now + MaxClockSkew /\ time >= Now - MaxBackfillAge

\* validateString.
ValidString(name) == name \notin BadStrings

\* validate.
Valid(r) ==
  /\ ValidString(r.tenant) /\ ValidString(r.meter) /\ ValidString(r.key)
  /\ ValidQuantity(r.quantity) /\ ValidOccurredAt(r.at)

\* Mutant of CanonicalQuantity: the point stays when nothing follows it.
CanonicalQuantityKeepsPoint(t) ==
  LET integer == TrimLeft(IntegerPart(t))
  IN (IF integer = <<>> THEN <<0>> ELSE integer)
       \o (IF HasPoint(t) THEN <<Dot>> \o TrimRight(FractionPart(t)) ELSE <<>>)

CanonicalQuantity(t) ==
  LET integer  == TrimLeft(IntegerPart(t))
      fraction == TrimRight(FractionPart(t))
  IN (IF integer = <<>> THEN <<0>> ELSE integer)
       \o (IF fraction = <<>> THEN <<>> ELSE <<Dot>> \o fraction)

\* The hashed fields; equal hashes are taken for equal fields.
Fingerprint(r) == <<r.meter, CanonicalQuantity(r.quantity), r.at>>

\* ServeHTTP: validate, fingerprint, append.
Post ==
  /\ step = "ingest" /\ posted < Len(input.requests)
  /\ LET r == input.requests[posted + 1]
     IN log' = IF Valid(r)
                 THEN Append(log, [meter |-> r.meter, key |-> r.key, quantity |-> r.quantity,
                                   at |-> r.at, fingerprint |-> Fingerprint(r)])
                 ELSE log
  /\ posted' = posted + 1
  /\ UNCHANGED <<parseVars, input, applied, rows, duplicates, conflicts, step, billVars>>

-----------------------------------------------------------------------------
(* The consumer. *)

Numeral(s) == FoldLeft(LAMBDA sum, d : 10 * sum + d, 0, s)

\* What the text says, in units of 10^-MaxFraction.
Exact(t) ==
  Numeral(IntegerPart(t)) * Pow10[MaxFraction]
    + Numeral(FractionPart(t)) * Pow10[MaxFraction - Len(FractionPart(t))]

\* Postgres rounds text to the column's scale without an error.
Numeric(t) ==
  LET unit == Pow10[MaxFraction - ColumnScale]
  IN (2 * Exact(t) + unit) \div (2 * unit)

(***************************************************************************)
(* INSERT ... ON CONFLICT DO UPDATE, which writes the tenant's own name    *)
(* over itself, returns whether the row is new and the fingerprint that is *)
(* stored.                                                                 *)
(***************************************************************************)
Apply ==
  /\ step = "ingest" /\ posted = Len(input.requests) /\ applied < Len(log)
  /\ LET e == log[applied + 1]
         same == SelectSeq(rows, LAMBDA r : r.event.key = e.key)
     IN /\ rows' = IF same = <<>>
                     THEN Append(rows, [event |-> e, quantity |-> Numeric(e.quantity)])
                     ELSE rows
        /\ duplicates' = duplicates \cup
             {o \in {applied} : same # <<>> /\ same[1].event.fingerprint = e.fingerprint}
        /\ conflicts' = conflicts \cup
             {o \in {applied} : same # <<>> /\ same[1].event.fingerprint # e.fingerprint}
  /\ applied' = applied + 1
  /\ UNCHANGED <<parseVars, input, posted, log, step, billVars>>

Drained ==
  /\ step = "ingest" /\ posted = Len(input.requests) /\ applied = Len(log)
  /\ step' = "price"
  /\ UNCHANGED <<parseVars, storeVars, billVars>>

-----------------------------------------------------------------------------
(* The price, and gatherUsage. *)

\* %d
Decimals[m \in Nat] == IF m < 10 THEN <<m>> ELSE Append(Decimals[m \div 10], m % 10)

\* %0*d
ZeroPadded(m, width) ==
  [j \in 1 .. width - Len(Decimals[m]) |-> 0] \o Decimals[m]

\* quantity::text of the column, and of a sum over it.
NumericText(v) ==
  Decimals[v \div Pow10[ColumnScale]] \o <<Dot>> \o ZeroPadded(v % Pow10[ColumnScale], ColumnScale)

\* Mutant of QuantityString: the fraction is not padded.
QuantityStringUnpadded(q) ==
  Decimals[q \div Factor("quantity")] \o <<Dot>> \o Decimals[q % Factor("quantity")]

\* Quantity.String.
QuantityString(q) ==
  Decimals[q \div Factor("quantity")] \o <<Dot>>
    \o ZeroPadded(q % Factor("quantity"), Scale["quantity"])

Meters == SetToSortSeq({rows[r].event.meter : r \in DOMAIN rows}, <)

\* unbilledUsage: the sum of a meter's rows.
Usage(meter) ==
  MapThenSumSet(LAMBDA r : rows[r].quantity, {r \in DOMAIN rows : rows[r].event.meter = meter})

\* The next text to parse, if the step has one.
ParsePrice == step = "price" /\ Start("amount", input.price) /\ UNCHANGED meteringVars

ScanRow ==
  /\ step = "gather" /\ Len(usages) < Len(Meters)
  /\ Start("quantity", NumericText(Usage(Meters[Len(usages) + 1])))
  /\ UNCHANGED meteringVars

ScanLine ==
  /\ step = "issued" /\ Len(readBack) < Len(items)
  /\ Start("quantity", NumericText(Numeric(QuantityString(items[Len(readBack) + 1].quantity))))
  /\ UNCHANGED meteringVars

\* parsing goes on.
Parse == ParseStep /\ UNCHANGED meteringVars

PriceParsed ==
  /\ step = "price" /\ pc = "parsed" /\ Return
  /\ unitPrice' = value /\ step' = "gather"
  /\ UNCHANGED <<storeVars, usages, items, total, postings, readBack>>

RowParsed ==
  /\ step = "gather" /\ pc = "parsed" /\ Return
  /\ usages' = Append(usages, [meter |-> Meters[Len(usages) + 1], quantity |-> value])
  /\ UNCHANGED <<step, storeVars, unitPrice, items, total, postings, readBack>>

LineParsed ==
  /\ step = "issued" /\ pc = "parsed" /\ Return
  /\ readBack' = Append(readBack, [items[Len(readBack) + 1] EXCEPT !.quantity = value])
  /\ UNCHANGED <<step, storeVars, unitPrice, usages, items, total, postings>>

\* The text is refused, and the caller gives up.
ParseRefused ==
  /\ pc \in Errors /\ Return
  /\ step' = CASE step = "price"  -> "unpriced"
               [] step = "gather" -> "failed"
               [] step = "issued" -> "unreadable"
  /\ UNCHANGED <<storeVars, billVars>>

-----------------------------------------------------------------------------
(* Rate, buildEntry and NewTransaction. *)

Plan == PlanAt(unitPrice)

RateUsage ==
  /\ step = "gather" /\ pc = "idle" /\ Len(usages) = Len(Meters)
  /\ LET rated == Rate(usages, Plan)
     IN /\ step' = IF usages = <<>> THEN "nothing" ELSE IF rated.ok THEN "entry" ELSE "failed"
        /\ items' = IF usages # <<>> /\ rated.ok THEN rated.items ELSE <<>>
  /\ UNCHANGED <<parseVars, storeVars, unitPrice, usages, total, postings, readBack>>

\* A line that prices to zero makes no transfer.
Transfers == SelectSeq(items, LAMBDA l : l.amount # 0)

Receivable == 0

\* NewTransaction's two postings for each transfer, the revenue account named by its meter.
PostingsOf(transfers) ==
  FoldLeft(LAMBDA sofar, t : sofar \o <<[account |-> Receivable, amount |-> t.amount],
                                        [account |-> t.meter, amount |-> Neg(t.amount)]>>,
           <<>>, transfers)

\* Transaction.Balance, and the running total of buildEntry.
SumOf(entries) == FoldLeft(LAMBDA sum, e : Plus(sum, e.amount), 0, entries)

\* Every transfer is positive, and the total and the balance can be summed.
EntryStands ==
  /\ ~ Failed(SumOf(Transfers))
  /\ \A t \in DOMAIN Transfers : Transfers[t].amount > 0
  /\ SumOf(PostingsOf(Transfers)) = 0

BuildEntry ==
  /\ step = "entry" /\ Transfers # <<>> /\ EntryStands
  /\ step' = "issued"
  /\ total' = SumOf(Transfers) /\ postings' = PostingsOf(Transfers)
  /\ UNCHANGED <<parseVars, storeVars, unitPrice, usages, items, readBack>>

\* Nothing to bill, or an entry that cannot be made.
EntryFails ==
  /\ step = "entry" /\ ~ (Transfers # <<>> /\ EntryStands)
  /\ step' = IF ~ Failed(SumOf(Transfers)) /\ Transfers = <<>> THEN "nothing" ELSE "failed"
  /\ UNCHANGED <<parseVars, storeVars, billVars>>

\* invoiceForPeriod has read every line.
AllRead ==
  /\ step = "issued" /\ pc = "idle" /\ Len(readBack) = Len(items)
  /\ step' = "read"
  /\ UNCHANGED <<parseVars, storeVars, billVars>>

Next ==
  \/ Post \/ Apply \/ Drained
  \/ ParsePrice \/ ScanRow \/ ScanLine \/ Parse
  \/ PriceParsed \/ RowParsed \/ LineParsed \/ ParseRefused
  \/ RateUsage \/ BuildEntry \/ EntryFails \/ AllRead

Spec == Init /\ [][Next]_vars

-----------------------------------------------------------------------------
Issued == step \in {"issued", "read"}

\* Every number is one that its Go type holds.
TypeOK ==
  /\ step \in Steps
  /\ unitPrice \in Int64 /\ total \in Int64
  /\ \A u \in DOMAIN usages : usages[u].quantity \in 0 .. Half - 1
  /\ \A l \in DOMAIN items : items[l].quantity \in 0 .. Half - 1 /\ items[l].amount \in Int64
  /\ \A p \in DOMAIN postings : postings[p].amount \in Int64

(***************************************************************************)
(* The consumer calls a repeated key a duplicate when the two requests say *)
(* the same number, however they write it, and a conflict when they do     *)
(* not: CanonicalQuantity tells values apart and nothing else.             *)
(***************************************************************************)
RepeatsAreJudgedByValue ==
  \A o \in duplicates \cup conflicts :
    LET e == log[o + 1]
        first == log[Min({f \in DOMAIN log : log[f].key = e.key})]
    IN o \in duplicates <=> /\ e.meter = first.meter /\ e.at = first.at
                            /\ Exact(e.quantity) = Exact(first.quantity)

(***************************************************************************)
(* An invoice charges each meter for exactly the sum of the numbers that   *)
(* its stored requests wrote: nothing is rounded or truncated on the way   *)
(* through ingest's check, the column, the sum and ParseQuantity.          *)
(***************************************************************************)
ChargesWhatWasSent ==
  Issued =>
    \A l \in DOMAIN items :
      items[l].quantity * Pow10[MaxFraction - Scale["quantity"]] =
        MapThenSumSet(LAMBDA r : Exact(rows[r].event.quantity),
                      {r \in DOMAIN rows : rows[r].event.meter = items[l].meter})

(***************************************************************************)
(* The unit price is the number that was written, whatever its form.       *)
(***************************************************************************)
PriceAsWritten ==
  step \notin {"ingest", "price", "unpriced"} =>
    LET written == Exact(Body(input.price))
    IN unitPrice * Pow10[MaxFraction - Scale["amount"]] =
         IF HasSign(input.price) THEN -written ELSE written

(***************************************************************************)
(* Usage that ingest accepted stops a Close because it is too large for a  *)
(* Quantity (D33), never because ParseQuantity cannot read it.             *)
(***************************************************************************)
AcceptedCanBeRead == step \in {"gather", "issued"} => pc # "malformed"

(***************************************************************************)
(* Each line is what the plan says, to the unit: what falls in a tier at   *)
(* the tier's price, rounded half up, and its fee, however applyGraduated  *)
(* and applyVolume walk through the tiers.                                 *)
(***************************************************************************)
PricedByTiers ==
  Issued =>
    \A l \in DOMAIN items :
      items[l].amount = RoundedPrice(PricesFor(Plan, items[l].meter)[1], items[l].quantity)

(***************************************************************************)
(* "Half-up is what people expect money to do, and it is applied ONCE per  *)
(* meter": each line is within half a unit of the exact price of its       *)
(* quantity.                                                               *)
(***************************************************************************)
PricedWithinRounding ==
  Issued =>
    \A l \in DOMAIN items :
      WithinRounding(PricesFor(Plan, items[l].meter)[1], items[l].quantity, items[l].amount)

(***************************************************************************)
(* Usage of a meter is summed before it is priced: usage that comes in     *)
(* two parts, in any order, is charged as if it came in one.               *)
(***************************************************************************)
PricedAsASum ==
  step = "entry" =>
    \A u \in DOMAIN usages : \A part \in {0, 1, usages[u].quantity \div 2} \cap 0 .. usages[u].quantity :
      LET rest == [usages EXCEPT ![u].quantity = @ - part]
          one  == [usages[u] EXCEPT !.quantity = part]
      IN /\ Rate(Append(rest, one), Plan) = Rate(usages, Plan)
         /\ Rate(<<one>> \o Reverse(rest), Plan) = Rate(usages, Plan)

(***************************************************************************)
(* I1: the entry behind an invoice moves its total from the tenant to the  *)
(* meters, in exact arithmetic: no sum has wrapped round.                  *)
(***************************************************************************)
EntryMovesTheTotal ==
  Issued =>
    LET Moved(account) == MapThenSumSet(LAMBDA p : postings[p].amount,
                                        {p \in DOMAIN postings : postings[p].account = account})
    IN /\ Moved(Receivable) = total
       /\ total = MapThenSumSet(LAMBDA l : items[l].amount, DOMAIN items)
       /\ \A l \in DOMAIN items : -Moved(items[l].meter) = items[l].amount

(***************************************************************************)
(* An invoice that was issued can be read, and reads as it was issued.     *)
(***************************************************************************)
ReadsBack == step # "unreadable" /\ (step = "read" => readBack = items)
=============================================================================
