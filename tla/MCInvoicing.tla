---------------------------- MODULE MCInvoicing -----------------------------
(***************************************************************************)
(* Instances of Invoicing for TLC.  Tenant a has two consecutive periods   *)
(* and usage of both meters; tenant b has one period and usage of both.    *)
(***************************************************************************)
EXTENDS Invoicing, TLC

A == <<"a">>
B == <<"b">>

P(t, l, s, e) == [tenant |-> t, label |-> l, start |-> s, end |-> e]
E(t, m, q, at) == [tenant |-> t, meter |-> m, quantity |-> q, at |-> at]

TwoTenants == 1 :> P(A, <<"1">>, 0, 10) @@ 2 :> P(A, <<"2">>, 10, 20) @@ 3 :> P(B, <<"1">>, 0, 10)

\* Meter 1 is free up to one unit, meter 2 is not free.
FreeTier == 1 :> [free |-> 1, unit |-> 3] @@ 2 :> [free |-> 0, unit |-> 2]

\* The first may be billed late, in the second period, and the last alone prices to zero.
Metered == 1 :> E(A, 1, 2, 5) @@ 2 :> E(A, 2, 1, 15) @@ 3 :> E(B, 1, 2, 5)
             @@ 4 :> E(B, 2, 1, 5) @@ 5 :> E(A, 1, 1, 15)

\* One billing run for each tenant, whose periods it closes one at a time.
RunPerTenant == 1 :> {1, 2} @@ 2 :> {3}

\* The first also closes the second's period, at the same time or after it.
Overlap == 1 :> {1, 2, 3} @@ 2 :> {3}

\* Two runs that close consecutive periods of one tenant.
RunPerPeriod == 1 :> {1} @@ 2 :> {2}

\* "a" in period "b:1", and "a:b" in period "1".
ColonTenants == 1 :> P(A, <<"b", ":", "1">>, 0, 10) @@ 2 :> P(<<"a", ":", "b">>, <<"1">>, 0, 10)
ColonUsage == 1 :> E(A, 2, 1, 5) @@ 2 :> E(<<"a", ":", "b">>, 2, 1, 5)
=============================================================================
