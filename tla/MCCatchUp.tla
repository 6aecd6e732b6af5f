------------------------------ MODULE MCCatchUp ------------------------------
(* Instances of CatchUp: one asset of each market. *)
EXTENDS CatchUp, TLC

CONSTANTS a, b

MCOrder == <<a, b>>
MCMarkets == (a :> "TWSE") @@ (b :> "TPEX")

MCCode == (a :> "A") @@ (b :> "B")

\* Only a is in the ledger.
MCLedgered == a :> 2

\* Months, and years, of two days and of one.
MCMonthOf == [d \in Days |-> (d + 1) \div 2]
MCOneYear == [d \in Days |-> 1]

\* b is listed in the second month.
MCQuoted == {<<a, d>> : d \in OpenDays} \union {<<b, d>> : d \in OpenDays \ {1, 2}}
==============================================================================
