-------------------------- MODULE MCMiningSettlement --------------------------
(* Small payloads for MiningSettlement: rates are whole percents, a share weight *)
(* and a quantity have one decimal, prices are in half cents.                  *)
EXTENDS MiningSettlement, TLC

Fixed(entered) == [method |-> "fixed_percentage", value |-> entered]
Shares(weight) == [method |-> "shares", value |-> weight]
Auto           == [method |-> "auto", value |-> 0]
Percent(n)     == n * Whole
None           == [method |-> "none", value |-> 0]
Flat(cents)    == [method |-> "flat_isk", value |-> cents]
Part(entered)  == [method |-> "percentage", value |-> entered]

Output(quantity, price) == [quantity |-> quantity, price |-> price]

Outputs == { 1 :> Output(30, 2) @@ 2 :> Output(0, 10), 1 :> Output(50, 2) @@ 2 :> Output(35, 3),
             1 :> Output(30, 0), 1 :> Output(19, 4) @@ 2 :> Output(4, 1) }

Charges == { <<None, <<>>>>, <<Part(Percent(33)), <<Flat(1)>>>>, <<Flat(1), <<>>>>,
             <<Flat(0), <<Part(Percent(50)), Part(1)>>>> }

Miners == {Auto, Shares(0), Shares(3), Fixed(Percent(33)), Fixed(Percent(50))}

Ledgers == { << [entry |-> 1, mined |-> mined, terms |-> a],
                [entry |-> 2, mined |-> 1, terms |-> b] >> :
             mined \in {1, 2}, a \in Miners, b \in Miners }

Extras == { <<>>, <<Shares(10)>>, <<Fixed(Whole)>>, <<Fixed(Percent(25))>> }

Payload(mode, outputs, charges, ledger, manual) ==
    [mode |-> mode, outputs |-> outputs, reserve |-> charges[1], deductions |-> charges[2],
     ledger |-> ledger, manual |-> manual]

\* Another selection of the ledger, and another mineral: nothing in common with
\* the other payloads.
Apart == Payload("isk", 3 :> Output(150, 2), <<None, <<>>>>,
    <<[entry |-> 3, mined |-> 1, terms |-> Auto]>>, <<>>)

Revised == Payload("minerals", 1 :> Output(40, 2), <<Flat(1), <<>>>>,
    << [entry |-> 1, mined |-> 1, terms |-> Auto], [entry |-> 2, mined |-> 1, terms |-> Auto] >>,
    <<>>)

MCUpdates == {Apart, Revised}

MCPayloads == MCUpdates \cup
    { Payload(mode, outputs, charges, ledger, manual) : mode \in {"isk", "minerals"},
      outputs \in Outputs, charges \in Charges, ledger \in Ledgers, manual \in Extras }
=============================================================================
