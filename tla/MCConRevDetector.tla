-------------------------- MODULE MCConRevDetector --------------------------
(***************************************************************************)
(* Contract files and sets of trades for the runs of ConRevDetector.       *)
(***************************************************************************)
EXTENDS ConRevDetector

Scrip(y, expiry, strike, symbol) ==
    [type |-> y, expiry |-> expiry, strike |-> strike, symbol |-> symbol, lot |-> 1]

\* One future and its options at one strike.
OneContract ==
    1 :> Scrip(FUT, 1, 0, "X") @@ 2 :> Scrip(CALL, 1, 100, "X") @@ 3 :> Scrip(PUT, 1, 100, "X")

\* A second strike (4, 5), a second expiry (6 to 8), and an instrument of which
\* the contract file has less than half a line (10).
ManyContracts ==
    OneContract @@ 4 :> Scrip(CALL, 1, 200, "X") @@ 5 :> Scrip(PUT, 1, 200, "X")
        @@ 6 :> Scrip(FUT, 2, 0, "X") @@ 7 :> Scrip(CALL, 2, 100, "X") @@ 8 :> Scrip(PUT, 2, 100, "X")
        @@ 10 :> [type |-> 0, expiry |-> 0, strike |-> 0, symbol |-> "", lot |-> 0]

\* The side a conversion takes in an instrument.
ConversionSide(scrip) == IF scrip.type = CALL THEN "S" ELSE "B"

ConversionTrades(scrips, qtys) ==
    {[token |-> t, side |-> ConversionSide(scrips[t]), qty |-> q] : t \in DOMAIN scrips, q \in qtys}

\* One lot a trade: every instrument on a conversion's side, those of the first
\* contract on both; trades with two order ids, one of them without a lot size; one
\* whose token is not known.
ContractTrades ==
    ConversionTrades(ManyContracts, {1})
        \cup [token : DOMAIN OneContract, side : {"B", "S"}, qty : {1}]
        \cup [token : {1, 10}, side : {"none"}, qty : {1}]
        \cup {[token |-> 9, side |-> "B", qty |-> 1]}

\* Partial fills of one conversion.
FillTrades == ConversionTrades(OneContract, {1, 2})
=============================================================================
