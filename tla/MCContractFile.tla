--------------------------- MODULE MCContractFile ---------------------------
(***************************************************************************)
(* Lines for the run of ContractFile: a future, a call, a put, and a       *)
(* second line for the token of the future, each cut behind every field    *)
(* that matters.                                                           *)
(***************************************************************************)
EXTENDS ContractFile

WholeLines ==
    {[token |-> 1, symbol |-> "X", expiry |-> 1, strike |-> -1,  series |-> "XX", lot |-> 1],
     [token |-> 2, symbol |-> "X", expiry |-> 1, strike |-> 100, series |-> "CE", lot |-> 1],
     [token |-> 3, symbol |-> "X", expiry |-> 1, strike |-> 100, series |-> "PE", lot |-> 1],
     [token |-> 1, symbol |-> "Y", expiry |-> 2, strike |-> 200, series |-> "CE", lot |-> 2]}

Cuts == {0, 1, 6, 7, 8, 9, 31, 32}

CutLines ==
    {[fields |-> n, token |-> l.token, symbol |-> l.symbol, expiry |-> l.expiry,
      strike |-> l.strike, series |-> l.series, lot |-> l.lot] : n \in Cuts, l \in WholeLines}
=============================================================================
