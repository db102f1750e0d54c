---------------------------- MODULE MCRealTimeCR ----------------------------
(***************************************************************************)
(* The streams of the run of RealTimeCR: every concatenation of up to      *)
(* three pieces, followed by an end message.                               *)
(***************************************************************************)
EXTENDS RealTimeCR

Scrip(y, strike, lot) == [type |-> y, expiry |-> 1, strike |-> strike, symbol |-> "X", lot |-> lot]

\* One contract, and an instrument without a lot size.
Contract ==
    1 :> Scrip(FUT, 0, 1) @@ 2 :> Scrip(CALL, 100, 1) @@ 3 :> Scrip(PUT, 100, 1)
        @@ 4 :> [type |-> 0, expiry |-> 0, strike |-> 0, symbol |-> "", lot |-> 0]

Trade(token, side, qty) == [token |-> token, side |-> side, qty |-> qty]

Conversion == <<Trade(1, "B", 1), Trade(2, "S", 1), Trade(3, "B", 1)>>
Reversal   == <<Trade(3, "S", 2), Trade(1, "S", 2), Trade(2, "B", 2)>>

\* Orders with and without an end message, one whose first leg is filled in two
\* trades around master data, half an order, a trade of two orders, a token that
\* the contract file does not have, and one of which it lacks the lot size.
Pieces ==
    {Conversion, Reversal \o <<EndMessage>>,
     <<Trade(1, "B", 1), SkipMessage, Trade(1, "B", 1), Trade(3, "B", 2), Trade(2, "S", 2)>>,
     <<Trade(1, "B", 1), Trade(2, "S", 1), EndMessage>>,
     <<Trade(2, "none", 1)>>,
     <<Trade(1, "B", 1), Trade(2, "S", 1), Trade(9, "B", 1)>>,
     <<Trade(4, "B", 1)>>}

AllStreams ==
    {p \o q \o r \o <<EndMessage>> :
        p \in Pieces, q \in Pieces \cup {<<>>}, r \in Pieces \cup {<<>>}}

StreamTrades == UNION {ToSet(s) : s \in AllStreams} \ {EndMessage, SkipMessage}
=============================================================================
