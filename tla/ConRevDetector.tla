--------------------------- MODULE ConRevDetector ---------------------------
(***************************************************************************)
(* The trade detector: WriteDataInFile and the functions it calls          *)
(* (main.cpp:259-1254).  A conversion or a reversal is bought and sold as  *)
(* one order of three legs (future, call and put of one contract); its     *)
(* trades arrive as a run of trade messages in which the order's own side  *)
(* has order id 0.  The detector collects one-sided trades until a message *)
(* of another kind ends the run, cuts the collected run into groups, and   *)
(* enqueues a record for every group that looks like the three legs.       *)
(*                                                                         *)
(* One action per message.  Scrips is the contract file as FileDigester    *)
(* leaves it in cTokenDataStore.  nTotalTraded, prices, spreads and times  *)
(* are left out: nothing the detector decides depends on them.             *)
(***************************************************************************)
EXTENDS Integers, SequencesExt

CONSTANTS
    Scrips,     \* token -> [type, expiry, strike, symbol, lot]; a future's strike is 0
    Trades,     \* the trade messages of the instance: [token, side, qty]
    MaxStore    \* bound: trades collected between two flushes

FUT  == 1
CALL == 2
PUT  == 3
Types == {FUT, CALL, PUT}

\* What ContractFile guarantees of the store (StoreFitsDetector).
ASSUME ScripsAssumption ==
    \A t \in DOMAIN Scrips :
        /\ t \in Nat
        /\ Scrips[t].lot \in Nat
        /\ Scrips[t].lot # 0 =>
               /\ Scrips[t].type \in Types
               /\ Scrips[t].expiry \in Nat \ {0}
               /\ Scrips[t].strike \in Nat
               /\ (Scrips[t].strike = 0) = (Scrips[t].type = FUT)

\* side "B": dblBuyOrdID is 0; "S": dblSellOrdID is 0; "none": both or neither.
ASSUME TradesAssumption ==
    \A m \in Trades :
        m.token \in Nat /\ m.side \in {"B", "S", "none"} /\ m.qty \in Nat \ {0}

ASSUME MaxStoreAssumption == MaxStore \in Nat

VARIABLES
    tradeStore,   \* vTradeMsgStore; seq is the sequence number of the message
    tokenStore,   \* cTokenStore
    flushed,      \* what the last flush found in vTradeMsgStore (history)
    records,      \* the records the last flush enqueued
    crashed       \* a division by zero, or a null pointer or an empty vector used

vars == <<tradeStore, tokenStore, flushed, records, crashed>>

Init ==
    /\ tradeStore = <<>>
    /\ tokenStore = {}
    /\ flushed = <<>>
    /\ records = <<>>
    /\ crashed = FALSE

----------------------------------------------------------------------------
(* Trades and groups of trades *)

Type(m)   == Scrips[m.token].type
Expiry(m) == Scrips[m.token].expiry
Strike(m) == Scrips[m.token].strike

TokensOf(g) == {g[i].token : i \in DOMAIN g}
TypesOf(g)  == {Type(g[i]) : i \in DOMAIN g}

\* The members of g that are in S, in their order.  SelectSeq and FoldLeft, here
\* and below, are recursive functions, which can be reasoned about.
Kept(g, S) ==
    LET kept[n \in 0 .. Len(g)] ==
            IF n = 0 THEN <<>>
            ELSE IF g[n] \in S THEN Append(kept[n - 1], g[n]) ELSE kept[n - 1]
    IN  kept[Len(g)]

OfType(g, y) == Kept(g, {m \in ToSet(g) : Type(m) = y})
Options(g)   == Kept(g, {m \in ToSet(g) : Type(m) # FUT})

QtySum(g) ==
    LET sum[n \in 0 .. Len(g)] == IF n = 0 THEN 0 ELSE sum[n - 1] + g[n].qty
    IN  sum[Len(g)]

QtyByType(g) == [y \in Types |-> QtySum(OfType(g, y))]

Balanced(qty) == qty[FUT] = qty[CALL] /\ qty[CALL] = qty[PUT]

\* The side of the last trade of each type: lcFutBuySell and its like.
LastSides(g) ==
    [y \in Types |-> IF OfType(g, y) = <<>> THEN "none" ELSE Last(OfType(g, y)).side]

\* Conversion: buy the future, buy the put, sell the call.  Reversal: the opposite.
ConRevSides(sides) ==
    \/ sides[FUT] = "B" /\ sides[PUT] = "B" /\ sides[CALL] = "S"
    \/ sides[FUT] = "S" /\ sides[PUT] = "S" /\ sides[CALL] = "B"

----------------------------------------------------------------------------
(* ValidateTradeMsgRecords *)

\* The highest token of type y up to token t, as the loop over the ordered set
\* remembers it.
LastToken(tokens, y, t) == Max({u \in tokens : u <= t /\ Scrips[u].type = y})

\* At some token the future, call and put seen last match.
LegsMatch(tokens) ==
    \E t \in tokens :
        /\ \A y \in Types : \E u \in tokens : u <= t /\ Scrips[u].type = y
        /\ LET fut  == Scrips[LastToken(tokens, FUT, t)]
               call == Scrips[LastToken(tokens, CALL, t)]
               put  == Scrips[LastToken(tokens, PUT, t)]
           IN  /\ call.strike = put.strike
               /\ put.expiry = call.expiry
               /\ call.expiry = fut.expiry

ValidateTradeMsgRecords(store, tokens) ==
    /\ Cardinality(tokens) >= 3
    /\ ConRevSides(LastSides(store))
    /\ LegsMatch(tokens)

----------------------------------------------------------------------------
(* SplitTrade: a pass over the store with the locals below as its state *)

\* grp: lvTradeMsgStoreTemp; tokens: lcTokenStore; qty: the three quantities;
\* seen: lbFutToken, lbCallToken, lbPutToken; strike, expiry, last: of the last
\* trade looked at, 0 for none; out: vTradeVectorStore; bad: the pass read the
\* front of an empty vector.
NoDetails == [tokens |-> {}, qty |-> [y \in Types |-> 0], seen |-> {},
              strike |-> 0, expiry |-> 0, last |-> 0]

\* ResetExtraDetails followed by GetExtraDetails.
ExtraDetails(g) ==
    [tokens |-> TokensOf(g),
     qty    |-> QtyByType(g),
     seen   |-> TypesOf(g),
     strike |-> IF Options(g) = <<>> THEN 0 ELSE Strike(Last(Options(g))),
     expiry |-> IF g = <<>> THEN 0 ELSE Expiry(Last(g)),
     last   |-> IF g = <<>> THEN 0 ELSE Type(Last(g))]

DeletePacketTillExpiryDate(g, expiry) ==
    Kept(g, {m \in ToSet(g) : Expiry(m) = expiry})

\* Only the options in front of the first future are looked at.
DeletePacketTillStrikePrice(g, strike) ==
    LET n == Min({i \in DOMAIN g : Type(g[i]) = FUT} \cup {Len(g) + 1}) - 1
    IN  Kept(SubSeq(g, 1, n), {m \in ToSet(g) : Strike(m) = strike})
            \o SubSeq(g, n + 1, Len(g))

\* The leading trades of type y go.
SecondLevelOrderValidation(y, g) ==
    IF Len(g) <= 1 THEN g
    ELSE SubSeq(g, Min({i \in DOMAIN g : Type(g[i]) # y} \cup {Len(g) + 1}), Len(g))

\* Slip: the expiry is no longer compared.
DropOthersStrikeOnly(s, m) ==
    LET kept == DeletePacketTillStrikePrice(s.grp, Strike(m))
    IN  IF s.d.strike # 0 /\ s.d.strike # Strike(m) /\ Type(m) # FUT
        THEN [s EXCEPT !.grp = kept, !.d = ExtraDetails(kept)]
        ELSE s

\* Slip: the strike of a future, 0, is compared as well.
DropOthersFutureToo(s, m) ==
    LET otherExpiry == s.d.expiry # 0 /\ s.d.expiry # Expiry(m)
        otherStrike == s.d.strike # 0 /\ s.d.strike # Strike(m)
        kept == IF otherExpiry THEN DeletePacketTillExpiryDate(s.grp, Expiry(m))
                               ELSE DeletePacketTillStrikePrice(s.grp, Strike(m))
    IN  IF otherExpiry \/ otherStrike
        THEN [s EXCEPT !.grp = kept, !.d = ExtraDetails(kept)]
        ELSE s

\* A trade of another expiry or strike ends what was collected so far.
DropOthers(s, m) ==
    LET otherExpiry == s.d.expiry # 0 /\ s.d.expiry # Expiry(m)
        otherStrike == s.d.strike # 0 /\ s.d.strike # Strike(m) /\ Type(m) # FUT
        kept == IF otherExpiry THEN DeletePacketTillExpiryDate(s.grp, Expiry(m))
                               ELSE DeletePacketTillStrikePrice(s.grp, Strike(m))
    IN  IF otherExpiry \/ otherStrike
        THEN [s EXCEPT !.grp = kept, !.d = ExtraDetails(kept)]
        ELSE s

\* Slip: the case of the future remembers the instrument type of the call.
AddTradeWrongLeg(s, m) ==
    LET y == Type(m)
    IN  [s EXCEPT !.d = [s.d EXCEPT !.seen   = @ \cup {y},
                                    !.expiry = Expiry(m),
                                    !.strike = IF y = FUT THEN @ ELSE Strike(m),
                                    !.last   = IF y = FUT THEN CALL ELSE y,
                                    !.qty[y] = @ + m.qty]]

\* The trade is added to the group and to the details of its leg.
AddTrade(s, m) ==
    LET y == Type(m)
    IN  [s EXCEPT !.d = [s.d EXCEPT !.seen   = @ \cup {y},
                                    !.expiry = Expiry(m),
                                    !.strike = IF y = FUT THEN @ ELSE Strike(m),
                                    !.last   = y,
                                    !.qty[y] = @ + m.qty]]

\* A leg that comes back after another one: the trades in front of the other
\* leg are given up.  A balanced group is put out, and stays collected.
LegAgain(s, m) ==
    LET y    == Type(m)
        kept == SecondLevelOrderValidation(y, s.grp)
    IN  IF s.d.last \in {0, y} \/ y \notin s.d.seen \/ s.d.seen = {y} THEN s
        ELSE IF Balanced(s.d.qty) /\ Cardinality(s.d.tokens) = 3
             THEN [s EXCEPT !.out = Append(@, s.grp)]
             ELSE [s EXCEPT !.grp = kept,
                            !.d   = [ExtraDetails(kept) EXCEPT !.qty[y] = @ - m.qty],
                            !.bad = @ \/ kept = <<>>]

\* The group of three legs of which the middle one is complete: as much of the
\* end of the first leg and of the start of the third as the middle one traded.
MiddleGroup(g) ==
    LET second == Min({i \in DOMAIN g : Type(g[i]) # Type(g[1])})
        third  == Min({i \in DOMAIN g : Type(g[i]) \notin {Type(g[1]), Type(g[second])}})
        q      == QtySum(OfType(SubSeq(g, 1, third - 1), Type(g[third - 1])))
        from   == {p \in 1 .. second - 1 : QtySum(SubSeq(g, p, second - 1)) = q}
        to     == {r \in third .. Len(g) : QtySum(SubSeq(g, third, r)) = q}
    IN  IF from = {} \/ to = {} THEN <<>>
        ELSE Reverse(SubSeq(g, Max(from), second - 1)) \o SubSeq(g, second, Min(to))

\* Slip: the balanced group stays collected.
PutOutKeepsGroup(s) ==
    IF Cardinality(s.d.tokens) # 3 THEN s
    ELSE IF Balanced(s.d.qty)
    THEN [s EXCEPT !.out = Append(@, s.grp),
                   !.d = [NoDetails EXCEPT !.seen = s.d.seen, !.expiry = s.d.expiry]]
    ELSE IF (\A y \in Types : s.d.qty[y] # 0) /\ MiddleGroup(s.grp) # <<>>
    THEN [s EXCEPT !.out = Append(@, MiddleGroup(s.grp)), !.grp = <<>>, !.d = NoDetails]
    ELSE s

\* A group that is complete is put out.  The first case forgets neither which
\* legs were seen nor the expiry.
PutOut(s) ==
    IF Cardinality(s.d.tokens) # 3 THEN s
    ELSE IF Balanced(s.d.qty)
    THEN [s EXCEPT !.out = Append(@, s.grp), !.grp = <<>>,
                   !.d = [NoDetails EXCEPT !.seen = s.d.seen, !.expiry = s.d.expiry]]
    ELSE IF (\A y \in Types : s.d.qty[y] # 0) /\ MiddleGroup(s.grp) # <<>>
    THEN [s EXCEPT !.out = Append(@, MiddleGroup(s.grp)), !.grp = <<>>, !.d = NoDetails]
    ELSE s

SplitStep(s, m) ==
    LET kept   == DropOthers(s, m)
        pushed == [kept EXCEPT !.grp = Append(@, m), !.d.tokens = @ \cup {m.token}]
    IN  IF s.bad THEN s ELSE PutOut(AddTrade(LegAgain(pushed, m), m))

NothingSplit == [grp |-> <<>>, d |-> NoDetails, out |-> <<>>, bad |-> FALSE]

SplitTrade(store, tokens) ==
    LET pass[n \in 0 .. Len(store)] ==
            IF n = 0 THEN NothingSplit ELSE SplitStep(pass[n - 1], store[n])
    IN  IF Len(store) = 3 /\ Cardinality(tokens) = 3
        THEN [out |-> <<store>>, bad |-> FALSE]
        ELSE pass[Len(store)]

----------------------------------------------------------------------------
(* IsValidateConRev and the record *)

\* Every trade but the first of its leg has the expiry of the trade in front of
\* it and, an option, the strike of its leg so far.
SameContract(g) ==
    \A i, j \in DOMAIN g :
        j < i /\ Type(g[j]) = Type(g[i])
            => Expiry(g[i - 1]) = Expiry(g[i]) /\ Strike(g[j]) = Strike(g[i])

IsValidateConRev(g) ==
    /\ SameContract(g)
    /\ Balanced(QtyByType(g))
    /\ TypesOf(g) = Types
    /\ ConRevSides(LastSides(g))

\* The ConRevTradeDetails enqueued for a group, and the group (history).
Record(g) ==
    [strategy |-> IF LastSides(g)[FUT] = "B" THEN 1 ELSE 2,
     symbol   |-> Scrips[Last(g).token].symbol,
     expiry   |-> Expiry(Last(OfType(g, FUT))),
     strike   |-> Strike(Last(Options(g))),
     volume   |-> QtySum(OfType(g, FUT)),
     seqNo    |-> Last(g).seq,
     group    |-> g]

RecordsOf(groups) ==
    LET valid == Kept(groups, {g \in ToSet(groups) : IsValidateConRev(g)})
    IN  [i \in DOMAIN valid |-> Record(valid[i])]

----------------------------------------------------------------------------
(* WriteDataInFile *)

NumberedTrade(m, seq) == [token |-> m.token, side |-> m.side, qty |-> m.qty, seq |-> seq]

LotIsZero(m) == m.token \in DOMAIN Scrips /\ Scrips[m.token].lot = 0

\* A trade of which one side has order id 0 is collected, any other is not.
TradeMessage(m, seq) ==
    /\ ~crashed
    /\ ~LotIsZero(m)
    /\ IF m.side = "none" THEN UNCHANGED <<tradeStore, tokenStore>>
       ELSE /\ tradeStore' = Append(tradeStore, NumberedTrade(m, seq))
            /\ tokenStore' = tokenStore \cup {m.token}
    /\ flushed' = <<>> /\ records' = <<>>
    /\ UNCHANGED crashed

\* nTradeQty is divided by the lot size of the instrument, whatever the sides.
ZeroLot(m, seq) ==
    /\ ~crashed
    /\ LotIsZero(m)
    /\ crashed' = TRUE
    /\ flushed' = Append(tradeStore, NumberedTrade(m, seq)) /\ records' = <<>>
    /\ UNCHANGED <<tradeStore, tokenStore>>

\* Slip: cTokenStore is not cleared with vTradeMsgStore.
DropRunKeepsTokens ==
    /\ ~crashed
    /\ Cardinality(tokenStore) >= 3 => tokenStore \subseteq DOMAIN Scrips
    /\ ~ValidateTradeMsgRecords(tradeStore, tokenStore)
    /\ tradeStore' = <<>>
    /\ flushed' = tradeStore /\ records' = <<>>
    /\ UNCHANGED <<crashed, tokenStore>>

\* A message of any other known kind ends the run, and the run is not one.
DropRun ==
    /\ ~crashed
    /\ Cardinality(tokenStore) >= 3 => tokenStore \subseteq DOMAIN Scrips
    /\ ~ValidateTradeMsgRecords(tradeStore, tokenStore)
    /\ tradeStore' = <<>> /\ tokenStore' = {}
    /\ flushed' = tradeStore /\ records' = <<>>
    /\ UNCHANGED crashed

\* The run is cut into groups and the records are enqueued.
ReportRun ==
    LET split == SplitTrade(tradeStore, tokenStore)
    IN  /\ ~crashed
        /\ tokenStore \subseteq DOMAIN Scrips
        /\ ValidateTradeMsgRecords(tradeStore, tokenStore)
        /\ tradeStore' = <<>> /\ tokenStore' = {}
        /\ flushed' = tradeStore
        /\ IF split.bad
           THEN crashed' = TRUE /\ records' = <<>>
           ELSE UNCHANGED crashed /\ records' = RecordsOf(split.out)

\* ValidateTradeMsgRecords looks at the instrument of a token it did not find.
UnknownToken ==
    /\ ~crashed
    /\ Cardinality(tokenStore) >= 3
    /\ ~ tokenStore \subseteq DOMAIN Scrips
    /\ crashed' = TRUE
    /\ flushed' = tradeStore /\ records' = <<>>
    /\ UNCHANGED <<tradeStore, tokenStore>>

\* A message other than a trade, of a kind WriteDataInFile knows.
EndOfRun == DropRun \/ ReportRun \/ UnknownToken

Next ==
    \/ /\ Len(tradeStore) < MaxStore
       /\ \E m \in Trades : \/ TradeMessage(m, Len(tradeStore) + 1)
                            \/ ZeroLot(m, Len(tradeStore) + 1)
    \/ EndOfRun

Spec == Init /\ [][Next]_vars

----------------------------------------------------------------------------
(* Properties *)

TradeType(sides) == [token : Nat, side : sides, qty : Nat \ {0}, seq : Nat \ {0}]

\* The variables have their types, and cTokenStore holds the tokens of the
\* trades of vTradeMsgStore: the two are filled and cleared side by side in
\* three places of WriteDataInFile.
TypeOK ==
    /\ tradeStore \in Seq(TradeType({"B", "S"}))
    /\ flushed \in Seq(TradeType({"B", "S", "none"}))
    /\ tokenStore = TokensOf(tradeStore)
    /\ \A i \in DOMAIN records : records[i].strategy \in {1, 2}
    /\ crashed \in BOOLEAN

\* The detector survives every run of trades of instruments that the contract
\* file describes: however a run is cut, SecondLevelOrderValidation never erases
\* the last trade it holds (its loop would go on with the front of an empty
\* vector).  What ends the program is a token the file does not have, or an
\* instrument without a lot size.
NeverCrashes ==
    crashed => \E i \in DOMAIN flushed :
                   flushed[i].token \notin DOMAIN Scrips \/ LotIsZero(flushed[i])

\* The groups of one run are disjoint pieces of it, reported in the order of the
\* feed, and the sequence number of a record is that of its last trade: no trade
\* counts in two records, which the two places that put a group out without
\* forgetting all about it (main.cpp:738-741, 846-856) put at risk.
RecordsInOrder ==
    /\ \A i, j \in DOMAIN records : i < j =>
           \A a \in ToSet(records[i].group), b \in ToSet(records[j].group) : a.seq < b.seq
    /\ \A i \in DOMAIN records :
           /\ IsInjective(records[i].group)
           /\ \A a \in ToSet(records[i].group) : a.seq <= records[i].seqNo

\* A record is about three instruments of one expiry, traded in equal volumes.
\* IsValidateConRev compares neither the tokens nor the expiries of different
\* legs: that they agree is the doing of SplitTrade.
ThreeLegsOneExpiry ==
    \A i \in DOMAIN records :
        LET g == records[i].group
        IN  /\ Cardinality(TokensOf(g)) = 3
            /\ \A j \in DOMAIN g : Expiry(g[j]) = records[i].expiry
            /\ \A y \in Types : QtySum(OfType(g, y)) = records[i].volume

\* An order as the exchange fills it: one leg after the other, every leg in one
\* or more trades on one side, in equal quantities.
WholeOrder(g) ==
    /\ TypesOf(g) = Types
    /\ Balanced(QtyByType(g))
    /\ ConRevSides(LastSides(g))
    /\ \A i, j \in DOMAIN g : Type(g[i]) = Type(g[j]) =>
           /\ g[i].side = g[j].side
           /\ \A k \in i .. j : Type(g[k]) = Type(g[i])

\* The run consists of whole orders in one contract that end at the given places.
OrdersEndAt(run, ends) ==
    /\ Len(run) \in ends
    /\ Cardinality(TokensOf(run)) = 3
    /\ LegsMatch(TokensOf(run))
    /\ \A e \in ends :
           WholeOrder(SubSeq(run, Max({0} \cup {d \in ends : d < e}) + 1, e))

\* Orders filled back to back, with no other message between them, are all
\* reported, each in a record of its own.
WholeOrdersReported ==
    tokenStore = {} /\ ~crashed =>
        \A ends \in SUBSET (DOMAIN flushed) :
            OrdersEndAt(flushed, ends) =>
                /\ Len(records) = Cardinality(ends)
                /\ {records[i].seqNo : i \in DOMAIN records} = ends

\* What the contract name printed with a record says, "BANKNIFTY17SEP-22000(C)"
\* (main.cpp:401): all its options have one strike.  Violated: no function
\* compares the strike of the call with that of the put.
OneStrike ==
    \A i \in DOMAIN records :
        \A m \in ToSet(records[i].group) : Type(m) # FUT => Strike(m) = records[i].strike
=============================================================================
