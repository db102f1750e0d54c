---------------------------- MODULE ContractFile ----------------------------
(***************************************************************************)
(* FileDigester (main.cpp:1264-1394): the contract file, one instrument a  *)
(* line, is read once at start into the map from tokens to instruments     *)
(* that the detector uses (Scrips of ConRevDetector).  The fields of a     *)
(* line end with '|'; a line may hold fewer of them than it should, for    *)
(* the file may be cut or edited.  A field the line does not end is 0.     *)
(***************************************************************************)
EXTENDS Integers, SequencesExt

CONSTANTS
    Lines,      \* the lines a file is made of
    MaxLines    \* bound: lines behind the version

ASSUME MaxLinesAssumption == MaxLines \in Nat

\* Places of the fields in a line (defines_conrevtrades.h:12-24).
CONTRACT_TOKEN         == 1
CONTRACT_SYMBOL        == 4
CONTRACT_EXPIRY_DATE   == 7
CONTRACT_STRIKE_PRICE  == 8
CONTRACT_CA_LEVEL      == 9
CONTRACT_BROAD_LOT_QTY == 32

FUT  == 1
CALL == 2
PUT  == 3

\* fields: how many fields the line ends.  The strike of a future is written -1.
ASSUME LinesAssumption ==
    \A line \in Lines :
        /\ line.fields \in Nat
        /\ {line.token, line.expiry, line.lot} \subseteq Nat \ {0}
        /\ line.strike \in (Nat \ {0}) \cup {-1}
        /\ line.series \in {"XX", "CE", "PE"}
        /\ (line.strike = -1) = (line.series = "XX")

VARIABLES
    phase,           \* "closed", "version", "lines", "done": the place in the function
    lines,           \* the lines read (history)
    cTokenDataStore  \* token -> instrument

vars == <<phase, lines, cTokenDataStore>>

Init ==
    /\ phase = "closed"
    /\ lines = <<>>
    /\ cTokenDataStore = <<>>

----------------------------------------------------------------------------
(* One line *)

Field(line, place, value, none) == IF place <= line.fields THEN value ELSE none

\* Slip: the strike of a future stays -1.
RawStrike(line) == Field(line, CONTRACT_STRIKE_PRICE, line.strike, 0)

StrikePrice(line) ==
    LET strike == Field(line, CONTRACT_STRIKE_PRICE, line.strike, 0)
    IN  IF strike = -1 THEN 0 ELSE strike

\* A series CE or PE overrides what the strike said; 0 is no type at all.
CustomInstrumentType(line) ==
    LET series == Field(line, CONTRACT_CA_LEVEL, line.series, "")
    IN  IF series = "CE" THEN CALL
        ELSE IF series = "PE" THEN PUT
        ELSE IF Field(line, CONTRACT_STRIKE_PRICE, line.strike, 0) = -1 THEN FUT
        ELSE 0

Token(line) == Field(line, CONTRACT_TOKEN, line.token, 0)

ScripInfo(line) ==
    [type   |-> CustomInstrumentType(line),
     expiry |-> Field(line, CONTRACT_EXPIRY_DATE, line.expiry, 0),
     strike |-> StrikePrice(line),
     symbol |-> Field(line, CONTRACT_SYMBOL, line.symbol, ""),
     lot    |-> Field(line, CONTRACT_BROAD_LOT_QTY, line.lot, 0)]

\* Slip: operator[] in the place of insert.
LastLineInserted(store, line) ==
    [token \in DOMAIN store \cup {Token(line)} |->
        IF token = Token(line) THEN ScripInfo(line) ELSE store[token]]

\* insert leaves an instrument that is there already.
Insert(store, line) ==
    [token \in DOMAIN store \cup {Token(line)} |->
        IF token \in DOMAIN store THEN store[token] ELSE ScripInfo(line)]

----------------------------------------------------------------------------
(* The function *)

Open ==
    /\ phase = "closed"
    /\ phase' = "version"
    /\ UNCHANGED <<lines, cTokenDataStore>>

\* The caller ignores the result: the program goes on with no instrument at all.
OpenFails ==
    /\ phase = "closed"
    /\ phase' = "done"
    /\ UNCHANGED <<lines, cTokenDataStore>>

\* The first line holds the version.
SkipVersion ==
    /\ phase = "version"
    /\ phase' = "lines"
    /\ UNCHANGED <<lines, cTokenDataStore>>

ReadLine(line) ==
    /\ phase = "lines"
    /\ Len(lines) < MaxLines
    /\ lines' = Append(lines, line)
    /\ cTokenDataStore' = Insert(cTokenDataStore, line)
    /\ UNCHANGED phase

\* The end of the file; it may come before the version.
EndOfFile ==
    /\ phase \in {"version", "lines"}
    /\ phase' = "done"
    /\ UNCHANGED <<lines, cTokenDataStore>>

Next ==
    \/ Open \/ OpenFails \/ SkipVersion \/ EndOfFile
    \/ \E line \in Lines : ReadLine(line)

Spec == Init /\ [][Next]_vars

----------------------------------------------------------------------------
(* Properties *)

\* Line i is the first one of its token.
FirstOfToken(i) == \A j \in 1 .. i - 1 : Token(lines[j]) # Token(lines[i])

\* However often a token is listed, the detector sees the instrument of its
\* first line, even where that line is cut and a later one is complete
\* (the insert at main.cpp:1377); and every line ends up under some token.
FirstLineWins ==
    /\ DOMAIN cTokenDataStore = {Token(lines[i]) : i \in DOMAIN lines}
    /\ \A i \in DOMAIN lines :
           FirstOfToken(i) => cTokenDataStore[Token(lines[i])] = ScripInfo(lines[i])

\* What ConRevDetector assumes of its instruments (ScripsAssumption there): one
\* with a lot size is complete.  It holds for cut lines too because the lot size
\* comes behind every other field the detector uses; the detector itself tests
\* neither the type nor the expiry (main.cpp:513-542).
StoreFitsDetector ==
    \A token \in DOMAIN cTokenDataStore :
        LET scrip == cTokenDataStore[token]
        IN  scrip.lot # 0 =>
                /\ scrip.type \in {FUT, CALL, PUT}
                /\ scrip.expiry # 0
                /\ scrip.strike \in Nat
                /\ (scrip.strike = 0) = (scrip.type = FUT)
=============================================================================
