------------------------- MODULE ContractFileProofs -------------------------
(***************************************************************************)
(* For every file, whatever its lines and wherever they are cut, the store *)
(* FileDigester leaves is one the detector can work with, and its first    *)
(* line for a token is the one that counts.                                *)
(***************************************************************************)
EXTENDS ContractFile, SequenceTheorems, TLAPS

\* What StoreFitsDetector asks of one instrument.
Fits(scrip) ==
    scrip.lot # 0 =>
        /\ scrip.type \in {FUT, CALL, PUT}
        /\ scrip.expiry # 0
        /\ scrip.strike \in Nat
        /\ (scrip.strike = 0) = (scrip.type = FUT)

\* The lot size is the last field that is read: where it is there, all are.
LEMMA LineFits ==
    ASSUME NEW line \in Lines
    PROVE  Fits(ScripInfo(line))
<1>1. line.fields \in Nat
    BY LinesAssumption
<1>2. line.expiry # 0
    BY LinesAssumption
<1>3. CASE ~(32 <= line.fields)
    BY <1>3 DEF Fits, ScripInfo, Field, CONTRACT_BROAD_LOT_QTY
<1>4. CASE 32 <= line.fields
  <2>1. 7 <= line.fields /\ 8 <= line.fields /\ 9 <= line.fields
      BY <1>1, <1>4
  <2>2. ScripInfo(line).expiry = line.expiry
      BY <2>1 DEF ScripInfo, Field, CONTRACT_EXPIRY_DATE
  <2>3. Field(line, CONTRACT_STRIKE_PRICE, line.strike, 0) = line.strike
      BY <2>1 DEF Field, CONTRACT_STRIKE_PRICE
  <2>4. Field(line, CONTRACT_CA_LEVEL, line.series, "") = line.series
      BY <2>1 DEF Field, CONTRACT_CA_LEVEL
  <2>5. CASE line.series = "XX"
    <3>1. line.strike = -1
        BY <2>5, LinesAssumption
    <3>2. ScripInfo(line).type = FUT
        BY <2>3, <2>4, <2>5, <3>1 DEF ScripInfo, CustomInstrumentType
    <3>3. ScripInfo(line).strike = 0
        BY <2>3, <3>1 DEF ScripInfo, StrikePrice
    <3> QED
        BY <1>2, <2>2, <3>2, <3>3 DEF Fits
  <2>6. CASE line.series # "XX"
    <3>1. line.strike \in Nat \ {0}
        BY <2>6, LinesAssumption
    <3>2. ScripInfo(line).type \in {CALL, PUT}
      <4>1. CASE line.series = "CE"
          BY <2>3, <2>4, <3>1, <4>1 DEF ScripInfo, CustomInstrumentType
      <4>2. CASE line.series = "PE"
          BY <2>3, <2>4, <3>1, <4>2 DEF ScripInfo, CustomInstrumentType
      <4> QED
          BY <2>6, <4>1, <4>2, LinesAssumption
    <3>3. ScripInfo(line).strike = line.strike
        BY <2>3, <3>1 DEF ScripInfo, StrikePrice
    <3> QED
        BY <1>2, <2>2, <3>1, <3>2, <3>3 DEF Fits, FUT, CALL, PUT
  <2> QED
      BY <2>5, <2>6
<1> QED
    BY <1>3, <1>4

\* insert adds at most the one instrument, and changes none that is there.
LEMMA InsertAdds ==
    ASSUME NEW store, NEW line,
           NEW token \in DOMAIN Insert(store, line)
    PROVE  \/ token \in DOMAIN store /\ Insert(store, line)[token] = store[token]
           \/ token = Token(line) /\ Insert(store, line)[token] = ScripInfo(line)
BY DEF Insert

----------------------------------------------------------------------------

\* Whatever the file holds, an instrument with a lot size is complete.
THEOREM StoreFits == Spec => []StoreFitsDetector
<1>1. StoreFitsDetector <=> \A token \in DOMAIN cTokenDataStore : Fits(cTokenDataStore[token])
    BY DEF StoreFitsDetector, Fits
<1>2. Init => StoreFitsDetector
    BY <1>1 DEF Init
<1>3. StoreFitsDetector /\ [Next]_vars => StoreFitsDetector'
  <2> SUFFICES ASSUME StoreFitsDetector, [Next]_vars PROVE StoreFitsDetector'
      OBVIOUS
  <2>1. CASE UNCHANGED cTokenDataStore
      BY <2>1 DEF StoreFitsDetector
  <2>2. ASSUME NEW line \in Lines, ReadLine(line)
        PROVE  StoreFitsDetector'
    <3>1. ASSUME NEW token \in DOMAIN cTokenDataStore'
          PROVE  Fits(cTokenDataStore'[token])
      <4>1. cTokenDataStore' = Insert(cTokenDataStore, line)
          BY <2>2 DEF ReadLine
      <4>2. \/ token \in DOMAIN cTokenDataStore /\ cTokenDataStore'[token] = cTokenDataStore[token]
            \/ cTokenDataStore'[token] = ScripInfo(line)
          BY <3>1, <4>1, InsertAdds
      <4> QED
          BY <1>1, <4>2, LineFits
    <3> QED
        BY <3>1 DEF StoreFitsDetector, Fits
  <2> QED
      BY <2>1, <2>2 DEF Next, vars, Open, OpenFails, SkipVersion, EndOfFile
<1> QED
    BY <1>2, <1>3, PTL DEF Spec

----------------------------------------------------------------------------
(* The first line *)

LinesRead == lines \in Seq(Lines)

LEMMA ReadLineKeepsFirst ==
    ASSUME LinesRead, FirstLineWins, NEW line \in Lines, ReadLine(line)
    PROVE  LinesRead' /\ FirstLineWins'
<1> DEFINE n == Len(lines)
<1>1. /\ lines' = Append(lines, line)
      /\ cTokenDataStore' = Insert(cTokenDataStore, line)
    BY DEF ReadLine
<1>2. /\ n \in Nat /\ DOMAIN lines = 1 .. n
      /\ lines' \in Seq(Lines) /\ DOMAIN lines' = 1 .. n + 1
      /\ \A i \in 1 .. n : lines'[i] = lines[i]
      /\ lines'[n + 1] = line
    BY <1>1, AppendProperties, LenProperties DEF LinesRead
<1> HIDE DEF n
<1>3. DOMAIN cTokenDataStore = {Token(lines[i]) : i \in 1 .. n}
    BY <1>2 DEF FirstLineWins
<1>4. DOMAIN cTokenDataStore' = DOMAIN cTokenDataStore \cup {Token(line)}
    BY <1>1 DEF Insert
<1>5. DOMAIN cTokenDataStore' = {Token(lines'[i]) : i \in DOMAIN lines'}
  <2>1. {Token(lines'[i]) : i \in 1 .. n + 1} = {Token(lines[i]) : i \in 1 .. n} \cup {Token(line)}
    <3>1. 1 .. n + 1 = (1 .. n) \cup {n + 1}
        BY <1>2
    <3> QED
        BY <3>1, <1>2
  <2> QED
      BY <2>1, <1>2, <1>3, <1>4
<1>6. ASSUME NEW i \in 1 .. n + 1,
             \A j \in 1 .. i - 1 : Token(lines'[j]) # Token(lines'[i])
      PROVE  cTokenDataStore'[Token(lines'[i])] = ScripInfo(lines'[i])
  <2>1. CASE i \in 1 .. n
    <3>1. lines'[i] = lines[i] /\ \A j \in 1 .. i - 1 : lines'[j] = lines[j]
        BY <2>1, <1>2
    <3>2. FirstOfToken(i)
        BY <3>1, <1>6 DEF FirstOfToken
    <3>3. cTokenDataStore[Token(lines[i])] = ScripInfo(lines[i])
        BY <2>1, <3>2, <1>2 DEF FirstLineWins
    <3>4. Token(lines[i]) \in DOMAIN cTokenDataStore
        BY <2>1, <1>3
    <3>5. cTokenDataStore'[Token(lines[i])] = cTokenDataStore[Token(lines[i])]
        BY <3>4, <1>1 DEF Insert
    <3> QED
        BY <3>1, <3>3, <3>5
  <2>2. CASE i = n + 1
    <3>1. \A j \in 1 .. n : Token(lines[j]) # Token(line)
        BY <2>2, <1>2, <1>6
    <3>2. Token(line) \notin DOMAIN cTokenDataStore
        BY <3>1, <1>3
    <3>3. cTokenDataStore'[Token(line)] = ScripInfo(line)
        BY <3>2, <1>1 DEF Insert
    <3> QED
        BY <3>3, <2>2, <1>2
  <2> QED
      BY <2>1, <2>2, <1>2
<1> QED
    BY <1>2, <1>5, <1>6 DEF LinesRead, FirstLineWins, FirstOfToken

\* However often a token is listed, and wherever its lines are cut, the detector
\* sees the first of them (the insert of FileDigester).
THEOREM FirstLineCounts == Spec => []FirstLineWins
<1>1. Init => LinesRead /\ FirstLineWins
    BY DEF Init, LinesRead, FirstLineWins
<1>2. LinesRead /\ FirstLineWins /\ [Next]_vars => LinesRead' /\ FirstLineWins'
  <2> SUFFICES ASSUME LinesRead, FirstLineWins, [Next]_vars
               PROVE  LinesRead' /\ FirstLineWins'
      OBVIOUS
  <2>1. CASE UNCHANGED <<lines, cTokenDataStore>>
      BY <2>1 DEF LinesRead, FirstLineWins, FirstOfToken
  <2>2. ASSUME NEW line \in Lines, ReadLine(line)
        PROVE  LinesRead' /\ FirstLineWins'
      BY <2>2, ReadLineKeepsFirst
  <2> QED
      BY <2>1, <2>2 DEF Next, vars, Open, OpenFails, SkipVersion, EndOfFile
<1> QED
    BY <1>1, <1>2, PTL DEF Spec
=============================================================================
