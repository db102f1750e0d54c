-------------------------- MODULE RealTimeCRProofs --------------------------
(***************************************************************************)
(* The program as its surroundings see it, for every stream, every         *)
(* contract file, every capacity of the queue and any number of restarts.  *)
(* The invariant has four parts: the process is handed messages of the     *)
(* stream (FeedInv); the stores hold the trades since the last end message *)
(* (StoreInv, RunInv); what was produced is what the messages handed so    *)
(* far ask for (ProducedExactly); and the records between detector and     *)
(* reader, taken together, rise and lie in front of all that is collected  *)
(* now (FlowInv).                                                          *)
(***************************************************************************)
EXTENDS RealTimeCR, ConRevDetectorProofs

----------------------------------------------------------------------------
(* Sequences of sequences *)

\* The function that FlattenSeq stands for.
IsFlatFn(f, seqs, k) ==
    f = [i \in 1 .. k |-> IF i = 1 THEN seqs[i] ELSE f[i - 1] \o seqs[i]]

\* The function that FlattenSeq is defined by.
LEMMA FlatFnExists ==
    ASSUME NEW seqs, NEW N \in Nat
    PROVE  \E f : IsFlatFn(f, seqs, N)
<1> DEFINE T == {k \in Nat : \E f : IsFlatFn(f, seqs, k)}
<1>1. 0 \in T
  <2> DEFINE f == [i \in 1 .. 0 |-> <<>>]
  <2>1. IsFlatFn(f, seqs, 0)
      BY DEF IsFlatFn
  <2> QED
      BY <2>1
<1>2. ASSUME NEW k \in Nat, k \in T PROVE k + 1 \in T
  <2>1. PICK f : IsFlatFn(f, seqs, k)
      BY <1>2
  <2> DEFINE e == IF k + 1 = 1 THEN seqs[k + 1] ELSE f[k] \o seqs[k + 1]
             h == [i \in 1 .. k + 1 |-> IF i = k + 1 THEN e ELSE f[i]]
  <2>0. e = IF k + 1 = 1 THEN seqs[k + 1] ELSE f[k] \o seqs[k + 1]
      OBVIOUS
  <2> HIDE DEF e
  <2>2. /\ DOMAIN h = 1 .. k + 1 /\ h = [i \in 1 .. k + 1 |-> h[i]]
        /\ h[k + 1] = e /\ (k # 0 => h[k] = f[k])
        /\ \A i \in 1 .. k : h[i] = f[i]
      OBVIOUS
  <2>3. \A i \in 1 .. k : f[i] = IF i = 1 THEN seqs[i] ELSE f[i - 1] \o seqs[i]
      BY <2>1 DEF IsFlatFn
  <2> HIDE DEF h
  <2>4. \A i \in 1 .. k + 1 : h[i] = IF i = 1 THEN seqs[i] ELSE h[i - 1] \o seqs[i]
    <3> TAKE i \in 1 .. k + 1
    <3>1. CASE i = k + 1
      <4>1. h[i] = e /\ i - 1 = k
          BY <3>1, <2>2
      <4>2. i # 1 => h[i - 1] = f[k]
          BY <3>1, <4>1, <2>2
      <4> QED
          BY <3>1, <4>1, <4>2, <2>0
    <3>2. CASE i \in 1 .. k
      <4>1. h[i] = f[i]
          BY <3>2, <2>2
      <4>2. i # 1 => i - 1 \in 1 .. k
          BY <3>2
      <4>3. i # 1 => h[i - 1] = f[i - 1]
          BY <4>2, <2>2
      <4> QED
          BY <3>2, <4>1, <4>3, <2>3
    <3> QED
        BY <3>1, <3>2
  <2>5. IsFlatFn(h, seqs, k + 1)
      BY <2>2, <2>4 DEF IsFlatFn
  <2> QED
      BY <2>5
<1> HIDE DEF T
<1>3. N \in T
    BY <1>1, <1>2, NatSetInduction
<1> QED
    BY <1>3 DEF T

\* FlattenSeq as its recursion says.
LEMMA FlatRec ==
    ASSUME NEW seqs, Len(seqs) \in Nat \ {0}
    PROVE  \E f : /\ FlattenSeq(seqs) = f[Len(seqs)]
                  /\ \A i \in 1 .. Len(seqs) :
                        f[i] = IF i = 1 THEN seqs[i] ELSE f[i - 1] \o seqs[i]
<1> DEFINE f == CHOOSE f : IsFlatFn(f, seqs, Len(seqs))
<1>1. IsFlatFn(f, seqs, Len(seqs))
    BY FlatFnExists
<1>2. FlattenSeq(seqs) = f[Len(seqs)]
    BY DEF FlattenSeq, IsFlatFn
<1> HIDE DEF f
<1>3. \A i \in 1 .. Len(seqs) : f[i] = IF i = 1 THEN seqs[i] ELSE f[i - 1] \o seqs[i]
    BY <1>1 DEF IsFlatFn
<1> QED
    BY <1>2, <1>3

\* Two families of sequences that agree up to n, of which the longer has one more.
LEMMA FlatOneMore ==
    ASSUME NEW n \in Nat, NEW s, Len(s) = n, NEW t, Len(t) = n + 1,
           \A i \in 1 .. n : t[i] = s[i], n = 0 => s = <<>>,
           NEW A, t[n + 1] \in Seq(A)
    PROVE  FlattenSeq(t) = FlattenSeq(s) \o t[n + 1]
<1>1. PICK e : /\ FlattenSeq(t) = e[n + 1]
               /\ \A i \in 1 .. n + 1 : e[i] = IF i = 1 THEN t[i] ELSE e[i - 1] \o t[i]
  <2>1. Len(t) \in Nat \ {0}
      OBVIOUS
  <2>2. PICK e : /\ FlattenSeq(t) = e[Len(t)]
                 /\ \A i \in 1 .. Len(t) : e[i] = IF i = 1 THEN t[i] ELSE e[i - 1] \o t[i]
      BY <2>1, FlatRec
  <2> QED
      BY <2>2
<1>2. CASE n = 0
  <2>1. FlattenSeq(s) = <<>>
    <3>1. Len(s) = 0 /\ s = <<>>
        BY <1>2
    <3> QED
        BY <3>1 DEF FlattenSeq
  <2>2. e[n + 1] = t[n + 1]
      BY <1>1, <1>2
  <2>3. <<>> \o t[n + 1] = t[n + 1]
      BY ConcatEmptySeq
  <2> QED
      BY <1>1, <2>1, <2>2, <2>3
<1>3. CASE n # 0
  <2>1. PICK f : /\ FlattenSeq(s) = f[n]
                 /\ \A i \in 1 .. n : f[i] = IF i = 1 THEN s[i] ELSE f[i - 1] \o s[i]
    <3>1. Len(s) \in Nat \ {0}
        BY <1>3
    <3>2. PICK f : /\ FlattenSeq(s) = f[Len(s)]
                   /\ \A i \in 1 .. Len(s) : f[i] = IF i = 1 THEN s[i] ELSE f[i - 1] \o s[i]
        BY <3>1, FlatRec
    <3> QED
        BY <3>2
  <2>2. e[n] = f[n]
    <3> DEFINE U == {k \in Nat : k \in 1 .. n => e[k] = f[k]}
    <3>1. 0 \in U
        OBVIOUS
    <3>2. ASSUME NEW k \in Nat, k \in U PROVE k + 1 \in U
      <4> SUFFICES ASSUME k + 1 \in 1 .. n PROVE e[k + 1] = f[k + 1]
          OBVIOUS
      <4>1. (k + 1) - 1 = k /\ k + 1 \in 1 .. n + 1 /\ t[k + 1] = s[k + 1]
          OBVIOUS
      <4>2. CASE k = 0
          BY <4>1, <4>2, <1>1, <2>1
      <4>3. CASE k # 0
        <5>1. e[k] = f[k]
            BY <4>3, <3>2
        <5>2. k + 1 # 1
            BY <4>3
        <5> QED
            BY <4>1, <5>1, <5>2, <1>1, <2>1
      <4> QED
          BY <4>2, <4>3
    <3> HIDE DEF U
    <3>3. n \in U
        BY <3>1, <3>2, NatSetInduction
    <3> QED
        BY <3>3, <1>3 DEF U
  <2>3. e[n + 1] = e[n] \o t[n + 1]
    <3>1. n + 1 \in 1 .. n + 1 /\ n + 1 # 1 /\ (n + 1) - 1 = n
        BY <1>3
    <3> QED
        BY <3>1, <1>1
  <2> QED
      BY <1>1, <2>1, <2>2, <2>3
<1> QED
    BY <1>2, <1>3

----------------------------------------------------------------------------
(* The run that an end message ends *)

\* The three parts of RunEndingAt: the sequence numbers since the end message before,
\* those of one-sided trades, and that end message.
Numbers(s, from, e) == [i \in 1 .. e - from - 1 |-> from + i]
Wanted(s, from, e)  == {n \in from + 1 .. e - 1 : s[n] # SkipMessage /\ s[n].side # "none"}
LastEnd(s, e)       == Max({0} \cup {d \in 1 .. e - 1 : s[d] = EndMessage})

\* The end message before e is before e.
LEMMA LastEndBelow ==
    ASSUME NEW s, NEW e \in Nat \ {0}
    PROVE  LastEnd(s, e) \in 0 .. e - 1
<1> DEFINE D == {0} \cup {d \in 1 .. e - 1 : s[d] = EndMessage}
<1>1. D \subseteq Nat /\ D # {} /\ e \in Nat /\ \A d \in D : d <= e
    OBVIOUS
<1>2. D \subseteq 0 .. e - 1
    OBVIOUS
<1>3. LastEnd(s, e) = Max(D)
    BY DEF LastEnd
<1> HIDE DEF D
<1>4. Max(D) \in D
    BY <1>1, GreatestOf
<1> QED
    BY <1>2, <1>3, <1>4

\* Behind an end message the run begins with the next message.
LEMMA LastEndHere ==
    ASSUME NEW s, NEW e \in Nat \ {0}, s[e] = EndMessage
    PROVE  LastEnd(s, e + 1) = e
<1> DEFINE D == {0} \cup {d \in 1 .. (e + 1) - 1 : s[d] = EndMessage}
<1>1. D \subseteq Nat /\ D # {} /\ e \in Nat /\ e \in D /\ \A d \in D : d <= e
    OBVIOUS
<1>3. LastEnd(s, e + 1) = Max(D)
    BY DEF LastEnd
<1> HIDE DEF D
<1>4. Max(D) \in D /\ \A x \in D : x <= Max(D)
    BY <1>1, GreatestOf
<1>5. Max(D) \in Nat /\ Max(D) <= e /\ e <= Max(D)
    BY <1>1, <1>4
<1> QED
    BY <1>3, <1>5

\* Behind any other message it begins where it began.
LEMMA LastEndBefore ==
    ASSUME NEW s, NEW e \in Nat \ {0}, s[e] # EndMessage
    PROVE  LastEnd(s, e + 1) = LastEnd(s, e)
<1>1. {d \in 1 .. (e + 1) - 1 : s[d] = EndMessage} = {d \in 1 .. e - 1 : s[d] = EndMessage}
    OBVIOUS
<1> QED
    BY <1>1 DEF LastEnd

\* RunEndingAt by its parts.
LEMMA RunOf ==
    ASSUME NEW s, NEW e
    PROVE  RunEndingAt(s, e) =
               LET c == Kept(Numbers(s, LastEnd(s, e), e), Wanted(s, LastEnd(s, e), e))
               IN  [i \in DOMAIN c |-> NumberedTrade(s[c[i]], c[i])]
BY DEF RunEndingAt, Numbers, Wanted, LastEnd

\* A run that has not begun is empty.
LEMMA RunStarts ==
    ASSUME NEW s, NEW e \in Nat \ {0}, LastEnd(s, e) = e - 1
    PROVE  RunEndingAt(s, e) = <<>>
<1>1. Numbers(s, e - 1, e) = <<>>
    BY DEF Numbers
<1> DEFINE S == Wanted(s, e - 1, e)
<1> HIDE DEF S
<1>2. Kept(<<>>, S) = <<>> /\ DOMAIN <<>> = {}
    BY KeptEmpty
<1>3. Kept(Numbers(s, e - 1, e), S) = <<>>
    BY <1>1, <1>2
<1>4. RunEndingAt(s, e) =
          LET c == Kept(Numbers(s, e - 1, e), S)
          IN  [i \in DOMAIN c |-> NumberedTrade(s[c[i]], c[i])]
    BY RunOf DEF S
<1>5. RunEndingAt(s, e) = [i \in {} |-> NumberedTrade(s[<<>>[i]], <<>>[i])]
    BY <1>2, <1>3, <1>4
<1> QED
    BY <1>5

\* One message more adds its sequence number.
LEMMA NumbersOneMore ==
    ASSUME NEW s, NEW e \in Nat \ {0}, NEW from \in 0 .. e - 1
    PROVE  /\ Numbers(s, from, e) \in Seq(Nat)
           /\ Numbers(s, from, e + 1) = Append(Numbers(s, from, e), e)
           /\ \A i \in 1 .. Len(Numbers(s, from, e)) :
                 Numbers(s, from, e)[i] \in from + 1 .. e - 1
<1> DEFINE a == Numbers(s, from, e)
           b == Numbers(s, from, e + 1)
           k == e - from - 1
<1>1. k \in Nat /\ (e + 1) - from - 1 = k + 1 /\ from \in Nat
    OBVIOUS
<1>2. a = [i \in 1 .. k |-> from + i] /\ b = [i \in 1 .. k + 1 |-> from + i]
    BY <1>1 DEF Numbers
<1>3. from + (k + 1) = e
    OBVIOUS
<1> HIDE DEF a, b, k
<1>4. a \in Seq(Nat) /\ Len(a) = k
    BY <1>1, <1>2
<1>5. b \in Seq(Nat) /\ Len(b) = k + 1
    BY <1>1, <1>2
<1>6. /\ Append(a, e) \in Seq(Nat) /\ Len(Append(a, e)) = k + 1
      /\ Append(a, e)[k + 1] = e /\ \A i \in 1 .. k : Append(a, e)[i] = a[i]
    BY <1>4, AppendProperties
<1>7. \A i \in 1 .. k + 1 : i = k + 1 \/ i \in 1 .. k
    BY <1>1
<1>8. \A i \in 1 .. k + 1 : b[i] = from + i
    BY <1>2
<1>9. \A i \in 1 .. k : a[i] = from + i
    BY <1>2
<1>10. \A i \in 1 .. Len(b) : b[i] = Append(a, e)[i]
    BY <1>3, <1>5, <1>6, <1>7, <1>8, <1>9
<1>11. b = Append(a, e)
    BY <1>5, <1>6, <1>10, SeqEqual
<1>12. \A i \in 1 .. Len(a) : a[i] \in from + 1 .. e - 1
    BY <1>1, <1>3, <1>4, <1>9
<1> QED
    BY <1>4, <1>11, <1>12 DEF a, b

\* A message that does not end the run is added to it, if it is a one-sided trade.
LEMMA RunGoesOn ==
    ASSUME NEW s, NEW e \in Nat \ {0}, s[e] # EndMessage
    PROVE  RunEndingAt(s, e + 1) =
               IF s[e] # SkipMessage /\ s[e].side # "none"
               THEN Append(RunEndingAt(s, e), NumberedTrade(s[e], e))
               ELSE RunEndingAt(s, e)
<1> DEFINE from == LastEnd(s, e)
<1>1. from \in 0 .. e - 1 /\ LastEnd(s, e + 1) = from
    BY LastEndBelow, LastEndBefore
<1> HIDE DEF from
<1> DEFINE a == Numbers(s, from, e)
           b == Numbers(s, from, e + 1)
           S == Wanted(s, from, e)
           T == Wanted(s, from, e + 1)
<1>2. a \in Seq(Nat) /\ b = Append(a, e) /\ \A i \in 1 .. Len(a) : a[i] \in from + 1 .. e - 1
    BY <1>1, NumbersOneMore
<1>3. \A i \in 1 .. Len(a) : a[i] \in S <=> a[i] \in T
  <2>1. from + 1 .. e - 1 \subseteq from + 1 .. (e + 1) - 1
      BY <1>1
  <2> HIDE DEF a
  <2> QED
      BY <2>1, <1>2 DEF Wanted
<1>4. e \in T <=> s[e] # SkipMessage /\ s[e].side # "none"
    BY <1>1 DEF Wanted
<1>5. RunEndingAt(s, e) = LET c == Kept(a, S) IN [i \in DOMAIN c |-> NumberedTrade(s[c[i]], c[i])]
    BY RunOf DEF from
<1>6. RunEndingAt(s, e + 1) = LET c == Kept(b, T) IN [i \in DOMAIN c |-> NumberedTrade(s[c[i]], c[i])]
    BY <1>1, RunOf
<1> HIDE DEF a, b, S, T
<1> DEFINE c == Kept(a, S)
<1>7. Kept(b, T) = IF e \in T THEN Append(c, e) ELSE c
    BY <1>2, <1>3, KeptAppend
<1>8. c \in Seq(Nat)
    BY <1>2, KeptSelects
<1> HIDE DEF c
<1>9. RunEndingAt(s, e) = [i \in DOMAIN c |-> NumberedTrade(s[c[i]], c[i])]
    BY <1>5 DEF c
<1>10. CASE e \notin T
    BY <1>4, <1>6, <1>7, <1>9, <1>10
<1>11. CASE e \in T
  <2> DEFINE d == Append(c, e)
             r == RunEndingAt(s, e)
             q == RunEndingAt(s, e + 1)
             m == NumberedTrade(s[e], e)
             X == {NumberedTrade(s[i], i) : i \in Nat}
  <2>1. q = [i \in DOMAIN d |-> NumberedTrade(s[d[i]], d[i])]
      BY <1>6, <1>7, <1>11
  <2>2. /\ Len(c) \in Nat /\ DOMAIN c = 1 .. Len(c) /\ \A i \in 1 .. Len(c) : c[i] \in Nat
        /\ DOMAIN d = 1 .. Len(c) + 1 /\ d[Len(c) + 1] = e
        /\ \A i \in 1 .. Len(c) : d[i] = c[i]
      BY <1>8, AppendProperties, LenProperties
  <2> HIDE DEF d, r, q
  <2> DEFINE L == Len(c)
  <2>3. r = [i \in 1 .. L |-> NumberedTrade(s[c[i]], c[i])]
      BY <1>9, <2>2 DEF r
  <2>4. q = [i \in 1 .. L + 1 |-> NumberedTrade(s[d[i]], d[i])]
      BY <2>1, <2>2
  <2>5. L \in Nat /\ \A i \in 1 .. L + 1 : i = L + 1 \/ i \in 1 .. L
      BY <2>2
  <2>6. \A i \in 1 .. L + 1 : d[i] \in Nat
      BY <2>2, <2>5
  <2>7. \A i \in 1 .. L : r[i] = NumberedTrade(s[c[i]], c[i])
      BY <2>3
  <2>8. \A i \in 1 .. L + 1 : q[i] = NumberedTrade(s[d[i]], d[i])
      BY <2>4
  <2>9. m = NumberedTrade(s[e], e)
      OBVIOUS
  <2> HIDE DEF m
  <2>10. m \in X /\ (\A i \in 1 .. L : r[i] \in X) /\ (\A i \in 1 .. L + 1 : q[i] \in X)
      BY <2>2, <2>6, <2>7, <2>8, <2>9
  <2> HIDE DEF X, L
  <2>11. r \in Seq(X) /\ Len(r) = L
    <3>1. r \in [1 .. L -> X]
        BY <2>3, <2>10
    <3> QED
        BY <3>1, <2>5
  <2>12. q \in Seq(X) /\ Len(q) = L + 1
    <3>1. q \in [1 .. L + 1 -> X]
        BY <2>4, <2>10
    <3> QED
        BY <3>1, <2>5
  <2>13. /\ Append(r, m) \in Seq(X) /\ Len(Append(r, m)) = L + 1
         /\ Append(r, m)[L + 1] = m /\ \A i \in 1 .. L : Append(r, m)[i] = r[i]
      BY <2>10, <2>11, AppendProperties
  <2>14. \A i \in 1 .. Len(q) : q[i] = Append(r, m)[i]
    <3>1. \A i \in 1 .. L : q[i] = r[i]
        BY <2>2, <2>5, <2>7, <2>8 DEF L
    <3>2. q[L + 1] = m
        BY <2>2, <2>5, <2>8, <2>9 DEF L
    <3> QED
        BY <3>1, <3>2, <2>5, <2>12, <2>13
  <2>15. q = Append(r, m)
      BY <2>12, <2>13, <2>14, SeqEqual
  <2> QED
      BY <2>15, <1>4, <1>11 DEF q, r, m
<1> QED
    BY <1>10, <1>11

----------------------------------------------------------------------------
(* What the detector does with one message of the stream *)

\* What the stores hold, whatever became of the process.
StoreInv ==
    /\ tradeStore \in Seq(Collected)
    /\ tokenStore = TokensOf(tradeStore)
    /\ Increasing(tradeStore)
    /\ \A i \in 1 .. Len(tradeStore) : tradeStore[i].seq <= Len(handed)
    /\ NoZeroLot

\* The four things that can happen: the trade is collected,
TradeAdded(n) ==
    LET a == NumberedTrade(stream[n], n)
    IN  /\ stream[n] # EndMessage /\ stream[n] # SkipMessage /\ stream[n].side # "none"
        /\ a \in Collected /\ ~ LotIsZero(a)
        /\ tradeStore' = Append(tradeStore, a)
        /\ tokenStore' = tokenStore \cup {a.token}
        /\ records' = <<>> /\ ~ crashed'

\* the message is of no concern,
NothingAdded(n) ==
    /\ stream[n] # EndMessage
    /\ stream[n] = SkipMessage \/ stream[n].side = "none"
    /\ UNCHANGED <<tradeStore, tokenStore>>
    /\ records' = <<>> /\ ~ crashed'

\* the process ends,
Crashed ==
    /\ UNCHANGED <<tradeStore, tokenStore>>
    /\ records' = <<>> /\ crashed'

\* or the run ends and is reported as it should be.
RunEnded(n) ==
    /\ stream[n] = EndMessage
    /\ tradeStore' = <<>> /\ tokenStore' = {}
    /\ records' = RecordsOfRun(tradeStore) /\ ~ crashed'
    /\ records' = <<>> \/ GoodRecords(records', tradeStore, Len(tradeStore))

\* An end message reports the run, or ends the process at an unknown token.
LEMMA DetectEnd ==
    ASSUME StoreInv, NEW n, stream[n] = EndMessage, EndOfRun
    PROVE  Crashed \/ RunEnded(n)
<1>1. /\ tradeStore \in Seq(Collected) /\ tokenStore = TokensOf(tradeStore)
      /\ Increasing(tradeStore) /\ NoZeroLot
    BY DEF StoreInv
<1>2. CASE UnknownToken
    BY <1>2 DEF UnknownToken, Crashed
<1>3. CASE DropRun
    BY <1>1, <1>3 DEF DropRun, RunEnded, RecordsOfRun
<1>4. CASE ReportRun
  <2> DEFINE split == SplitTrade(tradeStore, tokenStore)
  <2>1. /\ TokensOf(tradeStore) \subseteq DOMAIN Scrips
        /\ ValidateTradeMsgRecords(tradeStore, TokensOf(tradeStore))
        /\ split = SplitTrade(tradeStore, TokensOf(tradeStore))
        /\ tradeStore' = <<>> /\ tokenStore' = {} /\ ~ crashed
      BY <1>1, <1>4 DEF ReportRun
  <2>2. ~ split.bad => crashed' = crashed /\ records' = RecordsOf(split.out)
      BY <1>4 DEF ReportRun
  <2>3. \A t \in TokensOf(tradeStore) : t \in DOMAIN Scrips /\ Scrips[t].lot # 0
      BY <1>1, <2>1 DEF TokensOf, NoZeroLot, LotIsZero
  <2>4. RecordsOfRun(tradeStore) = RecordsOf(split.out)
      BY <2>1, <2>3 DEF RecordsOfRun
  <2> HIDE DEF split
  <2>5. ~ split.bad /\ GoodRecords(RecordsOf(split.out), tradeStore, Len(tradeStore))
      BY <1>1, <2>1, RunReported DEF NoZeroLot
  <2> QED
      BY <2>1, <2>2, <2>4, <2>5 DEF RunEnded
<1> QED
    BY <1>2, <1>3, <1>4 DEF EndOfRun

\* Every message does one of the four.
LEMMA Detected ==
    ASSUME StoreInv, stream \in Streams, NEW n \in 1 .. Len(stream), Detect(n)
    PROVE  ~ crashed /\ (TradeAdded(n) \/ NothingAdded(n) \/ Crashed \/ RunEnded(n))
<1>1. stream \in Seq(Trades \cup {EndMessage, SkipMessage})
    BY StreamsAssumption
<1>2. n \in Nat \ {0} /\ stream[n] \in Trades \cup {EndMessage, SkipMessage}
    BY <1>1, LenProperties
<1>3. CASE stream[n] = EndMessage
  <2>0. EndMessage # SkipMessage
    <3>1. EndMessage.kind # SkipMessage.kind
        BY DEF EndMessage, SkipMessage
    <3> QED
        BY <3>1
  <2>1. EndOfRun
      BY <1>3, <2>0 DEF Detect
  <2>2. ~ crashed
      BY <2>1 DEF EndOfRun, DropRun, ReportRun, UnknownToken
  <2> QED
      BY <1>3, <2>1, <2>2, DetectEnd
<1>4. CASE stream[n] = SkipMessage /\ stream[n] # EndMessage
    BY <1>4 DEF Detect, Skip, NothingAdded
<1>5. CASE stream[n] # EndMessage /\ stream[n] # SkipMessage
  <2>1. stream[n] \in Trades
      BY <1>2, <1>5
  <2>2. TradeMessage(stream[n], n) \/ ZeroLot(stream[n], n)
      BY <1>5 DEF Detect
  <2>3. CASE ZeroLot(stream[n], n)
      BY <2>3 DEF ZeroLot, Crashed
  <2>4. CASE TradeMessage(stream[n], n)
    <3>1. ~ crashed /\ ~ crashed' /\ records' = <<>> /\ ~ LotIsZero(stream[n])
        BY <2>4 DEF TradeMessage
    <3>2. CASE stream[n].side = "none"
        BY <2>4, <3>1, <3>2, <1>5 DEF TradeMessage, NothingAdded
    <3>3. CASE stream[n].side # "none"
      <4> DEFINE a == NumberedTrade(stream[n], n)
      <4>1. a \in Collected /\ a.token = stream[n].token
          BY <2>1, <1>2, <3>3, NumberedTradeType
      <4>2. ~ LotIsZero(a)
          BY <3>1, <4>1 DEF LotIsZero
      <4>3. tradeStore' = Append(tradeStore, a) /\ tokenStore' = tokenStore \cup {a.token}
          BY <2>4, <3>3, <4>1 DEF TradeMessage
      <4> QED
          BY <3>1, <3>3, <4>1, <4>2, <4>3, <1>5 DEF TradeAdded
    <3> QED
        BY <3>2, <3>3
  <2> QED
      BY <2>2, <2>3, <2>4 DEF ZeroLot
<1> QED
    BY <1>3, <1>4, <1>5

----------------------------------------------------------------------------
(* The feed and the stores *)

\* The process is handed messages that the exchange has published.
FeedInv ==
    /\ stream \in Streams
    /\ published \in Nat /\ published <= Len(stream)
    /\ handed \in Seq(Nat) /\ Len(handed) <= published

\* The stores hold the trades since the last end message.
RunInv == ~ crashed => tradeStore = RunEndingAt(stream, Len(handed) + 1)

\* Streams are finite.
LEMMA StreamLength ==
    ASSUME stream \in Streams
    PROVE  Len(stream) \in Nat
BY StreamsAssumption, LenProperties

\* The next message is one of the stream.
LEMMA Handed ==
    ASSUME FeedInv, HandNext, UNCHANGED stream
    PROVE  /\ FeedInv'
           /\ Len(handed) + 1 \in 1 .. Len(stream)
           /\ Len(handed) \in Nat /\ Len(handed') = Len(handed) + 1
<1>1. /\ handed \in Seq(Nat) /\ Len(handed) \in Nat /\ Len(handed) + 1 \in Nat
      /\ Len(handed) < published /\ published \in Nat /\ published <= Len(stream)
      /\ Len(stream) \in Nat
    BY StreamLength, LenProperties DEF FeedInv, HandNext
<1> DEFINE k == Len(handed)
<1>2. handed' = Append(handed, k + 1) /\ published' = published
    BY DEF HandNext
<1>3. handed' \in Seq(Nat) /\ Len(handed') = k + 1
    BY <1>1, <1>2, AppendProperties
<1>4. k + 1 <= published /\ k + 1 \in 1 .. Len(stream)
    BY <1>1
<1> QED
    BY <1>1, <1>2, <1>3, <1>4 DEF FeedInv

\* A message keeps what is known of the stores.
LEMMA StoreStep ==
    ASSUME FeedInv, StoreInv, RunInv, HandNext, UNCHANGED stream, Detect(Len(handed) + 1)
    PROVE  StoreInv' /\ RunInv'
<1> DEFINE n == Len(handed) + 1
           N == Len(tradeStore)
<1>1. /\ n \in 1 .. Len(stream) /\ n \in Nat \ {0}
      /\ Len(handed') = n /\ Len(handed) = n - 1 /\ stream' = stream
    BY Handed
<1>2. ~ crashed /\ (TradeAdded(n) \/ NothingAdded(n) \/ Crashed \/ RunEnded(n))
    BY <1>1, Detected DEF FeedInv
<1>3. /\ tradeStore \in Seq(Collected) /\ N \in Nat /\ DOMAIN tradeStore = 1 .. N
      /\ tokenStore = TokensOf(tradeStore) /\ Increasing(tradeStore) /\ NoZeroLot
      /\ \A i \in 1 .. N : tradeStore[i] \in Collected /\ tradeStore[i].seq <= n - 1
    BY <1>1, LenProperties DEF StoreInv
<1>4. tradeStore = RunEndingAt(stream, n)
    BY <1>2 DEF RunInv
<1> HIDE DEF n, N
<1>5. \A i \in 1 .. N : tradeStore[i].seq \in Nat /\ tradeStore[i].seq < n /\ tradeStore[i].seq <= n
    BY <1>1, <1>3 DEF Collected, TradeType
<1>6. CASE NothingAdded(n) \/ Crashed
  <2>1. UNCHANGED <<tradeStore, tokenStore>>
      BY <1>6 DEF NothingAdded, Crashed
  <2>2. StoreInv'
      BY <1>1, <1>3, <1>5, <2>1 DEF StoreInv, NoZeroLot, N
  <2>3. NothingAdded(n) => RunInv'
      BY <1>1, <1>4, <2>1, RunGoesOn DEF NothingAdded, RunInv
  <2>4. Crashed => RunInv'
      BY DEF Crashed, RunInv
  <2> QED
      BY <1>6, <2>2, <2>3, <2>4
<1>7. CASE TradeAdded(n)
  <2> DEFINE a == NumberedTrade(stream[n], n)
  <2>1. /\ stream[n] # EndMessage /\ stream[n] # SkipMessage /\ stream[n].side # "none"
        /\ a \in Collected /\ ~ LotIsZero(a) /\ a.seq = n
        /\ tradeStore' = Append(tradeStore, a) /\ tokenStore' = tokenStore \cup {a.token}
      BY <1>7 DEF TradeAdded, NumberedTrade
  <2>2. RunEndingAt(stream, n + 1) = Append(RunEndingAt(stream, n), a)
      BY <1>1, <2>1, RunGoesOn
  <2> HIDE DEF a
  <2>3. /\ tradeStore' \in Seq(Collected) /\ Len(tradeStore') = N + 1
        /\ DOMAIN tradeStore' = 1 .. N + 1
        /\ tradeStore'[N + 1] = a /\ \A i \in 1 .. N : tradeStore'[i] = tradeStore[i]
        /\ TokensOf(tradeStore') = TokensOf(tradeStore) \cup {a.token}
      BY <1>3, <2>1, AppendProperties, LenProperties, OneMoreToken DEF N
  <2>4. \A i \in 1 .. N + 1 : i = N + 1 \/ i \in 1 .. N
      BY <1>3
  <2>5. Increasing(tradeStore')
    <3> SUFFICES ASSUME NEW i \in 1 .. N + 1, NEW j \in 1 .. N + 1, i < j
                 PROVE  tradeStore'[i].seq < tradeStore'[j].seq
        BY <2>3 DEF Increasing
    <3>1. i \in 1 .. N
        BY <1>3
    <3> QED
        BY <3>1, <2>1, <2>3, <2>4, <1>3, <1>5 DEF Increasing, N
  <2>6. \A i \in 1 .. N + 1 : tradeStore'[i].seq <= n
    <3> TAKE i \in 1 .. N + 1
    <3>1. n <= n
        BY <1>1
    <3> QED
        BY <3>1, <2>1, <2>3, <2>4, <1>5
  <2>7. NoZeroLot'
    <3>1. \A i \in 1 .. N + 1 : ~ LotIsZero(tradeStore'[i])
        BY <2>1, <2>3, <2>4, <1>3 DEF NoZeroLot
    <3> QED
        BY <3>1, <2>3 DEF NoZeroLot, LotIsZero
  <2> QED
      BY <1>1, <1>3, <1>4, <2>1, <2>2, <2>3, <2>5, <2>6, <2>7 DEF StoreInv, RunInv
<1>8. CASE RunEnded(n)
  <2>1. Len(<<>>) = 0 /\ <<>> \in Seq(Collected) /\ DOMAIN <<>> = {}
      OBVIOUS
  <2>2. StoreInv'
      BY <1>8, <2>1, NoTokens DEF RunEnded, StoreInv, NoZeroLot, Increasing
  <2>3. LastEnd(stream, n + 1) = (n + 1) - 1 /\ n + 1 \in Nat \ {0}
      BY <1>1, <1>8, LastEndHere DEF RunEnded
  <2>4. RunEndingAt(stream, n + 1) = <<>>
      BY <2>3, RunStarts
  <2> QED
      BY <1>1, <1>8, <2>2, <2>4 DEF RunEnded, RunInv
<1> QED
    BY <1>2, <1>6, <1>7, <1>8

----------------------------------------------------------------------------
(* Records on their way *)

\* A record of a group of known trades, with a number.
Rec == {r \in {Record(g) : g \in Seq(Known)} : r.seqNo \in Nat}

\* The records of a run are such records.
LEMMA GoodType ==
    ASSUME NEW run, NEW n, NEW recs, GoodRecords(recs, run, n)
    PROVE  recs \in Seq(Rec)
<1>1. recs \in Seq({Record(g) : g \in Seq(Known)})
    BY DEF GoodRecords
<1>2. /\ Len(recs) \in Nat /\ DOMAIN recs = 1 .. Len(recs)
      /\ recs \in [1 .. Len(recs) -> {Record(g) : g \in Seq(Known)}]
    BY <1>1, LenProperties
<1>3. \A i \in 1 .. Len(recs) : recs[i].seqNo \in Nat
    BY <1>2, GoodSeqNos
<1>4. recs \in [1 .. Len(recs) -> Rec]
    BY <1>2, <1>3 DEF Rec
<1> QED
    BY <1>2, <1>4

\* A sequence is its head in front of its tail.
LEMMA HeadAndTail ==
    ASSUME NEW A, NEW t \in Seq(A), t # <<>>
    PROVE  /\ Head(t) \in A /\ Tail(t) \in Seq(A)
           /\ t = <<Head(t)>> \o Tail(t)
<1>1. /\ Head(t) \in A /\ Tail(t) \in Seq(A) /\ Tail(t) = SubSeq(t, 2, Len(t))
    BY HeadTailProperties, TailIsSubSeq
<1>2. Len(t) \in Nat \ {0}
    BY EmptySeq, LenProperties
<1>3. 1 \in 1 .. Len(t) /\ Len(t) \in 1 .. Len(t)
    BY <1>2
<1>4. SubSeq(t, 1, Len(t)) = <<t[1]>> \o SubSeq(t, 1 + 1, Len(t))
    BY <1>3, SubSeqRecursiveFirst
<1>5. SubSeq(t, 1, Len(t)) = t
    BY SubSeqFull
<1>6. Head(t) = t[1]
    BY <1>2
<1> QED
    BY <1>1, <1>4, <1>5, <1>6

\* What goes from the head of t to the end of s stays in its place.
LEMMA MoveOne ==
    ASSUME NEW A, NEW s \in Seq(A), NEW t \in Seq(A), t # <<>>
    PROVE  /\ Append(s, Head(t)) \in Seq(A) /\ Tail(t) \in Seq(A)
           /\ Append(s, Head(t)) \o Tail(t) = s \o t
<1> DEFINE h == Head(t)
           r == Tail(t)
<1>1. h \in A /\ r \in Seq(A) /\ t = <<h>> \o r
    BY HeadAndTail
<1> HIDE DEF h, r
<1>2. <<h>> \in Seq(A)
    BY <1>1
<1>3. Append(s, h) = s \o <<h>> /\ Append(s, h) \in Seq(A)
    BY <1>1, AppendIsConcat, AppendProperties
<1>4. (s \o <<h>>) \o r = s \o (<<h>> \o r)
    BY <1>1, <1>2, ConcatAssociative
<1> QED
    BY <1>1, <1>3, <1>4 DEF h, r

\* In the order of their sequence numbers.
Rising(s) == \A i, j \in 1 .. Len(s) : i < j => s[i].seqNo < s[j].seqNo

\* Two rising sequences, the first below the second, rise together.
LEMMA RisingConcat ==
    ASSUME NEW s \in Seq(Rec), NEW t \in Seq(Rec), Rising(s), Rising(t),
           \A i \in 1 .. Len(s), j \in 1 .. Len(t) : s[i].seqNo < t[j].seqNo
    PROVE  /\ Rising(s \o t)
           /\ \A k \in 1 .. Len(s \o t) : \/ \E i \in 1 .. Len(s) : (s \o t)[k] = s[i]
                                          \/ \E j \in 1 .. Len(t) : (s \o t)[k] = t[j]
<1> DEFINE L == Len(s)
           M == Len(t)
           c == s \o t
<1>1. /\ L \in Nat /\ M \in Nat /\ Len(c) = L + M
      /\ \A k \in 1 .. L + M : c[k] = IF k <= L THEN s[k] ELSE t[k - L]
    BY ConcatProperties, LenProperties
<1>2. /\ \A i, j \in 1 .. L : i < j => s[i].seqNo < s[j].seqNo
      /\ \A i, j \in 1 .. M : i < j => t[i].seqNo < t[j].seqNo
    BY DEF Rising
<1>3. \A i \in 1 .. L, j \in 1 .. M : s[i].seqNo < t[j].seqNo
    OBVIOUS
<1> HIDE DEF L, M, c
<1>4. \A k \in 1 .. L + M : \/ k \in 1 .. L /\ c[k] = s[k]
                            \/ k - L \in 1 .. M /\ k > L /\ c[k] = t[k - L]
    BY <1>1
<1>5. Rising(c)
  <2> SUFFICES ASSUME NEW k \in 1 .. L + M, NEW l \in 1 .. L + M, k < l
               PROVE  c[k].seqNo < c[l].seqNo
      BY <1>1 DEF Rising
  <2>1. CASE l \in 1 .. L /\ c[l] = s[l]
    <3>1. k \in 1 .. L /\ c[k] = s[k]
        BY <2>1, <1>1
    <3> QED
        BY <3>1, <2>1, <1>2
  <2>2. CASE l - L \in 1 .. M /\ l > L /\ c[l] = t[l - L]
    <3>1. CASE k \in 1 .. L /\ c[k] = s[k]
        BY <3>1, <2>2, <1>3
    <3>2. CASE k - L \in 1 .. M /\ k > L /\ c[k] = t[k - L]
      <4>1. k - L < l - L
          BY <1>1
      <4> QED
          BY <4>1, <3>2, <2>2, <1>2
    <3> QED
        BY <3>1, <3>2, <1>4
  <2> QED
      BY <2>1, <2>2, <1>4
<1> QED
    BY <1>1, <1>4, <1>5 DEF c, L, M

\* Where the members of two sequences are found in the two together.
LEMMA ConcatMembers ==
    ASSUME NEW A, NEW s \in Seq(A), NEW t \in Seq(A)
    PROVE  /\ \A i \in 1 .. Len(s) : i \in 1 .. Len(s \o t) /\ (s \o t)[i] = s[i]
           /\ \A j \in 1 .. Len(t) : Len(s) + j \in 1 .. Len(s \o t) /\ (s \o t)[Len(s) + j] = t[j]
<1> DEFINE L == Len(s)
           M == Len(t)
           c == s \o t
<1>1. /\ L \in Nat /\ M \in Nat /\ Len(c) = L + M
      /\ \A k \in 1 .. L + M : c[k] = IF k <= L THEN s[k] ELSE t[k - L]
    BY ConcatProperties, LenProperties
<1> HIDE DEF L, M, c
<1>2. \A j \in 1 .. M : L + j \in 1 .. L + M /\ ~ (L + j <= L) /\ (L + j) - L = j
    BY <1>1
<1>3. \A i \in 1 .. L : i \in 1 .. L + M /\ i <= L
    BY <1>1
<1> QED
    BY <1>1, <1>2, <1>3 DEF L, M, c

\* The two parts of what rises rise, and the first is below the second.
LEMMA RisingParts ==
    ASSUME NEW s \in Seq(Rec), NEW t \in Seq(Rec), Rising(s \o t)
    PROVE  /\ Rising(s) /\ Rising(t)
           /\ \A i \in 1 .. Len(s), j \in 1 .. Len(t) : s[i].seqNo < t[j].seqNo
<1> DEFINE L == Len(s)
           M == Len(t)
           c == s \o t
<1>1. /\ \A i \in 1 .. L : i \in 1 .. Len(c) /\ c[i] = s[i]
      /\ \A j \in 1 .. M : L + j \in 1 .. Len(c) /\ c[L + j] = t[j]
      /\ L \in Nat /\ M \in Nat
    BY ConcatMembers, LenProperties
<1>2. \A i, j \in 1 .. Len(c) : i < j => c[i].seqNo < c[j].seqNo
    BY DEF Rising
<1> HIDE DEF c
<1>3. Rising(s)
    BY <1>1, <1>2 DEF Rising
<1>4. Rising(t)
  <2> SUFFICES ASSUME NEW i \in 1 .. M, NEW j \in 1 .. M, i < j
               PROVE  t[i].seqNo < t[j].seqNo
      BY DEF Rising
  <2>1. L + i < L + j
      BY <1>1
  <2> QED
      BY <2>1, <1>1, <1>2
<1>5. ASSUME NEW i \in 1 .. L, NEW j \in 1 .. M
      PROVE  s[i].seqNo < t[j].seqNo
  <2>1. i < L + j
      BY <1>1
  <2> QED
      BY <2>1, <1>1, <1>2
<1> QED
    BY <1>3, <1>4, <1>5

\* A record that is lost leaves the others in order.
LEMMA DropOne ==
    ASSUME NEW s \in Seq(Rec), NEW t \in Seq(Rec), t # <<>>, Rising(s \o t)
    PROVE  /\ Rising(s \o Tail(t))
           /\ \A k \in 1 .. Len(s \o Tail(t)) :
                 \E l \in 1 .. Len(s \o t) : (s \o Tail(t))[k] = (s \o t)[l]
<1> DEFINE r == Tail(t)
           L == Len(s)
           M == Len(t)
<1>1. /\ L \in Nat /\ M \in Nat \ {0}
      /\ r \in Seq(Rec) /\ Len(r) = M - 1 /\ \A j \in 1 .. Len(r) : r[j] = t[j + 1]
    BY HeadTailProperties, LenProperties, EmptySeq
<1>2. /\ Rising(s) /\ Rising(t)
      /\ \A i \in 1 .. L, j \in 1 .. M : s[i].seqNo < t[j].seqNo
    BY RisingParts
<1> HIDE DEF r
<1>3. \A j \in 1 .. Len(r) : j + 1 \in 1 .. M /\ r[j] = t[j + 1]
    BY <1>1
<1>4. Rising(r)
  <2> SUFFICES ASSUME NEW i \in 1 .. Len(r), NEW j \in 1 .. Len(r), i < j
               PROVE  r[i].seqNo < r[j].seqNo
      BY DEF Rising
  <2>1. i + 1 < j + 1
      BY <1>1
  <2> QED
      BY <2>1, <1>2, <1>3 DEF Rising, M
<1>5. \A i \in 1 .. L, j \in 1 .. Len(r) : s[i].seqNo < r[j].seqNo
    BY <1>2, <1>3
<1>6. /\ Rising(s \o r)
      /\ \A k \in 1 .. Len(s \o r) : \/ \E i \in 1 .. L : (s \o r)[k] = s[i]
                                     \/ \E j \in 1 .. Len(r) : (s \o r)[k] = r[j]
    BY <1>1, <1>2, <1>4, <1>5, RisingConcat
<1>7. /\ \A i \in 1 .. L : \E l \in 1 .. Len(s \o t) : s[i] = (s \o t)[l]
      /\ \A j \in 1 .. M : \E l \in 1 .. Len(s \o t) : t[j] = (s \o t)[l]
  <2>1. /\ \A i \in 1 .. L : i \in 1 .. Len(s \o t) /\ (s \o t)[i] = s[i]
        /\ \A j \in 1 .. M : L + j \in 1 .. Len(s \o t) /\ (s \o t)[L + j] = t[j]
      BY ConcatMembers
  <2> DEFINE c == s \o t
  <2> HIDE DEF c, L, M
  <2> QED
      BY <2>1
<1>8. \A k \in 1 .. Len(s \o r) : \E l \in 1 .. Len(s \o t) : (s \o r)[k] = (s \o t)[l]
  <2> TAKE k \in 1 .. Len(s \o r)
  <2>1. CASE \E i \in 1 .. L : (s \o r)[k] = s[i]
      BY <2>1, <1>7
  <2>2. CASE \E j \in 1 .. Len(r) : (s \o r)[k] = r[j]
      BY <2>2, <1>3, <1>7
  <2> QED
      BY <2>1, <2>2, <1>6
<1> QED
    BY <1>6, <1>8 DEF r

----------------------------------------------------------------------------
(* The records that are expected *)

\* The records that message e brings.
RecordsAt(e) == IF stream[e] = EndMessage THEN RecordsOfRun(RunEndingAt(stream, e)) ELSE <<>>

\* Expected by its parts.
LEMMA ExpectedIs ==
    ASSUME FeedInv, NEW n \in 0 .. Len(stream)
    PROVE  Expected(n) = FlattenSeq([e \in 1 .. n |-> RecordsAt(e)])
BY DEF FeedInv, Expected, RecordsOfStreams, RecordsAt

\* Nothing is expected of no messages.
LEMMA ExpectedNone ==
    ASSUME FeedInv
    PROVE  Expected(0) = <<>>
<1>1. 0 \in 0 .. Len(stream)
    BY StreamLength DEF FeedInv
<1>2. [e \in 1 .. 0 |-> RecordsAt(e)] = <<>>
    OBVIOUS
<1>3. Len(<<>>) = 0
    OBVIOUS
<1>4. FlattenSeq(<<>>) = <<>>
    BY <1>3 DEF FlattenSeq
<1> QED
    BY <1>1, <1>2, <1>4, ExpectedIs

\* One message more adds the records it brings.
LEMMA ExpectedNext ==
    ASSUME FeedInv, NEW n \in Nat, n + 1 \in 1 .. Len(stream),
           NEW A, RecordsAt(n + 1) \in Seq(A)
    PROVE  Expected(n + 1) = Expected(n) \o RecordsAt(n + 1)
<1> DEFINE s == [e \in 1 .. n |-> RecordsAt(e)]
           t == [e \in 1 .. n + 1 |-> RecordsAt(e)]
<1>1. Len(stream) \in Nat
    BY StreamLength DEF FeedInv
<1>2. n \in 0 .. Len(stream) /\ n + 1 \in 0 .. Len(stream)
    BY <1>1
<1>3. Expected(n) = FlattenSeq(s) /\ Expected(n + 1) = FlattenSeq(t)
    BY <1>2, ExpectedIs
<1>4. Len(s) = n /\ Len(t) = n + 1
  <2> DEFINE X == {RecordsAt(e) : e \in 1 .. n + 1}
  <2>1. s \in [1 .. n -> X] /\ t \in [1 .. n + 1 -> X]
      OBVIOUS
  <2> HIDE DEF s, t, X
  <2> QED
      BY <2>1
<1>5. /\ \A i \in 1 .. n : t[i] = s[i]
      /\ t[n + 1] = RecordsAt(n + 1)
      /\ n = 0 => s = <<>>
    OBVIOUS
<1> HIDE DEF s, t
<1>6. FlattenSeq(t) = FlattenSeq(s) \o t[n + 1]
    BY <1>4, <1>5, FlatOneMore
<1> QED
    BY <1>3, <1>5, <1>6

----------------------------------------------------------------------------
(* The inductive invariant *)

\* Received since the start of the process.
Since == SubSeq(received, old + 1, Len(received))

\* What this process has found, but for what was lost, from the reader backwards.
Flow == Since \o (queue \o outbox)

\* The types of what is on its way.
FlowType ==
    /\ old \in Nat /\ old <= Len(received)
    /\ received \in Seq(Rec) /\ queue \in Seq(Rec)
    /\ outbox \in Seq(Rec) /\ produced \in Seq(Rec)

\* What is on its way rises, and all of it was traded before what is collected now.
FlowInv ==
    /\ FlowType
    /\ Rising(Flow)
    /\ \A k \in 1 .. Len(Flow) :
           /\ Flow[k].seqNo <= Len(handed)
           /\ \A i \in 1 .. Len(tradeStore) : Flow[k].seqNo < tradeStore[i].seq

\* The inductive invariant.
SysInv == FeedInv /\ StoreInv /\ RunInv /\ ProducedExactly /\ FlowInv

\* The types of what was received since the start, and of the flow.
LEMMA SinceType ==
    ASSUME FlowType
    PROVE  /\ Since \in Seq(Rec) /\ Flow \in Seq(Rec)
           /\ queue \o outbox \in Seq(Rec)
           /\ Len(received) \in Nat /\ Len(Since) = Len(received) - old
           /\ \A i \in 1 .. Len(received) - old : Since[i] = received[old + i]
<1>1. /\ old \in Nat /\ Len(received) \in Nat /\ old <= Len(received)
      /\ received \in [1 .. Len(received) -> Rec]
    BY LenProperties DEF FlowType
<1>2. \A i \in old + 1 .. Len(received) : received[i] \in Rec
    BY <1>1
<1>3. /\ Since \in Seq(Rec)
      /\ Len(Since) = IF old + 1 <= Len(received) THEN Len(received) - (old + 1) + 1 ELSE 0
      /\ \A i \in 1 .. Len(received) - (old + 1) + 1 : Since[i] = received[(old + 1) + i - 1]
    BY <1>1, <1>2, SubSeqProperties DEF Since
<1>4. /\ Len(received) - (old + 1) + 1 = Len(received) - old
      /\ \A i \in 1 .. Len(received) - old : (old + 1) + i - 1 = old + i
      /\ ~ (old + 1 <= Len(received)) => Len(received) - old = 0
  <2> DEFINE N == Len(received)
  <2>1. old \in Nat /\ N \in Nat /\ old <= N
      BY <1>1
  <2> HIDE DEF N
  <2>2. /\ N - (old + 1) + 1 = N - old
        /\ \A i \in 1 .. N - old : (old + 1) + i - 1 = old + i
        /\ ~ (old + 1 <= N) => N - old = 0
      BY ONLY <2>1
  <2> QED
      BY <2>2 DEF N
<1>5. queue \o outbox \in Seq(Rec)
    BY ConcatProperties DEF FlowType
<1>6. Flow \in Seq(Rec)
    BY <1>3, <1>5, ConcatProperties DEF Flow
<1>7. Len(Since) = Len(received) - old
    BY <1>3, <1>4
<1> QED
    BY <1>1, <1>3, <1>4, <1>5, <1>6, <1>7

\* Nothing is on its way when the process starts.
LEMMA NothingFlows ==
    ASSUME received \in Seq(Rec), old = Len(received), queue = <<>>, outbox = <<>>,
           produced = <<>>
    PROVE  FlowType /\ Flow = <<>>
<1>1. Len(received) \in Nat
    BY LenProperties
<1>2. Since = <<>>
    BY <1>1, SubSeqEmpty DEF Since
<1>3. <<>> \in Seq(Rec)
    OBVIOUS
<1>4. <<>> \o (<<>> \o <<>>) = <<>>
    BY <1>3, ConcatEmptySeq
<1> QED
    BY <1>1, <1>2, <1>3, <1>4 DEF FlowType, Flow

\* The first run has not begun.
LEMMA NothingHanded ==
    ASSUME stream \in Streams
    PROVE  RunEndingAt(stream, 1) = <<>>
<1>1. LastEnd(stream, 1) = 1 - 1
    BY LastEndBelow
<1> QED
    BY <1>1, RunStarts

\* A process that was started a moment ago, the first or a later one.
JustStarted ==
    /\ stream \in Streams /\ published \in Nat /\ published <= Len(stream)
    /\ handed = <<>> /\ tradeStore = <<>> /\ tokenStore = {}
    /\ outbox = <<>> /\ produced = <<>> /\ queue = <<>>
    /\ received \in Seq(Rec) /\ old = Len(received)

\* The invariant holds of it,
LEMMA StartInv == JustStarted => SysInv
<1> SUFFICES ASSUME JustStarted PROVE SysInv
    OBVIOUS
<1> USE DEF JustStarted
<1>1. Len(<<>>) = 0 /\ DOMAIN <<>> = {} /\ \A A : <<>> \in Seq(A)
    OBVIOUS
<1>2. FeedInv
    BY <1>1 DEF FeedInv
<1>3. StoreInv
  <2>1. \A i \in 1 .. Len(tradeStore) : FALSE
      BY <1>1
  <2>2. tokenStore = TokensOf(tradeStore)
      BY NoTokens
  <2>3. NoZeroLot
      BY <1>1 DEF NoZeroLot
  <2>4. tradeStore \in Seq(Collected)
      BY <1>1
  <2> QED
      BY <2>1, <2>2, <2>3, <2>4 DEF StoreInv, Increasing
<1>4. Len(handed) = 0 /\ 0 + 1 = 1
    BY <1>1
<1>5. RunInv
    BY <1>4, NothingHanded DEF RunInv
<1>6. ProducedExactly
  <2>1. Expected(0) = <<>>
      BY <1>2, ExpectedNone
  <2>2. <<>> \o <<>> = <<>>
      BY <1>1, ConcatEmptySeq
  <2> QED
      BY <1>4, <2>1, <2>2 DEF ProducedExactly
<1>7. FlowInv
  <2>1. FlowType /\ Flow = <<>>
      BY NothingFlows
  <2> QED
      BY <1>1, <2>1 DEF FlowInv, Rising
<1> QED
    BY <1>2, <1>3, <1>5, <1>6, <1>7 DEF SysInv

\* and in a next state as well.
LEMMA RestartedInv == JustStarted' => SysInv'
BY StartInv, PTL

----------------------------------------------------------------------------
(* One lemma per action *)

\* The exchange goes on.
LEMMA PublishesInv ==
    ASSUME SysInv, ExchangePublishes
    PROVE  SysInv'
<1>1. /\ published < Len(stream) /\ published' = published + 1
      /\ UNCHANGED <<stream, handed, tradeStore, tokenStore, crashed, outbox, queue,
                     received, produced, old>>
    BY DEF ExchangePublishes, PublishNext, detectorVars, fifoVars
<1>2. FeedInv'
  <2>1. /\ published \in Nat /\ Len(stream) \in Nat /\ Len(handed) \in Nat
        /\ Len(handed) <= published
      BY StreamLength, LenProperties DEF SysInv, FeedInv
  <2>2. published + 1 \in Nat /\ published + 1 <= Len(stream) /\ Len(handed) <= published + 1
      BY <2>1, <1>1
  <2> QED
      BY <2>2, <1>1 DEF SysInv, FeedInv
<1>3. StoreInv' /\ RunInv'
    BY <1>1 DEF SysInv, StoreInv, RunInv, NoZeroLot
<1>4. ProducedExactly'
    BY <1>1 DEF SysInv, ProducedExactly, Expected
<1>5. FlowInv'
    BY <1>1 DEF SysInv, FlowInv, FlowType, Flow, Since
<1> QED
    BY <1>2, <1>3, <1>4, <1>5 DEF SysInv

\* A step that leaves the feed and the stores alone and the flow as it is.
LEMMA FlowStep ==
    ASSUME SysInv, FlowType', Rising(Flow'),
           UNCHANGED <<stream, published, handed, tradeStore, tokenStore, crashed>>,
           \A k \in 1 .. Len(Flow') : \E l \in 1 .. Len(Flow) : Flow'[k] = Flow[l],
           produced' \o outbox' = produced \o outbox
    PROVE  SysInv'
<1>1. (FeedInv /\ StoreInv /\ RunInv)'
    BY DEF SysInv, FeedInv, StoreInv, RunInv, NoZeroLot
<1>2. ProducedExactly'
    BY DEF SysInv, ProducedExactly, Expected
<1>3. \A k \in 1 .. Len(Flow) :
           /\ Flow[k].seqNo <= Len(handed)
           /\ \A i \in 1 .. Len(tradeStore) : Flow[k].seqNo < tradeStore[i].seq
    BY DEF SysInv, FlowInv
<1>4. \A k \in 1 .. Len(Flow') :
           /\ Flow'[k].seqNo <= Len(handed)
           /\ \A i \in 1 .. Len(tradeStore) : Flow'[k].seqNo < tradeStore[i].seq
    BY <1>3
<1>5. FlowInv'
    BY <1>4 DEF FlowInv
<1> QED
    BY <1>1, <1>2, <1>5 DEF SysInv

\* What is received was received since the start.
LEMMA SinceGrows ==
    ASSUME FlowType, NEW r \in Rec, received' = Append(received, r), old' = old
    PROVE  Since' = Append(Since, r)
<1>1. /\ Since \in Seq(Rec) /\ Len(received) \in Nat /\ Len(Since) = Len(received) - old
      /\ \A i \in 1 .. Len(received) - old : Since[i] = received[old + i]
    BY SinceType
<1> DEFINE N == Len(received)
           L == N - old
           s == Since'
           t == Append(Since, r)
<1>2. /\ received \in Seq(Rec) /\ old \in Nat /\ N \in Nat /\ old <= N
      /\ received \in [1 .. N -> Rec]
    BY LenProperties DEF FlowType
<1>3. /\ received' \in Seq(Rec) /\ Len(received') = N + 1 /\ received'[N + 1] = r
      /\ \A i \in 1 .. N : received'[i] = received[i]
    BY <1>2, AppendProperties
<1>4. L \in Nat /\ old + (L + 1) = N + 1 /\ (N + 1) - (old + 1) + 1 = L + 1 /\ old + 1 <= N + 1
    BY <1>2
<1>5. s = SubSeq(received', old + 1, N + 1)
    BY <1>3 DEF Since
<1>6. \A i \in old + 1 .. N + 1 : received'[i] \in Rec
    BY <1>2, <1>3
<1>7. /\ s \in Seq(Rec) /\ Len(s) = L + 1
      /\ \A i \in 1 .. L + 1 : s[i] = received'[old + i]
  <2> DEFINE x == received'
             a == old + 1
             b == N + 1
  <2>0. s = SubSeq(x, a, b) /\ a \in Int /\ b \in Int /\ \A i \in a .. b : x[i] \in Rec
      BY <1>2, <1>5, <1>6
  <2> HIDE DEF s, x, a, b
  <2>1. /\ s \in Seq(Rec)
        /\ Len(s) = IF a <= b THEN b - a + 1 ELSE 0
        /\ \A i \in 1 .. b - a + 1 : s[i] = x[a + i - 1]
    <3>1. /\ SubSeq(x, a, b) \in Seq(Rec)
          /\ Len(SubSeq(x, a, b)) = IF a <= b THEN b - a + 1 ELSE 0
          /\ \A i \in 1 .. b - a + 1 : SubSeq(x, a, b)[i] = x[a + i - 1]
        BY ONLY <2>0, SubSeqProperties
    <3> QED
        BY ONLY <2>0, <3>1
  <2> HIDE DEF L, N
  <2>2. \A i \in 1 .. L + 1 : (old + 1) + i - 1 = old + i
      BY <1>2, <1>4
  <2> QED
      BY <2>1, <2>2, <1>4 DEF a, b, x
<1>8. /\ t \in Seq(Rec) /\ Len(t) = L + 1 /\ t[L + 1] = r
      /\ \A i \in 1 .. L : t[i] = received[old + i]
    BY <1>1, AppendProperties
<1> HIDE DEF s, t, N
<1>9. \A i \in 1 .. L + 1 : \/ i = L + 1 /\ old + i = N + 1
                            \/ i \in 1 .. L /\ old + i \in 1 .. N
    BY <1>2
<1>10. \A i \in 1 .. L + 1 : s[i] = t[i]
    BY <1>3, <1>7, <1>8, <1>9
<1>11. s = t
    BY <1>7, <1>8, <1>10, SeqEqual
<1> QED
    BY <1>11 DEF s, t

\* The reader takes a record: it stays in its place in the flow.
LEMMA TakesInv ==
    ASSUME SysInv, ReaderTakes
    PROVE  SysInv'
<1>1. /\ queue # <<>> /\ received' = Append(received, Head(queue)) /\ queue' = Tail(queue)
      /\ UNCHANGED <<stream, published, handed, tradeStore, tokenStore, crashed, outbox, produced, old>>
    BY DEF ReaderTakes, Take, feedVars, detectorVars
<1>2. FlowType /\ Rising(Flow)
    BY DEF SysInv, FlowInv
<1>3. /\ received \in Seq(Rec) /\ queue \in Seq(Rec) /\ outbox \in Seq(Rec)
      /\ old \in Nat /\ old <= Len(received) /\ Len(received) \in Nat /\ produced \in Seq(Rec)
    BY <1>2, LenProperties DEF FlowType
<1> DEFINE h == Head(queue)
           r == Tail(queue)
<1>4. h \in Rec /\ r \in Seq(Rec) /\ queue = <<h>> \o r
    BY <1>1, <1>3, HeadAndTail
<1>5. received' = Append(received, h) /\ queue' = r
    BY <1>1
<1> HIDE DEF h, r
<1>6. FlowType'
  <2>1. received' \in Seq(Rec) /\ Len(received') = Len(received) + 1
      BY <1>3, <1>4, <1>5, AppendProperties
  <2>2. old <= Len(received) + 1
      BY <1>3
  <2> QED
      BY <2>1, <2>2, <1>1, <1>3, <1>4, <1>5 DEF FlowType
<1>7. Since' = Append(Since, h) /\ Since \in Seq(Rec)
    BY <1>1, <1>2, <1>4, <1>5, SinceGrows, SinceType
<1>8. Flow' = Flow
  <2>1. Flow' = Append(Since, h) \o (r \o outbox)
      BY <1>1, <1>5, <1>7 DEF Flow
  <2>2. Flow = Since \o ((<<h>> \o r) \o outbox)
      BY <1>4 DEF Flow
  <2>3. <<h>> \in Seq(Rec) /\ r \o outbox \in Seq(Rec)
      BY <1>3, <1>4, ConcatProperties
  <2>4. (<<h>> \o r) \o outbox = <<h>> \o (r \o outbox)
      BY <1>3, <1>4, <2>3, ConcatAssociative
  <2>5. (Since \o <<h>>) \o (r \o outbox) = Since \o (<<h>> \o (r \o outbox))
      BY <1>7, <2>3, ConcatAssociative
  <2>6. Append(Since, h) = Since \o <<h>>
      BY <1>4, <1>7, AppendIsConcat
  <2> QED
      BY <2>1, <2>2, <2>4, <2>5, <2>6
<1>9. \A k \in 1 .. Len(Flow') : \E l \in 1 .. Len(Flow) : Flow'[k] = Flow[l]
    BY <1>8
<1> QED
    BY <1>1, <1>2, <1>6, <1>8, <1>9, FlowStep

\* A record is put into the queue and stays in its place, or it is lost and leaves
\* the others in theirs.
LEMMA EnqueueInv ==
    ASSUME SysInv, EnqueueRecord
    PROVE  SysInv'
<1>1. /\ outbox # <<>> /\ outbox' = Tail(outbox) /\ produced' = Append(produced, Head(outbox))
      /\ queue' = queue \/ queue' = Append(queue, Head(outbox))
      /\ UNCHANGED <<stream, published, handed, tradeStore, tokenStore, crashed, received, old>>
    BY DEF EnqueueRecord, Put, Lose, feedVars, detectorVars
<1>2. FlowType /\ Rising(Flow)
    BY DEF SysInv, FlowInv
<1>3. /\ received \in Seq(Rec) /\ queue \in Seq(Rec) /\ outbox \in Seq(Rec)
      /\ produced \in Seq(Rec)
    BY <1>2 DEF FlowType
<1>4. /\ produced' \in Seq(Rec) /\ outbox' \in Seq(Rec)
      /\ produced' \o outbox' = produced \o outbox
    BY <1>1, <1>3, MoveOne
<1>5. Since' = Since /\ Since \in Seq(Rec) /\ Flow \in Seq(Rec)
    BY <1>1, <1>2, SinceType DEF Since
<1>6. CASE queue' = Append(queue, Head(outbox))
  <2>1. queue' \in Seq(Rec) /\ queue' \o outbox' = queue \o outbox
      BY <1>1, <1>3, <1>6, MoveOne
  <2>2. FlowType'
      BY <1>1, <1>2, <1>4, <2>1 DEF FlowType
  <2>3. Flow' = Flow
      BY <1>5, <2>1 DEF Flow
  <2>4. \A k \in 1 .. Len(Flow') : \E l \in 1 .. Len(Flow) : Flow'[k] = Flow[l]
      BY <2>3
  <2> QED
      BY <1>1, <1>2, <1>4, <2>2, <2>3, <2>4, FlowStep
<1>7. CASE queue' = queue
  <2>1. FlowType'
      BY <1>1, <1>2, <1>4, <1>7 DEF FlowType
  <2> DEFINE s == Since \o queue
  <2>2. s \in Seq(Rec) /\ Flow = s \o outbox
    <3>1. s \in Seq(Rec)
        BY <1>3, <1>5, ConcatProperties
    <3>2. s \o outbox = Since \o (queue \o outbox)
      <4>1. Since \in Seq(Rec) /\ queue \in Seq(Rec) /\ outbox \in Seq(Rec)
          BY <1>3, <1>5
      <4> QED
          BY ONLY <4>1, ConcatAssociative
    <3> QED
        BY <3>1, <3>2 DEF Flow
  <2>3. Flow' = s \o Tail(outbox)
    <3>1. Flow' = Since \o (queue \o Tail(outbox))
        BY <1>1, <1>5, <1>7 DEF Flow
    <3>2. Tail(outbox) \in Seq(Rec)
        BY <1>1, <1>4
    <3>3. (Since \o queue) \o Tail(outbox) = Since \o (queue \o Tail(outbox))
      <4> DEFINE r == Tail(outbox)
      <4>1. Since \in Seq(Rec) /\ queue \in Seq(Rec) /\ r \in Seq(Rec)
          BY <1>3, <1>5, <3>2
      <4> HIDE DEF r
      <4>2. (Since \o queue) \o r = Since \o (queue \o r)
          BY ONLY <4>1, ConcatAssociative
      <4> QED
          BY <4>2 DEF r
    <3> QED
        BY <3>1, <3>3
  <2> HIDE DEF s
  <2>4. /\ Rising(s \o Tail(outbox))
        /\ \A k \in 1 .. Len(s \o Tail(outbox)) :
              \E l \in 1 .. Len(s \o outbox) : (s \o Tail(outbox))[k] = (s \o outbox)[l]
      BY <1>1, <1>2, <1>3, <2>2, DropOne
  <2>5. /\ Rising(Flow')
        /\ \A k \in 1 .. Len(Flow') : \E l \in 1 .. Len(Flow) : Flow'[k] = Flow[l]
      BY <2>2, <2>3, <2>4
  <2> QED
      BY <1>1, <1>4, <2>1, <2>5, FlowStep
<1> QED
    BY <1>1, <1>6, <1>7

\* A restart keeps the stream and what was received, and nothing else.
LEMMA RestartInv ==
    ASSUME SysInv, Restart
    PROVE  SysInv'
<1>1. /\ handed' = <<>> /\ tradeStore' = <<>> /\ tokenStore' = {} /\ outbox' = <<>>
      /\ produced' = <<>> /\ queue' = <<>> /\ old' = Len(received)
      /\ UNCHANGED <<stream, published, received>>
    BY DEF Restart, StartOver, EmptyOut
<1>2. /\ stream \in Streams /\ published \in Nat /\ published <= Len(stream)
      /\ received \in Seq(Rec)
    BY DEF SysInv, FeedInv, FlowInv, FlowType
<1>3. JustStarted'
    BY <1>1, <1>2 DEF JustStarted
<1> QED
    BY <1>3, RestartedInv

\* What was produced grows by the records of the run that the message ended.
LEMMA HandProduced ==
    ASSUME SysInv, HandMessage, StoreInv', RunInv'
    PROVE  ProducedExactly'
<1> DEFINE n == Len(handed)
           R == records'
<1>1. /\ outbox = <<>> /\ outbox' = R /\ HandNext /\ Detect(n + 1)
      /\ UNCHANGED <<stream, produced>>
    BY DEF HandMessage
<1>2. n \in Nat /\ n + 1 \in 1 .. Len(stream) /\ Len(handed') = n + 1
    BY <1>1, Handed DEF SysInv
<1>3. ~ crashed /\ (TradeAdded(n + 1) \/ NothingAdded(n + 1) \/ Crashed \/ RunEnded(n + 1))
    BY <1>1, <1>2, Detected DEF SysInv, FeedInv
<1> HIDE DEF n, R
<1>4. produced \in Seq(Rec) /\ produced = Expected(n)
  <2>1. produced \in Seq(Rec)
      BY DEF SysInv, FlowInv, FlowType
  <2>2. produced \o <<>> = Expected(n)
      BY <1>1, <1>3 DEF SysInv, ProducedExactly, n
  <2>3. produced \o <<>> = produced
      BY <2>1, ConcatEmptySeq
  <2> QED
      BY <2>1, <2>2, <2>3
<1>5. SUFFICES ASSUME ~ crashed' PROVE produced \o R = Expected(n + 1)
    BY <1>1, <1>2 DEF ProducedExactly, Expected
<1>6. R = RecordsAt(n + 1) /\ R \in Seq(Rec)
  <2>1. CASE TradeAdded(n + 1) \/ NothingAdded(n + 1)
    <3>1. R = <<>> /\ stream[n + 1] # EndMessage
        BY <2>1 DEF TradeAdded, NothingAdded, R
    <3> QED
        BY <3>1 DEF RecordsAt
  <2>2. CASE RunEnded(n + 1)
    <3>1. tradeStore = RunEndingAt(stream, n + 1)
        BY <1>3 DEF SysInv, RunInv, n
    <3>2. R = RecordsAt(n + 1)
        BY <2>2, <3>1 DEF RunEnded, RecordsAt, R
    <3>3. R \in Seq(Rec)
      <4>1. CASE R = <<>>
          BY <4>1
      <4>2. CASE GoodRecords(R, tradeStore, Len(tradeStore))
          BY <4>2, GoodType
      <4> QED
          BY <2>2, <4>1, <4>2 DEF RunEnded, R
    <3> QED
        BY <3>2, <3>3
  <2> QED
      BY <1>3, <1>5, <2>1, <2>2 DEF Crashed
<1>7. Expected(n + 1) = Expected(n) \o RecordsAt(n + 1)
    BY <1>2, <1>6, ExpectedNext DEF SysInv
<1> QED
    BY <1>4, <1>6, <1>7

\* The records of a run come behind all that were found before.
LEMMA HandFlow ==
    ASSUME SysInv, HandMessage, StoreInv'
    PROVE  FlowInv'
<1> DEFINE n == Len(handed)
           R == records'
           s == Since \o queue
           N == Len(tradeStore)
<1>1. /\ outbox = <<>> /\ outbox' = R /\ HandNext /\ Detect(n + 1)
      /\ UNCHANGED <<stream, queue, received, lost, produced, old>>
    BY DEF HandMessage, fifoVars
<1>2. n \in Nat /\ n + 1 \in 1 .. Len(stream) /\ Len(handed') = n + 1
    BY <1>1, Handed DEF SysInv
<1>3. TradeAdded(n + 1) \/ NothingAdded(n + 1) \/ Crashed \/ RunEnded(n + 1)
    BY <1>1, <1>2, Detected DEF SysInv, FeedInv
<1>4. FlowType /\ Rising(Flow) /\ queue \in Seq(Rec) /\ Since \in Seq(Rec) /\ s \in Seq(Rec)
    BY SinceType, ConcatProperties DEF SysInv, FlowInv, FlowType
<1>5. Flow = s
  <2>1. queue \o <<>> = queue
      BY <1>4, ConcatEmptySeq
  <2> QED
      BY <1>1, <2>1 DEF Flow
<1>6. /\ tradeStore \in Seq(Collected) /\ N \in Nat
      /\ \A i \in 1 .. N : tradeStore[i].seq \in Nat /\ tradeStore[i].seq <= n
  <2>1. tradeStore \in Seq(Collected) /\ \A i \in 1 .. N : tradeStore[i].seq <= n
      BY DEF SysInv, StoreInv
  <2>2. N \in Nat /\ \A i \in 1 .. N : tradeStore[i] \in Collected
      BY <2>1, LenProperties
  <2> QED
      BY <2>1, <2>2 DEF Collected, TradeType
<1>7. /\ Rising(s) /\ Len(s) \in Nat
      /\ \A k \in 1 .. Len(s) :
             /\ s[k].seqNo \in Nat /\ s[k].seqNo <= n
             /\ \A i \in 1 .. N : s[k].seqNo < tradeStore[i].seq
  <2>1. Len(s) \in Nat /\ \A k \in 1 .. Len(s) : s[k] \in Rec
    <3> HIDE DEF s
    <3> QED
        BY <1>4, LenProperties
  <2>2. \A k \in 1 .. Len(Flow) :
           /\ Flow[k].seqNo <= n
           /\ \A i \in 1 .. N : Flow[k].seqNo < tradeStore[i].seq
      BY DEF SysInv, FlowInv
  <2> HIDE DEF s, N, n
  <2> QED
      BY <1>4, <1>5, <2>1, <2>2 DEF Rec
<1>8. /\ R = <<>> \/ (R \in Seq(Rec) /\ GoodRecords(R, tradeStore, N))
      /\ R # <<>> => tradeStore' = <<>>
    BY <1>3, GoodType DEF TradeAdded, NothingAdded, Crashed, RunEnded
<1>9. R \in Seq(Rec)
  <2>1. <<>> \in Seq(Rec)
      OBVIOUS
  <2> HIDE DEF R, N
  <2> QED
      BY <1>8, <2>1
<1>10. FlowType'
    BY <1>1, <1>4, <1>9 DEF FlowType
<1> HIDE DEF s, R, n, N
<1>11. Flow' = s \o R
  <2>1. Since' = Since
      BY <1>1 DEF Since
  <2>2. Flow' = Since \o (queue \o R)
      BY <1>1, <2>1 DEF Flow
  <2>3. (Since \o queue) \o R = Since \o (queue \o R)
      BY <1>4, <1>9, ConcatAssociative
  <2> QED
      BY <2>2, <2>3 DEF s
<1>12. CASE R = <<>>
  <2>1. Flow' = s
    <3>1. s \o <<>> = s
        BY <1>4, ConcatEmptySeq
    <3> QED
        BY <1>11, <1>12, <3>1
  <2>2. \A i \in 1 .. Len(tradeStore') :
            \/ i \in 1 .. N /\ tradeStore'[i] = tradeStore[i]
            \/ tradeStore'[i].seq = n + 1
    <3>1. CASE TradeAdded(n + 1)
      <4> DEFINE a == NumberedTrade(stream[n + 1], n + 1)
      <4>1. tradeStore' = Append(tradeStore, a) /\ a \in Collected /\ a.seq = n + 1
          BY <3>1 DEF TradeAdded, NumberedTrade
      <4> HIDE DEF a
      <4>2. /\ Len(tradeStore') = N + 1 /\ tradeStore'[N + 1] = a
            /\ \A i \in 1 .. N : tradeStore'[i] = tradeStore[i]
          BY <4>1, <1>6, AppendProperties DEF N
      <4>3. \A i \in 1 .. N + 1 : i = N + 1 \/ i \in 1 .. N
          BY <1>6
      <4> QED
          BY <4>1, <4>2, <4>3
    <3>2. CASE tradeStore' = tradeStore
        BY <3>2 DEF N
    <3>3. CASE tradeStore' = <<>>
      <4>1. Len(<<>>) = 0
          OBVIOUS
      <4> QED
          BY <4>1, <3>3
    <3> QED
        BY <1>3, <3>1, <3>2, <3>3 DEF NothingAdded, Crashed, RunEnded
  <2>3. ASSUME NEW k \in 1 .. Len(s)
        PROVE  /\ s[k].seqNo <= n + 1
               /\ \A i \in 1 .. Len(tradeStore') : s[k].seqNo < tradeStore'[i].seq
    <3>1. s[k].seqNo \in Nat /\ s[k].seqNo <= n
        BY <1>7
    <3>2. s[k].seqNo <= n + 1 /\ s[k].seqNo < n + 1
        BY <3>1, <1>2 DEF n
    <3> QED
        BY <3>2, <2>2, <1>7
  <2> QED
      BY <1>2, <1>7, <1>10, <2>1, <2>3 DEF FlowInv
<1>13. CASE R # <<>>
  <2>1. GoodRecords(R, tradeStore, N) /\ tradeStore' = <<>>
      BY <1>8, <1>13
  <2>2. Len(R) \in Nat /\ DOMAIN R = 1 .. Len(R)
      BY <1>9, LenProperties
  <2>3. /\ \A i \in 1 .. Len(R) :
              R[i].seqNo \in Nat /\ \E j \in 1 .. N : R[i].seqNo = tradeStore[j].seq
        /\ \A i, j \in 1 .. Len(R) : i < j => R[i].seqNo < R[j].seqNo
      BY <2>1, <2>2, GoodSeqNos
  <2>4. Rising(R)
      BY <2>3 DEF Rising
  <2>5. \A i \in 1 .. Len(s), j \in 1 .. Len(R) : s[i].seqNo < R[j].seqNo
      BY <2>3, <1>7
  <2>6. /\ Rising(s \o R)
        /\ \A k \in 1 .. Len(s \o R) : \/ \E i \in 1 .. Len(s) : (s \o R)[k] = s[i]
                                       \/ \E j \in 1 .. Len(R) : (s \o R)[k] = R[j]
      BY <2>4, <2>5, <1>4, <1>7, <1>9, RisingConcat
  <2>7. \A i \in 1 .. Len(s) : s[i].seqNo <= n + 1
      BY <1>2, <1>7 DEF n
  <2>8. \A j \in 1 .. Len(R) : R[j].seqNo <= n + 1
    <3> TAKE j \in 1 .. Len(R)
    <3>1. PICK i \in 1 .. N : R[j].seqNo = tradeStore[i].seq
        BY <2>3
    <3>2. tradeStore[i].seq \in Nat /\ tradeStore[i].seq <= n
        BY <1>6
    <3>3. n \in Nat
        BY <1>2 DEF n
    <3>4. tradeStore[i].seq <= n + 1
        BY <3>2, <3>3
    <3> QED
        BY <3>1, <3>4
  <2>9. \A k \in 1 .. Len(s \o R) : (s \o R)[k].seqNo <= n + 1
      BY <2>6, <2>7, <2>8
  <2>10. Len(<<>>) = 0
      OBVIOUS
  <2> QED
      BY <1>2, <1>10, <1>11, <2>1, <2>6, <2>9, <2>10 DEF FlowInv
<1> QED
    BY <1>12, <1>13

\* A message is handed to the detector.
LEMMA HandInv ==
    ASSUME SysInv, HandMessage
    PROVE  SysInv'
<1>1. HandNext /\ Detect(Len(handed) + 1) /\ UNCHANGED stream
    BY DEF HandMessage
<1>2. FeedInv'
    BY <1>1, Handed DEF SysInv
<1>3. StoreInv' /\ RunInv'
    BY <1>1, StoreStep DEF SysInv
<1> QED
    BY <1>2, <1>3, HandProduced, HandFlow DEF SysInv

----------------------------------------------------------------------------

\* The program keeps its inductive invariant through every interleaving of exchange,
\* thread and reader, through crashes and restarts, for every stream and every
\* capacity of the queue.
THEOREM SysInvariant == SysSpec => []SysInv
<1>1. SysInit => SysInv
  <2> SUFFICES ASSUME SysInit PROVE SysInv
      OBVIOUS
  <2>1. stream \in Streams /\ Len(stream) \in Nat
      BY StreamLength DEF SysInit
  <2>2. Len(<<>>) = 0 /\ <<>> \in Seq(Rec)
      OBVIOUS
  <2>3. JustStarted
      BY <2>1, <2>2 DEF SysInit, FeedInit, Init, FifoInit, JustStarted
  <2> QED
      BY <2>3, StartInv
<1>2. SysInv /\ [SysNext]_sysVars => SysInv'
  <2> SUFFICES ASSUME SysInv, [SysNext]_sysVars PROVE SysInv'
      OBVIOUS
  <2>1. CASE ExchangePublishes
      BY <2>1, PublishesInv
  <2>2. CASE ReaderTakes
      BY <2>2, TakesInv
  <2>3. CASE HandMessage
      BY <2>3, HandInv
  <2>4. CASE EnqueueRecord
      BY <2>4, EnqueueInv
  <2>5. CASE Restart
      BY <2>5, RestartInv
  <2>6. CASE UNCHANGED sysVars
    <3>1. UNCHANGED <<stream, published, handed, tradeStore, tokenStore, crashed, outbox,
                      queue, received, produced, old>>
        BY <2>6 DEF sysVars, feedVars, detectorVars, fifoVars
    <3>2. (FeedInv /\ StoreInv /\ RunInv)'
        BY <3>1 DEF SysInv, FeedInv, StoreInv, RunInv, NoZeroLot
    <3>3. ProducedExactly'
        BY <3>1 DEF SysInv, ProducedExactly, Expected
    <3>4. FlowInv'
        BY <3>1 DEF SysInv, FlowInv, FlowType, Flow, Since
    <3> QED
        BY <3>2, <3>3, <3>4 DEF SysInv
  <2> QED
      BY <2>1, <2>2, <2>3, <2>4, <2>5, <2>6 DEF SysNext
<1> QED
    BY <1>1, <1>2, PTL DEF SysSpec

\* Whatever the process went through, the records it enqueued since its start are
\* those of the messages it was handed, run by run (WriteDataInFile and the loop
\* around it).
THEOREM SysProducedExactly == SysSpec => []ProducedExactly
<1>1. SysInv => ProducedExactly
    BY DEF SysInv
<1> QED
    BY <1>1, SysInvariant, PTL

\* Between two starts of the process the reader receives every record at most once,
\* in the order of the stream, whatever the queue lost (shmQueue1, WriteDataInFile).
THEOREM SysAgainOnlyAfterRestart == SysSpec => []AgainOnlyAfterRestart
<1>1. SysInv => AgainOnlyAfterRestart
  <2> SUFFICES ASSUME SysInv,
                      NEW i \in old + 1 .. Len(received), NEW j \in old + 1 .. Len(received), i < j
               PROVE  received[i].seqNo < received[j].seqNo
      BY DEF AgainOnlyAfterRestart
  <2>1. FlowType /\ Rising(Flow)
      BY DEF SysInv, FlowInv
  <2>2. /\ Since \in Seq(Rec) /\ queue \o outbox \in Seq(Rec)
        /\ old \in Nat /\ Len(received) \in Nat /\ Len(Since) = Len(received) - old
        /\ \A k \in 1 .. Len(received) - old : Since[k] = received[old + k]
      BY <2>1, SinceType DEF FlowType
  <2>3. Rising(Since)
      BY <2>1, <2>2, RisingParts DEF Flow
  <2> DEFINE N == Len(received)
  <2>4. old \in Nat /\ N \in Nat /\ i \in old + 1 .. N /\ j \in old + 1 .. N /\ i < j
      BY <2>2
  <2> HIDE DEF N
  <2>5. /\ i - old \in 1 .. N - old /\ j - old \in 1 .. N - old /\ i - old < j - old
        /\ old + (i - old) = i /\ old + (j - old) = j
      BY ONLY <2>4
  <2>6. Since[i - old] = received[i] /\ Since[j - old] = received[j]
      BY <2>2, <2>5 DEF N
  <2> QED
      BY <2>2, <2>3, <2>5, <2>6 DEF Rising, N
<1> QED
    BY <1>1, SysInvariant, PTL
=============================================================================
