------------------------ MODULE ConRevDetectorProofs ------------------------
(***************************************************************************)
(* What the detector promises for every contract file, every trade and     *)
(* every run, however long. The detector cuts a run in a pass over it      *)
(* (SplitTrade); the theorems follow from an invariant of that pass,       *)
(* PassInv, by induction over the trades of the run:                       *)
(*   - the collected group is a piece of the run in the order of the feed, *)
(*     its details describe it, and all its trades have one expiry;        *)
(*   - every group put out that IsValidateConRev will let pass consists of *)
(*     trades in front of it, of three instruments of one expiry, and lies *)
(*     behind the groups put out before.                                   *)
(* The balanced group that LegAgain puts out and keeps would break the     *)
(* second half, but the trade that was just pushed unbalances it           *)
(* (OneTooMany), so it never becomes a record. The induction theorems of   *)
(* the library take an operator as a parameter; induction is done here     *)
(* with a set (NatSetInduction), from the well-foundedness of the natural  *)
(* numbers.                                                                *)
(*                                                                         *)
(* That nothing is missed (DetectorWholeOrders) is a second invariant of   *)
(* the pass, OrderInv, for runs of whole orders in one contract: what is   *)
(* collected is the current order so far, and all orders before it are     *)
(* out.                                                                    *)
(***************************************************************************)
EXTENDS ConRevDetector, SequenceTheorems, FiniteSetTheorems,
        WellFoundedInduction, NaturalsInduction, TLAPS

\* Induction over the natural numbers for a property given as a set.
LEMMA NatSetInduction ==
    ASSUME NEW S, 0 \in S, \A n \in Nat : n \in S => n + 1 \in S
    PROVE  \A n \in Nat : n \in S
<1> DEFINE T == Nat \ S
<1> SUFFICES ASSUME T # {} PROVE FALSE
    OBVIOUS
<1>1. PICK x \in T : \A y \in T : ~(<<y, x>> \in OpToRel(<, Nat))
  <2>1. T \subseteq Nat
      OBVIOUS
  <2>2. IsWellFoundedOn(OpToRel(<, Nat), Nat)
      BY NatLessThanWellFounded
  <2> HIDE DEF T
  <2> QED
      BY <2>1, <2>2, WFMin, Zenon
<1>2. x \in Nat /\ x # 0 /\ x - 1 \in Nat /\ x - 1 < x
    OBVIOUS
<1>3. <<x - 1, x>> \in OpToRel(<, Nat)
    BY <1>2 DEF OpToRel
<1>4. x - 1 \in S
    BY <1>1, <1>2, <1>3
<1> QED
    BY <1>2, <1>4

\* f is the function that a definition by recursion over 0 .. k stands for.
IsKeptFn(f, g, S, k) ==
    f = [n \in 0 .. k |->
            IF n = 0 THEN <<>>
            ELSE IF g[n] \in S THEN Append(f[n - 1], g[n]) ELSE f[n - 1]]

\* The recursion that Kept is defined by has a solution for every length.
LEMMA KeptFnExists ==
    ASSUME NEW g, NEW S, NEW N \in Nat
    PROVE  \E f : IsKeptFn(f, g, S, N)
<1> DEFINE T == {k \in Nat : \E f : IsKeptFn(f, g, S, k)}
<1>1. 0 \in T
  <2> DEFINE f == [n \in 0 .. 0 |-> <<>>]
  <2>1. IsKeptFn(f, g, S, 0)
      BY DEF IsKeptFn
  <2> QED
      BY <2>1
<1>2. ASSUME NEW k \in Nat, k \in T PROVE k + 1 \in T
  <2>1. PICK f : IsKeptFn(f, g, S, k)
      BY <1>2
  <2> DEFINE e == IF g[k + 1] \in S THEN Append(f[k], g[k + 1]) ELSE f[k]
             h == [n \in 0 .. k + 1 |-> IF n = k + 1 THEN e ELSE f[n]]
  <2>2. /\ DOMAIN h = 0 .. k + 1 /\ h = [n \in 0 .. k + 1 |-> h[n]]
        /\ h[k + 1] = e /\ h[k] = f[k]
        /\ \A n \in 0 .. k : h[n] = f[n]
      OBVIOUS
  <2>3. \A n \in 0 .. k : f[n] = IF n = 0 THEN <<>>
            ELSE IF g[n] \in S THEN Append(f[n - 1], g[n]) ELSE f[n - 1]
      BY <2>1 DEF IsKeptFn
  <2> HIDE DEF h, e
  <2>4. \A n \in 0 .. k + 1 : h[n] = IF n = 0 THEN <<>>
            ELSE IF g[n] \in S THEN Append(h[n - 1], g[n]) ELSE h[n - 1]
    <3> TAKE n \in 0 .. k + 1
    <3>1. CASE n = k + 1
        BY <3>1, <2>2
    <3>2. CASE n \in 0 .. k
      <4>1. h[n] = f[n]
          BY <3>2, <2>2
      <4>3. n # 0 => n - 1 \in 0 .. k
          BY <3>2
      <4>2. n # 0 => h[n - 1] = f[n - 1]
          BY <4>3, <2>2
      <4> QED
          BY <3>2, <4>1, <4>2, <2>3
    <3> QED
        BY <3>1, <3>2
  <2>5. IsKeptFn(h, g, S, k + 1)
      BY <2>2, <2>4 DEF IsKeptFn
  <2> QED
      BY <2>5
<1> HIDE DEF T
<1>3. N \in T
    BY <1>1, <1>2, NatSetInduction
<1> QED
    BY <1>3 DEF T

\* Kept as its recursion says, member by member.
LEMMA KeptRec ==
    ASSUME NEW g, Len(g) \in Nat, NEW S
    PROVE  \E f : /\ Kept(g, S) = f[Len(g)]
                  /\ f[0] = <<>>
                  /\ \A n \in 1 .. Len(g) :
                        f[n] = IF g[n] \in S THEN Append(f[n - 1], g[n]) ELSE f[n - 1]
<1> DEFINE f == CHOOSE f : IsKeptFn(f, g, S, Len(g))
<1>1. IsKeptFn(f, g, S, Len(g))
    BY KeptFnExists
<1>2. Kept(g, S) = f[Len(g)]
    BY DEF Kept, IsKeptFn
<1> HIDE DEF f
<1>3. \A n \in 0 .. Len(g) : f[n] = IF n = 0 THEN <<>>
            ELSE IF g[n] \in S THEN Append(f[n - 1], g[n]) ELSE f[n - 1]
    BY <1>1 DEF IsKeptFn
<1> QED
    BY <1>2, <1>3

\* What is kept of one trade more.
LEMMA KeptAppend ==
    ASSUME NEW A, NEW g \in Seq(A), NEW m \in A, NEW S, NEW T,
           \A i \in 1 .. Len(g) : g[i] \in S <=> g[i] \in T
    PROVE  Kept(Append(g, m), T) = IF m \in T THEN Append(Kept(g, S), m) ELSE Kept(g, S)
<1> DEFINE N == Len(g)
           h == Append(g, m)
<1>1. /\ N \in Nat /\ Len(h) = N + 1 /\ Len(g) = N
      /\ h[N + 1] = m /\ \A i \in 1 .. N : h[i] = g[i]
    BY AppendProperties, LenProperties
<1> HIDE DEF N, h
<1>2. PICK f : /\ Kept(g, S) = f[N]
               /\ f[0] = <<>>
               /\ \A n \in 1 .. N :
                     f[n] = IF g[n] \in S THEN Append(f[n - 1], g[n]) ELSE f[n - 1]
    BY <1>1, KeptRec
<1>3. PICK e : /\ Kept(h, T) = e[N + 1]
               /\ e[0] = <<>>
               /\ \A n \in 1 .. N + 1 :
                     e[n] = IF h[n] \in T THEN Append(e[n - 1], h[n]) ELSE e[n - 1]
  <2>1. Len(h) \in Nat
      BY <1>1
  <2>2. PICK e : /\ Kept(h, T) = e[Len(h)]
                 /\ e[0] = <<>>
                 /\ \A n \in 1 .. Len(h) :
                       e[n] = IF h[n] \in T THEN Append(e[n - 1], h[n]) ELSE e[n - 1]
      BY <2>1, KeptRec
  <2> QED
      BY <2>2, <1>1
<1>4. e[N] = f[N]
  <2> DEFINE U == {k \in Nat : k <= N => e[k] = f[k]}
  <2>1. 0 \in U
      BY <1>2, <1>3
  <2>2. ASSUME NEW k \in Nat, k \in U PROVE k + 1 \in U
    <3> SUFFICES ASSUME k + 1 <= N PROVE e[k + 1] = f[k + 1]
        OBVIOUS
    <3>1. k + 1 \in 1 .. N /\ k + 1 \in 1 .. N + 1 /\ (k + 1) - 1 = k /\ e[k] = f[k]
        BY <2>2, <1>1
    <3>2. h[k + 1] = g[k + 1] /\ (h[k + 1] \in T <=> g[k + 1] \in S)
        BY <3>1, <1>1
    <3> QED
        BY <3>1, <3>2, <1>2, <1>3
  <2> HIDE DEF U
  <2>3. N \in U
      BY <2>1, <2>2, <1>1, NatSetInduction
  <2> QED
      BY <2>3, <1>1 DEF U
<1>5. e[N + 1] = IF m \in T THEN Append(e[N], m) ELSE e[N]
  <2>1. N + 1 \in 1 .. N + 1 /\ (N + 1) - 1 = N
      BY <1>1
  <2> QED
      BY <2>1, <1>1, <1>3
<1> QED
    BY <1>2, <1>3, <1>4, <1>5 DEF h

\* The same with one set.
LEMMA KeptOneMore ==
    ASSUME NEW A, NEW g \in Seq(A), NEW m \in A, NEW S
    PROVE  Kept(Append(g, m), S) = IF m \in S THEN Append(Kept(g, S), m) ELSE Kept(g, S)
<1>1. \A i \in 1 .. Len(g) : g[i] \in S <=> g[i] \in S
    OBVIOUS
<1> QED
    BY <1>1, KeptAppend

\* Nothing is kept of nothing.
LEMMA KeptEmpty ==
    ASSUME NEW S
    PROVE  Kept(<<>>, S) = <<>>
<1>1. Len(<<>>) = 0
    OBVIOUS
<1> QED
    BY <1>1, KeptRec

\* h holds, in the order of g, the members of g that are in S.
Selects(p, h, g, S) ==
    /\ p \in [1 .. Len(h) -> 1 .. Len(g)]
    /\ \A k \in 1 .. Len(h) : h[k] = g[p[k]] /\ g[p[k]] \in S
    /\ \A k, l \in 1 .. Len(h) : k < l => p[k] < p[l]
    /\ \A i \in 1 .. Len(g) : g[i] \in S => \E k \in 1 .. Len(h) : p[k] = i

\* One trade more, taken or not.
LEMMA SelectsAppend ==
    ASSUME NEW A, NEW g \in Seq(A), NEW h \in Seq(A), NEW m \in A, NEW S, NEW p,
           Selects(p, h, g, S)
    PROVE  \E q : Selects(q, IF m \in S THEN Append(h, m) ELSE h, Append(g, m), S)
<1> DEFINE N == Len(g)
           L == Len(h)
           gm == Append(g, m)
           hm == Append(h, m)
<1>1. /\ N \in Nat /\ Len(gm) = N + 1 /\ gm[N + 1] = m /\ \A i \in 1 .. N : gm[i] = g[i]
      /\ L \in Nat /\ Len(hm) = L + 1 /\ hm[L + 1] = m /\ \A i \in 1 .. L : hm[i] = h[i]
    BY AppendProperties, LenProperties
<1>2. /\ p \in [1 .. L -> 1 .. N]
      /\ \A k \in 1 .. L : h[k] = g[p[k]] /\ g[p[k]] \in S
      /\ \A k, l \in 1 .. L : k < l => p[k] < p[l]
      /\ \A i \in 1 .. N : g[i] \in S => \E k \in 1 .. L : p[k] = i
    BY DEF Selects
<1> HIDE DEF N, L, gm, hm
<1>3. CASE m \in S
  <2> DEFINE q == [k \in 1 .. L + 1 |-> IF k = L + 1 THEN N + 1 ELSE p[k]]
  <2>1. /\ q[L + 1] = N + 1 /\ \A k \in 1 .. L : q[k] = p[k]
        /\ q \in [1 .. L + 1 -> 1 .. N + 1]
      BY <1>1, <1>2
  <2>2. \A k \in 1 .. L + 1 : k = L + 1 \/ k \in 1 .. L
      BY <1>1
  <2>3. \A i \in 1 .. N + 1 : i = N + 1 \/ i \in 1 .. N
      BY <1>1
  <2>4. 1 .. L \subseteq 1 .. L + 1 /\ L + 1 \in 1 .. L + 1
      BY <1>1
  <2> HIDE DEF q
  <2>5. \A k \in 1 .. L : p[k] \in 1 .. N
      BY <1>2
  <2>6. \A k \in 1 .. L + 1 : hm[k] = gm[q[k]] /\ gm[q[k]] \in S
    <3> TAKE k \in 1 .. L + 1
    <3>1. CASE k = L + 1
        BY <3>1, <1>1, <2>1, <1>3
    <3>2. CASE k \in 1 .. L
        BY <3>2, <1>1, <1>2, <2>1, <2>5
    <3> QED
        BY <3>1, <3>2, <2>2
  <2>7. \A k, l \in 1 .. L + 1 : k < l => q[k] < q[l]
    <3> SUFFICES ASSUME NEW k \in 1 .. L + 1, NEW l \in 1 .. L + 1, k < l
                 PROVE  q[k] < q[l]
        OBVIOUS
    <3>1. k \in 1 .. L
        BY <1>1
    <3>2. CASE l = L + 1
      <4>1. q[k] = p[k] /\ p[k] \in 1 .. N /\ q[l] = N + 1
          BY <3>1, <3>2, <2>1, <2>5
      <4> QED
          BY <4>1, <1>1
    <3>3. CASE l \in 1 .. L
        BY <3>1, <3>3, <2>1, <1>2
    <3> QED
        BY <3>2, <3>3, <2>2
  <2>8. \A i \in 1 .. N + 1 : gm[i] \in S => \E k \in 1 .. L + 1 : q[k] = i
    <3> SUFFICES ASSUME NEW i \in 1 .. N + 1, gm[i] \in S
                 PROVE  \E k \in 1 .. L + 1 : q[k] = i
        OBVIOUS
    <3>1. CASE i = N + 1
        BY <3>1, <2>1, <2>4
    <3>2. CASE i \in 1 .. N
      <4>1. PICK k \in 1 .. L : p[k] = i
          BY <3>2, <1>1, <1>2
      <4> QED
          BY <4>1, <2>1, <2>4
    <3> QED
        BY <3>1, <3>2, <2>3
  <2>9. Selects(q, hm, gm, S)
      BY <1>1, <2>1, <2>6, <2>7, <2>8 DEF Selects
  <2> QED
      BY <2>9, <1>3 DEF gm, hm
<1>4. CASE m \notin S
  <2>1. \A k \in 1 .. L : p[k] \in 1 .. N
      BY <1>2
  <2>2. 1 .. N + 1 = 1 .. N \cup {N + 1}
      BY <1>1
  <2>3. p \in [1 .. L -> 1 .. N + 1]
      BY <1>2, <2>2
  <2>4. \A k \in 1 .. L : h[k] = gm[p[k]] /\ gm[p[k]] \in S
      BY <1>1, <1>2, <2>1
  <2>5. \A i \in 1 .. N + 1 : gm[i] \in S => \E k \in 1 .. L : p[k] = i
    <3> SUFFICES ASSUME NEW i \in 1 .. N + 1, gm[i] \in S
                 PROVE  \E k \in 1 .. L : p[k] = i
        OBVIOUS
    <3>1. i \in 1 .. N
        BY <2>2, <1>1, <1>4
    <3>2. g[i] \in S
        BY <3>1, <1>1
    <3> QED
        BY <3>1, <3>2, <1>2
  <2>6. Selects(p, h, gm, S)
      BY <1>1, <1>2, <2>3, <2>4, <2>5 DEF Selects, L
  <2> QED
      BY <2>6, <1>4 DEF gm
<1> QED
    BY <1>3, <1>4

\* The first n members of a sequence, and one more.
LEMMA Prefix ==
    ASSUME NEW A, NEW g \in Seq(A), NEW n \in 0 .. Len(g)
    PROVE  /\ SubSeq(g, 1, n) \in Seq(A)
           /\ Len(SubSeq(g, 1, n)) = n
           /\ \A i \in 1 .. n : SubSeq(g, 1, n)[i] = g[i]
           /\ n < Len(g) => /\ g[n + 1] \in A
                            /\ SubSeq(g, 1, n + 1) = Append(SubSeq(g, 1, n), g[n + 1])
<1>1. Len(g) \in Nat /\ g \in [1 .. Len(g) -> A] /\ n \in Int /\ 1 \in Int
    BY LenProperties
<1>2. \A i \in 1 .. n : g[i] \in A
    BY <1>1
<1>3. /\ SubSeq(g, 1, n) \in Seq(A)
      /\ Len(SubSeq(g, 1, n)) = n
      /\ \A i \in 1 .. n : SubSeq(g, 1, n)[i] = g[i]
  <2>1. /\ SubSeq(g, 1, n) \in Seq(A)
        /\ Len(SubSeq(g, 1, n)) = IF 1 <= n THEN n - 1 + 1 ELSE 0
        /\ \A i \in 1 .. n - 1 + 1 : SubSeq(g, 1, n)[i] = g[1 + i - 1]
      BY <1>1, <1>2, SubSeqProperties
  <2>2. n - 1 + 1 = n /\ \A i \in 1 .. n : 1 + i - 1 = i
      BY <1>1
  <2> QED
      BY <2>1, <2>2, <1>1
<1>4. ASSUME n < Len(g)
      PROVE  g[n + 1] \in A /\ SubSeq(g, 1, n + 1) = Append(SubSeq(g, 1, n), g[n + 1])
  <2>1. n + 1 \in 1 .. Len(g) /\ n + 1 \in Int
      BY <1>1, <1>4
  <2>2. g[n + 1] \in A /\ \A i \in 1 .. n + 1 : g[i] \in A
      BY <2>1, <1>1
  <2>3. /\ SubSeq(g, 1, n + 1) \in Seq(A)
        /\ Len(SubSeq(g, 1, n + 1)) = IF 1 <= n + 1 THEN (n + 1) - 1 + 1 ELSE 0
        /\ \A i \in 1 .. (n + 1) - 1 + 1 : SubSeq(g, 1, n + 1)[i] = g[1 + i - 1]
      BY <2>1, <2>2, <1>1, SubSeqProperties
  <2>4. (n + 1) - 1 + 1 = n + 1 /\ 1 <= n + 1 /\ \A i \in 1 .. n + 1 : 1 + i - 1 = i
      BY <1>1
  <2> DEFINE s == SubSeq(g, 1, n + 1)
             t == Append(SubSeq(g, 1, n), g[n + 1])
  <2>5. s \in Seq(A) /\ Len(s) = n + 1 /\ \A i \in 1 .. n + 1 : s[i] = g[i]
      BY <2>3, <2>4
  <2>6. t \in Seq(A) /\ Len(t) = n + 1 /\ t[n + 1] = g[n + 1] /\ \A i \in 1 .. n : t[i] = g[i]
      BY <1>3, <2>2, AppendProperties
  <2>7. \A i \in 1 .. n + 1 : i = n + 1 \/ i \in 1 .. n
      BY <1>1
  <2> HIDE DEF s, t
  <2>8. s = t
    <3>1. \A i \in 1 .. Len(s) : s[i] = t[i]
        BY <2>5, <2>6, <2>7
    <3>2. Len(s) = Len(t)
        BY <2>5, <2>6
    <3> QED
        BY <2>5, <2>6, <3>1, <3>2, SeqEqual
  <2> QED
      BY <2>8, <2>2 DEF s, t
<1> QED
    BY <1>3, <1>4

\* Kept takes exactly the members that are in S, in their order.
LEMMA KeptSelects ==
    ASSUME NEW A, NEW g \in Seq(A), NEW S
    PROVE  Kept(g, S) \in Seq(A) /\ \E p : Selects(p, Kept(g, S), g, S)
<1> DEFINE k(n) == Kept(SubSeq(g, 1, n), S)
           T == {n \in Nat : n <= Len(g) =>
                    k(n) \in Seq(A) /\ \E p : Selects(p, k(n), SubSeq(g, 1, n), S)}
<1>1. Len(g) \in Nat /\ SubSeq(g, 1, Len(g)) = g
    BY LenProperties, SubSeqFull
<1>2. 0 \in T
  <2>0. SubSeq(g, 1, 0) = <<>>
      BY SubSeqEmpty
  <2>1. k(0) = <<>> /\ <<>> \in Seq(A)
    <3>1. Kept(<<>>, S) = <<>> /\ <<>> \in Seq(A)
        BY KeptEmpty
    <3> QED
        BY <2>0, <3>1
  <2>2. Selects(<<>>, <<>>, <<>>, S)
    <3>1. 1 .. Len(<<>>) = {} /\ <<>> \in [{} -> {}]
        OBVIOUS
    <3> QED
        BY <3>1 DEF Selects
  <2> QED
      BY <2>0, <2>1, <2>2
<1>3. ASSUME NEW n \in Nat, n \in T PROVE n + 1 \in T
  <2> SUFFICES ASSUME n + 1 <= Len(g)
               PROVE  k(n + 1) \in Seq(A) /\ \E p : Selects(p, k(n + 1), SubSeq(g, 1, n + 1), S)
      OBVIOUS
  <2> DEFINE s == SubSeq(g, 1, n)
  <2>1. n \in 0 .. Len(g) /\ n < Len(g) /\ n <= Len(g)
      BY <1>1
  <2>2. /\ s \in Seq(A) /\ g[n + 1] \in A
        /\ SubSeq(g, 1, n + 1) = Append(s, g[n + 1])
      BY <2>1, Prefix
  <2>3. k(n) \in Seq(A) /\ \E p : Selects(p, k(n), s, S)
      BY <1>3, <2>1
  <2>4. k(n + 1) = IF g[n + 1] \in S THEN Append(k(n), g[n + 1]) ELSE k(n)
    <3> DEFINE e == g[n + 1]
    <3>1. s \in Seq(A) /\ e \in A
        BY <2>2
    <3> HIDE DEF s, e
    <3>2. Kept(Append(s, e), S) = IF e \in S THEN Append(Kept(s, S), e) ELSE Kept(s, S)
        BY <3>1, KeptOneMore
    <3> QED
        BY <3>2, <2>2 DEF s, e
  <2>5. k(n + 1) \in Seq(A)
    <3> DEFINE h == k(n)
               e == g[n + 1]
    <3>1. h \in Seq(A) /\ e \in A
        BY <2>2, <2>3
    <3>2. k(n + 1) = Append(h, e) \/ k(n + 1) = h
        BY <2>4
    <3> HIDE DEF k, h, e
    <3>3. Append(h, e) \in Seq(A)
        BY <3>1, AppendProperties
    <3> QED
        BY <3>1, <3>2, <3>3
  <2>6. \E q : Selects(q, k(n + 1), Append(s, g[n + 1]), S)
    <3> HIDE DEF k, s
    <3> QED
        BY <2>4, <2>3, <2>2, SelectsAppend
  <2> QED
      BY <2>5, <2>6, <2>2
<1> HIDE DEF T
<1>4. Len(g) \in T
    BY <1>1, <1>2, <1>3, NatSetInduction
<1>5. k(Len(g)) \in Seq(A) /\ \E p : Selects(p, k(Len(g)), SubSeq(g, 1, Len(g)), S)
    BY <1>4, <1>1 DEF T
<1> QED
    BY <1>5, <1>1

----------------------------------------------------------------------------
(* Sums *)

\* The function that QtySum stands for.
IsSumFn(f, g, k) ==
    f = [n \in 0 .. k |-> IF n = 0 THEN 0 ELSE f[n - 1] + g[n].qty]

\* The recursion that QtySum is defined by has a solution for every length.
LEMMA SumFnExists ==
    ASSUME NEW g, NEW N \in Nat
    PROVE  \E f : IsSumFn(f, g, N)
<1> DEFINE T == {k \in Nat : \E f : IsSumFn(f, g, k)}
<1>1. 0 \in T
  <2> DEFINE f == [n \in 0 .. 0 |-> 0]
  <2>1. IsSumFn(f, g, 0)
      BY DEF IsSumFn
  <2> QED
      BY <2>1
<1>2. ASSUME NEW k \in Nat, k \in T PROVE k + 1 \in T
  <2>1. PICK f : IsSumFn(f, g, k)
      BY <1>2
  <2> DEFINE e == f[k] + g[k + 1].qty
             h == [n \in 0 .. k + 1 |-> IF n = k + 1 THEN e ELSE f[n]]
  <2>2. /\ DOMAIN h = 0 .. k + 1 /\ h = [n \in 0 .. k + 1 |-> h[n]]
        /\ h[k + 1] = e /\ h[k] = f[k]
        /\ \A n \in 0 .. k : h[n] = f[n]
      OBVIOUS
  <2>3. \A n \in 0 .. k : f[n] = IF n = 0 THEN 0 ELSE f[n - 1] + g[n].qty
      BY <2>1 DEF IsSumFn
  <2> HIDE DEF h, e
  <2>4. \A n \in 0 .. k + 1 : h[n] = IF n = 0 THEN 0 ELSE h[n - 1] + g[n].qty
    <3> TAKE n \in 0 .. k + 1
    <3>1. CASE n = k + 1
        BY <3>1, <2>2 DEF e
    <3>2. CASE n \in 0 .. k
      <4>1. h[n] = f[n]
          BY <3>2, <2>2
      <4>2. n # 0 => n - 1 \in 0 .. k
          BY <3>2
      <4>3. n # 0 => h[n - 1] = f[n - 1]
          BY <4>2, <2>2
      <4> QED
          BY <3>2, <4>1, <4>3, <2>3
    <3> QED
        BY <3>1, <3>2
  <2>5. IsSumFn(h, g, k + 1)
      BY <2>2, <2>4 DEF IsSumFn
  <2> QED
      BY <2>5
<1> HIDE DEF T
<1>3. N \in T
    BY <1>1, <1>2, NatSetInduction
<1> QED
    BY <1>3 DEF T

\* QtySum as its recursion says.
LEMMA SumRec ==
    ASSUME NEW g, Len(g) \in Nat
    PROVE  \E f : /\ QtySum(g) = f[Len(g)]
                  /\ f[0] = 0
                  /\ \A n \in 1 .. Len(g) : f[n] = f[n - 1] + g[n].qty
<1> DEFINE f == CHOOSE f : IsSumFn(f, g, Len(g))
<1>1. IsSumFn(f, g, Len(g))
    BY SumFnExists
<1>2. QtySum(g) = f[Len(g)]
    BY DEF QtySum, IsSumFn
<1> HIDE DEF f
<1>3. \A n \in 0 .. Len(g) : f[n] = IF n = 0 THEN 0 ELSE f[n - 1] + g[n].qty
    BY <1>1 DEF IsSumFn
<1> QED
    BY <1>2, <1>3

\* Nothing was traded in no trades.
LEMMA SumEmpty == QtySum(<<>>) = 0
<1>1. Len(<<>>) = 0
    OBVIOUS
<1> QED
    BY <1>1, SumRec

\* One trade more adds its quantity.
LEMMA SumOneMore ==
    ASSUME NEW A, NEW g \in Seq(A), NEW m \in A
    PROVE  QtySum(Append(g, m)) = QtySum(g) + m.qty
<1> DEFINE N == Len(g)
           h == Append(g, m)
<1>1. /\ N \in Nat /\ Len(h) = N + 1 /\ Len(g) = N
      /\ h[N + 1] = m /\ \A i \in 1 .. N : h[i] = g[i]
    BY AppendProperties, LenProperties
<1> HIDE DEF N, h
<1>2. PICK f : /\ QtySum(g) = f[N]
               /\ f[0] = 0
               /\ \A n \in 1 .. N : f[n] = f[n - 1] + g[n].qty
  <2>1. Len(g) \in Nat
      BY <1>1
  <2>2. PICK f : /\ QtySum(g) = f[Len(g)]
                 /\ f[0] = 0
                 /\ \A n \in 1 .. Len(g) : f[n] = f[n - 1] + g[n].qty
      BY <2>1, SumRec
  <2> QED
      BY <2>2, <1>1
<1>3. PICK e : /\ QtySum(h) = e[N + 1]
               /\ e[0] = 0
               /\ \A n \in 1 .. N + 1 : e[n] = e[n - 1] + h[n].qty
  <2>1. Len(h) \in Nat
      BY <1>1
  <2>2. PICK e : /\ QtySum(h) = e[Len(h)]
                 /\ e[0] = 0
                 /\ \A n \in 1 .. Len(h) : e[n] = e[n - 1] + h[n].qty
      BY <2>1, SumRec
  <2> QED
      BY <2>2, <1>1
<1>4. e[N] = f[N]
  <2> DEFINE U == {k \in Nat : k <= N => e[k] = f[k]}
  <2>1. 0 \in U
      BY <1>2, <1>3
  <2>2. ASSUME NEW k \in Nat, k \in U PROVE k + 1 \in U
    <3> SUFFICES ASSUME k + 1 <= N PROVE e[k + 1] = f[k + 1]
        OBVIOUS
    <3>1. k + 1 \in 1 .. N /\ k + 1 \in 1 .. N + 1 /\ (k + 1) - 1 = k /\ e[k] = f[k]
        BY <2>2, <1>1
    <3> QED
        BY <3>1, <1>1, <1>2, <1>3
  <2> HIDE DEF U
  <2>3. N \in U
      BY <2>1, <2>2, <1>1, NatSetInduction
  <2> QED
      BY <2>3, <1>1 DEF U
<1>5. e[N + 1] = e[N] + m.qty
  <2>1. N + 1 \in 1 .. N + 1 /\ (N + 1) - 1 = N
      BY <1>1
  <2> QED
      BY <2>1, <1>1, <1>3
<1> QED
    BY <1>2, <1>3, <1>4, <1>5 DEF h

\* The sum of natural numbers is one.
LEMMA SumType ==
    ASSUME NEW A, NEW g \in Seq(A), \A m \in A : m.qty \in Nat
    PROVE  QtySum(g) \in Nat
<1>1. Len(g) \in Nat /\ \A i \in 1 .. Len(g) : g[i].qty \in Nat
  <2>1. \A i \in 1 .. Len(g) : g[i] \in A
      BY LenProperties
  <2> QED
      BY <2>1, LenProperties
<1>2. PICK f : /\ QtySum(g) = f[Len(g)]
               /\ f[0] = 0
               /\ \A n \in 1 .. Len(g) : f[n] = f[n - 1] + g[n].qty
    BY <1>1, SumRec
<1> DEFINE U == {k \in Nat : k <= Len(g) => f[k] \in Nat}
<1>3. 0 \in U
    BY <1>2
<1>4. ASSUME NEW k \in Nat, k \in U PROVE k + 1 \in U
  <2> SUFFICES ASSUME k + 1 <= Len(g) PROVE f[k + 1] \in Nat
      OBVIOUS
  <2>1. k + 1 \in 1 .. Len(g) /\ (k + 1) - 1 = k /\ f[k] \in Nat
      BY <1>1, <1>4
  <2>2. f[k + 1] = f[k] + g[k + 1].qty
      BY <2>1, <1>2
  <2> QED
      BY <2>1, <2>2, <1>1
<1> HIDE DEF U
<1>5. Len(g) \in U
    BY <1>1, <1>3, <1>4, NatSetInduction
<1> QED
    BY <1>1, <1>2, <1>5 DEF U

----------------------------------------------------------------------------
(* The least and the greatest of a set of numbers *)

\* Min finds the least number of a set.
LEMMA LeastOf ==
    ASSUME NEW S, S \subseteq Nat, S # {}
    PROVE  Min(S) \in S /\ \A x \in S : Min(S) <= x
<1>1. PICK x \in S : \A y \in S : ~(<<y, x>> \in OpToRel(<, Nat))
    BY NatLessThanWellFounded, WFMin, Zenon
<1>2. \A y \in S : x <= y
  <2> TAKE y \in S
  <2>1. ~ (y < x)
      BY <1>1 DEF OpToRel
  <2> QED
      BY <2>1
<1> QED
    BY <1>2 DEF Min

\* Max finds the greatest number of a set that has a bound.
LEMMA GreatestOf ==
    ASSUME NEW S, S \subseteq Nat, S # {}, NEW b \in Nat, \A x \in S : x <= b
    PROVE  Max(S) \in S /\ \A x \in S : x <= Max(S)
<1> DEFINE T == {b - x : x \in S}
<1>1. T \subseteq Nat /\ T # {}
  <2>1. \A x \in S : b - x \in Nat
      OBVIOUS
  <2>2. T # {}
      OBVIOUS
  <2> QED
      BY <2>1, <2>2
<1>2. PICK t \in T : \A y \in T : ~(<<y, t>> \in OpToRel(<, Nat))
  <2> HIDE DEF T
  <2> QED
      BY <1>1, NatLessThanWellFounded, WFMin, Zenon
<1>3. PICK x \in S : t = b - x
    OBVIOUS
<1>4. \A y \in S : y <= x
  <2> TAKE y \in S
  <2>0. b - y \in Nat /\ b - x \in Nat /\ b - y \in T
      OBVIOUS
  <2>1. ~ (b - y < b - x)
      BY <1>2, <1>3, <2>0 DEF OpToRel
  <2> QED
      BY <2>1
<1> QED
    BY <1>4 DEF Max

----------------------------------------------------------------------------
(* Trades of instruments that the contract file describes *)

\* A numbered trade as vTradeMsgStore holds it.
Collected == TradeType({"B", "S"})

\* One whose instrument FileDigester read completely.
Known == {m \in Collected : m.token \in DOMAIN Scrips /\ Scrips[m.token].lot # 0}

\* What ContractFile guarantees of the instrument of such a trade.
LEMMA KnownTrade ==
    ASSUME NEW m \in Known
    PROVE  /\ Type(m) \in Types /\ Expiry(m) \in Nat \ {0} /\ Strike(m) \in Nat
           /\ m.qty \in Nat \ {0} /\ m.token \in Nat /\ m.seq \in Nat \ {0}
BY ScripsAssumption DEF Known, Collected, TradeType, Type, Expiry, Strike

\* The trades of a leg when one trade is added.
LEMMA OfTypeOneMore ==
    ASSUME NEW g \in Seq(Known), NEW m \in Known, NEW y
    PROVE  OfType(Append(g, m), y) =
               IF Type(m) = y THEN Append(OfType(g, y), m) ELSE OfType(g, y)
<1> DEFINE h == Append(g, m)
           S == {x \in ToSet(g) : Type(x) = y}
           T == {x \in ToSet(h) : Type(x) = y}
<1>1. /\ Len(g) \in Nat /\ DOMAIN g = 1 .. Len(g)
      /\ DOMAIN h = 1 .. Len(g) + 1 /\ h[Len(g) + 1] = m /\ \A i \in 1 .. Len(g) : h[i] = g[i]
    BY AppendProperties, LenProperties
<1>2. ASSUME NEW i \in 1 .. Len(g) PROVE g[i] \in S <=> g[i] \in T
  <2>1. g[i] \in ToSet(g)
      BY <1>1 DEF ToSet
  <2>2. i \in DOMAIN h /\ h[i] = g[i]
      BY <1>1
  <2>3. g[i] \in ToSet(h)
      BY <2>2 DEF ToSet
  <2> QED
      BY <2>1, <2>3
<1>3. m \in T <=> Type(m) = y
  <2>1. Len(g) + 1 \in DOMAIN h
      BY <1>1
  <2>2. m \in ToSet(h)
      BY <2>1, <1>1 DEF ToSet
  <2> QED
      BY <2>2
<1>4. Kept(h, T) = IF m \in T THEN Append(Kept(g, S), m) ELSE Kept(g, S)
  <2> HIDE DEF S, T
  <2> QED
      BY <1>2, KeptAppend
<1> QED
    BY <1>3, <1>4 DEF OfType

\* The traded quantities are natural numbers.
LEMMA QtyType ==
    ASSUME NEW g \in Seq(Known)
    PROVE  QtyByType(g) \in [Types -> Nat]
<1>1. ASSUME NEW y \in Types PROVE QtySum(OfType(g, y)) \in Nat
  <2>1. OfType(g, y) \in Seq(Known)
      BY KeptSelects DEF OfType
  <2>2. \A m \in Known : m.qty \in Nat
      BY KnownTrade
  <2> QED
      BY <2>1, <2>2, SumType
<1> QED
    BY <1>1 DEF QtyByType

\* The quantities of no trades.
LEMMA QtyEmpty == QtyByType(<<>>) = [y \in Types |-> 0]
<1>1. \A y \in Types : OfType(<<>>, y) = <<>>
    BY KeptEmpty DEF OfType
<1> QED
    BY <1>1, SumEmpty DEF QtyByType

\* One trade more adds to the quantity of its leg and to no other.
LEMMA QtyOneMore ==
    ASSUME NEW g \in Seq(Known), NEW m \in Known
    PROVE  QtyByType(Append(g, m)) = [QtyByType(g) EXCEPT ![Type(m)] = @ + m.qty]
<1>1. ASSUME NEW y \in Types
      PROVE  QtySum(OfType(Append(g, m), y)) =
                 IF y = Type(m) THEN QtySum(OfType(g, y)) + m.qty ELSE QtySum(OfType(g, y))
  <2>1. OfType(g, y) \in Seq(Known)
      BY KeptSelects DEF OfType
  <2>2. QtySum(Append(OfType(g, y), m)) = QtySum(OfType(g, y)) + m.qty
      BY <2>1, SumOneMore
  <2> QED
      BY <2>2, OfTypeOneMore
<1>2. Type(m) \in Types
    BY KnownTrade
<1> QED
    BY <1>1, <1>2 DEF QtyByType

\* Where a type was traded at all, there is a trade of it.
LEMMA QtyTraded ==
    ASSUME NEW g \in Seq(Known), NEW y \in Types, QtyByType(g)[y] # 0
    PROVE  \E i \in 1 .. Len(g) : Type(g[i]) = y
<1> DEFINE S == {x \in ToSet(g) : Type(x) = y}
<1>1. Kept(g, S) \in Seq(Known) /\ \E p : Selects(p, Kept(g, S), g, S)
    BY KeptSelects
<1>2. Kept(g, S) # <<>>
  <2>1. QtySum(OfType(g, y)) # 0
      BY DEF QtyByType
  <2> QED
      BY <2>1, SumEmpty DEF OfType
<1>3. Len(Kept(g, S)) \in Nat /\ 1 \in 1 .. Len(Kept(g, S))
    BY <1>1, <1>2, EmptySeq
<1>4. PICK p : Selects(p, Kept(g, S), g, S)
    BY <1>1
<1>5. p[1] \in 1 .. Len(g) /\ g[p[1]] \in S
    BY <1>3, <1>4 DEF Selects
<1> QED
    BY <1>5

----------------------------------------------------------------------------
(* Pieces of a run *)

\* h consists of members of g, in their order.
PartOf(h, g) ==
    \E p \in [1 .. Len(h) -> 1 .. Len(g)] :
        /\ \A k \in 1 .. Len(h) : h[k] = g[p[k]]
        /\ \A k, l \in 1 .. Len(h) : k < l => p[k] < p[l]

\* In the order of the feed.
Increasing(g) == \A i, j \in 1 .. Len(g) : i < j => g[i].seq < g[j].seq

\* What is kept is a part.
LEMMA KeptPart ==
    ASSUME NEW A, NEW g \in Seq(A), NEW S
    PROVE  /\ Kept(g, S) \in Seq(A)
           /\ PartOf(Kept(g, S), g)
           /\ \A k \in 1 .. Len(Kept(g, S)) : Kept(g, S)[k] \in S
<1>1. Kept(g, S) \in Seq(A) /\ \E p : Selects(p, Kept(g, S), g, S)
    BY KeptSelects
<1>2. PICK p : Selects(p, Kept(g, S), g, S)
    BY <1>1
<1>3. p \in [1 .. Len(Kept(g, S)) -> 1 .. Len(g)]
    BY <1>2 DEF Selects
<1>4. PartOf(Kept(g, S), g)
    BY <1>2, <1>3 DEF Selects, PartOf
<1> QED
    BY <1>1, <1>2, <1>4 DEF Selects

\* The members of a part are members of the whole.
LEMMA PartOfMembers ==
    ASSUME NEW g, NEW h, PartOf(h, g), NEW k \in 1 .. Len(h)
    PROVE  \E i \in 1 .. Len(g) : h[k] = g[i]
<1>1. PICK p \in [1 .. Len(h) -> 1 .. Len(g)] : \A l \in 1 .. Len(h) : h[l] = g[p[l]]
    BY DEF PartOf
<1>2. p[k] \in 1 .. Len(g)
    BY <1>1
<1> QED
    BY <1>1, <1>2

\* A part of what is in the order of the feed is in that order.
LEMMA PartOfIncreasing ==
    ASSUME NEW g, NEW h, PartOf(h, g), Increasing(g)
    PROVE  Increasing(h)
<1> SUFFICES ASSUME NEW k \in 1 .. Len(h), NEW l \in 1 .. Len(h), k < l
             PROVE  h[k].seq < h[l].seq
    BY DEF Increasing
<1>1. PICK p \in [1 .. Len(h) -> 1 .. Len(g)] :
        /\ \A i \in 1 .. Len(h) : h[i] = g[p[i]]
        /\ \A i, j \in 1 .. Len(h) : i < j => p[i] < p[j]
    BY DEF PartOf
<1>2. p[k] \in 1 .. Len(g) /\ p[l] \in 1 .. Len(g) /\ p[k] < p[l]
    BY <1>1
<1> QED
    BY <1>1, <1>2 DEF Increasing

\* The end of a sequence is a part of it.
LEMMA SuffixPart ==
    ASSUME NEW A, NEW g \in Seq(A), NEW lo \in 1 .. Len(g)
    PROVE  /\ SubSeq(g, lo, Len(g)) \in Seq(A)
           /\ Len(SubSeq(g, lo, Len(g))) = Len(g) - lo + 1
           /\ \A k \in 1 .. Len(g) - lo + 1 : SubSeq(g, lo, Len(g))[k] = g[lo + k - 1]
           /\ PartOf(SubSeq(g, lo, Len(g)), g)
<1> DEFINE h == SubSeq(g, lo, Len(g))
           L == Len(g) - lo + 1
<1>1. Len(g) \in Nat /\ g \in [1 .. Len(g) -> A] /\ lo \in Int /\ Len(g) \in Int
    BY LenProperties
<1>2. \A i \in lo .. Len(g) : g[i] \in A
    BY <1>1
<1>3. /\ h \in Seq(A) /\ Len(h) = IF lo <= Len(g) THEN L ELSE 0
      /\ \A k \in 1 .. L : h[k] = g[lo + k - 1]
    BY <1>1, <1>2, SubSeqProperties
<1>4. Len(h) = L
    BY <1>1, <1>3
<1> DEFINE p == [k \in 1 .. L |-> lo + k - 1]
<1> HIDE DEF h
<1>5. p \in [1 .. L -> 1 .. Len(g)]
    BY <1>1
<1>6. /\ \A k \in 1 .. L : h[k] = g[p[k]]
      /\ \A k, l \in 1 .. L : k < l => p[k] < p[l]
    BY <1>1, <1>3
<1> HIDE DEF p, L
<1>7. PartOf(h, g)
    BY <1>4, <1>5, <1>6 DEF PartOf
<1> QED
    BY <1>3, <1>4, <1>7 DEF h, L

\* A part of the beginning and all of the rest.
LEMMA PartAndRest ==
    ASSUME NEW A, NEW g \in Seq(A), NEW n \in 0 .. Len(g),
           NEW h \in Seq(A), PartOf(h, SubSeq(g, 1, n))
    PROVE  /\ h \o SubSeq(g, n + 1, Len(g)) \in Seq(A)
           /\ PartOf(h \o SubSeq(g, n + 1, Len(g)), g)
<1> DEFINE rest == SubSeq(g, n + 1, Len(g))
           L == Len(h)
           N == Len(g)
           c == h \o rest
<1>1. /\ N \in Nat /\ n \in Nat /\ n <= N /\ L \in Nat /\ n + 1 \in Int /\ N \in Int
      /\ g \in [1 .. N -> A]
    BY LenProperties
<1>2. /\ Len(SubSeq(g, 1, n)) = n
      /\ \A i \in 1 .. n : SubSeq(g, 1, n)[i] = g[i]
    BY Prefix
<1>3. /\ rest \in Seq(A) /\ Len(rest) = N - n
      /\ \A k \in 1 .. N - n : rest[k] = g[n + k]
  <2>1. \A i \in n + 1 .. N : g[i] \in A
      BY <1>1
  <2>2. /\ rest \in Seq(A) /\ Len(rest) = IF n + 1 <= N THEN N - (n + 1) + 1 ELSE 0
        /\ \A k \in 1 .. N - (n + 1) + 1 : rest[k] = g[(n + 1) + k - 1]
      BY <1>1, <2>1, SubSeqProperties
  <2>3. N - (n + 1) + 1 = N - n /\ \A k \in 1 .. N - n : (n + 1) + k - 1 = n + k
      BY <1>1
  <2>4. Len(rest) = N - n
    <3>1. CASE n + 1 <= N
        BY <3>1, <2>2, <2>3
    <3>2. CASE ~ (n + 1 <= N)
      <4>0. N \in Nat /\ n \in Nat /\ n <= N
          BY <1>1
      <4>1. N - n = 0
          BY ONLY <3>2, <4>0
      <4> QED
          BY <3>2, <4>1, <2>2
    <3> QED
        BY <3>1, <3>2
  <2> QED
      BY <2>2, <2>3, <2>4
<1> HIDE DEF rest
<1>4. /\ c \in Seq(A) /\ Len(c) = L + (N - n)
      /\ \A k \in 1 .. L + (N - n) : c[k] = IF k <= L THEN h[k] ELSE rest[k - L]
  <2>1. /\ c \in Seq(A) /\ Len(c) = Len(h) + Len(rest)
        /\ \A k \in 1 .. Len(h) + Len(rest) : c[k] = IF k <= Len(h) THEN h[k] ELSE rest[k - Len(h)]
      BY <1>3, ConcatProperties
  <2> QED
      BY <2>1, <1>3
<1>5. PICK p \in [1 .. L -> 1 .. n] :
          /\ \A k \in 1 .. L : h[k] = SubSeq(g, 1, n)[p[k]]
          /\ \A k, l \in 1 .. L : k < l => p[k] < p[l]
    BY <1>2 DEF PartOf
<1> HIDE DEF L, N, c
<1> DEFINE M == L + (N - n)
           q == [k \in 1 .. M |-> IF k <= L THEN p[k] ELSE n + (k - L)]
<1>6. \A k \in 1 .. L : p[k] \in 1 .. n
    BY <1>5
<1>7. ASSUME NEW k \in 1 .. M
      PROVE  /\ q[k] \in 1 .. N /\ c[k] = g[q[k]]
             /\ k <= L => q[k] \in 1 .. n /\ k \in 1 .. L /\ q[k] = p[k]
             /\ ~ (k <= L) => q[k] = n + (k - L) /\ n < q[k]
  <2>1. CASE k <= L
    <3>1. k \in 1 .. L /\ q[k] = p[k]
        BY <2>1, <1>1
    <3>2. p[k] \in 1 .. n
        BY <3>1, <1>6
    <3>3. c[k] = g[p[k]]
        BY <3>1, <3>2, <2>1, <1>2, <1>4, <1>5
    <3> QED
        BY <3>1, <3>2, <3>3, <2>1, <1>1
  <2>2. CASE ~ (k <= L)
    <3>1. q[k] = n + (k - L) /\ k - L \in 1 .. N - n /\ c[k] = rest[k - L]
        BY <2>2, <1>1, <1>4
    <3>2. rest[k - L] = g[n + (k - L)]
        BY <3>1, <1>3
    <3> QED
        BY <3>1, <3>2, <2>2, <1>1
  <2> QED
      BY <2>1, <2>2
<1>8. q \in [1 .. M -> 1 .. N]
  <2>1. q = [k \in 1 .. M |-> q[k]]
      OBVIOUS
  <2> HIDE DEF q, M
  <2> QED
      BY <2>1, <1>7
<1>9. ASSUME NEW k \in 1 .. M, NEW l \in 1 .. M, k < l
      PROVE  q[k] < q[l]
  <2> HIDE DEF q
  <2>1. CASE l <= L
    <3>1. k <= L
        BY <2>1, <1>1, <1>9
    <3> QED
        BY <3>1, <2>1, <1>5, <1>7, <1>9
  <2>2. CASE k <= L /\ ~ (l <= L)
    <3>1. q[k] \in 1 .. n /\ n < q[l] /\ q[l] \in 1 .. N
        BY <2>2, <1>7
    <3> QED
        BY <3>1, <1>1
  <2>3. CASE ~ (k <= L) /\ ~ (l <= L)
    <3>1. q[k] = n + (k - L) /\ q[l] = n + (l - L)
        BY <2>3, <1>7
    <3> QED
        BY <3>1, <1>1, <1>9
  <2> QED
      BY <2>1, <2>2, <2>3
<1> HIDE DEF q
<1>10. PartOf(c, g)
  <2>1. Len(c) = M
      BY <1>4
  <2> HIDE DEF M
  <2> QED
      BY <2>1, <1>7, <1>8, <1>9 DEF PartOf, N
<1> QED
    BY <1>4, <1>10 DEF c, rest, N

----------------------------------------------------------------------------
(* What the pass of SplitTrade keeps *)

\* The locals of SplitTrade that describe the collected group.
Details == [tokens : SUBSET Nat, qty : [Types -> Int], seen : SUBSET Types,
            strike : Nat, expiry : Nat, last : Nat]

\* All locals of SplitTrade, no empty vector having been read.
Pass == [grp : Seq(Known), d : Details, out : Seq(Seq(Known)), bad : {FALSE}]

\* All trades of g are among the first n of the run.
From(g, run, n) == \A i \in 1 .. Len(g) : \E j \in 1 .. n : g[i] = run[j]

\* All of g was traded before all of h.
Before(g, h) == \A i \in 1 .. Len(g), j \in 1 .. Len(h) : g[i].seq < h[j].seq

\* All trades have one expiry.
OneExpiry(g) == \A i, j \in 1 .. Len(g) : Expiry(g[i]) = Expiry(g[j])

\* What the properties of records ask of a group.
Reportable(g) ==
    /\ \A i, j \in 1 .. Len(g) : g[i] = g[j] => i = j
    /\ \A i \in 1 .. Len(g) : g[i].seq <= Last(g).seq
    /\ Cardinality(TokensOf(g)) = 3
    /\ OneExpiry(g)

\* The groups put out that will become records.
OutInv(out, run, n) ==
    /\ \A k \in 1 .. Len(out) :
           IsValidateConRev(out[k]) => From(out[k], run, n) /\ Reportable(out[k])
    /\ \A k, l \in 1 .. Len(out) :
           k < l /\ IsValidateConRev(out[k]) /\ IsValidateConRev(out[l]) => Before(out[k], out[l])

\* The details describe the collected group.
GrpInv(grp, d) ==
    /\ Increasing(grp)
    /\ d.tokens = TokensOf(grp)
    /\ d.qty = QtyByType(grp)
    /\ d.last # 0 => grp # <<>> /\ d.last = Type(Last(grp))
    /\ grp # <<>> => d.expiry # 0
    /\ \A i \in 1 .. Len(grp) : Expiry(grp[i]) = d.expiry

\* The invariant of the pass, after n trades of the run.
PassInv(s, run, n) ==
    /\ s \in Pass
    /\ From(s.grp, run, n)
    /\ GrpInv(s.grp, s.d)
    /\ OutInv(s.out, run, n)
    /\ \A k \in 1 .. Len(s.out) : IsValidateConRev(s.out[k]) => Before(s.out[k], s.grp)

\* The last member of a sequence.
LEMMA LastOfSeq ==
    ASSUME NEW A, NEW g \in Seq(A), g # <<>>
    PROVE  Last(g) \in A /\ Last(g) = g[Len(g)] /\ Len(g) \in 1 .. Len(g)
<1>1. Len(g) \in Nat \ {0} /\ g \in [1 .. Len(g) -> A]
    BY EmptySeq, LenProperties
<1> QED
    BY <1>1 DEF Last

\* Tokens are numbers.
LEMMA TokensType ==
    ASSUME NEW g \in Seq(Known)
    PROVE  TokensOf(g) \in SUBSET Nat
<1>1. \A i \in DOMAIN g : g[i] \in Known
    BY LenProperties
<1> QED
    BY <1>1, KnownTrade DEF TokensOf

\* The details computed anew describe the group.
LEMMA ExtraDetailsInv ==
    ASSUME NEW g \in Seq(Known), Increasing(g), OneExpiry(g)
    PROVE  ExtraDetails(g) \in Details /\ GrpInv(g, ExtraDetails(g))
<1> DEFINE d == ExtraDetails(g)
<1>1. /\ d = [tokens |-> d.tokens, qty |-> d.qty, seen |-> d.seen,
              strike |-> d.strike, expiry |-> d.expiry, last |-> d.last]
      /\ d.tokens = TokensOf(g) /\ d.qty = QtyByType(g) /\ d.seen = TypesOf(g)
      /\ d.strike = IF Options(g) = <<>> THEN 0 ELSE Strike(Last(Options(g)))
      /\ d.expiry = IF g = <<>> THEN 0 ELSE Expiry(Last(g))
      /\ d.last = IF g = <<>> THEN 0 ELSE Type(Last(g))
    BY DEF ExtraDetails
<1> HIDE DEF d
<1>2. d.tokens \in SUBSET Nat
    BY <1>1, TokensType
<1>3. d.qty \in [Types -> Int]
  <2>1. QtyByType(g) \in [Types -> Nat]
      BY QtyType
  <2> QED
      BY <1>1, <2>1
<1>4. d.seen \in SUBSET Types
  <2>1. \A i \in DOMAIN g : g[i] \in Known
      BY LenProperties
  <2> QED
      BY <1>1, <2>1, KnownTrade DEF TypesOf
<1>5. d.strike \in Nat
  <2>1. Options(g) \in Seq(Known)
      BY KeptSelects DEF Options
  <2>2. CASE Options(g) # <<>>
    <3>1. Last(Options(g)) \in Known
        BY <2>1, <2>2, LastOfSeq
    <3> QED
        BY <1>1, <2>2, <3>1, KnownTrade
  <2> QED
      BY <1>1, <2>2
<1>6. CASE g = <<>>
  <2>1. d.expiry = 0 /\ d.last = 0 /\ Len(g) = 0
      BY <1>1, <1>6
  <2>2. d \in Details
      BY <1>1, <1>2, <1>3, <1>4, <1>5, <2>1 DEF Details
  <2> QED
      BY <1>1, <1>6, <2>1, <2>2 DEF GrpInv, d
<1>7. CASE g # <<>>
  <2>1. Last(g) \in Known /\ Last(g) = g[Len(g)] /\ Len(g) \in 1 .. Len(g)
      BY <1>7, LastOfSeq
  <2>2. d.expiry = Expiry(Last(g)) /\ d.last = Type(Last(g))
      BY <1>1, <1>7
  <2>3. d.expiry \in Nat \ {0} /\ d.last \in Nat
    <3>1. Expiry(Last(g)) \in Nat \ {0} /\ Type(Last(g)) \in Types
        BY <2>1, KnownTrade
    <3>2. Types \subseteq Nat
        BY DEF Types, FUT, CALL, PUT
    <3> QED
        BY <3>1, <3>2, <2>2
  <2>4. d \in Details
      BY <1>1, <1>2, <1>3, <1>4, <1>5, <2>3 DEF Details
  <2>5. \A i \in 1 .. Len(g) : Expiry(g[i]) = d.expiry
      BY <2>1, <2>2 DEF OneExpiry
  <2> QED
      BY <1>1, <1>7, <2>2, <2>3, <2>4, <2>5 DEF GrpInv, d
<1> QED
    BY <1>6, <1>7

\* A part of the collected group, with the details it has.
LEMMA PassPart ==
    ASSUME NEW run, NEW n, NEW s, PassInv(s, run, n),
           NEW h \in Seq(Known), PartOf(h, s.grp), OneExpiry(h)
    PROVE  PassInv([s EXCEPT !.grp = h, !.d = ExtraDetails(h)], run, n)
<1> DEFINE t == [s EXCEPT !.grp = h, !.d = ExtraDetails(h)]
<1>1. /\ s \in Pass /\ From(s.grp, run, n) /\ Increasing(s.grp) /\ OutInv(s.out, run, n)
      /\ \A k \in 1 .. Len(s.out) : IsValidateConRev(s.out[k]) => Before(s.out[k], s.grp)
    BY DEF PassInv, GrpInv
<1>2. Increasing(h)
    BY <1>1, PartOfIncreasing
<1>3. ExtraDetails(h) \in Details /\ GrpInv(h, ExtraDetails(h))
    BY <1>2, ExtraDetailsInv
<1>4. t \in Pass /\ t.grp = h /\ t.d = ExtraDetails(h) /\ t.out = s.out
    BY <1>1, <1>3 DEF Pass
<1>5. \A i \in 1 .. Len(h) : \E j \in 1 .. Len(s.grp) : h[i] = s.grp[j]
    BY PartOfMembers
<1>6. From(h, run, n)
    BY <1>1, <1>5 DEF From
<1>7. ASSUME NEW k \in 1 .. Len(s.out), IsValidateConRev(s.out[k])
      PROVE  Before(s.out[k], h)
  <2>1. Before(s.out[k], s.grp)
      BY <1>1, <1>7
  <2> QED
      BY <2>1, <1>5 DEF Before
<1> HIDE DEF t
<1> QED
    BY <1>1, <1>3, <1>4, <1>6, <1>7 DEF PassInv, t

\* What is dropped by strike: a part of the options in front of the first future.
LEMMA TillStrikePart ==
    ASSUME NEW g \in Seq(Known), NEW strike
    PROVE  /\ DeletePacketTillStrikePrice(g, strike) \in Seq(Known)
           /\ PartOf(DeletePacketTillStrikePrice(g, strike), g)
<1> DEFINE F == {i \in DOMAIN g : Type(g[i]) = FUT} \cup {Len(g) + 1}
           n == Min(F) - 1
           S == {m \in ToSet(g) : Strike(m) = strike}
<1>1. Len(g) \in Nat /\ DOMAIN g = 1 .. Len(g)
    BY LenProperties
<1>2. n \in 0 .. Len(g)
  <2>1. F \subseteq 1 .. Len(g) + 1 /\ Len(g) + 1 \in F
      BY <1>1
  <2>2. F \subseteq Nat /\ F # {}
      BY <2>1, <1>1
  <2> HIDE DEF F
  <2>3. Min(F) \in F
      BY <2>2, LeastOf
  <2>4. Min(F) \in 1 .. Len(g) + 1
      BY <2>1, <2>3
  <2> QED
      BY <2>4, <1>1
<1>3. DeletePacketTillStrikePrice(g, strike) = Kept(SubSeq(g, 1, n), S) \o SubSeq(g, n + 1, Len(g))
    BY DEF DeletePacketTillStrikePrice
<1> HIDE DEF n, S
<1>4. SubSeq(g, 1, n) \in Seq(Known)
    BY <1>2, Prefix
<1>5. Kept(SubSeq(g, 1, n), S) \in Seq(Known) /\ PartOf(Kept(SubSeq(g, 1, n), S), SubSeq(g, 1, n))
    BY <1>4, KeptPart
<1> QED
    BY <1>2, <1>3, <1>5, PartAndRest

\* Whatever is dropped, all that stays collected has the expiry of the trade.
LEMMA DropOthersInv ==
    ASSUME NEW run, NEW n, NEW s, PassInv(s, run, n), NEW m \in Known
    PROVE  /\ PassInv(DropOthers(s, m), run, n)
           /\ \A i \in 1 .. Len(DropOthers(s, m).grp) : Expiry(DropOthers(s, m).grp[i]) = Expiry(m)
<1> DEFINE otherExpiry == s.d.expiry # 0 /\ s.d.expiry # Expiry(m)
           otherStrike == s.d.strike # 0 /\ s.d.strike # Strike(m) /\ Type(m) # FUT
           S == {x \in ToSet(s.grp) : Expiry(x) = Expiry(m)}
           byExpiry == Kept(s.grp, S)
           byStrike == DeletePacketTillStrikePrice(s.grp, Strike(m))
<1>1. s \in Pass /\ s.grp \in Seq(Known) /\ GrpInv(s.grp, s.d)
    BY DEF PassInv, Pass
<1>2. CASE otherExpiry
  <2>1. DropOthers(s, m) = [s EXCEPT !.grp = byExpiry, !.d = ExtraDetails(byExpiry)]
      BY <1>2 DEF DropOthers, DeletePacketTillExpiryDate
  <2>2. /\ byExpiry \in Seq(Known) /\ PartOf(byExpiry, s.grp)
        /\ \A k \in 1 .. Len(byExpiry) : byExpiry[k] \in S
      BY <1>1, KeptPart
  <2>3. \A k \in 1 .. Len(byExpiry) : Expiry(byExpiry[k]) = Expiry(m)
      BY <2>2
  <2> HIDE DEF byExpiry
  <2>4. OneExpiry(byExpiry)
      BY <2>3 DEF OneExpiry
  <2>5. DropOthers(s, m).grp = byExpiry
      BY <2>1, <1>1 DEF Pass
  <2>6. PassInv([s EXCEPT !.grp = byExpiry, !.d = ExtraDetails(byExpiry)], run, n)
      BY <2>2, <2>4, PassPart
  <2> QED
      BY <2>1, <2>3, <2>5, <2>6
<1>3. CASE ~ otherExpiry
  <2>1. \A i \in 1 .. Len(s.grp) : Expiry(s.grp[i]) = Expiry(m)
    <3>1. CASE s.grp = <<>>
        BY <3>1
    <3>2. CASE s.grp # <<>>
        BY <3>2, <1>1, <1>3 DEF GrpInv
    <3> QED
        BY <3>1, <3>2
  <2>2. CASE otherStrike
    <3>1. DropOthers(s, m) = [s EXCEPT !.grp = byStrike, !.d = ExtraDetails(byStrike)]
        BY <1>3, <2>2 DEF DropOthers
    <3>2. byStrike \in Seq(Known) /\ PartOf(byStrike, s.grp)
        BY <1>1, TillStrikePart
    <3> HIDE DEF byStrike
    <3>3. \A k \in 1 .. Len(byStrike) : Expiry(byStrike[k]) = Expiry(m)
      <4> TAKE k \in 1 .. Len(byStrike)
      <4>1. PICK i \in 1 .. Len(s.grp) : byStrike[k] = s.grp[i]
          BY <3>2, PartOfMembers
      <4> QED
          BY <4>1, <2>1
    <3>4. OneExpiry(byStrike)
        BY <3>3 DEF OneExpiry
    <3>5. DropOthers(s, m).grp = byStrike
        BY <3>1, <1>1 DEF Pass
    <3>6. PassInv([s EXCEPT !.grp = byStrike, !.d = ExtraDetails(byStrike)], run, n)
        BY <3>2, <3>4, PassPart
    <3> QED
        BY <3>1, <3>3, <3>5, <3>6
  <2>3. CASE ~ otherStrike
    <3>1. DropOthers(s, m) = s
        BY <1>3, <2>3 DEF DropOthers
    <3> QED
        BY <3>1, <2>1
  <2> QED
      BY <2>2, <2>3
<1> QED
    BY <1>2, <1>3

\* The leading trades of one type go, the last trade of another type and what
\* comes after it stay.
LEMMA SecondLevelPart ==
    ASSUME NEW g \in Seq(Known), NEW m \in Known, NEW y,
           g # <<>>, Type(Last(g)) # y
    PROVE  LET kept == SecondLevelOrderValidation(y, Append(g, m))
           IN  /\ kept \in Seq(Known) /\ PartOf(kept, Append(g, m))
               /\ kept # <<>> /\ Last(kept) = m
<1> DEFINE h == Append(g, m)
           N == Len(g) + 1
           O == {i \in DOMAIN h : Type(h[i]) # y} \cup {Len(h) + 1}
           lo == Min(O)
<1>1. /\ Len(g) \in Nat /\ h \in Seq(Known) /\ Len(h) = N /\ DOMAIN h = 1 .. N
      /\ h[N] = m /\ \A i \in 1 .. Len(g) : h[i] = g[i]
    BY AppendProperties, LenProperties
<1>2. Last(g) = g[Len(g)] /\ Len(g) \in 1 .. Len(g)
    BY LastOfSeq
<1> HIDE DEF h
<1>3. lo \in 1 .. N
  <2>1. Len(g) \in DOMAIN h
      BY <1>1, <1>2
  <2>2. Len(g) \in O
      BY <1>1, <1>2, <2>1
  <2>3. O \subseteq Nat
      BY <1>1
  <2>4. \A i \in O : i >= 1
      BY <1>1
  <2> HIDE DEF O
  <2>5. lo \in O /\ lo <= Len(g)
      BY <2>2, <2>3, LeastOf
  <2>6. lo \in Nat /\ lo >= 1
      BY <2>3, <2>4, <2>5
  <2> QED
      BY <2>5, <2>6, <1>1
<1>4. SecondLevelOrderValidation(y, h) = SubSeq(h, lo, Len(h))
  <2>1. Len(h) > 1
      BY <1>1, <1>2
  <2>2. ~ (Len(h) <= 1)
      BY <2>1, <1>1
  <2> QED
      BY <2>2 DEF SecondLevelOrderValidation
<1> HIDE DEF lo
<1> DEFINE kept == SubSeq(h, lo, Len(h))
<1>5. /\ kept \in Seq(Known) /\ Len(kept) = N - lo + 1 /\ PartOf(kept, h)
      /\ \A k \in 1 .. N - lo + 1 : kept[k] = h[lo + k - 1]
    BY <1>1, <1>3, SuffixPart
<1> HIDE DEF kept
<1>6. N - lo + 1 \in 1 .. N - lo + 1 /\ lo + (N - lo + 1) - 1 = N /\ N - lo + 1 # 0
    BY <1>1, <1>3
<1>7. kept # <<>>
    BY <1>5, <1>6
<1>8. Last(kept) = m
    BY <1>1, <1>5, <1>6 DEF Last
<1> QED
    BY <1>4, <1>5, <1>7, <1>8 DEF h, kept

\* No trades, no tokens.
LEMMA NoTokens == TokensOf(<<>>) = {}
BY DEF TokensOf

\* One trade more adds its token.
LEMMA OneMoreToken ==
    ASSUME NEW S, NEW g \in Seq(S), NEW m \in S
    PROVE  /\ Append(g, m) \in Seq(S)
           /\ TokensOf(Append(g, m)) = TokensOf(g) \cup {m.token}
<1> DEFINE n == Len(g)
           h == Append(g, m)
<1>1. /\ n \in Nat /\ DOMAIN g = 1 .. n
      /\ h \in Seq(S) /\ DOMAIN h = 1 .. n + 1
      /\ \A i \in 1 .. n : h[i] = g[i]
      /\ h[n + 1] = m
    BY AppendProperties, LenProperties
<1> HIDE DEF n, h
<1>2. 1 .. n + 1 = (1 .. n) \cup {n + 1}
    BY <1>1
<1>3. {h[i].token : i \in 1 .. n + 1} = {g[i].token : i \in 1 .. n} \cup {m.token}
    BY <1>1, <1>2
<1> QED
    BY <1>1, <1>3 DEF TokensOf, h

\* A group that ends with the trade looked at, before the trade is counted.
EndsWith(h, m, run, n) ==
    /\ h \in Seq(Known) /\ h # <<>> /\ Last(h) = m
    /\ Increasing(h) /\ From(h, run, n)
    /\ \A i \in 1 .. Len(h) : Expiry(h[i]) = Expiry(m)

\* What is put out is out for good.
OutBefore(out, h, run, n) ==
    /\ out \in Seq(Seq(Known))
    /\ OutInv(out, run, n)
    /\ \A k \in 1 .. Len(out) : IsValidateConRev(out[k]) => Before(out[k], h)

\* AddTrade brings the details in line with a group that ends with the new trade.
LEMMA AddTradeInv ==
    ASSUME NEW run, NEW n, NEW m \in Known, NEW s,
           s = [grp |-> s.grp, d |-> s.d, out |-> s.out, bad |-> s.bad], s.bad = FALSE,
           EndsWith(s.grp, m, run, n), OutBefore(s.out, s.grp, run, n),
           s.d \in Details, s.d.tokens = TokensOf(s.grp),
           [s.d.qty EXCEPT ![Type(m)] = @ + m.qty] = QtyByType(s.grp)
    PROVE  PassInv(AddTrade(s, m), run, n)
<1> DEFINE y == Type(m)
           u == AddTrade(s, m)
<1>1. /\ y \in Types /\ y \in Nat \ {0} /\ Expiry(m) \in Nat \ {0} /\ Strike(m) \in Nat
      /\ m.qty \in Nat
    BY KnownTrade DEF Types, FUT, CALL, PUT
<1>0. /\ s.grp \in Seq(Known) /\ s.out \in Seq(Seq(Known))
      /\ s \in Pass
  <2>1. s.grp \in Seq(Known) /\ s.out \in Seq(Seq(Known))
      BY DEF EndsWith, OutBefore
  <2>2. [grp |-> s.grp, d |-> s.d, out |-> s.out, bad |-> s.bad] \in Pass
      BY <2>1 DEF Pass
  <2> QED
      BY <2>1, <2>2
<1>2. /\ u.grp = s.grp /\ u.out = s.out /\ u.bad = FALSE
      /\ u = [grp |-> u.grp, d |-> u.d, out |-> u.out, bad |-> u.bad]
  <2> DEFINE e == [s.d EXCEPT !.seen = @ \cup {y}, !.expiry = Expiry(m),
                              !.strike = IF y = FUT THEN @ ELSE Strike(m),
                              !.last = y, !.qty[y] = @ + m.qty]
  <2>1. u = [s EXCEPT !.d = e]
      BY DEF AddTrade
  <2> HIDE DEF u, e
  <2>2. u = [grp |-> s.grp, d |-> e, out |-> s.out, bad |-> s.bad]
      BY <2>1, <1>0 DEF Pass
  <2>3. s.bad = FALSE
      BY <1>0 DEF Pass
  <2> QED
      BY <2>2, <2>3
<1>2a. /\ u.d.tokens = s.d.tokens /\ u.d.qty = [s.d.qty EXCEPT ![y] = @ + m.qty]
       /\ u.d.seen = s.d.seen \cup {y}
       /\ u.d.strike = IF y = FUT THEN s.d.strike ELSE Strike(m)
       /\ u.d.expiry = Expiry(m) /\ u.d.last = y
    BY <1>0 DEF AddTrade, Pass, Details
<1>2b. u.d = [tokens |-> u.d.tokens, qty |-> u.d.qty, seen |-> u.d.seen,
              strike |-> u.d.strike, expiry |-> u.d.expiry, last |-> u.d.last]
    BY <1>0 DEF AddTrade, Pass, Details
<1> HIDE DEF u, y
<1>3. u.d \in Details
  <2>1. QtyByType(s.grp) \in [Types -> Int]
    <3>1. QtyByType(s.grp) \in [Types -> Nat]
        BY QtyType DEF EndsWith
    <3> QED
        BY <3>1
  <2> QED
      BY <1>1, <1>2a, <1>2b, <2>1 DEF Details, y
<1>4. GrpInv(s.grp, u.d)
    BY <1>1, <1>2a DEF GrpInv, EndsWith, y
<1>5. u \in Pass
    BY <1>0, <1>2, <1>3 DEF Pass
<1>6. u.grp = s.grp /\ u.out = s.out
    BY <1>2
<1> QED
    BY <1>4, <1>5, <1>6 DEF PassInv, EndsWith, OutBefore, u

\* A part that still ends with the new trade will do as well as the whole.
LEMMA PartEndsWith ==
    ASSUME NEW run, NEW n, NEW m, NEW g, NEW out,
           EndsWith(g, m, run, n), OutBefore(out, g, run, n),
           NEW h \in Seq(Known), PartOf(h, g), h # <<>>, Last(h) = m
    PROVE  EndsWith(h, m, run, n) /\ OutBefore(out, h, run, n)
<1>1. \A i \in 1 .. Len(h) : \E j \in 1 .. Len(g) : h[i] = g[j]
    BY PartOfMembers
<1>2. Increasing(h)
    BY PartOfIncreasing DEF EndsWith
<1>3. From(h, run, n)
    BY <1>1 DEF EndsWith, From
<1>4. \A i \in 1 .. Len(h) : Expiry(h[i]) = Expiry(m)
    BY <1>1 DEF EndsWith
<1>5. \A k \in 1 .. Len(out) : IsValidateConRev(out[k]) => Before(out[k], h)
    BY <1>1 DEF OutBefore, Before
<1> QED
    BY <1>2, <1>3, <1>4, <1>5 DEF EndsWith, OutBefore

\* The trade is pushed to the group.
LEMMA Pushed ==
    ASSUME NEW run, NEW n \in Nat, NEW t, PassInv(t, run, n),
           NEW m \in Known, m = run[n + 1],
           \A j \in 1 .. n : run[j].seq < m.seq,
           \A i \in 1 .. Len(t.grp) : Expiry(t.grp[i]) = Expiry(m)
    PROVE  /\ EndsWith(Append(t.grp, m), m, run, n + 1)
           /\ OutBefore(t.out, Append(t.grp, m), run, n + 1)
           /\ TokensOf(Append(t.grp, m)) = t.d.tokens \cup {m.token}
           /\ QtyByType(Append(t.grp, m)) = [t.d.qty EXCEPT ![Type(m)] = @ + m.qty]
<1> DEFINE g == t.grp
           h == Append(g, m)
           N == Len(g)
<1>1. /\ g \in Seq(Known) /\ From(g, run, n) /\ Increasing(g) /\ OutInv(t.out, run, n)
      /\ t.out \in Seq(Seq(Known)) /\ t.d.tokens = TokensOf(g) /\ t.d.qty = QtyByType(g)
      /\ \A k \in 1 .. Len(t.out) : IsValidateConRev(t.out[k]) => Before(t.out[k], g)
    BY DEF PassInv, Pass, GrpInv
<1>2. /\ N \in Nat /\ h \in Seq(Known) /\ Len(h) = N + 1 /\ Len(g) = N
      /\ h[N + 1] = m /\ \A i \in 1 .. N : h[i] = g[i]
    BY <1>1, AppendProperties, LenProperties
<1>3. TokensOf(h) = t.d.tokens \cup {m.token}
    BY <1>1, OneMoreToken
<1>4. QtyByType(h) = [t.d.qty EXCEPT ![Type(m)] = @ + m.qty]
    BY <1>1, QtyOneMore
<1>5. \A i \in 1 .. N : Expiry(g[i]) = Expiry(m)
    OBVIOUS
<1> HIDE DEF g, h, N
<1>6. \A i \in 1 .. N + 1 : i = N + 1 \/ i \in 1 .. N
    BY <1>2
<1>7. 1 .. n \subseteq 1 .. n + 1 /\ n + 1 \in 1 .. n + 1
    OBVIOUS
<1>8. \A i \in 1 .. N : \E j \in 1 .. n : g[i] = run[j]
    BY <1>1, <1>2 DEF From
<1>9. From(h, run, n + 1)
  <2>1. \A i \in 1 .. N + 1 : \E j \in 1 .. n + 1 : h[i] = run[j]
      BY <1>2, <1>6, <1>7, <1>8
  <2> QED
      BY <2>1, <1>2 DEF From
<1>10. Increasing(h)
  <2> SUFFICES ASSUME NEW i \in 1 .. N + 1, NEW j \in 1 .. N + 1, i < j
               PROVE  h[i].seq < h[j].seq
      BY <1>2 DEF Increasing
  <2>1. i \in 1 .. N
      BY <1>2
  <2>2. CASE j = N + 1
      BY <1>2, <1>8, <2>1, <2>2
  <2>3. CASE j \in 1 .. N
      BY <1>1, <1>2, <2>1, <2>3 DEF Increasing
  <2> QED
      BY <1>6, <2>2, <2>3
<1>11. EndsWith(h, m, run, n + 1)
  <2>1. h # <<>> /\ Last(h) = m
      BY <1>2 DEF Last
  <2>2. \A i \in 1 .. Len(h) : Expiry(h[i]) = Expiry(m)
      BY <1>2, <1>5, <1>6
  <2> QED
      BY <1>2, <1>9, <1>10, <2>1, <2>2 DEF EndsWith
<1>12. OutInv(t.out, run, n + 1)
  <2>1. ASSUME NEW k \in 1 .. Len(t.out), IsValidateConRev(t.out[k])
        PROVE  From(t.out[k], run, n + 1)
    <3>1. From(t.out[k], run, n)
        BY <1>1, <2>1 DEF OutInv
    <3> QED
        BY <3>1, <1>7 DEF From
  <2> QED
      BY <1>1, <2>1 DEF OutInv
<1>13. ASSUME NEW k \in 1 .. Len(t.out), IsValidateConRev(t.out[k])
       PROVE  Before(t.out[k], h)
  <2>1. Before(t.out[k], g) /\ From(t.out[k], run, n)
      BY <1>1, <1>13 DEF OutInv
  <2> SUFFICES ASSUME NEW i \in 1 .. Len(t.out[k]), NEW j \in 1 .. N + 1
               PROVE  t.out[k][i].seq < h[j].seq
      BY <1>2 DEF Before
  <2>2. CASE j = N + 1
      BY <1>2, <2>1, <2>2 DEF From
  <2>3. CASE j \in 1 .. N
      BY <1>2, <2>1, <2>3 DEF Before
  <2> QED
      BY <1>6, <2>2, <2>3
<1> QED
    BY <1>1, <1>3, <1>4, <1>11, <1>12, <1>13 DEF OutBefore, g, h

\* A balanced group to which one trade is added is not balanced.
LEMMA OneTooMany ==
    ASSUME NEW g \in Seq(Known), NEW m \in Known, Balanced(QtyByType(g))
    PROVE  ~ IsValidateConRev(Append(g, m))
<1>1. /\ QtyByType(g) \in [Types -> Nat]
      /\ QtyByType(Append(g, m)) = [QtyByType(g) EXCEPT ![Type(m)] = @ + m.qty]
      /\ Type(m) \in Types /\ m.qty \in Nat \ {0}
    BY QtyType, QtyOneMore, KnownTrade
<1> DEFINE q == QtyByType(g)
<1> HIDE DEF q
<1>2. ~ Balanced([q EXCEPT ![Type(m)] = @ + m.qty])
    BY <1>1 DEF Balanced, Types, FUT, CALL, PUT, q
<1> QED
    BY <1>1, <1>2 DEF IsValidateConRev, q

\* The trade is pushed and counted, whether or not its leg was there before.
\* SecondLevelOrderValidation is only called where a trade of another leg is in
\* front of the one just pushed, and so never empties the group.
LEMMA LegAddedInv ==
    ASSUME NEW run, NEW n \in Nat, NEW t, PassInv(t, run, n),
           NEW m \in Known, m = run[n + 1],
           \A j \in 1 .. n : run[j].seq < m.seq,
           \A i \in 1 .. Len(t.grp) : Expiry(t.grp[i]) = Expiry(m),
           NEW p, p.grp = Append(t.grp, m), p.out = t.out, p.bad = FALSE,
           p.d = [t.d EXCEPT !.tokens = @ \cup {m.token}],
           p = [grp |-> p.grp, d |-> p.d, out |-> p.out, bad |-> p.bad]
    PROVE  PassInv(AddTrade(LegAgain(p, m), m), run, n + 1)
<1> DEFINE y == Type(m)
           g == t.grp
           h == Append(g, m)
           d == [t.d EXCEPT !.tokens = @ \cup {m.token}]
<1>1. /\ t \in Pass /\ g \in Seq(Known) /\ t.d \in Details /\ GrpInv(g, t.d)
    BY DEF PassInv, Pass
<1>2a. p.grp = h /\ p.d = d /\ p.out = t.out /\ p.bad = FALSE
    OBVIOUS
<1>2. p = [grp |-> h, d |-> d, out |-> t.out, bad |-> p.bad]
    OBVIOUS
<1>2b. p = [grp |-> p.grp, d |-> p.d, out |-> p.out, bad |-> p.bad]
    OBVIOUS
<1>3. /\ d.tokens = t.d.tokens \cup {m.token} /\ d.qty = t.d.qty /\ d.last = t.d.last
      /\ d \in Details
  <2>1. m.token \in Nat
      BY KnownTrade
  <2> QED
      BY <1>1, <2>1 DEF Details
<1>4. /\ EndsWith(h, m, run, n + 1)
      /\ OutBefore(t.out, h, run, n + 1)
      /\ d.tokens = TokensOf(h)
      /\ QtyByType(h) = [d.qty EXCEPT ![y] = @ + m.qty]
    BY <1>3, Pushed
<1> HIDE DEF h, d
<1> DEFINE kept == SecondLevelOrderValidation(y, h)
           again == ~ (d.last \in {0, y} \/ y \notin d.seen \/ d.seen = {y})
           full == Balanced(d.qty) /\ Cardinality(d.tokens) = 3
<1>5. CASE ~ again
  <2>1. LegAgain(p, m) = p
      BY <1>2a, <1>5 DEF LegAgain
  <2>2. PassInv(AddTrade(p, m), run, n + 1)
      BY <1>2, <1>2a, <1>3, <1>4, AddTradeInv
  <2> QED
      BY <2>1, <2>2
<1>6. CASE again /\ full
  <2> DEFINE out == Append(t.out, h)
             s == [grp |-> p.grp, d |-> p.d, out |-> out, bad |-> p.bad]
  <2>1. LegAgain(p, m) = s
    <3>1. LegAgain(p, m) = [p EXCEPT !.out = Append(@, p.grp)]
        BY <1>2a, <1>6 DEF LegAgain
    <3>2. [p EXCEPT !.out = Append(@, p.grp)] = [p EXCEPT !.out = out]
        BY <1>2a
    <3> HIDE DEF out
    <3>3. [p EXCEPT !.out = out] = s
        BY ONLY <1>2b
    <3> QED
        BY <3>1, <3>2, <3>3
  <2>2. /\ t.out \in Seq(Seq(Known)) /\ h \in Seq(Known) /\ Len(t.out) \in Nat
        /\ out \in Seq(Seq(Known)) /\ Len(out) = Len(t.out) + 1
        /\ out[Len(t.out) + 1] = h /\ \A k \in 1 .. Len(t.out) : out[k] = t.out[k]
      BY <1>4, AppendProperties, LenProperties DEF OutBefore, EndsWith
  <2>3. ~ IsValidateConRev(h)
    <3>1. d.qty = QtyByType(g)
        BY <1>1, <1>3 DEF GrpInv
    <3> QED
        BY <1>1, <1>6, <3>1, OneTooMany DEF h
  <2> HIDE DEF out
  <2>4. \A k \in 1 .. Len(out) : IsValidateConRev(out[k]) => k \in 1 .. Len(t.out) /\ out[k] = t.out[k]
    <3> TAKE k \in 1 .. Len(out)
    <3>1. k = Len(t.out) + 1 \/ k \in 1 .. Len(t.out)
        BY <2>2
    <3> QED
        BY <2>2, <2>3, <3>1
  <2>5. OutBefore(out, h, run, n + 1)
      BY <1>4, <2>2, <2>4 DEF OutBefore, OutInv
  <2>6. s.grp = h /\ s.d = d /\ s.out = out /\ s.bad = FALSE
      BY <1>2a
  <2>7. s = [grp |-> s.grp, d |-> s.d, out |-> s.out, bad |-> s.bad]
      OBVIOUS
  <2> HIDE DEF s
  <2> QED
      BY <2>1, <2>5, <2>6, <2>7, <1>3, <1>4, AddTradeInv
<1>7. CASE again /\ ~ full
  <2>1. g # <<>> /\ Type(Last(g)) # y
      BY <1>1, <1>3, <1>7 DEF GrpInv
  <2>2. /\ kept \in Seq(Known) /\ PartOf(kept, h) /\ kept # <<>> /\ Last(kept) = m
      BY <1>1, <2>1, SecondLevelPart DEF h
  <2> HIDE DEF kept
  <2> DEFINE e == [ExtraDetails(kept) EXCEPT !.qty[y] = @ - m.qty]
             s == [grp |-> kept, d |-> e, out |-> t.out, bad |-> p.bad]
  <2>3. LegAgain(p, m) = s
    <3> DEFINE bad == p.bad \/ kept = <<>>
    <3>1. LegAgain(p, m) = [p EXCEPT !.grp = kept, !.d = e, !.bad = bad]
        BY <1>2a, <1>7 DEF LegAgain, kept
    <3>2. bad = p.bad
        BY <1>2a, <2>2
    <3> HIDE DEF e, bad
    <3>3. [p EXCEPT !.grp = kept, !.d = e, !.bad = bad] =
              [grp |-> kept, d |-> e, out |-> p.out, bad |-> bad]
      <4> DEFINE q1 == [p EXCEPT !.grp = kept]
                 q2 == [q1 EXCEPT !.d = e]
                 q3 == [q2 EXCEPT !.bad = bad]
      <4>1. [p EXCEPT !.grp = kept, !.d = e, !.bad = bad] = q3
          OBVIOUS
      <4>2. q1 = [grp |-> kept, d |-> p.d, out |-> p.out, bad |-> p.bad]
          BY ONLY <1>2b
      <4> HIDE DEF q1
      <4>3. q2 = [grp |-> kept, d |-> e, out |-> p.out, bad |-> p.bad]
          BY ONLY <4>2
      <4> HIDE DEF q2
      <4>4. q3 = [grp |-> kept, d |-> e, out |-> p.out, bad |-> bad]
          BY ONLY <4>3
      <4> QED
          BY <4>1, <4>4
    <3> QED
        BY <3>1, <3>2, <3>3, <1>2a
  <2>4. EndsWith(kept, m, run, n + 1) /\ OutBefore(t.out, kept, run, n + 1)
      BY <1>4, <2>2, PartEndsWith
  <2>5. OneExpiry(kept) /\ Increasing(kept)
      BY <2>4 DEF EndsWith, OneExpiry
  <2>6. /\ ExtraDetails(kept) \in Details
        /\ ExtraDetails(kept).tokens = TokensOf(kept)
        /\ ExtraDetails(kept).qty = QtyByType(kept)
      BY <2>2, <2>5, ExtraDetailsInv DEF GrpInv
  <2>7. /\ e \in Details /\ e.tokens = TokensOf(kept)
        /\ [e.qty EXCEPT ![y] = @ + m.qty] = QtyByType(kept)
    <3>1. y \in Types /\ m.qty \in Int
        BY KnownTrade
    <3> DEFINE x == ExtraDetails(kept)
               q == QtyByType(kept)
    <3>2. x \in Details /\ x.tokens = TokensOf(kept) /\ x.qty = q
        BY <2>6
    <3>3. q \in [Types -> Int]
        BY <2>6 DEF Details
    <3> HIDE DEF x, q
    <3>4. e = [x EXCEPT !.qty[y] = @ - m.qty]
        BY DEF x
    <3>5. e.tokens = TokensOf(kept) /\ e.qty = [q EXCEPT ![y] = q[y] - m.qty]
        BY <3>2, <3>4 DEF Details
    <3>6. e \in Details
      <4>1. [q EXCEPT ![y] = q[y] - m.qty] \in [Types -> Int]
          BY <3>1, <3>3
      <4>2. e = [x EXCEPT !.qty = [q EXCEPT ![y] = q[y] - m.qty]]
          BY <3>2, <3>4 DEF Details
      <4> HIDE DEF e
      <4> QED
          BY <4>1, <4>2, <3>2 DEF Details
    <3> HIDE DEF e
    <3>7. [e.qty EXCEPT ![y] = @ + m.qty] = q
      <4>1. [[q EXCEPT ![y] = q[y] - m.qty] EXCEPT ![y] = @ + m.qty] = q
        <5>1. q[y] \in Int /\ (q[y] - m.qty) + m.qty = q[y]
            BY <3>1, <3>3
        <5> HIDE DEF y
        <5> QED
            BY ONLY <5>1, <3>1, <3>3
      <4> QED
          BY <3>5, <4>1
    <3> QED
        BY <3>5, <3>6, <3>7 DEF q
  <2> HIDE DEF e
  <2>8. s.grp = kept /\ s.d = e /\ s.out = t.out /\ s.bad = FALSE
      OBVIOUS
  <2>9. s = [grp |-> s.grp, d |-> s.d, out |-> s.out, bad |-> s.bad]
      OBVIOUS
  <2> HIDE DEF s
  <2> QED
      BY <2>3, <2>4, <2>7, <2>8, <2>9, AddTradeInv
<1> QED
    BY <1>5, <1>6, <1>7

----------------------------------------------------------------------------
(* Groups that are put out *)

\* The group around a complete middle leg consists of distinct trades of the
\* group it is cut from, and ends with the last of them.
LEMMA MiddleGroupTrades ==
    ASSUME NEW g \in Seq(Known), MiddleGroup(g) # <<>>,
           \A y \in Types : \E i \in 1 .. Len(g) : Type(g[i]) = y
    PROVE  /\ MiddleGroup(g) \in Seq(Known)
           /\ \E q \in [1 .. Len(MiddleGroup(g)) -> 1 .. Len(g)] :
                 /\ \A k \in 1 .. Len(MiddleGroup(g)) :
                       MiddleGroup(g)[k] = g[q[k]] /\ q[k] <= q[Len(MiddleGroup(g))]
                 /\ \A k, l \in 1 .. Len(MiddleGroup(g)) : q[k] = q[l] => k = l
<1> DEFINE N == Len(g)
           F2 == {i \in DOMAIN g : Type(g[i]) # Type(g[1])}
           second == Min(F2)
           F3 == {i \in DOMAIN g : Type(g[i]) \notin {Type(g[1]), Type(g[second])}}
           third == Min(F3)
           q == QtySum(OfType(SubSeq(g, 1, third - 1), Type(g[third - 1])))
           from == {p \in 1 .. second - 1 : QtySum(SubSeq(g, p, second - 1)) = q}
           to == {r \in third .. Len(g) : QtySum(SubSeq(g, third, r)) = q}
           lo == Max(from)
           hi == Min(to)
           rev == Reverse(SubSeq(g, lo, second - 1))
           fwd == SubSeq(g, second, hi)
           M == MiddleGroup(g)
<1>1. N \in Nat /\ DOMAIN g = 1 .. N /\ g \in [1 .. N -> Known]
    BY LenProperties
<1>2. from # {} /\ to # {} /\ M = rev \o fwd
    BY DEF MiddleGroup
<1> HIDE DEF q, M
<1>3. second \in 2 .. N
  <2>1. F2 \subseteq 1 .. N /\ 1 \notin F2
      BY <1>1
  <2>2. F2 # {}
    <3>1. PICK i \in 1 .. N : Type(g[i]) = FUT
        BY DEF Types
    <3>2. PICK j \in 1 .. N : Type(g[j]) = CALL
        BY DEF Types
    <3> QED
        BY <3>1, <3>2, <1>1 DEF FUT, CALL
  <2> HIDE DEF F2
  <2>3. F2 \subseteq Nat
      BY <2>1, <1>1
  <2>4. Min(F2) \in F2
      BY <2>2, <2>3, LeastOf
  <2>5. second \in 1 .. N /\ second # 1
      BY <2>1, <2>4
  <2>6. N \in Nat
      BY <1>1
  <2> HIDE DEF second, N
  <2> QED
      BY <2>5, <2>6
<1>4. \A i \in 1 .. N : Type(g[i]) # Type(g[1]) => second <= i
  <2>1. F2 \subseteq Nat
      BY <1>1
  <2>2. \A i \in 1 .. N : Type(g[i]) # Type(g[1]) => i \in F2
      BY <1>1
  <2> HIDE DEF F2
  <2>3. \A i \in F2 : second <= i
      BY <2>1, LeastOf
  <2> QED
      BY <2>2, <2>3
<1> HIDE DEF second
<1>5. third \in second + 1 .. N
  <2>1. \A i \in F3 : i \in 1 .. N /\ second <= i /\ i # second
      BY <1>1, <1>4
  <2>2. F3 # {}
    <3>1. PICK i \in 1 .. N : Type(g[i]) = FUT
        BY DEF Types
    <3>2. PICK j \in 1 .. N : Type(g[j]) = CALL
        BY DEF Types
    <3>3. PICK k \in 1 .. N : Type(g[k]) = PUT
        BY DEF Types
    <3> QED
        BY <3>1, <3>2, <3>3, <1>1 DEF FUT, CALL, PUT
  <2> HIDE DEF F3
  <2>3. F3 \subseteq Nat
      BY <2>1, <1>1
  <2>4. Min(F3) \in F3
      BY <2>2, <2>3, LeastOf
  <2>5. third \in 1 .. N /\ second <= third /\ third # second
      BY <2>1, <2>4
  <2> QED
      BY <2>5, <1>1, <1>3
<1> HIDE DEF third
<1>6. lo \in 1 .. second - 1
  <2>1. from \subseteq 1 .. second - 1
      OBVIOUS
  <2>2. from \subseteq Nat /\ second \in Nat /\ \A x \in from : x <= second
      BY <2>1, <1>3
  <2> HIDE DEF from
  <2>3. lo \in from
      BY <1>2, <2>2, GreatestOf
  <2> QED
      BY <2>1, <2>3
<1>7. hi \in third .. N
  <2>1. to \subseteq third .. N
      OBVIOUS
  <2>2. to \subseteq Nat
      BY <2>1, <1>1, <1>3, <1>5
  <2> HIDE DEF to
  <2>3. hi \in to
      BY <1>2, <2>2, LeastOf
  <2> QED
      BY <2>1, <2>3
<1> HIDE DEF from, to, lo, hi, N
<1> DEFINE A == second - lo
           B == hi - second + 1
<1>8. /\ lo \in Nat \ {0} /\ second \in Nat /\ hi \in Nat /\ N \in Nat
      /\ lo < second /\ second < hi /\ hi <= N /\ A \in Nat /\ B \in Nat
    BY <1>1, <1>3, <1>5, <1>6, <1>7
<1>9. \A i \in lo .. hi : i \in 1 .. N /\ g[i] \in Known
  <2>1. \A i \in lo .. hi : i \in 1 .. N
      BY <1>8
  <2> QED
      BY <2>1, <1>1
<1>10. rev \in Seq(Known) /\ Len(rev) = A /\ \A k \in 1 .. A : rev[k] = g[second - k]
  <2> DEFINE s == SubSeq(g, lo, second - 1)
  <2>1. \A i \in lo .. second - 1 : g[i] \in Known
      BY <1>8, <1>9
  <2>2. /\ s \in Seq(Known) /\ Len(s) = IF lo <= second - 1 THEN second - 1 - lo + 1 ELSE 0
        /\ \A i \in 1 .. second - 1 - lo + 1 : s[i] = g[lo + i - 1]
      BY <1>8, <2>1, SubSeqProperties
  <2>3. second - 1 - lo + 1 = A /\ lo <= second - 1
      BY <1>8
  <2>4. s \in Seq(Known) /\ Len(s) = A /\ \A i \in 1 .. A : s[i] = g[lo + i - 1]
      BY <2>2, <2>3
  <2> HIDE DEF s
  <2>5. rev = [i \in 1 .. A |-> s[A - i + 1]]
      BY <2>4 DEF Reverse, s
  <2> HIDE DEF rev
  <2>6. ASSUME NEW k \in 1 .. A PROVE A - k + 1 \in 1 .. A /\ lo + (A - k + 1) - 1 = second - k
      BY <1>8
  <2>7. \A k \in 1 .. A : rev[k] = g[second - k] /\ rev[k] \in Known
    <3> TAKE k \in 1 .. A
    <3>1. rev[k] = s[A - k + 1] /\ A - k + 1 \in 1 .. A
        BY <2>5, <2>6
    <3>2. s[A - k + 1] = g[second - k]
        BY <2>4, <2>6, <3>1
    <3>3. s[A - k + 1] \in Known
        BY <2>4, <3>1, LenProperties
    <3> QED
        BY <3>1, <3>2, <3>3
  <2> HIDE DEF A
  <2>8. rev \in [1 .. A -> Known]
      BY <2>5, <2>7
  <2>9. rev \in Seq(Known) /\ Len(rev) = A
      BY <2>8, <1>8
  <2> QED
      BY <2>7, <2>9
<1>11. fwd \in Seq(Known) /\ Len(fwd) = B /\ \A k \in 1 .. B : fwd[k] = g[second + k - 1]
  <2>1. \A i \in second .. hi : g[i] \in Known
      BY <1>8, <1>9
  <2>2. /\ fwd \in Seq(Known) /\ Len(fwd) = IF second <= hi THEN hi - second + 1 ELSE 0
        /\ \A i \in 1 .. hi - second + 1 : fwd[i] = g[second + i - 1]
      BY <1>8, <2>1, SubSeqProperties
  <2> QED
      BY <2>2, <1>8
<1> HIDE DEF rev, fwd
<1>12. /\ M \in Seq(Known) /\ Len(M) = A + B
       /\ \A k \in 1 .. A + B : M[k] = IF k <= A THEN rev[k] ELSE fwd[k - A]
  <2>1. /\ M \in Seq(Known) /\ Len(M) = Len(rev) + Len(fwd)
        /\ \A k \in 1 .. Len(rev) + Len(fwd) : M[k] = IF k <= Len(rev) THEN rev[k] ELSE fwd[k - Len(rev)]
      BY <1>2, <1>10, <1>11, ConcatProperties
  <2> QED
      BY <2>1, <1>10, <1>11
<1> DEFINE idx == [k \in 1 .. A + B |-> IF k <= A THEN second - k ELSE lo + k - 1]
<1>13. ASSUME NEW k \in 1 .. A + B
       PROVE  /\ idx[k] \in 1 .. N /\ idx[k] <= hi
              /\ M[k] = g[idx[k]]
              /\ k <= A => idx[k] = second - k
              /\ ~ (k <= A) => idx[k] = lo + k - 1
  <2>1. CASE k <= A
    <3>1. idx[k] = second - k /\ k \in 1 .. A /\ M[k] = rev[k]
        BY <2>1, <1>8, <1>12
    <3>2. M[k] = g[second - k]
        BY <3>1, <1>10
    <3>3. second - k \in 1 .. N /\ second - k <= hi
        BY <2>1, <1>8
    <3> QED
        BY <2>1, <3>1, <3>2, <3>3
  <2>2. CASE ~ (k <= A)
    <3>5. k \in 1 .. A + B /\ idx[k] = lo + k - 1
        BY <2>2
    <3>6. k - A \in 1 .. B
        BY <2>2, <3>5, <1>8
    <3>1. idx[k] = lo + k - 1 /\ k - A \in 1 .. B /\ M[k] = fwd[k - A]
        BY <2>2, <3>5, <3>6, <1>12
    <3>2. second + (k - A) - 1 = lo + k - 1
        BY <1>8
    <3>3. M[k] = g[lo + k - 1]
        BY <3>1, <3>2, <1>11
    <3>4. lo + k - 1 \in 1 .. N /\ lo + k - 1 <= hi
        BY <2>2, <1>8
    <3> QED
        BY <2>2, <3>1, <3>3, <3>4
  <2> QED
      BY <2>1, <2>2
<1>14. A + B \in 1 .. A + B /\ idx[A + B] = hi
  <2>1. ~ (A + B <= A) /\ A + B \in 1 .. A + B /\ lo + (A + B) - 1 = hi
      BY <1>8
  <2> QED
      BY <2>1
<1>15. idx \in [1 .. A + B -> 1 .. N]
  <2>1. idx = [k \in 1 .. A + B |-> idx[k]]
      OBVIOUS
  <2> HIDE DEF idx, A, B
  <2> QED
      BY <2>1, <1>13
<1>16. ASSUME NEW k \in 1 .. A + B, NEW l \in 1 .. A + B, idx[k] = idx[l]
       PROVE  k = l
  <2> HIDE DEF idx
  <2>1. CASE k <= A /\ l <= A
    <3>1. idx[k] = second - k /\ idx[l] = second - l
        BY <2>1, <1>13
    <3> QED
        BY <3>1, <1>8, <1>16
  <2>2. CASE ~ (k <= A) /\ ~ (l <= A)
    <3>1. idx[k] = lo + k - 1 /\ idx[l] = lo + l - 1
        BY <2>2, <1>13
    <3> QED
        BY <3>1, <1>8, <1>16
  <2>3. CASE k <= A /\ ~ (l <= A)
    <3>1. idx[k] = second - k /\ idx[l] = lo + l - 1
        BY <2>3, <1>13
    <3> QED
        BY <2>3, <3>1, <1>8, <1>16
  <2>4. CASE ~ (k <= A) /\ l <= A
    <3>1. idx[l] = second - l /\ idx[k] = lo + k - 1
        BY <2>4, <1>13
    <3> QED
        BY <2>4, <3>1, <1>8, <1>16
  <2> QED
      BY <2>1, <2>2, <2>3, <2>4
<1> HIDE DEF idx, A, B
<1>17. \A k \in 1 .. A + B : M[k] = g[idx[k]] /\ idx[k] <= idx[A + B]
    BY <1>13, <1>14
<1>18. \A k, l \in 1 .. A + B : idx[k] = idx[l] => k = l
    BY <1>16
<1> QED
    BY <1>12, <1>15, <1>17, <1>18 DEF M, N

\* A run has finitely many tokens.
LEMMA TokensFinite ==
    ASSUME NEW A, NEW g \in Seq(A)
    PROVE  IsFiniteSet(TokensOf(g))
<1> DEFINE f == [i \in 1 .. Len(g) |-> g[i].token]
<1>1. Len(g) \in Nat /\ DOMAIN g = 1 .. Len(g)
    BY LenProperties
<1>2. f \in Surjection(1 .. Len(g), TokensOf(g))
    BY <1>1 DEF TokensOf, Surjection
<1>3. IsFiniteSet(1 .. Len(g))
    BY <1>1, FS_Interval
<1> QED
    BY <1>2, <1>3, FS_Surjection

\* Three different values are three.
LEMMA ThreeIsThree ==
    ASSUME NEW a, NEW b, NEW c, a # b, b # c, a # c
    PROVE  IsFiniteSet({a, b, c}) /\ Cardinality({a, b, c}) = 3
<1>1. IsFiniteSet({a}) /\ Cardinality({a}) = 1
    BY FS_Singleton
<1>2. IsFiniteSet({a} \cup {b}) /\ Cardinality({a} \cup {b}) = 2
    BY <1>1, FS_AddElement
<1>3. IsFiniteSet(({a} \cup {b}) \cup {c}) /\ Cardinality(({a} \cup {b}) \cup {c}) = 3
    BY <1>2, FS_AddElement
<1>4. ({a} \cup {b}) \cup {c} = {a, b, c}
    OBVIOUS
<1> QED
    BY <1>3, <1>4

\* Trades of all three types, of at most three instruments, are of three.
LEMMA ThreeTokens ==
    ASSUME NEW g \in Seq(Known), NEW T, IsFiniteSet(T), Cardinality(T) = 3,
           TokensOf(g) \subseteq T, TypesOf(g) = Types
    PROVE  TokensOf(g) = T
<1>1. DOMAIN g = 1 .. Len(g)
    BY LenProperties
<1>2. /\ \E i \in DOMAIN g : Type(g[i]) = FUT
      /\ \E i \in DOMAIN g : Type(g[i]) = CALL
      /\ \E i \in DOMAIN g : Type(g[i]) = PUT
    BY DEF TypesOf, Types
<1>3. PICK i \in DOMAIN g, j \in DOMAIN g, k \in DOMAIN g :
          Type(g[i]) = FUT /\ Type(g[j]) = CALL /\ Type(g[k]) = PUT
    BY <1>2
<1> DEFINE a == g[i].token
           b == g[j].token
           c == g[k].token
<1>4. a # b /\ b # c /\ a # c
    BY <1>3 DEF Type, FUT, CALL, PUT
<1>5. {a, b, c} \subseteq TokensOf(g)
    BY DEF TokensOf
<1> HIDE DEF a, b, c
<1>6. IsFiniteSet({a, b, c}) /\ Cardinality({a, b, c}) = 3
    BY <1>4, ThreeIsThree
<1>7. {a, b, c} \in SUBSET T
    BY <1>5
<1>8. {a, b, c} = T
    BY <1>6, <1>7, FS_Subset
<1> QED
    BY <1>5, <1>8

\* A collected group of three instruments can be reported.
LEMMA CompleteReportable ==
    ASSUME NEW g \in Seq(Known), NEW d, GrpInv(g, d), Cardinality(d.tokens) = 3
    PROVE  Reportable(g)
<1>1. /\ Increasing(g) /\ d.tokens = TokensOf(g)
      /\ \A i \in 1 .. Len(g) : Expiry(g[i]) = d.expiry
    BY DEF GrpInv
<1>2. /\ Len(g) \in Nat
      /\ \A i \in 1 .. Len(g) : g[i].seq \in Nat
  <2>1. \A i \in 1 .. Len(g) : g[i] \in Known
      BY LenProperties
  <2> QED
      BY <2>1, LenProperties, KnownTrade
<1>3. ASSUME NEW i \in 1 .. Len(g), NEW j \in 1 .. Len(g), g[i] = g[j]
      PROVE  i = j
  <2>1. ~ (i < j)
      BY <1>1, <1>2, <1>3 DEF Increasing
  <2>2. ~ (j < i)
      BY <1>1, <1>2, <1>3 DEF Increasing
  <2> QED
      BY <2>1, <2>2
<1>4. ASSUME NEW i \in 1 .. Len(g)
      PROVE  g[i].seq <= Last(g).seq
  <2>1. Len(g) \in 1 .. Len(g) /\ (i = Len(g) \/ i < Len(g))
      BY <1>2
  <2> QED
      BY <1>1, <1>2, <2>1 DEF Increasing, Last
<1>5. OneExpiry(g)
    BY <1>1 DEF OneExpiry
<1> QED
    BY <1>1, <1>3, <1>4, <1>5 DEF Reportable

\* So can the middle group, if IsValidateConRev lets it pass.
LEMMA MiddleReportable ==
    ASSUME NEW g \in Seq(Known), NEW d, GrpInv(g, d), Cardinality(d.tokens) = 3,
           \A y \in Types : d.qty[y] # 0, MiddleGroup(g) # <<>>,
           IsValidateConRev(MiddleGroup(g))
    PROVE  Reportable(MiddleGroup(g))
<1> DEFINE M == MiddleGroup(g)
<1>1. /\ Increasing(g) /\ d.tokens = TokensOf(g) /\ d.qty = QtyByType(g)
      /\ \A i \in 1 .. Len(g) : Expiry(g[i]) = d.expiry
    BY DEF GrpInv
<1>2. \A y \in Types : \E i \in 1 .. Len(g) : Type(g[i]) = y
    BY <1>1, QtyTraded
<1>3. /\ M \in Seq(Known)
      /\ \E q \in [1 .. Len(M) -> 1 .. Len(g)] :
            /\ \A k \in 1 .. Len(M) : M[k] = g[q[k]] /\ q[k] <= q[Len(M)]
            /\ \A k, l \in 1 .. Len(M) : q[k] = q[l] => k = l
    BY <1>2, MiddleGroupTrades
<1>4. TypesOf(M) = Types
    BY DEF IsValidateConRev
<1> HIDE DEF M
<1>5. PICK q \in [1 .. Len(M) -> 1 .. Len(g)] :
            /\ \A k \in 1 .. Len(M) : M[k] = g[q[k]] /\ q[k] <= q[Len(M)]
            /\ \A k, l \in 1 .. Len(M) : q[k] = q[l] => k = l
    BY <1>3
<1>6. Reportable(g)
    BY CompleteReportable
<1>7. \A k \in 1 .. Len(M) : q[k] \in 1 .. Len(g) /\ M[k] = g[q[k]]
    BY <1>5
<1>8. \A i, j \in 1 .. Len(M) : M[i] = M[j] => i = j
    BY <1>5, <1>6, <1>7 DEF Reportable
<1>9. ASSUME NEW i \in 1 .. Len(M)
      PROVE  M[i].seq <= Last(M).seq
  <2>1. Len(M) \in 1 .. Len(M)
      BY <1>3, LenProperties
  <2>2. q[i] \in 1 .. Len(g) /\ q[Len(M)] \in 1 .. Len(g) /\ q[i] <= q[Len(M)]
      BY <1>5, <1>7, <2>1
  <2>3. g[q[i]].seq \in Nat
    <3>1. g[q[i]] \in Known
        BY <2>2, LenProperties
    <3> QED
        BY <3>1, KnownTrade
  <2>4. g[q[i]].seq <= g[q[Len(M)]].seq
    <3>1. CASE q[i] = q[Len(M)]
        BY <3>1, <2>3
    <3>2. CASE q[i] < q[Len(M)]
      <4>1. g[q[i]].seq < g[q[Len(M)]].seq
          BY <3>2, <2>2, <1>1 DEF Increasing
      <4>2. g[q[Len(M)]].seq \in Nat
        <5>1. g[q[Len(M)]] \in Known
            BY <2>2, LenProperties
        <5> QED
            BY <5>1, KnownTrade
      <4> QED
          BY <4>1, <4>2, <2>3
    <3> QED
        BY <3>1, <3>2, <2>2
  <2> QED
      BY <2>1, <2>4, <1>7 DEF Last
<1>10. OneExpiry(M)
    BY <1>1, <1>7 DEF OneExpiry
<1>11. Cardinality(TokensOf(M)) = 3
  <2>1. TokensOf(M) \subseteq TokensOf(g)
    <3>1. DOMAIN M = 1 .. Len(M) /\ DOMAIN g = 1 .. Len(g)
        BY <1>3, LenProperties
    <3> QED
        BY <3>1, <1>7 DEF TokensOf
  <2>2. IsFiniteSet(TokensOf(g))
      BY TokensFinite
  <2>3. TokensOf(M) = TokensOf(g)
      BY <1>1, <1>3, <1>4, <2>1, <2>2, ThreeTokens
  <2> QED
      BY <2>3, <1>1
<1> QED
    BY <1>8, <1>9, <1>10, <1>11 DEF Reportable, M

\* One group more is put out, and nothing stays collected.
LEMMA OneMoreOut ==
    ASSUME NEW run, NEW n, NEW s, PassInv(s, run, n), NEW h \in Seq(Known),
           \A i \in 1 .. Len(h) : \E j \in 1 .. Len(s.grp) : h[i] = s.grp[j],
           IsValidateConRev(h) => Reportable(h),
           NEW seen \in SUBSET Types, NEW expiry \in Nat,
           NEW d, d = [tokens |-> {}, qty |-> [y \in Types |-> 0], seen |-> seen,
                       strike |-> 0, expiry |-> expiry, last |-> 0]
    PROVE  PassInv([s EXCEPT !.out = Append(s.out, h), !.grp = <<>>, !.d = d], run, n)
<1> DEFINE out == Append(s.out, h)
           L == Len(s.out)
           u == [s EXCEPT !.out = out, !.grp = <<>>, !.d = d]
<1>1. /\ s \in Pass /\ s.out \in Seq(Seq(Known)) /\ From(s.grp, run, n) /\ OutInv(s.out, run, n)
      /\ \A k \in 1 .. L : IsValidateConRev(s.out[k]) => Before(s.out[k], s.grp)
    BY DEF PassInv, Pass
<1>2. /\ L \in Nat /\ out \in Seq(Seq(Known)) /\ Len(out) = L + 1
      /\ out[L + 1] = h /\ \A k \in 1 .. L : out[k] = s.out[k]
    BY <1>1, AppendProperties, LenProperties
<1>3. d.tokens = {} /\ d.qty = [y \in Types |-> 0] /\ d.last = 0
    OBVIOUS
<1>4. d \in Details
    BY DEF Details
<1>5. GrpInv(<<>>, d)
  <2>1. Len(<<>>) = 0
      OBVIOUS
  <2>2. d.tokens = TokensOf(<<>>)
      BY ONLY <1>3, NoTokens
  <2>3. d.qty = QtyByType(<<>>)
      BY ONLY <1>3, QtyEmpty
  <2> QED
      BY <2>1, <2>2, <2>3, <1>3 DEF GrpInv, Increasing
<1> HIDE DEF out, L
<1>6. u \in Pass /\ u.grp = <<>> /\ u.d = d /\ u.out = out
  <2>1. <<>> \in Seq(Known)
      OBVIOUS
  <2> QED
      BY <2>1, <1>1, <1>2, <1>4 DEF Pass
<1> HIDE DEF u
<1>7. \A k \in 1 .. L + 1 : k = L + 1 \/ k \in 1 .. L
    BY <1>2
<1>8. \A k \in 1 .. L + 1 : IsValidateConRev(out[k]) => From(out[k], run, n) /\ Reportable(out[k])
  <2> SUFFICES ASSUME NEW k \in 1 .. L + 1, IsValidateConRev(out[k])
               PROVE  From(out[k], run, n) /\ Reportable(out[k])
      OBVIOUS
  <2>1. CASE k = L + 1
    <3>1. From(h, run, n)
        BY <1>1 DEF From
    <3> QED
        BY <2>1, <3>1, <1>2
  <2>2. CASE k \in 1 .. L
      BY <2>2, <1>1, <1>2 DEF OutInv, L
  <2> QED
      BY <2>1, <2>2, <1>7
<1>9. \A k, l \in 1 .. L + 1 :
          k < l /\ IsValidateConRev(out[k]) /\ IsValidateConRev(out[l]) => Before(out[k], out[l])
  <2> SUFFICES ASSUME NEW k \in 1 .. L + 1, NEW l \in 1 .. L + 1, k < l,
                      IsValidateConRev(out[k]), IsValidateConRev(out[l])
               PROVE  Before(out[k], out[l])
      OBVIOUS
  <2>1. k \in 1 .. L
      BY <1>2
  <2>2. CASE l = L + 1
    <3>1. Before(s.out[k], s.grp)
        BY <1>1, <1>2, <2>1
    <3>2. Before(s.out[k], h)
        BY <3>1 DEF Before
    <3> QED
        BY <1>2, <2>1, <2>2, <3>2
  <2>3. CASE l \in 1 .. L
      BY <1>1, <1>2, <2>1, <2>3 DEF OutInv, L
  <2> QED
      BY <2>2, <2>3, <1>7
<1>10. OutInv(out, run, n)
    BY <1>2, <1>8, <1>9 DEF OutInv
<1>11. From(<<>>, run, n) /\ \A k \in 1 .. Len(out) : Before(out[k], <<>>)
  <2>1. Len(<<>>) = 0
      OBVIOUS
  <2> QED
      BY <2>1 DEF From, Before
<1>12. PassInv(u, run, n)
    BY <1>5, <1>6, <1>10, <1>11 DEF PassInv
<1> QED
    BY <1>12 DEF u, out

\* The details after the first case of PutOut, field by field.
LEMMA DetailsOf ==
    ASSUME NEW seen, NEW expiry
    PROVE  [NoDetails EXCEPT !.seen = seen, !.expiry = expiry] =
               [tokens |-> {}, qty |-> [y \in Types |-> 0], seen |-> seen,
                strike |-> 0, expiry |-> expiry, last |-> 0]
<1> DEFINE z == [y \in Types |-> 0]
           a == [NoDetails EXCEPT !.seen = seen]
<1>1. NoDetails = [tokens |-> {}, qty |-> z, seen |-> {}, strike |-> 0, expiry |-> 0, last |-> 0]
    BY DEF NoDetails
<1> HIDE DEF z
<1>2. a = [tokens |-> {}, qty |-> z, seen |-> seen, strike |-> 0, expiry |-> 0, last |-> 0]
    BY <1>1
<1>3. [NoDetails EXCEPT !.seen = seen, !.expiry = expiry] = [a EXCEPT !.expiry = expiry]
    OBVIOUS
<1> HIDE DEF a
<1>4. [a EXCEPT !.expiry = expiry] =
          [tokens |-> {}, qty |-> z, seen |-> seen, strike |-> 0, expiry |-> expiry, last |-> 0]
    BY <1>2
<1> QED
    BY <1>3, <1>4 DEF z

\* Putting a group out keeps the invariant of the pass.
LEMMA PutOutInv ==
    ASSUME NEW run, NEW n, NEW s, PassInv(s, run, n)
    PROVE  PassInv(PutOut(s), run, n)
<1>1. s \in Pass /\ s.grp \in Seq(Known) /\ s.d \in Details /\ GrpInv(s.grp, s.d)
    BY DEF PassInv, Pass
<1> DEFINE M == MiddleGroup(s.grp)
<1>2. CASE Cardinality(s.d.tokens) # 3
    BY <1>2 DEF PutOut
<1>3. CASE Cardinality(s.d.tokens) = 3 /\ Balanced(s.d.qty)
  <2> DEFINE e == [NoDetails EXCEPT !.seen = s.d.seen, !.expiry = s.d.expiry]
  <2>1. PutOut(s) = [s EXCEPT !.out = Append(s.out, s.grp), !.grp = <<>>, !.d = e]
      BY <1>3 DEF PutOut
  <2>2. Reportable(s.grp)
      BY <1>1, <1>3, CompleteReportable
  <2>6. e = [tokens |-> {}, qty |-> [y \in Types |-> 0], seen |-> s.d.seen,
             strike |-> 0, expiry |-> s.d.expiry, last |-> 0]
      BY DetailsOf
  <2>3. s.d.seen \in SUBSET Types /\ s.d.expiry \in Nat
      BY <1>1 DEF Details
  <2>4. \A i \in 1 .. Len(s.grp) : \E j \in 1 .. Len(s.grp) : s.grp[i] = s.grp[j]
      OBVIOUS
  <2>5. PassInv([s EXCEPT !.out = Append(s.out, s.grp), !.grp = <<>>, !.d = e], run, n)
    <3> HIDE DEF e
    <3> QED
        BY <1>1, <2>2, <2>3, <2>4, <2>6, OneMoreOut
  <2> QED
      BY <2>1, <2>5
<1>4. CASE /\ Cardinality(s.d.tokens) = 3 /\ ~ Balanced(s.d.qty)
           /\ \A y \in Types : s.d.qty[y] # 0
           /\ M # <<>>
  <2>1. PutOut(s) = [s EXCEPT !.out = Append(s.out, M), !.grp = <<>>, !.d = NoDetails]
      BY <1>4 DEF PutOut
  <2>2. IsValidateConRev(M) => Reportable(M)
      BY <1>1, <1>4, MiddleReportable
  <2>3. NoDetails = [tokens |-> {}, qty |-> [y \in Types |-> 0], seen |-> {},
                     strike |-> 0, expiry |-> 0, last |-> 0]
      BY DEF NoDetails
  <2>4. \A y \in Types : \E i \in 1 .. Len(s.grp) : Type(s.grp[i]) = y
      BY <1>1, <1>4, QtyTraded DEF GrpInv
  <2>5. /\ M \in Seq(Known)
        /\ \E q \in [1 .. Len(M) -> 1 .. Len(s.grp)] : \A k \in 1 .. Len(M) : M[k] = s.grp[q[k]]
      BY <1>1, <1>4, <2>4, MiddleGroupTrades
  <2> HIDE DEF M
  <2>6. \A i \in 1 .. Len(M) : \E j \in 1 .. Len(s.grp) : M[i] = s.grp[j]
      BY <2>5
  <2>7. {} \in SUBSET Types /\ 0 \in Nat
      OBVIOUS
  <2>8. PassInv([s EXCEPT !.out = Append(s.out, M), !.grp = <<>>, !.d = NoDetails], run, n)
      BY <2>2, <2>3, <2>5, <2>6, <2>7, OneMoreOut
  <2> QED
      BY <2>1, <2>8
<1>5. CASE /\ Cardinality(s.d.tokens) = 3 /\ ~ Balanced(s.d.qty)
           /\ ~ ((\A y \in Types : s.d.qty[y] # 0) /\ M # <<>>)
    BY <1>5 DEF PutOut
<1> QED
    BY <1>2, <1>3, <1>4, <1>5

\* One trade of the run more keeps it.
LEMMA SplitStepInv ==
    ASSUME NEW run, NEW n \in Nat, NEW s, PassInv(s, run, n),
           NEW m \in Known, m = run[n + 1],
           \A j \in 1 .. n : run[j].seq < m.seq
    PROVE  PassInv(SplitStep(s, m), run, n + 1)
<1> DEFINE t == DropOthers(s, m)
           p == [t EXCEPT !.grp = Append(@, m), !.d.tokens = @ \cup {m.token}]
<1>1. /\ PassInv(t, run, n)
      /\ \A i \in 1 .. Len(t.grp) : Expiry(t.grp[i]) = Expiry(m)
    BY DropOthersInv
<1>2. SplitStep(s, m) = PutOut(AddTrade(LegAgain(p, m), m))
  <2>1. s.bad = FALSE
      BY DEF PassInv, Pass
  <2> QED
      BY <2>1 DEF SplitStep
<1> HIDE DEF t
<1>3. t \in Pass
    BY <1>1 DEF PassInv
<1> DEFINE g == Append(t.grp, m)
           d == [t.d EXCEPT !.tokens = @ \cup {m.token}]
<1>4. p = [t EXCEPT !.grp = g, !.d = d]
    BY <1>3 DEF Pass
<1> HIDE DEF p, g, d
<1>5. p.grp = g /\ p.d = d /\ p.out = t.out /\ p.bad = t.bad
    BY <1>3, <1>4 DEF Pass
<1>6. p = [grp |-> p.grp, d |-> p.d, out |-> p.out, bad |-> p.bad]
  <2> DEFINE q == [t EXCEPT !.grp = g]
  <2>0. t = [grp |-> t.grp, d |-> t.d, out |-> t.out, bad |-> t.bad]
      BY <1>3 DEF Pass
  <2>1. q = [grp |-> g, d |-> t.d, out |-> t.out, bad |-> t.bad]
      BY ONLY <2>0
  <2>2. p = [q EXCEPT !.d = d]
      BY <1>4
  <2> HIDE DEF q
  <2>3. p = [grp |-> g, d |-> d, out |-> t.out, bad |-> t.bad]
      BY ONLY <2>1, <2>2
  <2> QED
      BY ONLY <2>3
<1>7. t.bad = FALSE
    BY <1>3 DEF Pass
<1>8. PassInv(AddTrade(LegAgain(p, m), m), run, n + 1)
    BY <1>1, <1>5, <1>6, <1>7, LegAddedInv DEF g, d
<1> QED
    BY <1>2, <1>8, PutOutInv

----------------------------------------------------------------------------
(* The whole pass *)

\* The function that the pass of SplitTrade stands for.
IsPassFn(f, store, k) ==
    f = [n \in 0 .. k |-> IF n = 0 THEN NothingSplit ELSE SplitStep(f[n - 1], store[n])]

\* Its recursion has a solution for every length.
LEMMA PassFnExists ==
    ASSUME NEW store, NEW N \in Nat
    PROVE  \E f : IsPassFn(f, store, N)
<1> DEFINE T == {k \in Nat : \E f : IsPassFn(f, store, k)}
<1>1. 0 \in T
  <2> DEFINE f == [n \in 0 .. 0 |-> NothingSplit]
  <2>1. IsPassFn(f, store, 0)
      BY DEF IsPassFn
  <2> QED
      BY <2>1
<1>2. ASSUME NEW k \in Nat, k \in T PROVE k + 1 \in T
  <2>1. PICK f : IsPassFn(f, store, k)
      BY <1>2
  <2> DEFINE e == SplitStep(f[k], store[k + 1])
             h == [n \in 0 .. k + 1 |-> IF n = k + 1 THEN e ELSE f[n]]
  <2>2. /\ DOMAIN h = 0 .. k + 1 /\ h = [n \in 0 .. k + 1 |-> h[n]]
        /\ h[k + 1] = e /\ h[k] = f[k]
        /\ \A n \in 0 .. k : h[n] = f[n]
      OBVIOUS
  <2>3. \A n \in 0 .. k : f[n] = IF n = 0 THEN NothingSplit ELSE SplitStep(f[n - 1], store[n])
      BY <2>1 DEF IsPassFn
  <2> HIDE DEF h, e
  <2>4. \A n \in 0 .. k + 1 :
            h[n] = IF n = 0 THEN NothingSplit ELSE SplitStep(h[n - 1], store[n])
    <3> TAKE n \in 0 .. k + 1
    <3>1. CASE n = k + 1
        BY <3>1, <2>2 DEF e
    <3>2. CASE n \in 0 .. k
      <4>1. h[n] = f[n]
          BY <3>2, <2>2
      <4>2. n # 0 => n - 1 \in 0 .. k
          BY <3>2
      <4>3. n # 0 => h[n - 1] = f[n - 1]
          BY <4>2, <2>2
      <4> QED
          BY <3>2, <4>1, <4>3, <2>3
    <3> QED
        BY <3>1, <3>2
  <2>5. IsPassFn(h, store, k + 1)
      BY <2>2, <2>4 DEF IsPassFn
  <2> QED
      BY <2>5
<1> HIDE DEF T
<1>3. N \in T
    BY <1>1, <1>2, NatSetInduction
<1> QED
    BY <1>3 DEF T

\* SplitTrade as its recursion says, trade by trade.
LEMMA SplitRec ==
    ASSUME NEW store, Len(store) \in Nat, NEW tokens,
           ~ (Len(store) = 3 /\ Cardinality(tokens) = 3)
    PROVE  \E f : /\ SplitTrade(store, tokens) = f[Len(store)]
                  /\ f[0] = NothingSplit
                  /\ \A n \in 1 .. Len(store) : f[n] = SplitStep(f[n - 1], store[n])
<1> DEFINE f == CHOOSE f : IsPassFn(f, store, Len(store))
<1>1. IsPassFn(f, store, Len(store))
    BY PassFnExists
<1>2. SplitTrade(store, tokens) = f[Len(store)]
    BY DEF SplitTrade, IsPassFn
<1> HIDE DEF f
<1>3. \A n \in 0 .. Len(store) :
          f[n] = IF n = 0 THEN NothingSplit ELSE SplitStep(f[n - 1], store[n])
    BY <1>1 DEF IsPassFn
<1> QED
    BY <1>2, <1>3

\* The invariant of the pass holds before the first trade.
LEMMA NothingSplitInv ==
    ASSUME NEW run
    PROVE  PassInv(NothingSplit, run, 0)
<1> DEFINE d == NoDetails
<1>1. /\ NothingSplit = [grp |-> <<>>, d |-> d, out |-> <<>>, bad |-> FALSE]
      /\ NothingSplit.grp = <<>> /\ NothingSplit.d = d /\ NothingSplit.out = <<>>
    BY DEF NothingSplit
<1>2. d \in Details
    BY DEF NoDetails, Details
<1>3. d.tokens = {} /\ d.qty = [y \in Types |-> 0] /\ d.last = 0
    BY DEF NoDetails
<1> HIDE DEF d
<1>4. Len(<<>>) = 0
    OBVIOUS
<1>5. GrpInv(<<>>, d)
  <2>1. d.tokens = TokensOf(<<>>)
      BY ONLY <1>3, NoTokens
  <2>2. d.qty = QtyByType(<<>>)
      BY ONLY <1>3, QtyEmpty
  <2> QED
      BY <2>1, <2>2, <1>3, <1>4 DEF GrpInv, Increasing
<1>6. NothingSplit \in Pass
  <2>1. <<>> \in Seq(Known) /\ <<>> \in Seq(Seq(Known))
      OBVIOUS
  <2> QED
      BY <2>1, <1>1, <1>2 DEF Pass
<1>7. From(<<>>, run, 0) /\ OutInv(<<>>, run, 0)
    BY <1>4 DEF From, OutInv
<1> QED
    BY <1>1, <1>4, <1>5, <1>6, <1>7 DEF PassInv

\* Where three trades of three instruments are not cut, the three instruments
\* have one expiry.
LEMMA ThreeTradesOneExpiry ==
    ASSUME NEW g \in Seq(Known), Cardinality(TokensOf(g)) = 3, LegsMatch(TokensOf(g))
    PROVE  OneExpiry(g)
<1> DEFINE T == TokensOf(g)
<1>0. Len(g) \in Nat /\ DOMAIN g = 1 .. Len(g) /\ \A i \in DOMAIN g : g[i] \in Known
    BY LenProperties
<1>1. IsFiniteSet(T) /\ T \subseteq Nat /\ \A i \in DOMAIN g : g[i].token \in T
    BY TokensFinite, TokensType DEF TokensOf
<1> HIDE DEF T
<1>2. PICK t \in T :
        /\ \A y \in Types : \E u \in T : u <= t /\ Scrips[u].type = y
        /\ Scrips[LastToken(T, PUT, t)].expiry = Scrips[LastToken(T, CALL, t)].expiry
        /\ Scrips[LastToken(T, CALL, t)].expiry = Scrips[LastToken(T, FUT, t)].expiry
    BY DEF LegsMatch, T
<1>3. ASSUME NEW y \in Types
      PROVE  LastToken(T, y, t) \in T /\ Scrips[LastToken(T, y, t)].type = y
  <2> DEFINE U == {u \in T : u <= t /\ Scrips[u].type = y}
  <2>1. U \subseteq Nat /\ U # {} /\ t \in Nat /\ \A u \in U : u <= t
      BY <1>1, <1>2
  <2>2. \A u \in U : u \in T /\ Scrips[u].type = y
      OBVIOUS
  <2>3. LastToken(T, y, t) = Max(U)
      BY DEF LastToken
  <2> HIDE DEF U
  <2>4. Max(U) \in U
      BY <2>1, GreatestOf
  <2> QED
      BY <2>2, <2>3, <2>4
<1> DEFINE a == LastToken(T, FUT, t)
           b == LastToken(T, CALL, t)
           c == LastToken(T, PUT, t)
           e == Scrips[a].expiry
<1>4. /\ a \in T /\ b \in T /\ c \in T
      /\ Scrips[a].type = 1 /\ Scrips[b].type = 2 /\ Scrips[c].type = 3
    BY <1>3 DEF Types, FUT, CALL, PUT
<1>5. Scrips[b].expiry = e /\ Scrips[c].expiry = e
    BY <1>2
<1> HIDE DEF a, b, c, e
<1>6. a # b /\ b # c /\ a # c
    BY <1>4
<1>7. IsFiniteSet({a, b, c}) /\ Cardinality({a, b, c}) = 3
    BY <1>6, ThreeIsThree
<1>8. Scrips[a].expiry = e
    BY DEF e
<1>9. {a, b, c} = T
  <2>1. {a, b, c} \subseteq T
      BY <1>4
  <2>2. Cardinality(T) = 3
      BY DEF T
  <2> DEFINE V == {a, b, c}
  <2>3. V \subseteq T /\ Cardinality(V) = Cardinality(T)
      BY <2>1, <2>2, <1>7
  <2> HIDE DEF V
  <2>4. V = T
      BY <2>3, <1>1, FS_Subset
  <2> QED
      BY <2>4 DEF V
<1>10. \A i \in DOMAIN g : Expiry(g[i]) = e
    BY <1>1, <1>5, <1>8, <1>9 DEF Expiry
<1> QED
    BY <1>0, <1>10 DEF OneExpiry

\* The groups that SplitTrade cuts out of a run, and that it never reads the
\* front of an empty vector.
LEMMA SplitInv ==
    ASSUME NEW store \in Seq(Known), Increasing(store),
           ValidateTradeMsgRecords(store, TokensOf(store)),
           NEW split, split = SplitTrade(store, TokensOf(store))
    PROVE  /\ ~ split.bad
           /\ split.out \in Seq(Seq(Known))
           /\ OutInv(split.out, store, Len(store))
<1> DEFINE N == Len(store)
           T == TokensOf(store)
<1>1. N \in Nat /\ \A i \in 1 .. N : store[i] \in Known
    BY LenProperties
<1>2. CASE N = 3 /\ Cardinality(T) = 3
  <2>1. split = [out |-> <<store>>, bad |-> FALSE]
      BY <1>2 DEF SplitTrade
  <2>2. OneExpiry(store)
      BY <1>2, ThreeTradesOneExpiry DEF ValidateTradeMsgRecords
  <2>3. Reportable(store)
    <3>1. \A i \in 1 .. N : store[i].seq \in Nat
        BY <1>1, KnownTrade
    <3>2. \A i, j \in 1 .. N : store[i] = store[j] => i = j
      <4> SUFFICES ASSUME NEW i \in 1 .. N, NEW j \in 1 .. N, store[i] = store[j]
                   PROVE  i = j
          OBVIOUS
      <4>1. ~ (i < j) /\ ~ (j < i)
          BY <3>1 DEF Increasing
      <4> QED
          BY <4>1
    <3>3. Last(store) = store[N] /\ N \in 1 .. N
        BY <1>2 DEF Last
    <3>4. \A i \in 1 .. N : store[i].seq <= Last(store).seq
      <4> TAKE i \in 1 .. N
      <4>1. i = N \/ i < N
          BY <1>1
      <4> QED
          BY <4>1, <3>1, <3>3 DEF Increasing
    <3> QED
        BY <3>2, <3>4, <2>2, <1>2 DEF Reportable
  <2>4. From(store, store, N)
      BY DEF From
  <2>5. split.out = <<store>> /\ split.out \in Seq(Seq(Known)) /\ Len(split.out) = 1
        /\ split.out[1] = store /\ split.bad = FALSE
      BY <2>1
  <2>6. OutInv(split.out, store, N)
    <3>1. \A k \in 1 .. Len(split.out) : split.out[k] = store
        BY <2>5
    <3>2. \A k, l \in 1 .. Len(split.out) : ~ (k < l)
        BY <2>5
    <3> QED
        BY <3>1, <3>2, <2>3, <2>4 DEF OutInv
  <2> QED
      BY <2>5, <2>6
<1>3. CASE ~ (N = 3 /\ Cardinality(T) = 3)
  <2>1. PICK f : /\ split = f[N]
                 /\ f[0] = NothingSplit
                 /\ \A n \in 1 .. N : f[n] = SplitStep(f[n - 1], store[n])
      BY <1>1, <1>3, SplitRec
  <2> DEFINE U == {n \in Nat : n <= N => PassInv(f[n], store, n)}
  <2>2. 0 \in U
      BY <2>1, NothingSplitInv
  <2>3. ASSUME NEW n \in Nat, n \in U PROVE n + 1 \in U
    <3> SUFFICES ASSUME n + 1 <= N PROVE PassInv(f[n + 1], store, n + 1)
        OBVIOUS
    <3>1. n + 1 \in 1 .. N /\ (n + 1) - 1 = n /\ n <= N
        BY <1>1
    <3>2. PassInv(f[n], store, n) /\ f[n + 1] = SplitStep(f[n], store[n + 1])
        BY <3>1, <2>1, <2>3
    <3>3. store[n + 1] \in Known
        BY <3>1, <1>1
    <3>4. \A j \in 1 .. n : store[j].seq < store[n + 1].seq
      <4> TAKE j \in 1 .. n
      <4>1. j \in 1 .. N /\ j < n + 1
          BY <1>1, <3>1
      <4> QED
          BY <4>1, <3>1 DEF Increasing
    <3>5. PassInv(SplitStep(f[n], store[n + 1]), store, n + 1)
        BY <3>2, <3>3, <3>4, SplitStepInv
    <3> QED
        BY <3>2, <3>5
  <2> HIDE DEF U
  <2>4. N \in U
      BY <2>2, <2>3, <1>1, NatSetInduction
  <2>5. PassInv(split, store, N)
      BY <2>4, <2>1, <1>1 DEF U
  <2> QED
      BY <2>5 DEF PassInv, Pass
<1> QED
    BY <1>2, <1>3

----------------------------------------------------------------------------
(* The records *)

\* What is known of the records of one run.
GoodRecords(recs, run, n) ==
    /\ recs \in Seq({Record(g) : g \in Seq(Known)})
    /\ \A i \in DOMAIN recs :
           LET g == recs[i].group
           IN  /\ g \in Seq(Known) /\ recs[i] = Record(g)
               /\ IsValidateConRev(g) /\ From(g, run, n) /\ Reportable(g)
    /\ \A i, j \in DOMAIN recs : i < j => Before(recs[i].group, recs[j].group)

\* Only groups that passed IsValidateConRev become records, in their order.
LEMMA RecordsOfGroups ==
    ASSUME NEW run, NEW n, NEW out \in Seq(Seq(Known)), OutInv(out, run, n)
    PROVE  GoodRecords(RecordsOf(out), run, n)
<1> DEFINE S == {g \in ToSet(out) : IsValidateConRev(g)}
           valid == Kept(out, S)
           recs == RecordsOf(out)
<1>1. valid \in Seq(Seq(Known)) /\ PartOf(valid, out) /\ \A k \in 1 .. Len(valid) : valid[k] \in S
    BY KeptPart
<1>2. \A g \in S : IsValidateConRev(g)
    OBVIOUS
<1>3. recs = [i \in DOMAIN valid |-> Record(valid[i])]
    BY DEF RecordsOf
<1> HIDE DEF S, valid, recs
<1>4. /\ Len(valid) \in Nat /\ DOMAIN valid = 1 .. Len(valid)
      /\ \A k \in 1 .. Len(valid) : valid[k] \in Seq(Known) /\ IsValidateConRev(valid[k])
    BY <1>1, <1>2, LenProperties
<1>5. /\ DOMAIN recs = 1 .. Len(valid)
      /\ \A i \in 1 .. Len(valid) : recs[i] = Record(valid[i])
    BY <1>3, <1>4
<1>6. recs \in Seq({Record(g) : g \in Seq(Known)})
  <2>1. \A i \in 1 .. Len(valid) : recs[i] \in {Record(g) : g \in Seq(Known)}
      BY <1>4, <1>5
  <2>2. recs = [i \in 1 .. Len(valid) |-> recs[i]]
      BY <1>3, <1>4
  <2> QED
      BY <2>1, <2>2, <1>4
<1>7. \A i \in 1 .. Len(valid) : recs[i].group = valid[i]
    BY <1>5 DEF Record
<1>8. PICK p \in [1 .. Len(valid) -> 1 .. Len(out)] :
          /\ \A k \in 1 .. Len(valid) : valid[k] = out[p[k]]
          /\ \A k, l \in 1 .. Len(valid) : k < l => p[k] < p[l]
    BY <1>1 DEF PartOf
<1>9. \A k \in 1 .. Len(valid) : From(valid[k], run, n) /\ Reportable(valid[k])
    BY <1>4, <1>8 DEF OutInv
<1>10. ASSUME NEW k \in 1 .. Len(valid), NEW l \in 1 .. Len(valid), k < l
       PROVE  Before(valid[k], valid[l])
  <2>1. /\ p[k] \in 1 .. Len(out) /\ p[l] \in 1 .. Len(out) /\ p[k] < p[l]
        /\ valid[k] = out[p[k]] /\ valid[l] = out[p[l]]
      BY <1>8, <1>10
  <2> QED
      BY <2>1, <1>4 DEF OutInv
<1>11. \A i \in DOMAIN recs :
           LET g == recs[i].group
           IN  /\ g \in Seq(Known) /\ recs[i] = Record(g)
               /\ IsValidateConRev(g) /\ From(g, run, n) /\ Reportable(g)
    BY <1>4, <1>5, <1>7, <1>9
<1>12. \A i, j \in DOMAIN recs : i < j => Before(recs[i].group, recs[j].group)
    BY <1>5, <1>7, <1>10
<1> QED
    BY <1>4, <1>5, <1>6, <1>11, <1>12 DEF GoodRecords, recs

\* What is in a sequence is one of its members.
LEMMA MembersOf ==
    ASSUME NEW A, NEW g \in Seq(A), NEW a \in ToSet(g)
    PROVE  \E i \in 1 .. Len(g) : a = g[i]
BY LenProperties DEF ToSet

\* The sequence number and the group of a record.
LEMMA SeqNoOf == \A g : Record(g).seqNo = Last(g).seq /\ Record(g).group = g
BY DEF Record

\* The records of a run are disjoint pieces of it, in the order of the feed.
LEMMA GoodInOrder ==
    ASSUME NEW run, NEW n, NEW recs, GoodRecords(recs, run, n)
    PROVE  /\ \A i, j \in DOMAIN recs : i < j =>
                  \A a \in ToSet(recs[i].group), b \in ToSet(recs[j].group) : a.seq < b.seq
           /\ \A i \in DOMAIN recs :
                  /\ IsInjective(recs[i].group)
                  /\ \A a \in ToSet(recs[i].group) : a.seq <= recs[i].seqNo
<1>1. ASSUME NEW i \in DOMAIN recs
      PROVE  /\ recs[i].group \in Seq(Known)
             /\ Reportable(recs[i].group)
             /\ recs[i].seqNo = Last(recs[i].group).seq
    BY SeqNoOf DEF GoodRecords
<1>2. ASSUME NEW i \in DOMAIN recs, NEW j \in DOMAIN recs, i < j,
             NEW a \in ToSet(recs[i].group), NEW b \in ToSet(recs[j].group)
      PROVE  a.seq < b.seq
  <2>1. Before(recs[i].group, recs[j].group)
      BY <1>2 DEF GoodRecords
  <2>2. PICK k \in 1 .. Len(recs[i].group) : a = recs[i].group[k]
      BY <1>1, MembersOf
  <2>3. PICK l \in 1 .. Len(recs[j].group) : b = recs[j].group[l]
      BY <1>1, MembersOf
  <2> QED
      BY <2>1, <2>2, <2>3 DEF Before
<1>3. ASSUME NEW i \in DOMAIN recs
      PROVE  IsInjective(recs[i].group)
  <2>1. DOMAIN recs[i].group = 1 .. Len(recs[i].group)
      BY <1>1, LenProperties
  <2> QED
      BY <2>1, <1>1 DEF Reportable, IsInjective
<1>4. ASSUME NEW i \in DOMAIN recs, NEW a \in ToSet(recs[i].group)
      PROVE  a.seq <= recs[i].seqNo
  <2>1. PICK k \in 1 .. Len(recs[i].group) : a = recs[i].group[k]
      BY <1>1, MembersOf
  <2> QED
      BY <2>1, <1>1 DEF Reportable
<1> QED
    BY <1>2, <1>3, <1>4

\* A leg that was traded has a last trade, and it is one of the group.
LEMMA LastOfLeg ==
    ASSUME NEW g \in Seq(Known), TypesOf(g) = Types, NEW y \in Types
    PROVE  \E i \in 1 .. Len(g) : Last(OfType(g, y)) = g[i]
<1> DEFINE S == {m \in ToSet(g) : Type(m) = y}
           h == Kept(g, S)
<1>1. h \in Seq(Known) /\ \E p : Selects(p, h, g, S)
    BY KeptSelects
<1>2. PICK i \in 1 .. Len(g) : Type(g[i]) = y
    BY LenProperties DEF TypesOf
<1>3. g[i] \in S
  <2>1. DOMAIN g = 1 .. Len(g)
      BY LenProperties
  <2>2. g[i] \in ToSet(g)
      BY <2>1 DEF ToSet
  <2> QED
      BY <2>2, <1>2
<1>4. OfType(g, y) = h
    BY DEF OfType
<1> HIDE DEF S, h
<1>5. PICK p : Selects(p, h, g, S)
    BY <1>1
<1>6. h # <<>>
  <2>1. PICK k \in 1 .. Len(h) : p[k] = i
      BY <1>3, <1>5 DEF Selects
  <2> QED
      BY <2>1
<1>7. Last(h) = h[Len(h)] /\ Len(h) \in 1 .. Len(h)
    BY <1>1, <1>6, LastOfSeq
<1> QED
    BY <1>4, <1>5, <1>7 DEF Selects

\* A record is about three instruments of one expiry, traded in equal volumes.
LEMMA GoodLegs ==
    ASSUME NEW run, NEW n, NEW recs, GoodRecords(recs, run, n), NEW i \in DOMAIN recs
    PROVE  LET g == recs[i].group
           IN  /\ Cardinality(TokensOf(g)) = 3
               /\ \A j \in DOMAIN g : Expiry(g[j]) = recs[i].expiry
               /\ \A y \in Types : QtySum(OfType(g, y)) = recs[i].volume
<1> DEFINE g == recs[i].group
<1>1. g \in Seq(Known) /\ IsValidateConRev(g) /\ Reportable(g) /\ recs[i] = Record(g)
    BY DEF GoodRecords
<1>2. recs[i].expiry = Expiry(Last(OfType(g, FUT))) /\ recs[i].volume = QtySum(OfType(g, FUT))
  <2>1. \A h : Record(h).expiry = Expiry(Last(OfType(h, FUT))) /\ Record(h).volume = QtySum(OfType(h, FUT))
      BY DEF Record
  <2> QED
      BY <2>1, <1>1
<1> HIDE DEF g
<1>3. PICK k \in 1 .. Len(g) : Last(OfType(g, FUT)) = g[k]
    BY <1>1, LastOfLeg DEF IsValidateConRev, Types
<1>4. \A j \in DOMAIN g : Expiry(g[j]) = recs[i].expiry
    BY <1>1, <1>2, <1>3, LenProperties DEF Reportable, OneExpiry
<1>5. \A y \in Types : QtySum(OfType(g, y)) = recs[i].volume
  <2>1. Balanced(QtyByType(g))
      BY <1>1 DEF IsValidateConRev
  <2>2. \A y \in Types : QtyByType(g)[y] = QtySum(OfType(g, y))
      BY DEF QtyByType
  <2> QED
      BY <2>1, <2>2, <1>2 DEF Balanced, Types
<1>6. Cardinality(TokensOf(g)) = 3
    BY <1>1 DEF Reportable
<1> QED
    BY <1>4, <1>5, <1>6 DEF g

\* The sequence numbers of the records of a run are those of trades of the run,
\* and they increase.
LEMMA GoodSeqNos ==
    ASSUME NEW run, NEW n, NEW recs, GoodRecords(recs, run, n)
    PROVE  /\ \A i \in DOMAIN recs :
                  /\ recs[i].seqNo \in Nat
                  /\ \E j \in 1 .. n : recs[i].seqNo = run[j].seq
           /\ \A i, j \in DOMAIN recs : i < j => recs[i].seqNo < recs[j].seqNo
<1>1. ASSUME NEW i \in DOMAIN recs
      PROVE  \E k \in 1 .. Len(recs[i].group) :
                 recs[i].seqNo = recs[i].group[k].seq /\ recs[i].group[k] \in Known
  <2> DEFINE g == recs[i].group
  <2>1. g \in Seq(Known) /\ IsValidateConRev(g) /\ recs[i].seqNo = Last(g).seq
      BY SeqNoOf DEF GoodRecords
  <2> HIDE DEF g
  <2>2. g # <<>>
    <3>1. TypesOf(g) = Types
        BY <2>1 DEF IsValidateConRev
    <3>2. FUT \in TypesOf(g)
        BY <3>1 DEF Types
    <3>3. DOMAIN g # {}
        BY <3>2 DEF TypesOf
    <3> QED
        BY <3>3
  <2>3. Last(g) \in Known /\ Last(g) = g[Len(g)] /\ Len(g) \in 1 .. Len(g)
      BY <2>1, <2>2, LastOfSeq
  <2> QED
      BY <2>1, <2>3 DEF g
<1>2. ASSUME NEW i \in DOMAIN recs
      PROVE  recs[i].seqNo \in Nat /\ \E j \in 1 .. n : recs[i].seqNo = run[j].seq
  <2>1. PICK k \in 1 .. Len(recs[i].group) :
            recs[i].seqNo = recs[i].group[k].seq /\ recs[i].group[k] \in Known
      BY <1>1
  <2>2. From(recs[i].group, run, n)
      BY DEF GoodRecords
  <2> QED
      BY <2>1, <2>2, KnownTrade DEF From
<1>3. ASSUME NEW i \in DOMAIN recs, NEW j \in DOMAIN recs, i < j
      PROVE  recs[i].seqNo < recs[j].seqNo
  <2>1. PICK k \in 1 .. Len(recs[i].group) : recs[i].seqNo = recs[i].group[k].seq
      BY <1>1
  <2>2. PICK l \in 1 .. Len(recs[j].group) : recs[j].seqNo = recs[j].group[l].seq
      BY <1>1
  <2>3. Before(recs[i].group, recs[j].group)
      BY <1>3 DEF GoodRecords
  <2> QED
      BY <2>1, <2>2, <2>3 DEF Before
<1> QED
    BY <1>2, <1>3


----------------------------------------------------------------------------
(* The stores of the detector *)

\* A numbered trade as WriteDataInFile looks at it.
Looked == TradeType({"B", "S", "none"})

\* A trade message, numbered; with one side it can be collected.
LEMMA NumberedTradeType ==
    ASSUME NEW m \in Trades, NEW seq \in Nat \ {0}
    PROVE  /\ NumberedTrade(m, seq) \in Looked
           /\ m.side # "none" => NumberedTrade(m, seq) \in Collected
           /\ NumberedTrade(m, seq).token = m.token
BY TradesAssumption DEF NumberedTrade, TradeType, Collected, Looked

\* What is collected was looked at.
LEMMA CollectedIsLooked ==
    ASSUME NEW g \in Seq(Collected)
    PROVE  g \in Seq(Looked)
<1>1. Collected \subseteq Looked
    BY DEF Collected, Looked, TradeType
<1>2. Len(g) \in Nat /\ g \in [1 .. Len(g) -> Collected]
    BY LenProperties
<1>3. g \in [1 .. Len(g) -> Looked]
    BY <1>1, <1>2
<1> QED
    BY <1>2, <1>3

\* Every record has one of the two strategies.
LEMMA StrategyOfRecords ==
    ASSUME NEW groups, NEW i \in DOMAIN RecordsOf(groups)
    PROVE  RecordsOf(groups)[i].strategy \in {1, 2}
BY DEF RecordsOf, Record

----------------------------------------------------------------------------
(* One lemma per message *)

\* A trade is collected with its token, or neither is.
LEMMA TradeMessageType ==
    ASSUME TypeOK, NEW m \in Trades, TradeMessage(m, Len(tradeStore) + 1)
    PROVE  TypeOK'
<1> DEFINE seq == Len(tradeStore) + 1
<1>1. /\ tradeStore \in Seq(Collected) /\ tokenStore = TokensOf(tradeStore)
      /\ crashed' \in BOOLEAN /\ flushed' = <<>> /\ records' = <<>>
      /\ seq \in Nat \ {0}
    BY LenProperties DEF TypeOK, TradeMessage, Collected
<1> HIDE DEF seq
<1>2. tradeStore' \in Seq(Collected) /\ tokenStore' = TokensOf(tradeStore')
  <2>1. CASE m.side = "none"
      BY <2>1, <1>1 DEF TradeMessage
  <2>2. CASE m.side # "none"
    <3>1. /\ tradeStore' = Append(tradeStore, NumberedTrade(m, seq))
          /\ tokenStore' = tokenStore \cup {m.token}
        BY <2>2 DEF TradeMessage, seq
    <3>2. NumberedTrade(m, seq) \in Collected /\ NumberedTrade(m, seq).token = m.token
        BY <2>2, <1>1, NumberedTradeType
    <3> QED
        BY <3>1, <3>2, <1>1, OneMoreToken
  <2> QED
      BY <2>1, <2>2
<1> QED
    BY <1>1, <1>2 DEF TypeOK, Collected

\* The trade that crashes the detector is not collected; only the history
\* variable holds it.
LEMMA ZeroLotType ==
    ASSUME TypeOK, NEW m \in Trades, ZeroLot(m, Len(tradeStore) + 1)
    PROVE  TypeOK'
<1> DEFINE seq == Len(tradeStore) + 1
<1>1. /\ tradeStore \in Seq(Collected)
      /\ UNCHANGED <<tradeStore, tokenStore>>
      /\ crashed' \in BOOLEAN /\ records' = <<>>
      /\ flushed' = Append(tradeStore, NumberedTrade(m, seq))
      /\ seq \in Nat \ {0}
    BY LenProperties DEF TypeOK, ZeroLot, Collected
<1> HIDE DEF seq
<1>2. tradeStore \in Seq(Looked) /\ NumberedTrade(m, seq) \in Looked
    BY <1>1, NumberedTradeType, CollectedIsLooked
<1>3. flushed' \in Seq(Looked)
    BY <1>1, <1>2, OneMoreToken
<1> QED
    BY <1>1, <1>3 DEF TypeOK, Looked

\* The end of a run: both stores are emptied, whatever became of the run, except
\* where the process ends.
LEMMA EndOfRunType ==
    ASSUME TypeOK, EndOfRun
    PROVE  TypeOK'
<1>1. flushed' = tradeStore
    BY DEF EndOfRun, DropRun, ReportRun, UnknownToken
<1>2. flushed' \in Seq(Looked)
    BY <1>1, CollectedIsLooked DEF TypeOK, Collected
<1>3. /\ tradeStore' \in Seq(Collected)
      /\ tokenStore' = TokensOf(tradeStore')
  <2>1. CASE tradeStore' = <<>> /\ tokenStore' = {}
    <3>1. <<>> \in Seq(Collected)
        OBVIOUS
    <3> QED
        BY <2>1, <3>1, NoTokens
  <2>2. CASE UNCHANGED <<tradeStore, tokenStore>>
      BY <2>2 DEF TypeOK, Collected
  <2> QED
      BY <2>1, <2>2 DEF EndOfRun, DropRun, ReportRun, UnknownToken
<1>4. crashed' \in BOOLEAN
    BY DEF EndOfRun, DropRun, ReportRun, UnknownToken, TypeOK
<1>5. \A i \in DOMAIN records' : records'[i].strategy \in {1, 2}
  <2>1. records' = <<>> \/ records' = RecordsOf(SplitTrade(tradeStore, tokenStore).out)
      BY DEF EndOfRun, DropRun, ReportRun, UnknownToken
  <2> QED
      BY <2>1, StrategyOfRecords
<1> QED
    BY <1>2, <1>3, <1>4, <1>5 DEF TypeOK, Collected, Looked

\* The detector starts with nothing collected.
LEMMA DetectorTypeInit ==
    ASSUME Init
    PROVE  TypeOK
<1>1. tradeStore = <<>> /\ flushed = <<>> /\ records = <<>> /\ crashed \in BOOLEAN
    BY DEF Init
<1>2. tokenStore = TokensOf(tradeStore)
    BY NoTokens DEF Init
<1>3. \A S : <<>> \in Seq(S)
    OBVIOUS
<1>4. DOMAIN records = {}
    BY <1>1
<1> QED
    BY <1>1, <1>2, <1>3, <1>4 DEF TypeOK

----------------------------------------------------------------------------

\* Whatever the messages and the instruments, vTradeMsgStore holds numbered
\* one-sided trades and cTokenStore exactly their tokens (WriteDataInFile).
THEOREM DetectorTypeCorrect == Spec => []TypeOK
<1>1. Init => TypeOK
    BY DetectorTypeInit
<1>2. TypeOK /\ [Next]_vars => TypeOK'
  <2> SUFFICES ASSUME TypeOK, [Next]_vars PROVE TypeOK'
      OBVIOUS
  <2>1. ASSUME NEW m \in Trades, TradeMessage(m, Len(tradeStore) + 1) PROVE TypeOK'
      BY <2>1, TradeMessageType
  <2>2. ASSUME NEW m \in Trades, ZeroLot(m, Len(tradeStore) + 1) PROVE TypeOK'
      BY <2>2, ZeroLotType
  <2>3. CASE EndOfRun
      BY <2>3, EndOfRunType
  <2>4. CASE UNCHANGED vars
      BY <2>4 DEF vars, TypeOK
  <2> QED
      BY <2>1, <2>2, <2>3, <2>4 DEF Next
<1> QED
    BY <1>1, <1>2, PTL DEF Spec

----------------------------------------------------------------------------
(* The inductive invariant of the detector *)

\* A run all of whose trades are of instruments with a lot size, in the order of
\* the feed: what ReportRun does with it.
LEMMA RunReported ==
    ASSUME NEW store \in Seq(Collected), Increasing(store),
           \A i \in DOMAIN store : ~ LotIsZero(store[i]),
           TokensOf(store) \subseteq DOMAIN Scrips,
           ValidateTradeMsgRecords(store, TokensOf(store)),
           NEW split, split = SplitTrade(store, TokensOf(store))
    PROVE  /\ ~ split.bad
           /\ GoodRecords(RecordsOf(split.out), store, Len(store))
<1>1. /\ Len(store) \in Nat /\ DOMAIN store = 1 .. Len(store)
      /\ \A i \in DOMAIN store : store[i] \in Collected
      /\ store = [i \in 1 .. Len(store) |-> store[i]]
    BY LenProperties
<1>2. \A i \in DOMAIN store : store[i].token \in DOMAIN Scrips
    BY DEF TokensOf
<1>3. \A i \in DOMAIN store : store[i] \in Known
    BY <1>1, <1>2 DEF Known, LotIsZero
<1>4. store \in Seq(Known)
    BY <1>1, <1>3
<1>5. /\ ~ split.bad
      /\ split.out \in Seq(Seq(Known))
      /\ OutInv(split.out, store, Len(store))
    BY <1>4, SplitInv
<1> QED
    BY <1>5, RecordsOfGroups

\* The numbers of the collected trades increase, none is of an instrument without
\* a lot size, and the records of the last flush are as they should be.
StoreInOrder ==
    \A i \in 1 .. Len(tradeStore) : tradeStore[i].seq = i

\* WriteDataInFile divided by the lot size of every trade it collected.
NoZeroLot == \A i \in DOMAIN tradeStore : ~ LotIsZero(tradeStore[i])

\* The records of the last flush are about pieces of the run it found.
RecordsGood == records = <<>> \/ GoodRecords(records, flushed, Len(flushed))

\* The inductive invariant.
DetectorInv == TypeOK /\ StoreInOrder /\ NoZeroLot /\ RecordsGood /\ NeverCrashes

\* A collected trade is numbered next, and its lot size is not zero.
LEMMA TradeMessageInv ==
    ASSUME DetectorInv, NEW m \in Trades, TradeMessage(m, Len(tradeStore) + 1)
    PROVE  DetectorInv'
<1> DEFINE N == Len(tradeStore)
           a == NumberedTrade(m, N + 1)
<1>1. /\ TypeOK /\ StoreInOrder /\ NoZeroLot /\ ~ crashed
      /\ tradeStore \in Seq(Collected) /\ N \in Nat /\ DOMAIN tradeStore = 1 .. N
    BY LenProperties DEF DetectorInv, TypeOK, Collected, TradeMessage
<1>2. TypeOK'
    BY <1>1, TradeMessageType
<1>3. records' = <<>> /\ crashed' = crashed /\ ~ LotIsZero(m)
    BY DEF TradeMessage
<1>4. (StoreInOrder /\ NoZeroLot)'
  <2>1. CASE m.side = "none"
      BY <2>1, <1>1 DEF TradeMessage, StoreInOrder, NoZeroLot
  <2>2. CASE m.side # "none"
    <3>1. tradeStore' = Append(tradeStore, a)
        BY <2>2 DEF TradeMessage
    <3>2. a \in Collected /\ a.token = m.token /\ a.seq = N + 1
        BY <2>2, <1>1, NumberedTradeType DEF NumberedTrade
    <3> HIDE DEF a
    <3>3. /\ Len(tradeStore') = N + 1 /\ DOMAIN tradeStore' = 1 .. N + 1
          /\ tradeStore'[N + 1] = a /\ \A i \in 1 .. N : tradeStore'[i] = tradeStore[i]
        BY <3>1, <3>2, <1>1, AppendProperties, LenProperties
    <3>4. \A i \in 1 .. N + 1 : i = N + 1 \/ i \in 1 .. N
        BY <1>1
    <3>5. ~ LotIsZero(a)
        BY <3>2, <1>3 DEF LotIsZero
    <3>6. StoreInOrder'
        BY <3>2, <3>3, <3>4, <1>1 DEF StoreInOrder
    <3>7. NoZeroLot'
        BY <3>3, <3>4, <3>5, <1>1 DEF NoZeroLot
    <3> QED
        BY <3>6, <3>7
  <2> QED
      BY <2>1, <2>2
<1>5. RecordsGood' /\ NeverCrashes'
    BY <1>1, <1>3 DEF RecordsGood, NeverCrashes
<1> QED
    BY <1>2, <1>4, <1>5 DEF DetectorInv

\* What the detector looked at when it divided by zero is there to see.
LEMMA ZeroLotInv ==
    ASSUME DetectorInv, NEW m \in Trades, ZeroLot(m, Len(tradeStore) + 1)
    PROVE  DetectorInv'
<1> DEFINE N == Len(tradeStore)
           a == NumberedTrade(m, N + 1)
<1>1. /\ TypeOK /\ StoreInOrder /\ NoZeroLot
      /\ tradeStore \in Seq(Collected) /\ tradeStore \in Seq(Looked) /\ N \in Nat
    BY LenProperties, CollectedIsLooked DEF DetectorInv, TypeOK, Collected
<1>2. TypeOK'
    BY <1>1, ZeroLotType
<1>3. (StoreInOrder /\ NoZeroLot /\ RecordsGood)'
    BY <1>1 DEF ZeroLot, StoreInOrder, NoZeroLot, RecordsGood
<1>4. NeverCrashes'
  <2>1. a \in Looked /\ a.token = m.token
      BY <1>1, NumberedTradeType
  <2>2. flushed' = Append(tradeStore, a) /\ LotIsZero(m)
      BY DEF ZeroLot
  <2>3. LotIsZero(a)
      BY <2>1, <2>2 DEF LotIsZero
  <2> HIDE DEF a
  <2>4. N + 1 \in DOMAIN flushed' /\ flushed'[N + 1] = a
      BY <2>1, <2>2, <1>1, AppendProperties, LenProperties
  <2> QED
      BY <2>3, <2>4 DEF NeverCrashes
<1> QED
    BY <1>2, <1>3, <1>4 DEF DetectorInv

\* However a run ends, the pass over it reads no empty vector.
LEMMA EndOfRunInv ==
    ASSUME DetectorInv, EndOfRun
    PROVE  DetectorInv'
<1>1. /\ TypeOK /\ StoreInOrder /\ NoZeroLot /\ ~ crashed
      /\ tradeStore \in Seq(Collected) /\ tokenStore = TokensOf(tradeStore)
      /\ flushed' = tradeStore
    BY DEF DetectorInv, TypeOK, Collected, EndOfRun, DropRun, ReportRun, UnknownToken
<1>2. TypeOK'
    BY <1>1, EndOfRunType
<1>3. (StoreInOrder /\ NoZeroLot)'
  <2>1. CASE tradeStore' = <<>>
    <3>1. Len(<<>>) = 0 /\ DOMAIN <<>> = {}
        OBVIOUS
    <3> QED
        BY <2>1, <3>1 DEF StoreInOrder, NoZeroLot
  <2>2. CASE tradeStore' = tradeStore
      BY <2>2, <1>1 DEF StoreInOrder, NoZeroLot
  <2> QED
      BY <2>1, <2>2 DEF EndOfRun, DropRun, ReportRun, UnknownToken
<1>4. Increasing(tradeStore)
    BY <1>1, LenProperties DEF StoreInOrder, Increasing
<1>5. (RecordsGood /\ NeverCrashes)'
  <2>1. CASE DropRun
      BY <2>1, <1>1 DEF DropRun, RecordsGood, NeverCrashes
  <2>2. CASE UnknownToken
    <3>1. PICK i \in DOMAIN tradeStore : tradeStore[i].token \notin DOMAIN Scrips
        BY <2>2, <1>1 DEF UnknownToken, TokensOf
    <3> QED
        BY <3>1, <2>2, <1>1 DEF UnknownToken, RecordsGood, NeverCrashes
  <2>3. CASE ReportRun
    <3> DEFINE split == SplitTrade(tradeStore, tokenStore)
    <3>1. /\ TokensOf(tradeStore) \subseteq DOMAIN Scrips
          /\ ValidateTradeMsgRecords(tradeStore, TokensOf(tradeStore))
          /\ split = SplitTrade(tradeStore, TokensOf(tradeStore))
        BY <2>3, <1>1 DEF ReportRun
    <3>2. ~ split.bad => crashed' = crashed /\ records' = RecordsOf(split.out)
        BY <2>3 DEF ReportRun
    <3> HIDE DEF split
    <3>3. ~ split.bad /\ GoodRecords(RecordsOf(split.out), tradeStore, Len(tradeStore))
        BY <3>1, <1>1, <1>4, RunReported DEF NoZeroLot
    <3> QED
        BY <3>2, <3>3, <1>1 DEF RecordsGood, NeverCrashes
  <2> QED
      BY <2>1, <2>2, <2>3 DEF EndOfRun
<1> QED
    BY <1>2, <1>3, <1>5 DEF DetectorInv

\* The detector keeps its inductive invariant: the numbers of the collected trades
\* increase, each was divided by a lot size that is not zero, and the records of a
\* flush are pieces of the run it found (WriteDataInFile, SplitTrade).
THEOREM DetectorInvariant == Spec => []DetectorInv
<1>1. Init => DetectorInv
  <2> SUFFICES ASSUME Init PROVE DetectorInv
      OBVIOUS
  <2>1. TypeOK
      BY DetectorTypeInit
  <2>2. Len(<<>>) = 0 /\ DOMAIN <<>> = {}
      OBVIOUS
  <2> QED
      BY <2>1, <2>2 DEF Init, DetectorInv, StoreInOrder, NoZeroLot, RecordsGood, NeverCrashes
<1>2. DetectorInv /\ [Next]_vars => DetectorInv'
  <2> SUFFICES ASSUME DetectorInv, [Next]_vars PROVE DetectorInv'
      OBVIOUS
  <2>1. ASSUME NEW m \in Trades, TradeMessage(m, Len(tradeStore) + 1) PROVE DetectorInv'
      BY <2>1, TradeMessageInv
  <2>2. ASSUME NEW m \in Trades, ZeroLot(m, Len(tradeStore) + 1) PROVE DetectorInv'
      BY <2>2, ZeroLotInv
  <2>3. CASE EndOfRun
      BY <2>3, EndOfRunInv
  <2>4. CASE UNCHANGED vars
      BY <2>4 DEF vars, DetectorInv, TypeOK, StoreInOrder, NoZeroLot, RecordsGood, NeverCrashes
  <2> QED
      BY <2>1, <2>2, <2>3, <2>4 DEF Next
<1> QED
    BY <1>1, <1>2, PTL DEF Spec

\* Whatever the trades and however SplitTrade cuts them, SecondLevelOrderValidation
\* never empties the group it is called for: what ends the program is a token that
\* the contract file does not have, or an instrument without a lot size.
THEOREM DetectorNeverCrashes == Spec => []NeverCrashes
<1>1. DetectorInv => NeverCrashes
    BY DEF DetectorInv
<1> QED
    BY <1>1, DetectorInvariant, PTL

\* No trade counts in two records, and records come in the order of the feed, though
\* two places of SplitTrade put a group out without forgetting all about it.
THEOREM DetectorRecordsInOrder == Spec => []RecordsInOrder
<1>1. DetectorInv => RecordsInOrder
  <2> SUFFICES ASSUME DetectorInv PROVE RecordsInOrder
      OBVIOUS
  <2>1. CASE records = <<>>
    <3>1. DOMAIN records = {}
        BY <2>1
    <3> QED
        BY <3>1 DEF RecordsInOrder
  <2>2. CASE GoodRecords(records, flushed, Len(flushed))
      BY <2>2, GoodInOrder DEF RecordsInOrder
  <2> QED
      BY <2>1, <2>2 DEF DetectorInv, RecordsGood
<1> QED
    BY <1>1, DetectorInvariant, PTL

\* Every record is about three instruments of one expiry, traded in equal volumes,
\* though IsValidateConRev compares neither the tokens nor the expiries of
\* different legs.
THEOREM DetectorThreeLegsOneExpiry == Spec => []ThreeLegsOneExpiry
<1>1. DetectorInv => ThreeLegsOneExpiry
  <2> SUFFICES ASSUME DetectorInv PROVE ThreeLegsOneExpiry
      OBVIOUS
  <2>1. CASE records = <<>>
    <3>1. DOMAIN records = {}
        BY <2>1
    <3> QED
        BY <3>1 DEF ThreeLegsOneExpiry
  <2>2. CASE GoodRecords(records, flushed, Len(flushed))
      BY <2>2, GoodLegs DEF ThreeLegsOneExpiry
  <2> QED
      BY <2>1, <2>2 DEF DetectorInv, RecordsGood
<1> QED
    BY <1>1, DetectorInvariant, PTL

----------------------------------------------------------------------------
(* How much a leg trades in a prefix of a group *)

\* What a leg trades in a prefix of a group: it never falls, and grows with a
\* trade of the leg only.
LEMMA LegGrows ==
    ASSUME NEW g \in Seq(Known), NEW y \in Types, NEW a \in 0 .. Len(g), NEW b \in a .. Len(g)
    PROVE  LET q(n) == QtyByType(SubSeq(g, 1, n))[y]
           IN  /\ q(a) \in Nat /\ q(b) \in Nat /\ q(a) <= q(b)
               /\ (\E i \in a + 1 .. b : Type(g[i]) = y) => q(a) < q(b)
               /\ (\A i \in a + 1 .. b : Type(g[i]) # y) => q(a) = q(b)
<1> DEFINE q(n) == QtyByType(SubSeq(g, 1, n))[y]
           U == {j \in Nat : a + j <= Len(g) =>
                    /\ q(a) <= q(a + j)
                    /\ (\E i \in a + 1 .. a + j : Type(g[i]) = y) => q(a) < q(a + j)
                    /\ (\A i \in a + 1 .. a + j : Type(g[i]) # y) => q(a) = q(a + j)}
<1>1. Len(g) \in Nat
    BY LenProperties
<1>2. ASSUME NEW n \in 0 .. Len(g) PROVE q(n) \in Nat
  <2>1. SubSeq(g, 1, n) \in Seq(Known)
      BY Prefix
  <2> QED
      BY <2>1, QtyType
<1>3. ASSUME NEW n \in Nat, n + 1 <= Len(g)
      PROVE  q(n + 1) = IF Type(g[n + 1]) = y THEN q(n) + g[n + 1].qty ELSE q(n)
  <2> DEFINE h == SubSeq(g, 1, n)
             m == g[n + 1]
  <2>1. n \in 0 .. Len(g) /\ n < Len(g)
      BY <1>1, <1>3
  <2>2. h \in Seq(Known) /\ m \in Known /\ SubSeq(g, 1, n + 1) = Append(h, m)
      BY <2>1, Prefix
  <2> HIDE DEF h, m
  <2>3. QtyByType(Append(h, m)) = [QtyByType(h) EXCEPT ![Type(m)] = @ + m.qty]
      BY <2>2, QtyOneMore
  <2>4. QtyByType(h) \in [Types -> Nat]
      BY <2>2, QtyType
  <2>5. QtyByType(Append(h, m))[y] = IF Type(m) = y THEN QtyByType(h)[y] + m.qty ELSE QtyByType(h)[y]
      BY <2>3, <2>4
  <2> QED
      BY <2>2, <2>5 DEF h, m
<1>4. \A n \in 1 .. Len(g) : g[n].qty \in Nat \ {0}
    BY LenProperties, KnownTrade
<1> HIDE DEF q
<1>5. 0 \in U
    BY <1>2
<1>6. ASSUME NEW j \in Nat, j \in U PROVE j + 1 \in U
  <2> SUFFICES ASSUME a + (j + 1) <= Len(g)
               PROVE  /\ q(a) <= q(a + (j + 1))
                      /\ (\E i \in a + 1 .. a + (j + 1) : Type(g[i]) = y) => q(a) < q(a + (j + 1))
                      /\ (\A i \in a + 1 .. a + (j + 1) : Type(g[i]) # y) => q(a) = q(a + (j + 1))
      OBVIOUS
  <2> DEFINE n == a + j
  <2>1. n \in Nat /\ n + 1 <= Len(g) /\ n <= Len(g) /\ a + (j + 1) = n + 1
        /\ n \in 0 .. Len(g) /\ n + 1 \in 1 .. Len(g) /\ n + 1 \in 0 .. Len(g)
      BY <1>1
  <2>2. /\ q(a) <= q(n)
        /\ (\E i \in a + 1 .. n : Type(g[i]) = y) => q(a) < q(n)
        /\ (\A i \in a + 1 .. n : Type(g[i]) # y) => q(a) = q(n)
      BY <1>6, <2>1
  <2>3. q(n + 1) = IF Type(g[n + 1]) = y THEN q(n) + g[n + 1].qty ELSE q(n)
      BY <1>3, <2>1
  <2>4. q(a) \in Nat /\ q(n) \in Nat /\ g[n + 1].qty \in Nat \ {0} /\ q(n + 1) \in Nat
      BY <1>2, <1>4, <2>1
  <2>5. \A i \in a + 1 .. n + 1 : i \in a + 1 .. n \/ i = n + 1
      BY <1>1, <2>1
  <2>6. n + 1 \in a + 1 .. n + 1 /\ \A i \in a + 1 .. n : i \in a + 1 .. n + 1
      BY <1>1, <2>1
  <2> HIDE DEF n
  <2>7. CASE Type(g[n + 1]) = y
      BY <2>1, <2>2, <2>3, <2>4, <2>6, <2>7
  <2>8. CASE Type(g[n + 1]) # y
    <3>1. q(n + 1) = q(n)
        BY <2>3, <2>8
    <3>2. (\E i \in a + 1 .. n + 1 : Type(g[i]) = y) => \E i \in a + 1 .. n : Type(g[i]) = y
        BY <2>5, <2>8
    <3>3. (\A i \in a + 1 .. n + 1 : Type(g[i]) # y) => \A i \in a + 1 .. n : Type(g[i]) # y
        BY <2>6
    <3> QED
        BY <3>1, <3>2, <3>3, <2>1, <2>2
  <2> QED
      BY <2>7, <2>8
<1> DEFINE k == b - a
<1>7. k \in Nat /\ a + k = b /\ b <= Len(g) /\ b \in 0 .. Len(g)
    BY <1>1
<1> HIDE DEF k
<1>8. k \in U
  <2> HIDE DEF U
  <2> QED
      BY <1>5, <1>6, <1>7, NatSetInduction
<1>9. q(a) \in Nat /\ q(b) \in Nat
    BY <1>2, <1>7
<1>10. /\ q(a) <= q(b)
       /\ (\E i \in a + 1 .. b : Type(g[i]) = y) => q(a) < q(b)
       /\ (\A i \in a + 1 .. b : Type(g[i]) # y) => q(a) = q(b)
    BY <1>7, <1>8
<1> QED
    BY <1>9, <1>10 DEF q

\* A leg without another trade in it, cut out of a group, is as much as the leg
\* grows by it.
LEMMA LegPiece ==
    ASSUME NEW g \in Seq(Known), NEW y \in Types, NEW lo \in 1 .. Len(g), NEW hi \in lo .. Len(g),
           \A i \in lo .. hi : Type(g[i]) = y
    PROVE  QtySum(SubSeq(g, lo, hi)) + QtyByType(SubSeq(g, 1, lo - 1))[y]
               = QtyByType(SubSeq(g, 1, hi))[y]
<1> DEFINE q(n) == QtyByType(SubSeq(g, 1, n))[y]
           c(n) == QtySum(SubSeq(g, lo, n))
           U == {j \in Nat : lo - 1 + j <= hi => c(lo - 1 + j) + q(lo - 1) = q(lo - 1 + j)}
<1>1. Len(g) \in Nat /\ lo \in Nat /\ hi \in Nat /\ lo <= hi /\ hi <= Len(g) /\ lo - 1 \in 0 .. Len(g)
      /\ \A i \in 1 .. Len(g) : g[i] \in Known
    BY LenProperties
<1>2. q(lo - 1) \in Nat
  <2>1. SubSeq(g, 1, lo - 1) \in Seq(Known)
      BY <1>1, Prefix
  <2> QED
      BY <2>1, QtyType
<1>3. c(lo - 1) = 0
  <2>1. SubSeq(g, lo, lo - 1) = <<>>
      BY <1>1
  <2> QED
      BY <2>1, SumEmpty
<1>4. ASSUME NEW n \in Nat, lo - 1 <= n, n + 1 <= hi
      PROVE  /\ q(n + 1) = q(n) + g[n + 1].qty
             /\ c(n + 1) = c(n) + g[n + 1].qty
             /\ q(n) \in Nat /\ c(n) \in Nat /\ g[n + 1].qty \in Nat
  <2> DEFINE h == SubSeq(g, 1, n)
             m == g[n + 1]
             e == SubSeq(g, lo, n)
  <2>1. n \in 0 .. Len(g) /\ n < Len(g) /\ n + 1 \in lo .. hi /\ n + 1 \in 1 .. Len(g)
      BY <1>1, <1>4
  <2>2. h \in Seq(Known) /\ m \in Known /\ SubSeq(g, 1, n + 1) = Append(h, m)
      BY <2>1, Prefix
  <2>3. e \in Seq(Known) /\ SubSeq(g, lo, n + 1) = Append(e, m)
    <3>1. Len(e) = n - lo + 1 /\ e = [i \in 1 .. n - lo + 1 |-> g[lo + i - 1]]
        BY <1>1, <2>1
    <3>2. e \in Seq(Known)
      <4>1. \A i \in 1 .. n - lo + 1 : lo + i - 1 \in 1 .. Len(g)
          BY <1>1, <2>1
      <4>2. n - lo + 1 \in Nat
          BY <1>1, <1>4
      <4>3. \A i \in 1 .. n - lo + 1 : g[lo + i - 1] \in Known
          BY <4>1, <1>1
      <4> QED
          BY <4>2, <4>3, <3>1, IsASeq
    <3>3. SubSeq(g, lo, n + 1) = Append(e, m)
        BY <1>1, <2>1
    <3> QED
        BY <3>2, <3>3
  <2>4. Type(m) = y
      BY <2>1
  <2> HIDE DEF h, m, e
  <2>5. QtyByType(Append(h, m)) = [QtyByType(h) EXCEPT ![Type(m)] = @ + m.qty]
        /\ QtyByType(h) \in [Types -> Nat]
      BY <2>2, QtyOneMore, QtyType
  <2>6. QtyByType(Append(h, m))[y] = QtyByType(h)[y] + m.qty
      BY <2>4, <2>5
  <2>7. QtySum(Append(e, m)) = QtySum(e) + m.qty
      BY <2>2, <2>3, SumOneMore
  <2>8. QtySum(e) \in Nat /\ m.qty \in Nat
    <3>1. \A t \in Known : t.qty \in Nat
        BY KnownTrade
    <3> QED
        BY <3>1, <2>2, <2>3, SumType
  <2> QED
      BY <2>2, <2>3, <2>5, <2>6, <2>7, <2>8 DEF h, m, e
<1> HIDE DEF q, c
<1>5. 0 \in U
    BY <1>1, <1>2, <1>3
<1>6. ASSUME NEW j \in Nat, j \in U PROVE j + 1 \in U
  <2> DEFINE n == lo - 1 + j
  <2> SUFFICES ASSUME lo - 1 + (j + 1) <= hi
               PROVE  c(lo - 1 + (j + 1)) + q(lo - 1) = q(lo - 1 + (j + 1))
      OBVIOUS
  <2>1. n \in Nat /\ lo - 1 <= n /\ n + 1 <= hi /\ lo - 1 + (j + 1) = n + 1
      BY <1>1
  <2>2. c(n) + q(lo - 1) = q(n)
      BY <1>6, <2>1, <1>1
  <2> HIDE DEF n
  <2>3. /\ q(n + 1) = q(n) + g[n + 1].qty /\ c(n + 1) = c(n) + g[n + 1].qty
        /\ q(n) \in Nat /\ c(n) \in Nat /\ g[n + 1].qty \in Nat
      BY <2>1, <1>4
  <2>4. c(n + 1) + q(lo - 1) = q(n + 1)
      BY <2>2, <2>3, <1>2
  <2> QED
      BY <2>1, <2>4
<1> DEFINE k == hi - (lo - 1)
<1>7. k \in Nat /\ lo - 1 + k = hi
    BY <1>1
<1> HIDE DEF k
<1>8. k \in U
  <2> HIDE DEF U
  <2> QED
      BY <1>5, <1>6, <1>7, NatSetInduction
<1> QED
    BY <1>7, <1>8, <1>1 DEF q, c

----------------------------------------------------------------------------
(* An order of which the last leg is not filled *)

\* Where the second and the third leg of a group begin, as GetMiddleQty finds them.
LEMMA LegStarts ==
    ASSUME NEW g \in Seq(Known), \A y \in Types : \E i \in 1 .. Len(g) : Type(g[i]) = y
    PROVE  \E second \in 2 .. Len(g), third \in 3 .. Len(g) :
              /\ second < third
              /\ second = Min({i \in DOMAIN g : Type(g[i]) # Type(g[1])})
              /\ third = Min({i \in DOMAIN g : Type(g[i]) \notin {Type(g[1]), Type(g[second])}})
              /\ Type(g[second]) # Type(g[1])
              /\ \A i \in 1 .. second - 1 : Type(g[i]) = Type(g[1])
              /\ Type(g[third]) \notin {Type(g[1]), Type(g[second])}
              /\ \A i \in 1 .. third - 1 : Type(g[i]) \in {Type(g[1]), Type(g[second])}
<1> DEFINE N == Len(g)
           F2 == {i \in DOMAIN g : Type(g[i]) # Type(g[1])}
           second == Min(F2)
           F3 == {i \in DOMAIN g : Type(g[i]) \notin {Type(g[1]), Type(g[second])}}
           third == Min(F3)
<1>1. N \in Nat /\ DOMAIN g = 1 .. N
    BY LenProperties
<1>2. PICK f \in 1 .. N, c \in 1 .. N, p \in 1 .. N :
          Type(g[f]) = 1 /\ Type(g[c]) = 2 /\ Type(g[p]) = 3
    BY DEF Types, FUT, CALL, PUT
<1>3. F2 # {} /\ F2 \subseteq Nat
    BY <1>1, <1>2
<1>4. \A i \in 1 .. N : Type(g[i]) # Type(g[1]) <=> i \in F2
    BY <1>1
<1>5. \A i \in F2 : i \in 1 .. N
    BY <1>1
<1>6. second \in F2 /\ \A i \in F2 : second <= i
  <2> HIDE DEF F2
  <2> QED
      BY <1>3, LeastOf
<1> HIDE DEF F2, second
<1>7. /\ second \in 2 .. N /\ Type(g[second]) # Type(g[1])
      /\ \A i \in 1 .. second - 1 : Type(g[i]) = Type(g[1])
  <2>1. second \in 1 .. N /\ Type(g[second]) # Type(g[1])
      BY <1>4, <1>5, <1>6
  <2>2. second \in 2 .. N
      BY <2>1, <1>1
  <2>3. ASSUME NEW i \in 1 .. second - 1 PROVE Type(g[i]) = Type(g[1])
    <3>1. i \in 1 .. N /\ ~ (second <= i)
        BY <2>2, <1>1
    <3> QED
        BY <3>1, <1>4, <1>6
  <2> QED
      BY <2>1, <2>2, <2>3
<1>8. F3 # {} /\ F3 \subseteq Nat
    BY <1>1, <1>2
<1>9. \A i \in 1 .. N : Type(g[i]) \notin {Type(g[1]), Type(g[second])} <=> i \in F3
    BY <1>1
<1>10. \A i \in F3 : i \in 1 .. N
    BY <1>1
<1>11. third \in F3 /\ \A i \in F3 : third <= i
  <2> HIDE DEF F3
  <2> QED
      BY <1>8, LeastOf
<1> HIDE DEF F3, third
<1>12. /\ third \in second + 1 .. N /\ Type(g[third]) \notin {Type(g[1]), Type(g[second])}
       /\ \A i \in 1 .. third - 1 : Type(g[i]) \in {Type(g[1]), Type(g[second])}
  <2>1. third \in 1 .. N /\ Type(g[third]) \notin {Type(g[1]), Type(g[second])}
      BY <1>9, <1>10, <1>11
  <2>2. ~ (third < second) /\ third # second
    <3>1. third < second => third \in 1 .. second - 1
        BY <2>1, <1>7
    <3> QED
        BY <3>1, <2>1, <1>7
  <2>3. third \in second + 1 .. N
      BY <2>1, <2>2, <1>1, <1>7
  <2>4. ASSUME NEW i \in 1 .. third - 1 PROVE Type(g[i]) \in {Type(g[1]), Type(g[second])}
    <3>1. i \in 1 .. N /\ ~ (third <= i)
        BY <2>1, <1>1
    <3> QED
        BY <3>1, <1>9, <1>11
  <2> QED
      BY <2>1, <2>3, <2>4
<1>13. second \in 2 .. N /\ third \in 3 .. N /\ second < third
    BY <1>1, <1>7, <1>12
<1> QED
    BY <1>7, <1>12, <1>13 DEF second, third, F2, F3

\* No leg of a group comes back after another one.
Contiguous(g) ==
    \A i, j \in 1 .. Len(g) : Type(g[i]) = Type(g[j]) => \A k \in i .. j : Type(g[k]) = Type(g[i])

\* As long as the last leg of an order is not filled, what is collected of the
\* order is neither balanced nor does it hold a group around its middle leg.
LEMMA NotYet ==
    ASSUME NEW o \in Seq(Known), Contiguous(o), Balanced(QtyByType(o)),
           NEW p \in 1 .. Len(o) - 1, TypesOf(SubSeq(o, 1, p)) = Types
    PROVE  ~ Balanced(QtyByType(SubSeq(o, 1, p))) /\ MiddleGroup(SubSeq(o, 1, p)) = <<>>
<1> DEFINE N == Len(o)
           h == SubSeq(o, 1, p)
           y == Type(o[p])
<1>1. /\ N \in Nat /\ p \in 1 .. N /\ p + 1 \in 1 .. N /\ \A i \in 1 .. N : o[i] \in Known
    BY LenProperties
<1>2. h \in Seq(Known) /\ Len(h) = p /\ \A i \in 1 .. p : h[i] = o[i]
    BY <1>1, Prefix
<1>15. TypesOf(h) = Types
    OBVIOUS
<1> HIDE DEF h
<1>3. DOMAIN h = 1 .. p
    BY <1>2, LenProperties
<1>4. \A z \in Types : \E i \in 1 .. p : Type(o[i]) = z
    BY <1>2, <1>3, <1>15 DEF TypesOf
<1>5. y \in Types
    BY <1>1, KnownTrade
<1> HIDE DEF N, y
<1>6. ASSUME NEW j \in p + 1 .. N PROVE Type(o[j]) = y
  <2>1. j \in 1 .. N
      BY <1>1
  <2>2. Type(o[j]) \in Types
      BY <1>1, <2>1, KnownTrade
  <2>3. PICK i \in 1 .. p : Type(o[i]) = Type(o[j])
      BY <1>4, <2>2
  <2>4. i \in 1 .. N /\ p \in i .. j
      BY <1>1
  <2> QED
      BY <2>1, <2>3, <2>4 DEF Contiguous, N, y
<1>7. SubSeq(o, 1, N) = o
    BY <1>1 DEF N
<1>8. /\ \A z \in Types : QtyByType(h)[z] \in Nat /\ QtyByType(o)[z] \in Nat
      /\ \A z \in Types : z # y => QtyByType(h)[z] = QtyByType(o)[z]
      /\ QtyByType(h)[y] < QtyByType(o)[y]
  <2>1. p \in 0 .. N /\ N \in p .. N /\ p + 1 \in p + 1 .. N
      BY <1>1
  <2>2. ASSUME NEW z \in Types
        PROVE  /\ QtyByType(h)[z] \in Nat /\ QtyByType(o)[z] \in Nat
               /\ (\E i \in p + 1 .. N : Type(o[i]) = z) => QtyByType(h)[z] < QtyByType(o)[z]
               /\ (\A i \in p + 1 .. N : Type(o[i]) # z) => QtyByType(h)[z] = QtyByType(o)[z]
      BY <2>1, <1>7, LegGrows DEF N, h
  <2>3. \A z \in Types : z # y => \A i \in p + 1 .. N : Type(o[i]) # z
      BY <1>6
  <2>4. Type(o[p + 1]) = y
      BY <1>6, <2>1
  <2> QED
      BY <2>1, <2>2, <2>3, <2>4, <1>5
<1>9. \A z \in Types : QtyByType(o)[z] = QtyByType(o)[y]
    BY <1>5 DEF Balanced, Types
<1>10. \A z \in Types : z # y => QtyByType(h)[y] < QtyByType(h)[z]
    BY <1>5, <1>8, <1>9
<1>11. ~ Balanced(QtyByType(h))
  <2>1. \E z \in Types : z # y
      BY DEF Types, FUT, CALL, PUT
  <2>2. Balanced(QtyByType(h)) => \A z \in Types : QtyByType(h)[z] = QtyByType(h)[y]
      BY <1>5 DEF Balanced, Types
  <2> QED
      BY <2>1, <2>2, <1>5, <1>8, <1>10
<1>12. MiddleGroup(h) = <<>>
  <2>1. \A z \in Types : \E i \in 1 .. Len(h) : Type(h[i]) = z
      BY <1>2, <1>4
  <2>2. PICK second \in 2 .. Len(h), third \in 3 .. Len(h) :
              /\ second < third
              /\ second = Min({i \in DOMAIN h : Type(h[i]) # Type(h[1])})
              /\ third = Min({i \in DOMAIN h : Type(h[i]) \notin {Type(h[1]), Type(h[second])}})
              /\ Type(h[second]) # Type(h[1])
              /\ \A i \in 1 .. second - 1 : Type(h[i]) = Type(h[1])
              /\ Type(h[third]) \notin {Type(h[1]), Type(h[second])}
              /\ \A i \in 1 .. third - 1 : Type(h[i]) \in {Type(h[1]), Type(h[second])}
      BY <1>2, <2>1, LegStarts
  <2>3. /\ second \in 1 .. p /\ third \in 1 .. p /\ 1 \in 1 .. p /\ second < third
        /\ third - 1 \in 1 .. p /\ p \in 1 .. p
    <3>1. second \in 2 .. p /\ third \in 3 .. p /\ second < third /\ p \in Nat
        BY <1>1, <1>2, <2>2
    <3> QED
        BY <3>1
  <2>4. \A i, j \in 1 .. p : Type(h[i]) = Type(h[j]) => \A k \in i .. j : Type(h[k]) = Type(h[i])
    <3> SUFFICES ASSUME NEW i \in 1 .. p, NEW j \in 1 .. p, Type(h[i]) = Type(h[j]), NEW k \in i .. j
                 PROVE  Type(h[k]) = Type(h[i])
        OBVIOUS
    <3>1. k \in 1 .. p /\ i \in 1 .. N /\ j \in 1 .. N
        BY <1>1
    <3> QED
        BY <3>1, <1>2 DEF Contiguous, N
  <2> DEFINE a == Type(h[1])
             b == Type(h[second])
             c == Type(h[third])
             e == Type(h[third - 1])
  <2>20. /\ b # a /\ c # a /\ c # b
         /\ \A i \in 1 .. second - 1 : Type(h[i]) = a
         /\ \A i \in 1 .. third - 1 : Type(h[i]) \in {a, b}
      BY <2>2
  <2>5. Type(h[p]) = y
      BY <1>2, <2>3 DEF y
  <2>6. y # a /\ y # b
    <3>1. second \in 1 .. p /\ third \in second .. p
        BY <2>3
    <3>2. y = a => b = a
        BY <3>1, <2>3, <2>4, <2>5
    <3>3. y = b => c = b
        BY <3>1, <2>3, <2>4, <2>5
    <3> QED
        BY <3>2, <3>3, <2>20
  <2>7. a \in Types /\ b \in Types /\ c \in Types
    <3>1. h[1] \in Known /\ h[second] \in Known /\ h[third] \in Known
        BY <1>2, <2>3
    <3> QED
        BY <3>1, KnownTrade
  <2>8. c = y
      BY <2>20, <2>6, <2>7, <1>5 DEF Types
  <2>9. \A i \in third .. p : Type(h[i]) = y
      BY <2>3, <2>4, <2>5, <2>8
  <2>10. e = b
    <3>1. e \in {a, b}
      <4>1. third - 1 \in 1 .. third - 1
          BY <2>3
      <4> QED
          BY <4>1, <2>20
    <3>2. second \in 1 .. third - 1
        BY <2>3
    <3>3. e = a => b = a
        BY <2>3, <2>4, <3>2
    <3> QED
        BY <3>1, <3>3, <2>20
  <2> HIDE DEF a, b, c, e
  <2>11. SubSeq(h, 1, p) = h
    <3>1. SubSeq(h, 1, Len(h)) = h
        BY <1>2
    <3> QED
        BY <3>1, <1>2
  <2> DEFINE q == QtySum(OfType(SubSeq(h, 1, third - 1), Type(h[third - 1])))
             to == {r \in third .. Len(h) : QtySum(SubSeq(h, third, r)) = q}
  <2>12. q = QtyByType(h)[b]
    <3>1. q = QtyByType(SubSeq(h, 1, third - 1))[b]
        BY <2>7, <2>10 DEF QtyByType, e
    <3>2. \A i \in (third - 1) + 1 .. p : Type(h[i]) # b
        BY <2>6, <2>9, <2>3
    <3>3. third - 1 \in 0 .. Len(h) /\ p \in third - 1 .. Len(h)
        BY <1>2, <2>3
    <3>4. QtyByType(SubSeq(h, 1, third - 1))[b] = QtyByType(SubSeq(h, 1, p))[b]
        BY <1>2, <2>7, <3>2, <3>3, LegGrows
    <3> QED
        BY <3>1, <3>4, <2>11
  <2> HIDE DEF q
  <2>13. ASSUME NEW r \in third .. Len(h) PROVE QtySum(SubSeq(h, third, r)) # q
    <3>1. r \in 1 .. p /\ r \in 0 .. Len(h) /\ Len(h) \in r .. Len(h) /\ third \in 1 .. Len(h)
          /\ \A i \in third .. r : i \in third .. p
        BY <1>2, <2>3
    <3>2. \A i \in third .. r : Type(h[i]) = y
        BY <3>1, <2>9
    <3>3. QtySum(SubSeq(h, third, r)) + QtyByType(SubSeq(h, 1, third - 1))[y]
              = QtyByType(SubSeq(h, 1, r))[y]
        BY <1>2, <1>5, <3>1, <3>2, LegPiece
    <3>9. SubSeq(h, 1, Len(h)) = h
        BY <1>2, <2>11
    <3>4. QtyByType(SubSeq(h, 1, r))[y] \in Nat /\ QtyByType(SubSeq(h, 1, r))[y] <= QtyByType(h)[y]
        BY <1>2, <1>5, <3>1, <2>11, <3>9, LegGrows
    <3>5. third - 1 \in 0 .. Len(h) /\ Len(h) \in third - 1 .. Len(h)
        BY <1>2, <2>3
    <3>6. QtyByType(SubSeq(h, 1, third - 1))[y] \in Nat
        BY <1>2, <1>5, <3>5, LegGrows
    <3>7. QtyByType(h)[y] < QtyByType(h)[b] /\ QtyByType(h)[b] \in Nat /\ QtyByType(h)[y] \in Nat
        BY <1>5, <1>8, <1>10, <2>6, <2>7
    <3>8. QtySum(SubSeq(h, third, r)) \in Int
      <4>1. \A m \in Known : m.qty \in Nat
          BY KnownTrade
      <4>2. SubSeq(h, third, r) \in Seq(Known)
        <5>1. \A i \in third .. r : h[i] \in Known
          <6>1. \A i \in third .. r : i \in 1 .. Len(h)
              BY <3>1
          <6> QED
              BY <6>1, <1>2
        <5>2. third \in Int /\ r \in Int
            BY <3>1
        <5> QED
            BY <5>1, <5>2, SubSeqProperties
      <4> DEFINE w == SubSeq(h, third, r)
      <4>3. w \in Seq(Known)
          BY <4>2
      <4> HIDE DEF w
      <4>4. QtySum(w) \in Nat
          BY <4>1, <4>3, SumType
      <4> QED
          BY <4>4 DEF w
    <3> QED
        BY <3>3, <3>4, <3>6, <3>7, <3>8, <2>12
  <2>14. to = {}
      BY <2>13
  <2> DEFINE F2 == {i \in DOMAIN h : Type(h[i]) # Type(h[1])}
             F3 == {i \in DOMAIN h : Type(h[i]) \notin {Type(h[1]), Type(h[Min(F2)])}}
  <2>15. Min(F2) = second /\ Min(F3) = third
      BY <2>2
  <2> HIDE DEF F2, F3
  <2>16. third \in Int
      BY <2>3
  <2> DEFINE mid == LET s == Min(F2)
                        t == Min(F3)
                    IN  {r \in t .. Len(h) : QtySum(SubSeq(h, t, r)) =
                             QtySum(OfType(SubSeq(h, 1, t - 1), Type(h[t - 1])))}
  <2>17. mid = {}
      BY <2>14, <2>15 DEF q
  <2> QED
      BY <2>17 DEF MiddleGroup, F2, F3
<1> QED
    BY <1>11, <1>12 DEF h

----------------------------------------------------------------------------
(* Trades of one contract: an order as it is filled *)

\* All trades are in one contract: one expiry, one strike, an instrument a leg.
InContract(g, expiry, strike) ==
    /\ \A i \in 1 .. Len(g) :
          Expiry(g[i]) = expiry /\ (Type(g[i]) # FUT => Strike(g[i]) = strike)
    /\ \A i, j \in 1 .. Len(g) : Type(g[i]) = Type(g[j]) => g[i].token = g[j].token

\* In one contract three tokens are three legs.
LEMMA LegsAreTokens ==
    ASSUME NEW g \in Seq(Known), NEW expiry, NEW strike, InContract(g, expiry, strike)
    PROVE  Cardinality(TokensOf(g)) = 3 <=> TypesOf(g) = Types
<1>1. Len(g) \in Nat /\ DOMAIN g = 1 .. Len(g) /\ \A i \in 1 .. Len(g) : g[i] \in Known
    BY LenProperties
<1>2. \A i \in 1 .. Len(g) : Type(g[i]) \in {1, 2, 3}
    BY <1>1, KnownTrade DEF Types, FUT, CALL, PUT
<1>3. TypesOf(g) \subseteq Types
    BY <1>1, <1>2 DEF TypesOf, Types, FUT, CALL, PUT
<1> DEFINE tok(y) == CHOOSE t : \E i \in 1 .. Len(g) : Type(g[i]) = y /\ t = g[i].token
<1>4. ASSUME NEW i \in 1 .. Len(g) PROVE g[i].token = tok(Type(g[i]))
    BY DEF InContract
<1> HIDE DEF tok
<1>5. ASSUME TypesOf(g) = Types PROVE Cardinality(TokensOf(g)) = 3
  <2>1. PICK f \in 1 .. Len(g), c \in 1 .. Len(g), p \in 1 .. Len(g) :
            Type(g[f]) = 1 /\ Type(g[c]) = 2 /\ Type(g[p]) = 3
    <3>1. 1 \in TypesOf(g) /\ 2 \in TypesOf(g) /\ 3 \in TypesOf(g)
        BY <1>5 DEF Types, FUT, CALL, PUT
    <3> QED
        BY <3>1, <1>1 DEF TypesOf
  <2>2. g[f].token # g[c].token /\ g[c].token # g[p].token /\ g[f].token # g[p].token
      BY <2>1 DEF Type
  <2>3. g[f].token = tok(1) /\ g[c].token = tok(2) /\ g[p].token = tok(3)
      BY <2>1, <1>4
  <2>4. TokensOf(g) = {tok(1), tok(2), tok(3)}
      BY <1>1, <1>2, <1>4, <2>3 DEF TokensOf
  <2>5. tok(1) # tok(2) /\ tok(2) # tok(3) /\ tok(1) # tok(3)
      BY <2>2, <2>3
  <2>6. Cardinality({tok(1), tok(2), tok(3)}) = 3
      BY <2>5, ThreeIsThree
  <2> QED
      BY <2>4, <2>6
<1>6. ASSUME Cardinality(TokensOf(g)) = 3, TypesOf(g) # Types PROVE FALSE
  <2>1. PICK y \in Types : y \notin TypesOf(g)
      BY <1>3, <1>6
  <2>2. PICK a \in Types, b \in Types : Types = {y, a, b}
      BY <2>1 DEF Types
  <2>3. \A i \in 1 .. Len(g) : Type(g[i]) \in {a, b}
      BY <1>1, <1>2, <2>1, <2>2 DEF TypesOf, Types, FUT, CALL, PUT
  <2> DEFINE V == {tok(a)} \cup {tok(b)}
  <2>4. TokensOf(g) \subseteq V
      BY <1>1, <1>4, <2>3 DEF TokensOf
  <2>5. IsFiniteSet({tok(a)}) /\ Cardinality({tok(a)}) = 1
        /\ IsFiniteSet({tok(b)}) /\ Cardinality({tok(b)}) = 1
      BY FS_Singleton
  <2>6. IsFiniteSet(V) /\ Cardinality(V) <= 2 /\ Cardinality(V) \in Nat
    <3>1. /\ IsFiniteSet(V)
          /\ Cardinality(V) = Cardinality({tok(a)}) + Cardinality({tok(b)})
                                  - Cardinality({tok(a)} \cap {tok(b)})
        BY <2>5, FS_Union
    <3>2. Cardinality({tok(a)} \cap {tok(b)}) \in Nat
      <4>1. IsFiniteSet({tok(a)} \cap {tok(b)})
          BY <2>5, FS_Intersection
      <4> QED
          BY <4>1, FS_CardinalityType
    <3>3. Cardinality(V) \in Nat
        BY <3>1, FS_CardinalityType
    <3> QED
        BY <3>1, <3>2, <3>3, <2>5
  <2> HIDE DEF V
  <2>7. Cardinality(TokensOf(g)) <= Cardinality(V)
      BY <2>4, <2>6, FS_Subset
  <2> QED
      BY <1>6, <2>6, <2>7
<1> QED
    BY <1>5, <1>6

\* The details while orders in one contract are filled: the legs seen are those of
\* the order, or all of them while a leg of the order before is remembered.
LegDetails(d, g, strike) ==
    /\ d.last = IF g = <<>> THEN 0 ELSE Type(Last(g))
    /\ d.strike \in {0, strike}
    /\ \/ d.seen = TypesOf(g)
       \/ d.seen = Types /\ \A i, j \in 1 .. Len(g) : Type(g[i]) = Type(g[j])

FillInv(s, expiry, strike) ==
    s.d.expiry \in {0, expiry} /\ LegDetails(s.d, s.grp, strike)

\* The types of a group with one trade more.
LEMMA OneMoreType ==
    ASSUME NEW g \in Seq(Known), NEW m \in Known
    PROVE  TypesOf(Append(g, m)) = TypesOf(g) \cup {Type(m)}
<1>1. /\ Len(g) \in Nat /\ DOMAIN g = 1 .. Len(g) /\ DOMAIN Append(g, m) = 1 .. Len(g) + 1
      /\ Append(g, m)[Len(g) + 1] = m /\ \A i \in 1 .. Len(g) : Append(g, m)[i] = g[i]
    BY AppendProperties, LenProperties
<1> DEFINE h == Append(g, m)
           N == Len(g)
<1> HIDE DEF h
<1>2. \A i \in 1 .. N + 1 : i \in 1 .. N \/ i = N + 1
    BY <1>1
<1>3. \A i \in 1 .. N : i \in 1 .. N + 1
    BY <1>1
<1>4. N + 1 \in 1 .. N + 1
    BY <1>1
<1> DEFINE A == {Type(h[i]) : i \in 1 .. N + 1}
           B == {Type(g[i]) : i \in 1 .. N}
<1>5. /\ \A i \in 1 .. N + 1 : h[i] = IF i = N + 1 THEN m ELSE g[i]
    BY <1>1, <1>2 DEF h
<1>6. A \subseteq B \cup {Type(m)}
    BY <1>2, <1>5
<1>7. B \subseteq A /\ Type(m) \in A
  <2>1. \A i \in 1 .. N : h[i] = g[i]
      BY <1>1 DEF h
  <2>2. h[N + 1] = m
      BY <1>1 DEF h
  <2> QED
      BY <2>1, <2>2, <1>3, <1>4
<1>8. A = B \cup {Type(m)}
    BY <1>6, <1>7
<1> QED
    BY <1>1, <1>8 DEF TypesOf, h

\* Nothing is given up while trades of one contract come.
LEMMA FillDropsNone ==
    ASSUME NEW s, NEW expiry, NEW strike, FillInv(s, expiry, strike), NEW m \in Known,
           Expiry(m) = expiry, Type(m) # FUT => Strike(m) = strike
    PROVE  DropOthers(s, m) = s
BY DEF DropOthers, FillInv, LegDetails

\* The fields that AddTrade sets.
LEMMA AddTradeFields ==
    ASSUME NEW m \in Known, NEW s, NEW g, NEW d \in Details, NEW out, NEW bad,
           s = [grp |-> g, d |-> d, out |-> out, bad |-> bad]
    PROVE  LET u == AddTrade(s, m)
           IN  /\ u.grp = g /\ u.out = out
               /\ u.d.last = Type(m) /\ u.d.expiry = Expiry(m)
               /\ u.d.strike = IF Type(m) = FUT THEN d.strike ELSE Strike(m)
               /\ u.d.seen = d.seen \cup {Type(m)}
<1> DEFINE u == AddTrade(s, m)
           y == Type(m)
           e == [d EXCEPT !.seen = @ \cup {y}, !.expiry = Expiry(m),
                          !.strike = IF y = FUT THEN @ ELSE Strike(m),
                          !.last = y, !.qty[y] = @ + m.qty]
<1>1. s.d = d
    OBVIOUS
<1>2. u = [s EXCEPT !.d = e]
    BY <1>1 DEF AddTrade
<1>3. /\ e.last = y /\ e.expiry = Expiry(m) /\ e.seen = d.seen \cup {y}
      /\ e.strike = IF y = FUT THEN d.strike ELSE Strike(m)
    BY DEF Details
<1> HIDE DEF u, e
<1>4. u.grp = g /\ u.out = out /\ u.d = e
    BY <1>2
<1> QED
    BY <1>3, <1>4 DEF u

\* The details once LegAgain has looked at a new trade m of type y of the group h.
LegKept(e, m, h, strike) ==
    /\ e.strike \in {0, strike}
    /\ \/ e.seen \cup {Type(m)} = TypesOf(h)
       \/ /\ e.seen \cup {Type(m)} = Types
          /\ \A i, j \in 1 .. Len(h) : Type(h[i]) = Type(h[j])

\* LegAgain leaves the group h alone and only counts its details anew.
Refilled(s, m, h, out, strike) ==
    \E e \in Details :
        /\ LegAgain(s, m) = [grp |-> h, d |-> e, out |-> out, bad |-> FALSE]
        /\ LegKept(e, m, h, strike)

\* A leg that seems to come back while an order is filled costs nothing: LegAgain
\* keeps the group and counts its details anew.
LEMMA LegAgainKeeps ==
    ASSUME NEW g \in Seq(Known), NEW m \in Known, NEW d \in Details, NEW out, NEW expiry, NEW strike,
           NEW s, s = [grp |-> Append(g, m), d |-> d, out |-> out, bad |-> FALSE],
           d.tokens = TokensOf(Append(g, m)),
           Increasing(Append(g, m)), Contiguous(Append(g, m)), InContract(Append(g, m), expiry, strike),
           LegDetails(d, g, strike)
    PROVE  Refilled(s, m, Append(g, m), out, strike)
<1> DEFINE y == Type(m)
           h == Append(g, m)
           N == Len(g) + 1
           again == ~ (d.last \in {0, y} \/ y \notin d.seen \/ d.seen = {y})
<1>1. /\ Len(g) \in Nat /\ h \in Seq(Known) /\ Len(h) = N
      /\ h[N] = m /\ \A i \in 1 .. Len(g) : h[i] = g[i]
    BY AppendProperties, LenProperties
<1>2. TypesOf(h) = TypesOf(g) \cup {y}
    BY OneMoreType
<1>3. y \in Types /\ y # 0 /\ m.qty \in Nat
    BY KnownTrade DEF Types, FUT, CALL, PUT
<1>4. s.grp = h /\ s.d = d /\ s.out = out /\ s.bad = FALSE
    OBVIOUS
<1>5. DOMAIN g = 1 .. Len(g)
    BY LenProperties
<1>6. InContract(h, expiry, strike) /\ Contiguous(h) /\ Increasing(h) /\ d.tokens = TokensOf(h)
    OBVIOUS
<1>9. s = [grp |-> h, d |-> d, out |-> out, bad |-> FALSE]
    OBVIOUS
<1>10. /\ d.last = IF g = <<>> THEN 0 ELSE Type(Last(g))
       /\ d.strike \in {0, strike}
       /\ \/ d.seen = TypesOf(g)
          \/ d.seen = Types /\ \A i, j \in 1 .. Len(g) : Type(g[i]) = Type(g[j])
    BY DEF LegDetails
<1> HIDE DEF h
<1>7. CASE ~ again
  <2>1. LegAgain(s, m) = s
      BY <1>4, <1>7 DEF LegAgain
  <2>2. CASE d.seen = TypesOf(g)
      BY <2>1, <2>2, <1>2, <1>9, <1>10 DEF h, LegKept, Refilled
  <2>3. CASE d.seen = Types /\ \A i, j \in 1 .. Len(g) : Type(g[i]) = Type(g[j])
    <3>1. d.last \in {0, y}
      <4>1. FUT \in Types /\ CALL \in Types /\ FUT # CALL
          BY DEF Types, FUT, CALL
      <4>2. Types # {y}
          BY <4>1
      <4> QED
          BY <4>2, <1>3, <1>7, <2>3
    <3>2. \A i \in 1 .. Len(g) : Type(g[i]) = y
      <4>1. CASE g = <<>>
          BY <4>1
      <4>2. CASE g # <<>>
        <5>1. Last(g) = g[Len(g)] /\ Len(g) \in 1 .. Len(g) /\ Last(g) \in Known
            BY <4>2, LastOfSeq
        <5>2. Type(Last(g)) # 0
          <6>1. Type(Last(g)) \in Types
              BY <5>1, KnownTrade
          <6> QED
              BY <6>1 DEF Types, FUT, CALL, PUT
        <5> QED
            BY <5>1, <5>2, <4>2, <3>1, <2>3, <1>10
      <4> QED
          BY <4>1, <4>2
    <3>3. \A i \in 1 .. N : Type(h[i]) = y
      <4> TAKE i \in 1 .. N
      <4>1. i \in 1 .. Len(g) \/ i = N
          BY <1>1
      <4> QED
          BY <4>1, <3>2, <1>1
    <3>4. \A i, j \in 1 .. Len(h) : Type(h[i]) = Type(h[j])
        BY <3>3, <1>1
    <3>5. d.seen \cup {y} = Types
        BY <2>3, <1>3
    <3> QED
        BY <2>1, <3>4, <3>5, <1>9, <1>10 DEF h, LegKept, Refilled
  <2> QED
      BY <2>2, <2>3, <1>10
<1>8. CASE again
  <2>1. g # <<>> /\ Type(Last(g)) # y
      BY <1>8, <1>10
  <2>2. Last(g) = g[Len(g)] /\ Len(g) \in 1 .. Len(g) /\ 1 \in 1 .. Len(g)
      BY <2>1, <1>1, LastOfSeq
  <2>3. \A i \in 1 .. Len(g) : Type(g[i]) # y
    <3> SUFFICES ASSUME NEW i \in 1 .. Len(g), Type(g[i]) = y PROVE FALSE
        OBVIOUS
    <3>1. i \in 1 .. N /\ N \in 1 .. N /\ Len(g) \in i .. N
        BY <1>1
    <3>2. Type(h[i]) = Type(h[N])
        BY <1>1
    <3>3. Type(h[Len(g)]) = Type(h[i])
        BY <3>1, <3>2, <1>1, <1>6 DEF Contiguous
    <3> QED
        BY <3>3, <2>1, <2>2, <1>1
  <2>4. d.seen # TypesOf(g)
      BY <2>3, <1>5, <1>8 DEF TypesOf
  <2>5. d.seen = Types /\ \A i, j \in 1 .. Len(g) : Type(g[i]) = Type(g[j])
      BY <2>4, <1>10
  <2>6. TypesOf(h) # Types
    <3>1. TypesOf(g) \subseteq {Type(g[1])}
        BY <2>2, <2>5, <1>5 DEF TypesOf
    <3>2. TypesOf(h) \subseteq {Type(g[1]), y}
        BY <3>1, <1>2
    <3>3. Type(g[1]) \in Types
        BY <2>2, KnownTrade
    <3>4. PICK z \in Types : z # Type(g[1]) /\ z # y
        BY <3>3, <1>3 DEF Types, FUT, CALL, PUT
    <3> QED
        BY <3>2, <3>4
  <2>7. ~ (Balanced(d.qty) /\ Cardinality(d.tokens) = 3)
      BY <2>6, <1>1, <1>6, LegsAreTokens
  <2>8. SecondLevelOrderValidation(y, h) = h /\ h # <<>>
    <3> DEFINE O == {i \in DOMAIN h : Type(h[i]) # y} \cup {Len(h) + 1}
    <3>1. DOMAIN h = 1 .. N /\ 1 \in 1 .. N /\ N > 1
        BY <1>1, <2>2, LenProperties
    <3>2. 1 \in O /\ O \subseteq Nat /\ \A i \in O : 1 <= i
        BY <3>1, <1>1, <2>2, <2>3
    <3> HIDE DEF O
    <3>3. Min(O) \in O /\ Min(O) <= 1
        BY <3>2, LeastOf
    <3>4. Min(O) = 1
      <4>1. Min(O) \in Nat /\ 1 <= Min(O)
          BY <3>2, <3>3
      <4> QED
          BY <4>1, <3>3
    <3>7. ~ (Len(h) <= 1)
        BY <3>1, <1>1
    <3>5. SecondLevelOrderValidation(y, h) = SubSeq(h, 1, Len(h))
      <4>1. SecondLevelOrderValidation(y, h) = SubSeq(h, Min(O), Len(h))
          BY <3>7 DEF SecondLevelOrderValidation, O
      <4> QED
          BY <4>1, <3>4
    <3>6. SubSeq(h, 1, Len(h)) = h
        BY <1>1
    <3> QED
        BY <3>1, <3>5, <3>6, <1>1
  <2> DEFINE x == ExtraDetails(h)
             e == [x EXCEPT !.qty[y] = @ - m.qty]
  <2>9. LegAgain(s, m) = [s EXCEPT !.grp = h, !.d = e, !.bad = s.bad \/ h = <<>>]
      BY <1>4, <1>8, <2>7, <2>8 DEF LegAgain
  <2>10. OneExpiry(h)
      BY <1>6 DEF InContract, OneExpiry
  <2>11. x \in Details
      BY <1>1, <1>6, <2>10, ExtraDetailsInv
  <2>12. x.seen = TypesOf(h) /\ x.strike = IF Options(h) = <<>> THEN 0 ELSE Strike(Last(Options(h)))
      BY DEF ExtraDetails
  <2>13. x.strike \in {0, strike}
    <3>1. CASE Options(h) = <<>>
        BY <3>1, <2>12
    <3>2. CASE Options(h) # <<>>
      <4> DEFINE K == Options(h)
                 S == {t \in ToSet(h) : Type(t) # FUT}
      <4>1. K \in Seq(Known) /\ PartOf(K, h) /\ \A k \in 1 .. Len(K) : K[k] \in S
          BY <1>1, KeptPart DEF Options
      <4>2. Last(K) = K[Len(K)] /\ Len(K) \in 1 .. Len(K)
          BY <3>2, <4>1, LastOfSeq
      <4>3. Type(Last(K)) # FUT
          BY <4>1, <4>2
      <4>4. PICK i \in 1 .. Len(h) : Last(K) = h[i]
          BY <4>1, <4>2, PartOfMembers
      <4>5. Strike(Last(K)) = strike
          BY <4>3, <4>4, <1>6 DEF InContract
      <4> QED
          BY <3>2, <4>5, <2>12
    <3> QED
        BY <3>1, <3>2
  <2> HIDE DEF x
  <2>14. x.qty \in [Types -> Int]
      BY <2>11 DEF Details
  <2>15. e \in Details /\ e.seen = x.seen /\ e.strike = x.strike
    <3> DEFINE q == [x.qty EXCEPT ![y] = @ - m.qty]
    <3>1. q \in [Types -> Int]
        BY <2>14, <1>3
    <3>2. e = [x EXCEPT !.qty = q]
        BY <2>11 DEF Details
    <3> HIDE DEF q, e
    <3> QED
        BY <3>1, <3>2, <2>11 DEF Details
  <2> HIDE DEF e
  <2>16. LegAgain(s, m) = [grp |-> h, d |-> e, out |-> out, bad |-> FALSE]
    <3> DEFINE bad == s.bad \/ h = <<>>
    <3>1. LegAgain(s, m) = [s EXCEPT !.grp = h, !.d = e, !.bad = bad]
        BY <2>9
    <3>2. bad = FALSE
        BY <1>4, <2>8
    <3> HIDE DEF bad
    <3>3. [s EXCEPT !.grp = h, !.d = e, !.bad = bad] = [grp |-> h, d |-> e, out |-> out, bad |-> bad]
      <4>1. s = [grp |-> s.grp, d |-> s.d, out |-> s.out, bad |-> s.bad]
          BY <1>4, <1>9
      <4> DEFINE q1 == [s EXCEPT !.grp = h]
                 q2 == [q1 EXCEPT !.d = e]
                 q3 == [q2 EXCEPT !.bad = bad]
      <4>2. [s EXCEPT !.grp = h, !.d = e, !.bad = bad] = q3
          OBVIOUS
      <4>3. q1 = [grp |-> h, d |-> s.d, out |-> s.out, bad |-> s.bad]
          BY ONLY <4>1
      <4> HIDE DEF q1
      <4>4. q2 = [grp |-> h, d |-> e, out |-> s.out, bad |-> s.bad]
          BY ONLY <4>3
      <4> HIDE DEF q2
      <4>5. q3 = [grp |-> h, d |-> e, out |-> s.out, bad |-> bad]
          BY ONLY <4>4
      <4> QED
          BY <4>2, <4>5, <1>4
    <3> QED
        BY <3>1, <3>2, <3>3
  <2>17. e.seen \cup {y} = TypesOf(h)
      BY <2>12, <2>15, <1>2
  <2> QED
      BY <2>13, <2>15, <2>16, <2>17 DEF h, LegKept, Refilled
<1> QED
    BY <1>7, <1>8

\* A prefix of a group in one contract is in that contract, and no leg of it comes back.
LEMMA PrefixLegs ==
    ASSUME NEW o \in Seq(Known), NEW expiry, NEW strike, InContract(o, expiry, strike), Contiguous(o),
           NEW p \in 0 .. Len(o)
    PROVE  InContract(SubSeq(o, 1, p), expiry, strike) /\ Contiguous(SubSeq(o, 1, p))
<1> DEFINE h == SubSeq(o, 1, p)
<1>1. Len(o) \in Nat /\ Len(h) = p /\ \A i \in 1 .. p : i \in 1 .. Len(o) /\ h[i] = o[i]
    BY Prefix, LenProperties
<1> HIDE DEF h
<1>2. InContract(h, expiry, strike)
    BY <1>1 DEF InContract
<1>3. Contiguous(h)
  <2> SUFFICES ASSUME NEW i \in 1 .. p, NEW j \in 1 .. p, Type(h[i]) = Type(h[j]), NEW k \in i .. j
               PROVE  Type(h[k]) = Type(h[i])
      BY <1>1 DEF Contiguous
  <2>1. k \in 1 .. p
      OBVIOUS
  <2> QED
      BY <2>1, <1>1 DEF Contiguous
<1> QED
    BY <1>2, <1>3 DEF h

\* What SplitStep has come to when it asks whether the group with m is complete.
Added(u, s, m, run, n, expiry, strike) ==
    /\ SplitStep(s, m) = PutOut(u)
    /\ PassInv(u, run, n + 1) /\ FillInv(u, expiry, strike)
    /\ u.grp = Append(s.grp, m) /\ u.out = s.out

\* A trade of an order in one contract is pushed, and the details follow.
LEMMA FillAdds ==
    ASSUME NEW run, NEW n \in Nat, NEW s, PassInv(s, run, n),
           NEW expiry, NEW strike, FillInv(s, expiry, strike),
           NEW m \in Known, m = run[n + 1], \A j \in 1 .. n : run[j].seq < m.seq,
           InContract(Append(s.grp, m), expiry, strike), Contiguous(Append(s.grp, m))
    PROVE  \E u : Added(u, s, m, run, n, expiry, strike)
<1> DEFINE g == s.grp
           h == Append(g, m)
           d == [s.d EXCEPT !.tokens = @ \cup {m.token}]
           q == [grp |-> h, d |-> d, out |-> s.out, bad |-> FALSE]
           u == AddTrade(LegAgain(q, m), m)
<1>1. /\ s \in Pass /\ g \in Seq(Known) /\ s.d \in Details /\ s.bad = FALSE /\ GrpInv(g, s.d)
      /\ s = [grp |-> s.grp, d |-> s.d, out |-> s.out, bad |-> s.bad]
    BY DEF PassInv, Pass
<1>2. /\ Len(g) \in Nat /\ h \in Seq(Known) /\ Len(h) = Len(g) + 1
      /\ h[Len(g) + 1] = m /\ \A i \in 1 .. Len(g) : h[i] = g[i]
    BY <1>1, AppendProperties, LenProperties
<1>3. InContract(h, expiry, strike) /\ Contiguous(h)
    OBVIOUS
<1> HIDE DEF h
<1>4. /\ Expiry(m) = expiry /\ (Type(m) # FUT => Strike(m) = strike)
      /\ \A i \in 1 .. Len(g) : Expiry(g[i]) = expiry
  <2>1. Len(g) + 1 \in 1 .. Len(h) /\ \A i \in 1 .. Len(g) : i \in 1 .. Len(h)
      BY <1>2
  <2> QED
      BY <2>1, <1>2, <1>3 DEF InContract
<1>5. DropOthers(s, m) = s
    BY <1>4, FillDropsNone
<1>6. [s EXCEPT !.grp = Append(@, m), !.d.tokens = @ \cup {m.token}] = q
  <2> DEFINE q1 == [s EXCEPT !.grp = h]
             q2 == [q1 EXCEPT !.d = d]
  <2>1. [s EXCEPT !.grp = Append(@, m), !.d.tokens = @ \cup {m.token}] = [s EXCEPT !.grp = h, !.d = d]
      BY <1>1 DEF Pass, h
  <2> HIDE DEF d
  <2>2. [s EXCEPT !.grp = h, !.d = d] = q2
      OBVIOUS
  <2>5. s = [grp |-> s.grp, d |-> s.d, out |-> s.out, bad |-> s.bad]
      BY <1>1
  <2>3. q1 = [grp |-> h, d |-> s.d, out |-> s.out, bad |-> s.bad]
      BY ONLY <2>5
  <2> HIDE DEF q1
  <2>4. q2 = [grp |-> h, d |-> d, out |-> s.out, bad |-> s.bad]
      BY ONLY <2>3
  <2> QED
      BY <2>1, <2>2, <2>4, <1>1
<1>7. SplitStep(s, m) = PutOut(u)
    BY <1>1, <1>5, <1>6 DEF SplitStep
<1>8. /\ d \in Details /\ d.tokens = s.d.tokens \cup {m.token} /\ d.qty = s.d.qty
      /\ d.last = s.d.last /\ d.strike = s.d.strike /\ d.seen = s.d.seen /\ d.expiry = s.d.expiry
  <2>1. m.token \in Nat
      BY KnownTrade
  <2> QED
      BY <1>1, <2>1 DEF Details
<1>9. /\ q.grp = h /\ q.d = d /\ q.out = s.out /\ q.bad = FALSE
      /\ q = [grp |-> q.grp, d |-> q.d, out |-> q.out, bad |-> q.bad]
    OBVIOUS
<1>10. d = [s.d EXCEPT !.tokens = @ \cup {m.token}]
    OBVIOUS
<1> HIDE DEF d, q
<1>11. PassInv(u, run, n + 1)
    BY <1>4, <1>9, <1>10, LegAddedInv DEF h
<1>12. EndsWith(h, m, run, n + 1) /\ TokensOf(h) = d.tokens
  <2>1. \A i \in 1 .. Len(s.grp) : Expiry(s.grp[i]) = Expiry(m)
      BY <1>4
  <2>3. EndsWith(h, m, run, n + 1)
      BY <2>1, Pushed DEF h
  <2>2. EndsWith(h, m, run, n + 1) /\ TokensOf(h) = s.d.tokens \cup {m.token}
      BY <1>1, <2>3, OneMoreToken DEF h, GrpInv
  <2> QED
      BY <2>2, <1>8
<1>13. Increasing(h) /\ LegDetails(d, g, strike)
  <2>1. LegDetails(s.d, s.grp, strike)
      BY DEF FillInv
  <2> QED
      BY <2>1, <1>8, <1>12 DEF LegDetails, EndsWith
<1>14. PICK e \in Details :
              /\ LegAgain(q, m) = [grp |-> h, d |-> e, out |-> s.out, bad |-> FALSE]
              /\ LegKept(e, m, h, strike)
  <2>1. q = [grp |-> h, d |-> d, out |-> s.out, bad |-> FALSE]
      BY <1>9
  <2>2. d.tokens = TokensOf(h) /\ d \in Details
      BY <1>8, <1>12
  <2> HIDE DEF g
  <2>3. Refilled(q, m, h, s.out, strike)
      BY <1>1, <1>3, <1>13, <2>1, <2>2, LegAgainKeeps DEF h
  <2> QED
      BY <2>3 DEF Refilled
<1>15. /\ u.grp = h /\ u.out = s.out
       /\ u.d.last = Type(m) /\ u.d.expiry = Expiry(m)
       /\ u.d.strike = IF Type(m) = FUT THEN e.strike ELSE Strike(m)
       /\ u.d.seen = e.seen \cup {Type(m)}
    BY <1>14, AddTradeFields
<1> HIDE DEF u
<1>16. h # <<>> /\ Last(h) = m
    BY <1>12 DEF EndsWith
<1>17. FillInv(u, expiry, strike)
    BY <1>4, <1>14, <1>15, <1>16 DEF FillInv, LegDetails, LegKept
<1> QED
    BY <1>7, <1>11, <1>15, <1>17 DEF h, Added

\* t is what the pass has come to with one trade more than p of the order o.
Filled(t, s, o, p, expiry, strike) ==
    /\ FillInv(t, expiry, strike)
    /\ p + 1 = Len(o) => t.grp = <<>> /\ t.out = Append(s.out, o)
    /\ p + 1 # Len(o) => t.grp = SubSeq(o, 1, p + 1) /\ t.out = s.out

\* What one trade of an order in one contract does: it is collected with those
\* before it; the last one puts the whole order out.
LEMMA FillStep ==
    ASSUME NEW run, NEW n \in Nat, NEW s, PassInv(s, run, n),
           NEW expiry, NEW strike, FillInv(s, expiry, strike),
           NEW o \in Seq(Known), InContract(o, expiry, strike), Contiguous(o),
           TypesOf(o) = Types, Balanced(QtyByType(o)),
           NEW p \in 0 .. Len(o) - 1, s.grp = SubSeq(o, 1, p),
           NEW m \in Known, m = o[p + 1], m = run[n + 1], \A j \in 1 .. n : run[j].seq < m.seq
    PROVE  Filled(SplitStep(s, m), s, o, p, expiry, strike)
<1>1. Len(o) \in Nat /\ p \in 0 .. Len(o) /\ p < Len(o) /\ p + 1 \in 0 .. Len(o) /\ p + 1 \in 1 .. Len(o)
    BY LenProperties
<1>2. m \in Known /\ SubSeq(o, 1, p + 1) = Append(s.grp, m)
    BY <1>1, Prefix
<1> DEFINE h == SubSeq(o, 1, p + 1)
<1>3. InContract(h, expiry, strike) /\ Contiguous(h) /\ h \in Seq(Known)
    BY <1>1, PrefixLegs, Prefix
<1>4. h = Append(s.grp, m)
    BY <1>2
<1> HIDE DEF h
<1>5. PICK u : /\ SplitStep(s, m) = PutOut(u)
               /\ PassInv(u, run, n + 1) /\ FillInv(u, expiry, strike)
               /\ u.grp = h /\ u.out = s.out
  <2>1. \A j \in 1 .. n : run[j].seq < m.seq
      OBVIOUS
  <2>2. m = run[n + 1]
      OBVIOUS
  <2>3. InContract(Append(s.grp, m), expiry, strike) /\ Contiguous(Append(s.grp, m))
      BY <1>3, <1>4
  <2>4. \E u : Added(u, s, m, run, n, expiry, strike)
      BY <1>2, <2>1, <2>2, <2>3, FillAdds
  <2> QED
      BY <2>4, <1>4 DEF Added
<1>6. /\ u \in Pass /\ u.d \in Details /\ u.d.tokens = TokensOf(h) /\ u.d.qty = QtyByType(h)
    BY <1>5 DEF PassInv, GrpInv, Pass
<1>7. CASE p + 1 = Len(o)
  <2>1. h = o
    <3>1. SubSeq(o, 1, Len(o)) = o
        BY <1>1
    <3> QED
        BY <3>1, <1>7 DEF h
  <2>2. Cardinality(u.d.tokens) = 3 /\ Balanced(u.d.qty)
      BY <1>6, <2>1, LegsAreTokens
  <2> DEFINE e == [NoDetails EXCEPT !.seen = u.d.seen, !.expiry = u.d.expiry]
             out == Append(u.out, u.grp)
  <2>3. PutOut(u) = [u EXCEPT !.out = out, !.grp = <<>>, !.d = e]
      BY <2>2 DEF PutOut
  <2>4. e.seen = u.d.seen /\ e.expiry = u.d.expiry /\ e.strike = 0 /\ e.last = 0
      BY DEF NoDetails
  <2> HIDE DEF e, out
  <2>5. PutOut(u).out = out /\ PutOut(u).grp = <<>> /\ PutOut(u).d = e
      BY <2>3, <1>6 DEF Pass
  <2>6. u.d.seen = Types
      BY <1>5, <2>1 DEF FillInv, LegDetails
  <2>7. Len(<<>>) = 0
      OBVIOUS
  <2>8. FillInv(PutOut(u), expiry, strike)
      BY <2>4, <2>5, <2>6, <2>7, <1>5 DEF FillInv, LegDetails
  <2>9. out = Append(s.out, o)
      BY <1>5, <2>1 DEF out
  <2> QED
      BY <1>5, <1>7, <2>5, <2>8, <2>9 DEF Filled
<1>8. CASE p + 1 # Len(o)
  <2>1. PutOut(u) = u
    <3>1. CASE Cardinality(u.d.tokens) # 3
        BY <3>1 DEF PutOut
    <3>2. CASE Cardinality(u.d.tokens) = 3
      <4>1. TypesOf(h) = Types
          BY <3>2, <1>3, <1>6, LegsAreTokens
      <4>2. p + 1 \in 1 .. Len(o) - 1
          BY <1>1, <1>8
      <4>3. ~ Balanced(QtyByType(h)) /\ MiddleGroup(h) = <<>>
          BY <4>1, <4>2, NotYet DEF h
      <4> QED
          BY <3>2, <4>3, <1>5, <1>6 DEF PutOut
    <3> QED
        BY <3>1, <3>2
  <2> QED
      BY <1>5, <1>8, <2>1 DEF h, Filled
<1> QED
    BY <1>7, <1>8

----------------------------------------------------------------------------
(* Runs that consist of whole orders *)

\* A run of three tokens of which the legs match is in one contract.
LEMMA OneContractRun ==
    ASSUME NEW g \in Seq(Known), Cardinality(TokensOf(g)) = 3, LegsMatch(TokensOf(g))
    PROVE  \E expiry, strike : InContract(g, expiry, strike)
<1> DEFINE T == TokensOf(g)
<1>0. Len(g) \in Nat /\ DOMAIN g = 1 .. Len(g) /\ \A i \in DOMAIN g : g[i] \in Known
    BY LenProperties
<1>1. IsFiniteSet(T) /\ T \subseteq Nat /\ \A i \in DOMAIN g : g[i].token \in T
    BY TokensFinite, TokensType DEF TokensOf
<1> HIDE DEF T
<1>2. PICK t \in T :
        /\ \A y \in Types : \E u \in T : u <= t /\ Scrips[u].type = y
        /\ Scrips[LastToken(T, CALL, t)].strike = Scrips[LastToken(T, PUT, t)].strike
        /\ Scrips[LastToken(T, PUT, t)].expiry = Scrips[LastToken(T, CALL, t)].expiry
        /\ Scrips[LastToken(T, CALL, t)].expiry = Scrips[LastToken(T, FUT, t)].expiry
    BY DEF LegsMatch, T
<1>3. ASSUME NEW y \in Types
      PROVE  LastToken(T, y, t) \in T /\ Scrips[LastToken(T, y, t)].type = y
  <2> DEFINE U == {u \in T : u <= t /\ Scrips[u].type = y}
  <2>1. U \subseteq Nat /\ U # {} /\ t \in Nat /\ \A u \in U : u <= t
      BY <1>1, <1>2
  <2>2. \A u \in U : u \in T /\ Scrips[u].type = y
      OBVIOUS
  <2>3. LastToken(T, y, t) = Max(U)
      BY DEF LastToken
  <2> HIDE DEF U
  <2>4. Max(U) \in U
      BY <2>1, GreatestOf
  <2> QED
      BY <2>2, <2>3, <2>4
<1> DEFINE a == LastToken(T, FUT, t)
           b == LastToken(T, CALL, t)
           c == LastToken(T, PUT, t)
           e == Scrips[a].expiry
           k == Scrips[b].strike
<1>4. /\ a \in T /\ b \in T /\ c \in T
      /\ Scrips[a].type = 1 /\ Scrips[b].type = 2 /\ Scrips[c].type = 3
    BY <1>3 DEF Types, FUT, CALL, PUT
<1>5. Scrips[b].expiry = e /\ Scrips[c].expiry = e /\ Scrips[c].strike = k
    BY <1>2
<1>11. Scrips[b].strike = k
    OBVIOUS
<1> HIDE DEF a, b, c, e, k
<1>6. a # b /\ b # c /\ a # c
    BY <1>4
<1>7. IsFiniteSet({a, b, c}) /\ Cardinality({a, b, c}) = 3
    BY <1>6, ThreeIsThree
<1>8. Scrips[a].expiry = e
    BY DEF e
<1>9. {a, b, c} = T
  <2>1. {a, b, c} \subseteq T
      BY <1>4
  <2>2. Cardinality(T) = 3
      BY DEF T
  <2> DEFINE V == {a, b, c}
  <2>3. V \subseteq T /\ Cardinality(V) = Cardinality(T)
      BY <2>1, <2>2, <1>7
  <2> HIDE DEF V
  <2>4. V = T
      BY <2>3, <1>1, FS_Subset
  <2> QED
      BY <2>4 DEF V
<1>10. \A i \in 1 .. Len(g) :
           /\ g[i].token \in {a, b, c} /\ Type(g[i]) = Scrips[g[i].token].type
           /\ Expiry(g[i]) = Scrips[g[i].token].expiry
           /\ Strike(g[i]) = Scrips[g[i].token].strike
    BY <1>0, <1>1, <1>9 DEF Type, Expiry, Strike
<1>12. \A i \in 1 .. Len(g) : Expiry(g[i]) = e /\ (Type(g[i]) # FUT => Strike(g[i]) = k)
    BY <1>4, <1>5, <1>8, <1>10, <1>11 DEF FUT
<1>13. \A i, j \in 1 .. Len(g) : Type(g[i]) = Type(g[j]) => g[i].token = g[j].token
    BY <1>4, <1>10
<1>14. InContract(g, e, k)
    BY <1>12, <1>13 DEF InContract
<1> QED
    BY <1>14

\* A piece of a run.
LEMMA Piece ==
    ASSUME NEW A, NEW g \in Seq(A), NEW a \in 0 .. Len(g), NEW b \in a .. Len(g)
    PROVE  /\ SubSeq(g, a + 1, b) \in Seq(A)
           /\ Len(SubSeq(g, a + 1, b)) = b - a
           /\ \A i \in 1 .. b - a : SubSeq(g, a + 1, b)[i] = g[a + i]
<1> DEFINE o == SubSeq(g, a + 1, b)
<1>1. Len(g) \in Nat /\ b - a \in Nat /\ \A i \in 1 .. Len(g) : g[i] \in A
    BY LenProperties
<1>2. o = [i \in 1 .. b - (a + 1) + 1 |-> g[(a + 1) + i - 1]]
    BY <1>1
<1>3. b - (a + 1) + 1 = b - a /\ \A i \in 1 .. b - a : (a + 1) + i - 1 = a + i /\ a + i \in 1 .. Len(g)
    BY <1>1
<1> HIDE DEF o
<1>4. o = [i \in 1 .. b - a |-> g[a + i]]
    BY <1>2, <1>3
<1>5. \A i \in 1 .. b - a : g[a + i] \in A
    BY <1>1, <1>3
<1>6. o \in Seq(A) /\ Len(o) = b - a
    BY <1>1, <1>4, <1>5
<1> QED
    BY <1>4, <1>6 DEF o

\* The side of a leg is that of its last trade.
LEMMA LastSideOf ==
    ASSUME NEW g \in Seq(Known), NEW y \in Types, NEW i \in 1 .. Len(g), Type(g[i]) = y,
           \A k \in i + 1 .. Len(g) : Type(g[k]) # y
    PROVE  LastSides(g)[y] = g[i].side
<1> DEFINE S == {m \in ToSet(g) : Type(m) = y}
           h == Kept(g, S)
<1>1. h \in Seq(Known) /\ \E p : Selects(p, h, g, S)
    BY KeptSelects
<1>2. DOMAIN g = 1 .. Len(g) /\ Len(g) \in Nat
    BY LenProperties
<1>3. g[i] \in S
  <2>1. g[i] \in ToSet(g)
      BY <1>2 DEF ToSet
  <2> QED
      BY <2>1
<1>4. OfType(g, y) = h /\ \A m \in S : Type(m) = y
    BY DEF OfType
<1> HIDE DEF S, h
<1>5. PICK p : Selects(p, h, g, S)
    BY <1>1
<1>6. PICK k \in 1 .. Len(h) : p[k] = i
    BY <1>3, <1>5 DEF Selects
<1>7. h # <<>> /\ Last(h) = h[Len(h)] /\ Len(h) \in 1 .. Len(h)
  <2>1. h # <<>>
      BY <1>6
  <2> QED
      BY <2>1, <1>1, LastOfSeq
<1> DEFINE l == p[Len(h)]
<1>8. l \in 1 .. Len(g) /\ h[Len(h)] = g[l] /\ g[l] \in S
    BY <1>5, <1>7 DEF Selects
<1>9. k = Len(h) \/ k < Len(h)
    BY <1>7
<1>10. i <= l
    BY <1>2, <1>5, <1>6, <1>7, <1>8, <1>9 DEF Selects
<1>11. Type(g[l]) = y
    BY <1>4, <1>8
<1> HIDE DEF l
<1>12. l = i
  <2>1. l # i => l \in i + 1 .. Len(g)
      BY <1>2, <1>8, <1>10
  <2> QED
      BY <2>1, <1>11
<1>13. Last(h).side = g[i].side
    BY <1>7, <1>8, <1>12
<1> QED
    BY <1>4, <1>7, <1>13 DEF LastSides

\* A piece at the end of a run in which every leg was traded has the sides of the run.
LEMMA LastSidesOfTail ==
    ASSUME NEW g \in Seq(Known), NEW b \in 0 .. Len(g), TypesOf(SubSeq(g, b + 1, Len(g))) = Types
    PROVE  LastSides(g) = LastSides(SubSeq(g, b + 1, Len(g)))
<1> DEFINE N == Len(g)
           o == SubSeq(g, b + 1, N)
<1>1. N \in Nat /\ b \in Nat /\ b <= N /\ \A i \in 1 .. N : g[i] \in Known
    BY LenProperties
<1>2. o \in Seq(Known) /\ Len(o) = N - b /\ \A i \in 1 .. N - b : o[i] = g[b + i]
  <2>1. b \in 0 .. N /\ N \in b .. N
      BY <1>1
  <2> QED
      BY <2>1, Piece
<1>3. TypesOf(o) = Types
    OBVIOUS
<1> HIDE DEF o
<1>4. ASSUME NEW y \in Types
      PROVE  LastSides(g)[y] = LastSides(o)[y]
  <2> DEFINE U == {i \in 1 .. Len(o) : Type(o[i]) = y}
  <2>1. U # {} /\ U \subseteq Nat /\ Len(o) \in Nat /\ \A i \in U : i <= Len(o)
    <3>1. DOMAIN o = 1 .. Len(o) /\ Len(o) \in Nat
        BY <1>2, LenProperties
    <3> QED
        BY <3>1, <1>3 DEF TypesOf
  <2>2. \A i \in 1 .. Len(o) : i \in U <=> Type(o[i]) = y
      OBVIOUS
  <2>3. \A i \in U : i \in 1 .. Len(o)
      OBVIOUS
  <2> DEFINE i == Max(U)
  <2>4. i \in U /\ \A k \in U : k <= i
    <3> HIDE DEF U
    <3> QED
        BY <2>1, GreatestOf
  <2> HIDE DEF U, i
  <2>5. i \in 1 .. Len(o) /\ Type(o[i]) = y
      BY <2>2, <2>3, <2>4
  <2>6. \A k \in i + 1 .. Len(o) : Type(o[k]) # y
    <3> TAKE k \in i + 1 .. Len(o)
    <3>1. k \in 1 .. Len(o) /\ ~ (k <= i)
        BY <2>5, <1>2
    <3> QED
        BY <3>1, <2>2, <2>4
  <2>7. LastSides(o)[y] = o[i].side
      BY <2>5, <2>6, <1>2, LastSideOf
  <2> DEFINE j == b + i
  <2>8. j \in 1 .. N /\ g[j] = o[i] /\ i \in 1 .. N - b
      BY <2>5, <1>1, <1>2
  <2>9. \A k \in j + 1 .. N : Type(g[k]) # y
    <3> TAKE k \in j + 1 .. N
    <3>1. k - b \in i + 1 .. Len(o) /\ k - b \in 1 .. N - b /\ b + (k - b) = k
        BY <2>5, <1>1, <1>2
    <3>2. o[k - b] = g[k]
        BY <3>1, <1>2
    <3> QED
        BY <3>1, <3>2, <2>6
  <2> HIDE DEF j
  <2>10. LastSides(g)[y] = g[j].side
      BY <2>5, <2>8, <2>9, LastSideOf
  <2> QED
      BY <2>7, <2>8, <2>10
<1>5. LastSides(g) = LastSides(o)
    BY <1>4 DEF LastSides
<1> QED
    BY <1>5 DEF o

\* Where everything is taken, the whole is kept.
LEMMA KeptAll ==
    ASSUME NEW A, NEW g \in Seq(A), NEW S, \A i \in 1 .. Len(g) : g[i] \in S
    PROVE  Kept(g, S) = g
<1> DEFINE T == {n \in Nat : n <= Len(g) => Kept(SubSeq(g, 1, n), S) = SubSeq(g, 1, n)}
<1>1. Len(g) \in Nat /\ SubSeq(g, 1, Len(g)) = g
    BY LenProperties, SubSeqFull
<1>2. 0 \in T
  <2>1. SubSeq(g, 1, 0) = <<>>
      BY SubSeqEmpty
  <2> QED
      BY <2>1, KeptEmpty
<1>3. ASSUME NEW n \in Nat, n \in T PROVE n + 1 \in T
  <2> SUFFICES ASSUME n + 1 <= Len(g)
               PROVE  Kept(SubSeq(g, 1, n + 1), S) = SubSeq(g, 1, n + 1)
      OBVIOUS
  <2> DEFINE s == SubSeq(g, 1, n)
             m == g[n + 1]
  <2>1. n \in 0 .. Len(g) /\ n < Len(g) /\ n + 1 \in 1 .. Len(g)
      BY <1>1
  <2>2. s \in Seq(A) /\ m \in A /\ SubSeq(g, 1, n + 1) = Append(s, m)
      BY <2>1, Prefix
  <2>3. m \in S
      BY <2>1
  <2>4. Kept(s, S) = s
      BY <1>3, <2>1
  <2> HIDE DEF s, m
  <2>5. Kept(Append(s, m), S) = Append(s, m)
      BY <2>2, <2>3, <2>4, KeptOneMore
  <2> QED
      BY <2>2, <2>5
<1> HIDE DEF T
<1>4. Len(g) \in T
    BY <1>1, <1>2, <1>3, NatSetInduction
<1>5. Len(g) <= Len(g)
    BY <1>1
<1>6. Kept(SubSeq(g, 1, Len(g)), S) = SubSeq(g, 1, Len(g))
    BY <1>4, <1>5 DEF T
<1> QED
    BY <1>1, <1>6

\* A whole order in one contract is what IsValidateConRev asks for, and it takes
\* three trades or more.
LEMMA OrderIsValid ==
    ASSUME NEW o \in Seq(Known), NEW expiry, NEW strike, InContract(o, expiry, strike), WholeOrder(o)
    PROVE  /\ Contiguous(o) /\ TypesOf(o) = Types /\ Balanced(QtyByType(o))
           /\ ConRevSides(LastSides(o)) /\ IsValidateConRev(o)
           /\ Len(o) >= 3
<1>1. Len(o) \in Nat /\ DOMAIN o = 1 .. Len(o) /\ \A i \in 1 .. Len(o) : o[i] \in Known
    BY LenProperties
<1>2. TypesOf(o) = Types /\ Balanced(QtyByType(o)) /\ ConRevSides(LastSides(o))
    BY DEF WholeOrder
<1>3. Contiguous(o)
  <2>1. \A i, j \in DOMAIN o : Type(o[i]) = Type(o[j]) => \A k \in i .. j : Type(o[k]) = Type(o[i])
      BY DEF WholeOrder
  <2> QED
      BY <2>1, <1>1 DEF Contiguous
<1>4. SameContract(o)
  <2> SUFFICES ASSUME NEW i \in 1 .. Len(o), NEW j \in 1 .. Len(o), j < i, Type(o[j]) = Type(o[i])
               PROVE  Expiry(o[i - 1]) = Expiry(o[i]) /\ Strike(o[j]) = Strike(o[i])
      BY <1>1 DEF SameContract
  <2>1. i - 1 \in 1 .. Len(o)
      BY <1>1
  <2>2. Expiry(o[i - 1]) = Expiry(o[i])
      BY <2>1 DEF InContract
  <2>3. o[j].token = o[i].token
      BY DEF InContract
  <2>4. Strike(o[j]) = Strike(o[i])
      BY <2>3 DEF Strike
  <2> QED
      BY <2>2, <2>4
<1>5. IsValidateConRev(o)
    BY <1>2, <1>4 DEF IsValidateConRev
<1>6. Len(o) >= 3
  <2>1. PICK f \in 1 .. Len(o), c \in 1 .. Len(o), p \in 1 .. Len(o) :
            Type(o[f]) = 1 /\ Type(o[c]) = 2 /\ Type(o[p]) = 3
    <3>1. 1 \in TypesOf(o) /\ 2 \in TypesOf(o) /\ 3 \in TypesOf(o)
        BY <1>2 DEF Types, FUT, CALL, PUT
    <3> QED
        BY <3>1, <1>1 DEF TypesOf
  <2>2. f # c /\ c # p /\ f # p
      BY <2>1
  <2> QED
      BY <2>2, <1>1
<1> QED
    BY <1>2, <1>3, <1>5, <1>6

\* Where the last order before e ended.
EndBefore(ends, e) == Max({0} \cup {d \in ends : d < e})

\* It is 0, or one of the ends, in front of e.
LEMMA EndBeforeIs ==
    ASSUME NEW N \in Nat, NEW ends \in SUBSET (1 .. N), NEW e \in Nat \ {0}
    PROVE  LET b == EndBefore(ends, e)
           IN  /\ b \in 0 .. e - 1 /\ b <= N
               /\ \A d \in ends : d < e => d <= b
               /\ b \in ends \cup {0}
<1> DEFINE S == {0} \cup {d \in ends : d < e}
           b == EndBefore(ends, e)
<1>1. S \subseteq Nat /\ S # {} /\ \A x \in S : x <= e
  <2>1. ends \subseteq Nat
      OBVIOUS
  <2>2. S \subseteq Nat
    <3>1. S \subseteq {0} \cup ends
        OBVIOUS
    <3> HIDE DEF S
    <3> QED
        BY <2>1, <3>1
  <2>3. 0 \in S
      OBVIOUS
  <2>4. \A x \in S : x = 0 \/ x < e
      OBVIOUS
  <2> HIDE DEF S
  <2>5. \A x \in S : x <= e
      BY <2>2, <2>4
  <2> QED
      BY <2>2, <2>3, <2>5
<1>2. /\ \A d \in ends : d < e => d \in S
      /\ \A x \in S : x \in ends \cup {0} /\ x < e
    OBVIOUS
<1>3. b = Max(S)
    BY DEF EndBefore
<1> HIDE DEF S, b
<1>4. b \in S /\ \A x \in S : x <= b
    BY <1>1, <1>3, GreatestOf
<1>5. b \in Nat /\ b < e /\ b \in ends \cup {0}
    BY <1>1, <1>2, <1>4
<1>6. b <= N
    BY <1>5
<1> QED
    BY <1>2, <1>4, <1>5, <1>6 DEF b

\* The run is about one contract, and each of its orders is a whole one.
Orders(run, ends, expiry, strike) ==
    /\ run \in Seq(Known) /\ InContract(run, expiry, strike)
    /\ \A i \in 1 .. Len(run) : run[i].seq = i
    /\ ends \in SUBSET (1 .. Len(run)) /\ Len(run) \in ends
    /\ \A e \in ends : WholeOrder(SubSeq(run, EndBefore(ends, e) + 1, e))

\* The orders that ended among the first n trades are all put out.
Reported(out, ends, n) ==
    /\ out \in Seq(Seq(Known))
    /\ Len(out) = Cardinality({d \in ends : d <= n})
    /\ \A k \in 1 .. Len(out) :
           IsValidateConRev(out[k]) /\ Last(out[k]).seq \in {d \in ends : d <= n}
    /\ \A d \in ends : d <= n => \E k \in 1 .. Len(out) : Last(out[k]).seq = d

\* A piece of a run in one contract is in that contract.
LEMMA PieceInContract ==
    ASSUME NEW g \in Seq(Known), NEW expiry, NEW strike, InContract(g, expiry, strike),
           NEW a \in 0 .. Len(g), NEW b \in a .. Len(g)
    PROVE  InContract(SubSeq(g, a + 1, b), expiry, strike)
<1> DEFINE o == SubSeq(g, a + 1, b)
<1>1. Len(g) \in Nat /\ Len(o) = b - a /\ \A i \in 1 .. b - a : o[i] = g[a + i]
    BY Piece, LenProperties
<1>2. \A i \in 1 .. b - a : a + i \in 1 .. Len(g)
    BY <1>1
<1> HIDE DEF o
<1>4. \A i \in 1 .. Len(o) :
          Expiry(o[i]) = expiry /\ (Type(o[i]) # FUT => Strike(o[i]) = strike)
    BY <1>1, <1>2 DEF InContract
<1>5. \A i, j \in 1 .. Len(o) : Type(o[i]) = Type(o[j]) => o[i].token = o[j].token
  <2> SUFFICES ASSUME NEW i \in 1 .. Len(o), NEW j \in 1 .. Len(o), Type(o[i]) = Type(o[j])
               PROVE  o[i].token = o[j].token
      OBVIOUS
  <2>1. o[i] = g[a + i] /\ o[j] = g[a + j] /\ a + i \in 1 .. Len(g) /\ a + j \in 1 .. Len(g)
      BY <1>1, <1>2
  <2> QED
      BY <2>1 DEF InContract
<1>3. InContract(o, expiry, strike)
    BY <1>4, <1>5 DEF InContract
<1> QED
    BY <1>3 DEF o

\* The order that ends at e.
LEMMA OrderAt ==
    ASSUME NEW run, NEW ends, NEW expiry, NEW strike, Orders(run, ends, expiry, strike), NEW e \in ends
    PROVE  LET b == EndBefore(ends, e)
               o == SubSeq(run, b + 1, e)
           IN  /\ b \in 0 .. e - 1 /\ e \in 1 .. Len(run)
               /\ o \in Seq(Known) /\ Len(o) = e - b /\ Len(o) >= 3
               /\ \A i \in 1 .. e - b : o[i] = run[b + i]
               /\ InContract(o, expiry, strike) /\ Contiguous(o) /\ TypesOf(o) = Types
               /\ Balanced(QtyByType(o)) /\ ConRevSides(LastSides(o)) /\ IsValidateConRev(o)
               /\ Last(o).seq = e
<1> DEFINE b == EndBefore(ends, e)
           o == SubSeq(run, b + 1, e)
<1>1. /\ run \in Seq(Known) /\ Len(run) \in Nat /\ InContract(run, expiry, strike)
      /\ ends \in SUBSET (1 .. Len(run)) /\ e \in 1 .. Len(run)
      /\ WholeOrder(o)
      /\ \A i \in 1 .. Len(run) : run[i].seq = i
    BY LenProperties DEF Orders
<1>2. b \in 0 .. e - 1
    BY <1>1, EndBeforeIs
<1> HIDE DEF b
<1>3. b \in 0 .. Len(run) /\ e \in b .. Len(run)
    BY <1>1, <1>2
<1>4. o \in Seq(Known) /\ Len(o) = e - b /\ \A i \in 1 .. e - b : o[i] = run[b + i]
    BY <1>1, <1>3, Piece
<1>5. InContract(o, expiry, strike)
    BY <1>1, <1>3, PieceInContract
<1> HIDE DEF o
<1>6. /\ Contiguous(o) /\ TypesOf(o) = Types /\ Balanced(QtyByType(o))
      /\ ConRevSides(LastSides(o)) /\ IsValidateConRev(o) /\ Len(o) >= 3
    BY <1>1, <1>4, <1>5, OrderIsValid
<1>7. Last(o).seq = e
  <2>1. e - b \in 1 .. e - b /\ b + (e - b) = e
      BY <1>1, <1>2
  <2>2. Last(o) = o[e - b]
      BY <1>4 DEF Last
  <2>3. Last(o) = run[e]
      BY <2>1, <2>2, <1>4
  <2> QED
      BY <2>3, <1>1
<1> QED
    BY <1>1, <1>2, <1>4, <1>5, <1>6, <1>7 DEF o, b

\* Nothing that ended before is lost, and one more end counts one more.
LEMMA NextEnd ==
    ASSUME NEW ends, IsFiniteSet(ends), ends \subseteq Nat, NEW n \in Nat
    PROVE  LET S(k) == {d \in ends : d <= k}
           IN  /\ n + 1 \notin ends => S(n + 1) = S(n)
               /\ n + 1 \in ends => /\ S(n + 1) = S(n) \cup {n + 1}
                                    /\ Cardinality(S(n + 1)) = Cardinality(S(n)) + 1
<1> DEFINE A == {d \in ends : d <= n}
           B == {d \in ends : d <= n + 1}
<1>1. \A d \in ends : d <= n + 1 <=> (d <= n \/ d = n + 1)
    OBVIOUS
<1>2. n + 1 \notin ends => B = A
    BY <1>1
<1>3. n + 1 \in ends => B = A \cup {n + 1}
    BY <1>1
<1>4. n + 1 \notin A
    OBVIOUS
<1>5. IsFiniteSet(A)
  <2>1. A \subseteq ends
      OBVIOUS
  <2> HIDE DEF A
  <2> QED
      BY <2>1, FS_Subset
<1> HIDE DEF A, B
<1>6. Cardinality(A \cup {n + 1}) = Cardinality(A) + 1
    BY <1>4, <1>5, FS_AddElement
<1> QED
    BY <1>2, <1>3, <1>6 DEF A, B

\* What the pass over such a run has come to after n trades.
OrderInv(s, run, ends, expiry, strike, n) ==
    /\ PassInv(s, run, n) /\ FillInv(s, expiry, strike)
    /\ s.grp = SubSeq(run, EndBefore(ends, n + 1) + 1, n)
    /\ Reported(s.out, ends, n)

\* One order more was put out.
LEMMA OneMoreReported ==
    ASSUME NEW ends, IsFiniteSet(ends), ends \subseteq Nat, NEW n \in Nat, n + 1 \in ends,
           NEW out, Reported(out, ends, n),
           NEW o \in Seq(Known), IsValidateConRev(o), Last(o).seq = n + 1
    PROVE  Reported(Append(out, o), ends, n + 1)
<1> DEFINE A == {d \in ends : d <= n}
           B == {d \in ends : d <= n + 1}
           h == Append(out, o)
           L == Len(out)
<1>1. /\ out \in Seq(Seq(Known)) /\ L = Cardinality(A)
      /\ \A k \in 1 .. L : IsValidateConRev(out[k]) /\ Last(out[k]).seq \in A
      /\ \A d \in ends : d <= n => \E k \in 1 .. L : Last(out[k]).seq = d
    BY DEF Reported
<1>2. /\ L \in Nat /\ h \in Seq(Seq(Known)) /\ Len(h) = L + 1
      /\ h[L + 1] = o /\ \A k \in 1 .. L : h[k] = out[k]
  <2> DEFINE Q == Seq(Known)
  <2>1. out \in Seq(Q) /\ o \in Q
      BY <1>1
  <2> HIDE DEF Q
  <2>2. /\ h \in Seq(Q) /\ Len(h) = L + 1
        /\ h[L + 1] = o /\ \A k \in 1 .. L : h[k] = out[k]
      BY <2>1, AppendProperties
  <2>3. L \in Nat
      BY <2>1, LenProperties
  <2> QED
      BY <2>2, <2>3 DEF Q
<1>3. B = A \cup {n + 1} /\ Cardinality(B) = Cardinality(A) + 1
    BY NextEnd
<1>4. \A d \in ends : d <= n + 1 => d <= n \/ d = n + 1
    OBVIOUS
<1> HIDE DEF A, B, h, L
<1>5. \A k \in 1 .. L + 1 : k \in 1 .. L \/ k = L + 1
    BY <1>2
<1>6. \A k \in 1 .. L : k \in 1 .. L + 1
    BY <1>2
<1>7. \A k \in 1 .. L + 1 : IsValidateConRev(h[k]) /\ Last(h[k]).seq \in B
    BY <1>1, <1>2, <1>3, <1>5
<1>8. \A d \in ends : d <= n + 1 => \E k \in 1 .. L + 1 : Last(h[k]).seq = d
  <2> SUFFICES ASSUME NEW d \in ends, d <= n + 1
               PROVE  \E k \in 1 .. L + 1 : Last(h[k]).seq = d
      OBVIOUS
  <2>1. CASE d <= n
    <3>1. PICK k \in 1 .. L : Last(out[k]).seq = d
        BY <2>1, <1>1
    <3> QED
        BY <3>1, <1>2, <1>6
  <2>2. CASE d = n + 1
    <3>1. L + 1 \in 1 .. L + 1
        BY <1>2
    <3> QED
        BY <2>2, <3>1, <1>2
  <2> QED
      BY <2>1, <2>2, <1>4
<1>9. Len(h) = Cardinality(B)
    BY <1>1, <1>2, <1>3
<1>10. Reported(h, ends, n + 1)
    BY <1>2, <1>7, <1>8, <1>9 DEF Reported, B
<1> QED
    BY <1>10 DEF h

\* A trade inside an order reports nothing.
LEMMA NoMoreReported ==
    ASSUME NEW ends, IsFiniteSet(ends), ends \subseteq Nat, NEW n \in Nat, n + 1 \notin ends,
           NEW out, Reported(out, ends, n)
    PROVE  Reported(out, ends, n + 1)
<1>1. {d \in ends : d <= n + 1} = {d \in ends : d <= n}
    BY NextEnd
<1>2. \A d \in ends : d <= n + 1 => d <= n
    OBVIOUS
<1> QED
    BY <1>1, <1>2 DEF Reported

\* One trade of the run.
LEMMA OrderStep ==
    ASSUME NEW run, NEW ends, NEW expiry, NEW strike, Orders(run, ends, expiry, strike),
           NEW n \in Nat, n + 1 <= Len(run), NEW s, OrderInv(s, run, ends, expiry, strike, n)
    PROVE  OrderInv(SplitStep(s, run[n + 1]), run, ends, expiry, strike, n + 1)
<1> DEFINE N == Len(run)
           m == run[n + 1]
           b == EndBefore(ends, n + 1)
           F == {d \in ends : n + 1 <= d}
           e == Min(F)
           o == SubSeq(run, b + 1, e)
           p == n - b
           t == SplitStep(s, m)
<1>1. /\ run \in Seq(Known) /\ N \in Nat /\ ends \in SUBSET (1 .. N) /\ N \in ends
      /\ n + 1 \in 1 .. N /\ n \in 0 .. N /\ m \in Known
      /\ \A i \in 1 .. N : run[i].seq = i
    BY LenProperties DEF Orders
<1>2. IsFiniteSet(ends) /\ ends \subseteq Nat
  <2> DEFINE I == 1 .. N
  <2>1. ends \subseteq I /\ I \subseteq Nat
      BY <1>1
  <2>2. IsFiniteSet(I)
      BY <1>1, FS_Interval
  <2> HIDE DEF I
  <2>3. IsFiniteSet(ends)
      BY <2>1, <2>2, FS_Subset
  <2> QED
      BY <2>1, <2>3
<1>3. /\ PassInv(s, run, n) /\ FillInv(s, expiry, strike)
      /\ s.grp = SubSeq(run, b + 1, n) /\ Reported(s.out, ends, n)
    BY DEF OrderInv
<1>4. /\ b \in 0 .. n /\ \A d \in ends : d < n + 1 => d <= b
  <2>1. n + 1 \in Nat \ {0} /\ (n + 1) - 1 = n
      OBVIOUS
  <2> QED
      BY <2>1, <1>1, EndBeforeIs
<1>5. e \in ends /\ n + 1 <= e /\ \A d \in ends : n + 1 <= d => e <= d
  <2>1. F # {} /\ F \subseteq Nat
      BY <1>1, <1>2
  <2>2. \A d \in F : d \in ends /\ n + 1 <= d
      OBVIOUS
  <2>3. \A d \in ends : n + 1 <= d => d \in F
      OBVIOUS
  <2> HIDE DEF F
  <2>4. e \in F /\ \A d \in F : e <= d
      BY <2>1, LeastOf
  <2> QED
      BY <2>2, <2>3, <2>4
<1> HIDE DEF F, e
<1>6. EndBefore(ends, e) = b
  <2>1. \A d \in ends : d < e <=> d < n + 1
      BY <1>2, <1>5
  <2>2. {d \in ends : d < e} = {d \in ends : d < n + 1}
      BY <2>1
  <2> QED
      BY <2>2 DEF EndBefore
<1>7. /\ e \in 1 .. N /\ o \in Seq(Known) /\ Len(o) = e - b /\ Len(o) >= 3
      /\ \A i \in 1 .. e - b : o[i] = run[b + i]
      /\ InContract(o, expiry, strike) /\ Contiguous(o) /\ TypesOf(o) = Types
      /\ Balanced(QtyByType(o)) /\ IsValidateConRev(o) /\ Last(o).seq = e
    BY <1>5, <1>6, OrderAt
<1> HIDE DEF b, o
<1>8. p \in 0 .. Len(o) - 1 /\ p + 1 = (n + 1) - b
    BY <1>1, <1>4, <1>5, <1>7
<1>9. m = o[p + 1]
  <2>1. p + 1 \in 1 .. e - b /\ b + (p + 1) = n + 1
      BY <1>4, <1>7, <1>8
  <2> QED
      BY <2>1, <1>7
<1>10. SubSeq(o, 1, p) = SubSeq(run, b + 1, n) /\ SubSeq(o, 1, p + 1) = SubSeq(run, b + 1, n + 1)
  <2>1. ASSUME NEW l \in b .. e PROVE SubSeq(o, 1, l - b) = SubSeq(run, b + 1, l)
    <3> DEFINE u == SubSeq(o, 1, l - b)
               v == SubSeq(run, b + 1, l)
    <3>1. l - b \in 0 .. Len(o) /\ b \in 0 .. Len(run) /\ l \in b .. Len(run)
        BY <1>1, <1>4, <1>7
    <3>2. u \in Seq(Known) /\ Len(u) = l - b /\ \A i \in 1 .. l - b : u[i] = o[i]
        BY <3>1, <1>7, Prefix
    <3>3. v \in Seq(Known) /\ Len(v) = l - b /\ \A i \in 1 .. l - b : v[i] = run[b + i]
        BY <3>1, <1>1, Piece
    <3>4. \A i \in 1 .. l - b : i \in 1 .. e - b
        BY <3>1, <1>7
    <3> HIDE DEF u, v
    <3>5. \A i \in 1 .. Len(u) : u[i] = v[i]
        BY <3>2, <3>3, <3>4, <1>7
    <3>6. u = v
        BY <3>2, <3>3, <3>5, SeqEqual
    <3> QED
        BY <3>6 DEF u, v
  <2>2. n \in b .. e /\ n + 1 \in b .. e /\ p = n - b
      BY <1>1, <1>4, <1>5, <1>7
  <2> HIDE DEF p
  <2> QED
      BY <2>1, <2>2, <1>8
<1>11. \A j \in 1 .. n : run[j].seq < m.seq
    BY <1>1
<1> HIDE DEF m, p, t
<1>12. s.grp = SubSeq(o, 1, p)
    BY <1>3, <1>10
<1>13. m = run[n + 1]
    BY DEF m
<1>14. Filled(t, s, o, p, expiry, strike)
    BY <1>1, <1>3, <1>7, <1>8, <1>9, <1>11, <1>12, <1>13, FillStep DEF t
<1>15. PassInv(t, run, n + 1)
    BY <1>1, <1>3, <1>11, <1>13, SplitStepInv DEF t
<1>16. n + 1 \in ends <=> e = n + 1
    BY <1>5, <1>1
<1>17. CASE e = n + 1
  <2>1. p + 1 = Len(o)
      BY <1>7, <1>8, <1>17
  <2>2. t.grp = <<>> /\ t.out = Append(s.out, o) /\ FillInv(t, expiry, strike)
      BY <2>1, <1>14 DEF Filled
  <2>3. Reported(t.out, ends, n + 1)
    <3>1. n + 1 \in ends /\ Last(o).seq = n + 1 /\ o \in Seq(Known) /\ IsValidateConRev(o)
        BY <1>7, <1>16, <1>17
    <3>2. Reported(Append(s.out, o), ends, n + 1)
        BY <3>1, <1>2, <1>3, OneMoreReported
    <3> QED
        BY <3>2, <2>2
  <2>4. EndBefore(ends, (n + 1) + 1) = n + 1
    <3>1. (n + 1) + 1 \in Nat \ {0} /\ n + 1 < (n + 1) + 1 /\ ((n + 1) + 1) - 1 = n + 1
        OBVIOUS
    <3>2. n + 1 \in ends
        BY <1>16, <1>17
    <3> DEFINE c == EndBefore(ends, (n + 1) + 1)
    <3>3. c \in 0 .. n + 1 /\ n + 1 <= c
        BY <3>1, <3>2, <1>1, EndBeforeIs
    <3> HIDE DEF c
    <3>4. c = n + 1
        BY <3>3
    <3> QED
        BY <3>4 DEF c
  <2>5. SubSeq(run, (n + 1) + 1, n + 1) = <<>>
      BY SubSeqEmpty
  <2> QED
      BY <2>2, <2>3, <2>4, <2>5, <1>15 DEF OrderInv, t, m
<1>18. CASE e # n + 1
  <2>1. p + 1 # Len(o)
      BY <1>7, <1>8, <1>18, <1>4
  <2>2. t.grp = SubSeq(o, 1, p + 1) /\ t.out = s.out /\ FillInv(t, expiry, strike)
      BY <2>1, <1>14 DEF Filled
  <2>3. Reported(t.out, ends, n + 1)
      BY <2>2, <1>2, <1>3, <1>16, <1>18, NoMoreReported
  <2>4. EndBefore(ends, (n + 1) + 1) = b
    <3>1. \A d \in ends : d < (n + 1) + 1 <=> d < n + 1
        BY <1>2, <1>16, <1>18
    <3>2. {d \in ends : d < (n + 1) + 1} = {d \in ends : d < n + 1}
        BY <3>1
    <3> QED
        BY <3>2 DEF EndBefore, b
  <2> QED
      BY <2>2, <2>3, <2>4, <1>10, <1>15 DEF OrderInv, t, m
<1> QED
    BY <1>17, <1>18

----------------------------------------------------------------------------
(* All of them are reported *)

\* SplitTrade puts every order of such a run out.
LEMMA OrdersSplit ==
    ASSUME NEW run, NEW ends, NEW expiry, NEW strike, Orders(run, ends, expiry, strike),
           Increasing(run),
           NEW tokens, NEW split, split = SplitTrade(run, tokens)
    PROVE  ~ split.bad /\ Reported(split.out, ends, Len(run))
<1> DEFINE N == Len(run)
<1>1. /\ run \in Seq(Known) /\ N \in Nat /\ ends \in SUBSET (1 .. N) /\ N \in ends
    BY LenProperties DEF Orders
<1>2. IsFiniteSet(ends) /\ ends \subseteq Nat
  <2> DEFINE I == 1 .. N
  <2>1. ends \subseteq I /\ I \subseteq Nat
      BY <1>1
  <2>2. IsFiniteSet(I)
      BY <1>1, FS_Interval
  <2> HIDE DEF I
  <2>3. IsFiniteSet(ends)
      BY <2>1, <2>2, FS_Subset
  <2> QED
      BY <2>1, <2>3
<1>3. CASE N = 3 /\ Cardinality(tokens) = 3
  <2>1. split = [out |-> <<run>>, bad |-> FALSE]
      BY <1>3 DEF SplitTrade
  <2>2. ASSUME NEW e \in ends PROVE e = 3
    <3>1. EndBefore(ends, e) \in 0 .. e - 1 /\ e \in 1 .. N /\ e - EndBefore(ends, e) >= 3
        BY OrderAt
    <3> QED
        BY <3>1, <1>3
  <2>3. ends = {3}
      BY <2>2, <1>1, <1>3
  <2>4. EndBefore(ends, 3) = 0
    <3>1. EndBefore(ends, 3) \in 0 .. 2 /\ 3 - EndBefore(ends, 3) >= 3
        BY <2>3, OrderAt
    <3> QED
        BY <3>1
  <2>5. IsValidateConRev(run) /\ Last(run).seq = 3
    <3>1. SubSeq(run, 0 + 1, 3) = run
        BY <1>1, <1>3
    <3>2. 3 \in ends
        BY <2>3
    <3>3. LET o == SubSeq(run, EndBefore(ends, 3) + 1, 3)
          IN  IsValidateConRev(o) /\ Last(o).seq = 3
        BY <3>2, OrderAt
    <3> QED
        BY <3>1, <3>3, <2>4
  <2>6. {d \in ends : d <= 3} = {3}
      BY <2>3
  <2>7. Cardinality({3}) = 1
      BY FS_Singleton
  <2>8. /\ split.out \in Seq(Seq(Known)) /\ Len(split.out) = 1 /\ split.out[1] = run
        /\ split.bad = FALSE
      BY <2>1, <1>1
  <2>9. \A k \in 1 .. Len(split.out) : split.out[k] = run
      BY <2>8
  <2>10. 1 \in 1 .. Len(split.out)
      BY <2>8
  <2>11. Reported(split.out, ends, 3)
    <3>1. Len(split.out) = Cardinality({d \in ends : d <= 3})
        BY <2>6, <2>7, <2>8
    <3>2. \A k \in 1 .. Len(split.out) :
              IsValidateConRev(split.out[k]) /\ Last(split.out[k]).seq \in {d \in ends : d <= 3}
        BY <2>5, <2>6, <2>9
    <3>3. \A d \in ends : d <= 3 => \E k \in 1 .. Len(split.out) : Last(split.out[k]).seq = d
        BY <2>2, <2>5, <2>8, <2>10
    <3> QED
        BY <3>1, <3>2, <3>3, <2>8 DEF Reported
  <2> QED
      BY <2>8, <2>11, <1>3
<1>4. CASE ~ (N = 3 /\ Cardinality(tokens) = 3)
  <2>1. PICK f : /\ split = f[N]
                 /\ f[0] = NothingSplit
                 /\ \A n \in 1 .. N : f[n] = SplitStep(f[n - 1], run[n])
      BY <1>1, <1>4, SplitRec
  <2> DEFINE U == {n \in Nat : n <= N => OrderInv(f[n], run, ends, expiry, strike, n)}
  <2>2. 0 \in U
    <3>1. PassInv(NothingSplit, run, 0)
        BY NothingSplitInv
    <3>2. /\ NothingSplit.grp = <<>> /\ NothingSplit.out = <<>>
          /\ NothingSplit.d.last = 0 /\ NothingSplit.d.strike = 0 /\ NothingSplit.d.expiry = 0
          /\ NothingSplit.d.seen = {}
        BY DEF NothingSplit, NoDetails
    <3>3. TypesOf(<<>>) = {}
        BY DEF TypesOf
    <3>4. FillInv(NothingSplit, expiry, strike)
        BY <3>2, <3>3 DEF FillInv, LegDetails
    <3>5. SubSeq(run, EndBefore(ends, 0 + 1) + 1, 0) = <<>>
      <4>1. EndBefore(ends, 1) \in 0 .. 0
          BY <1>1, EndBeforeIs
      <4>2. EndBefore(ends, 1) = 0
          BY <4>1
      <4> QED
          BY <4>2, SubSeqEmpty
    <3>6. Reported(<<>>, ends, 0)
      <4>2. \A d \in ends : ~ (d <= 0)
          BY <1>1
      <4>1. {d \in ends : d <= 0} = {}
          BY ONLY <4>2
      <4>3. <<>> \in Seq(Seq(Known)) /\ Len(<<>>) = 0
          OBVIOUS
      <4>4. Len(<<>>) = Cardinality({d \in ends : d <= 0})
          BY <4>1, <4>3, FS_EmptySet
      <4> QED
          BY <4>2, <4>3, <4>4 DEF Reported
    <3>7. OrderInv(NothingSplit, run, ends, expiry, strike, 0)
        BY <3>1, <3>2, <3>4, <3>5, <3>6 DEF OrderInv
    <3> QED
        BY <3>7, <2>1
  <2>3. ASSUME NEW n \in Nat, n \in U PROVE n + 1 \in U
    <3> SUFFICES ASSUME n + 1 <= N PROVE OrderInv(f[n + 1], run, ends, expiry, strike, n + 1)
        OBVIOUS
    <3>1. n + 1 \in 1 .. N /\ (n + 1) - 1 = n /\ n <= N
        BY <1>1
    <3>2. OrderInv(f[n], run, ends, expiry, strike, n) /\ f[n + 1] = SplitStep(f[n], run[n + 1])
        BY <3>1, <2>1, <2>3
    <3> DEFINE s == f[n]
    <3>3. OrderInv(s, run, ends, expiry, strike, n)
        BY <3>2
    <3> HIDE DEF s
    <3>4. OrderInv(SplitStep(s, run[n + 1]), run, ends, expiry, strike, n + 1)
        BY <3>1, <3>3, OrderStep
    <3> QED
        BY <3>2, <3>4 DEF s
  <2> HIDE DEF U
  <2>4. N \in U
      BY <2>2, <2>3, <1>1, NatSetInduction
  <2>5. OrderInv(split, run, ends, expiry, strike, N)
      BY <2>4, <2>1, <1>1 DEF U
  <2> QED
      BY <2>5 DEF OrderInv, PassInv, Pass
<1> QED
    BY <1>3, <1>4

\* The last order of the run makes ValidateTradeMsgRecords let the run pass.
LEMMA OrdersPass ==
    ASSUME NEW run, NEW ends, NEW expiry, NEW strike, Orders(run, ends, expiry, strike),
           Cardinality(TokensOf(run)) = 3, LegsMatch(TokensOf(run))
    PROVE  ValidateTradeMsgRecords(run, TokensOf(run))
<1> DEFINE N == Len(run)
           b == EndBefore(ends, N)
           o == SubSeq(run, b + 1, N)
<1>1. run \in Seq(Known) /\ N \in Nat /\ N \in ends
    BY LenProperties DEF Orders
<1>2. b \in 0 .. N - 1 /\ TypesOf(o) = Types /\ ConRevSides(LastSides(o))
    BY <1>1, OrderAt
<1> HIDE DEF b
<1>3. b \in 0 .. N
    BY <1>1, <1>2
<1>4. LastSides(run) = LastSides(o)
    BY <1>1, <1>2, <1>3, LastSidesOfTail
<1>5. ConRevSides(LastSides(run))
    BY <1>2, <1>4
<1> QED
    BY <1>5 DEF ValidateTradeMsgRecords

\* Every group put out is one record, with the number of its last trade.
LEMMA RecordsOfOrders ==
    ASSUME NEW N \in Nat, NEW ends \in SUBSET (1 .. N), NEW out, Reported(out, ends, N)
    PROVE  /\ Len(RecordsOf(out)) = Cardinality(ends)
           /\ {RecordsOf(out)[i].seqNo : i \in DOMAIN RecordsOf(out)} = ends
<1> DEFINE S == {g \in ToSet(out) : IsValidateConRev(g)}
           recs == RecordsOf(out)
           E == {d \in ends : d <= N}
<1>1. \A d \in ends : d <= N
    OBVIOUS
<1>2. E = ends
    BY <1>1
<1>3. /\ out \in Seq(Seq(Known)) /\ Len(out) = Cardinality(E)
      /\ \A k \in 1 .. Len(out) : IsValidateConRev(out[k]) /\ Last(out[k]).seq \in E
      /\ \A d \in ends : d <= N => \E k \in 1 .. Len(out) : Last(out[k]).seq = d
    BY DEF Reported
<1>4. DOMAIN out = 1 .. Len(out) /\ Len(out) \in Nat
    BY <1>3, LenProperties
<1>5. \A k \in 1 .. Len(out) : out[k] \in S
    BY <1>3, <1>4 DEF ToSet
<1>6. recs = LET valid == Kept(out, S) IN [i \in DOMAIN valid |-> Record(valid[i])]
    BY DEF RecordsOf
<1> HIDE DEF S, recs, E
<1>7. Kept(out, S) = out
    BY <1>3, <1>5, KeptAll
<1>8. recs = [i \in 1 .. Len(out) |-> Record(out[i])]
    BY <1>4, <1>6, <1>7
<1>9. Len(recs) = Len(out) /\ DOMAIN recs = 1 .. Len(out)
    BY <1>4, <1>8
<1>10. \A i \in 1 .. Len(out) : recs[i].seqNo = Last(out[i]).seq
    BY <1>8, SeqNoOf
<1>11. {recs[i].seqNo : i \in 1 .. Len(out)} = ends
  <2>1. \A i \in 1 .. Len(out) : recs[i].seqNo \in ends
      BY <1>2, <1>3, <1>10
  <2>2. \A d \in ends : \E i \in 1 .. Len(out) : recs[i].seqNo = d
      BY <1>1, <1>3, <1>10
  <2> QED
      BY <2>1, <2>2
<1>12. Len(recs) = Cardinality(ends)
    BY <1>2, <1>3, <1>9
<1> QED
    BY <1>9, <1>11, <1>12 DEF recs

\* What WholeOrdersReported asks, in the terms of this module.
LEMMA OrdersOfRun ==
    ASSUME NEW run \in Seq(Collected), \A i \in 1 .. Len(run) : run[i].seq = i,
           \A i \in DOMAIN run : ~ LotIsZero(run[i]),
           TokensOf(run) \subseteq DOMAIN Scrips,
           NEW ends \in SUBSET (DOMAIN run), OrdersEndAt(run, ends)
    PROVE  \E expiry, strike : Orders(run, ends, expiry, strike)
<1>1. /\ Len(run) \in Nat /\ DOMAIN run = 1 .. Len(run)
      /\ \A i \in DOMAIN run : run[i] \in Collected
      /\ run = [i \in 1 .. Len(run) |-> run[i]]
    BY LenProperties
<1>2. \A i \in DOMAIN run : run[i].token \in DOMAIN Scrips
    BY DEF TokensOf
<1>3. \A i \in DOMAIN run : run[i] \in Known
    BY <1>1, <1>2 DEF Known, LotIsZero
<1>4. run \in Seq(Known)
    BY <1>1, <1>3
<1>5. PICK expiry, strike : InContract(run, expiry, strike)
    BY <1>4, OneContractRun DEF OrdersEndAt
<1>6. \A e \in ends : WholeOrder(SubSeq(run, EndBefore(ends, e) + 1, e))
    BY DEF OrdersEndAt, EndBefore
<1>7. Orders(run, ends, expiry, strike)
    BY <1>1, <1>4, <1>5, <1>6 DEF Orders, OrdersEndAt
<1> QED
    BY <1>7

\* Whole orders filled back to back are all reported, each in a record of its own,
\* however many there are and however many trades fill a leg: what PutOut forgets
\* too little of, and a leg of the order before that LegAgain still remembers, cost
\* no order.
THEOREM DetectorWholeOrders == Spec => []WholeOrdersReported
<1>1. Init => WholeOrdersReported
  <2> SUFFICES ASSUME Init, NEW ends \in SUBSET (DOMAIN flushed), OrdersEndAt(flushed, ends)
               PROVE  FALSE
      BY DEF WholeOrdersReported
  <2>1. DOMAIN flushed = {}
      BY DEF Init
  <2> QED
      BY <2>1 DEF OrdersEndAt
<1>2. DetectorInv /\ WholeOrdersReported /\ [Next]_vars => WholeOrdersReported'
  <2> SUFFICES ASSUME DetectorInv, WholeOrdersReported, [Next]_vars
               PROVE  WholeOrdersReported'
      OBVIOUS
  <2>1. CASE UNCHANGED vars
      BY <2>1 DEF vars, WholeOrdersReported
  <2>2. ASSUME NEW m \in Trades, TradeMessage(m, Len(tradeStore) + 1)
        PROVE  WholeOrdersReported'
    <3>1. flushed' = <<>>
        BY <2>2 DEF TradeMessage
    <3>2. DOMAIN flushed' = {}
        BY <3>1
    <3> QED
        BY <3>2 DEF WholeOrdersReported, OrdersEndAt
  <2>3. CASE UnknownToken \/ \E m \in Trades : ZeroLot(m, Len(tradeStore) + 1)
      BY <2>3 DEF UnknownToken, ZeroLot, WholeOrdersReported
  <2>4. CASE DropRun \/ ReportRun
    <3>1. /\ tradeStore \in Seq(Collected) /\ tokenStore = TokensOf(tradeStore)
          /\ flushed' = tradeStore /\ Len(tradeStore) \in Nat
          /\ DOMAIN tradeStore = 1 .. Len(tradeStore)
          /\ \A i \in 1 .. Len(tradeStore) : tradeStore[i].seq = i
          /\ \A i \in DOMAIN tradeStore : ~ LotIsZero(tradeStore[i])
        BY <2>4, LenProperties
           DEF DetectorInv, TypeOK, StoreInOrder, NoZeroLot, Collected, DropRun, ReportRun
    <3> SUFFICES ASSUME ~ crashed', NEW ends \in SUBSET (DOMAIN tradeStore),
                        OrdersEndAt(tradeStore, ends)
                 PROVE  /\ Len(records') = Cardinality(ends)
                        /\ {records'[i].seqNo : i \in DOMAIN records'} = ends
        BY <3>1 DEF WholeOrdersReported
    <3>2. Cardinality(TokensOf(tradeStore)) = 3 /\ LegsMatch(TokensOf(tradeStore))
        BY DEF OrdersEndAt
    <3>3. TokensOf(tradeStore) \subseteq DOMAIN Scrips
      <4>1. Cardinality(tokenStore) >= 3
          BY <3>1, <3>2
      <4> QED
          BY <4>1, <3>1, <2>4 DEF DropRun, ReportRun
    <3>4. PICK expiry, strike : Orders(tradeStore, ends, expiry, strike)
        BY <3>1, <3>3, OrdersOfRun
    <3>5. ValidateTradeMsgRecords(tradeStore, TokensOf(tradeStore))
        BY <3>2, <3>4, OrdersPass
    <3>6. ReportRun
        BY <3>1, <3>5, <2>4 DEF DropRun
    <3> DEFINE split == SplitTrade(tradeStore, TokensOf(tradeStore))
    <3>7. Increasing(tradeStore)
        BY <3>1 DEF Increasing
    <3>8. ~ split.bad /\ Reported(split.out, ends, Len(tradeStore))
      <4> HIDE DEF split
      <4>1. split = SplitTrade(tradeStore, TokensOf(tradeStore))
          BY DEF split
      <4> QED
          BY <4>1, <3>4, <3>7, OrdersSplit
    <3>9. records' = RecordsOf(split.out)
        BY <3>1, <3>6, <3>8 DEF ReportRun
    <3> HIDE DEF split
    <3>10. ends \in SUBSET (1 .. Len(tradeStore))
        BY <3>1
    <3>11. /\ Len(RecordsOf(split.out)) = Cardinality(ends)
           /\ {RecordsOf(split.out)[i].seqNo : i \in DOMAIN RecordsOf(split.out)} = ends
        BY <3>1, <3>8, <3>10, RecordsOfOrders
    <3> QED
        BY <3>9, <3>11
  <2> QED
      BY <2>1, <2>2, <2>3, <2>4 DEF Next, EndOfRun
<1> QED
    BY <1>1, <1>2, DetectorInvariant, PTL DEF Spec
=============================================================================
