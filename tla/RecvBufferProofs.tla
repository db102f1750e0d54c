--------------------------- MODULE RecvBufferProofs ---------------------------
(***************************************************************************)
(* The recv loop and the parser share their buffer safely for every size   *)
(* of the buffer and of the messages, and for every way of cutting the     *)
(* stream: messages come out whole and in order, and recv has room.        *)
(***************************************************************************)
EXTENDS RecvBuffer, SequenceTheorems, TLAPS

----------------------------------------------------------------------------
(* The stream *)

LEMMA Offsets ==
    /\ NumMsgs \in Nat /\ HeaderSize \in Nat /\ BufSize \in Nat
    /\ HeaderSize >= 1 /\ HeaderSize < BufSize
    /\ WireSize \in Nat
    /\ \A i \in 0 .. NumMsgs + 1 : Start[i] \in Nat /\ Start[i] <= WireSize
    /\ \A i \in 0 .. NumMsgs : SizeOf(i) \in Nat /\ SizeOf(i) >= HeaderSize /\ SizeOf(i) <= BufSize
<1>1. /\ NumMsgs \in Nat /\ HeaderSize \in Nat /\ BufSize \in Nat
      /\ HeaderSize >= 1 /\ HeaderSize < BufSize
    BY SizesAssumption DEF RespSize
<1>2. \A i \in 0 .. NumMsgs + 1 : Start[i] \in Nat
    BY SizesAssumption
<1>3. WireSize \in Nat
    BY <1>1, <1>2 DEF WireSize
<1>4. ASSUME NEW i \in 0 .. NumMsgs + 1
      PROVE  Start[i] <= WireSize
  <2>1. CASE i = NumMsgs + 1
      BY <2>1, <1>3 DEF WireSize
  <2>2. CASE i # NumMsgs + 1
    <3>1. i < NumMsgs + 1 /\ NumMsgs + 1 \in 0 .. NumMsgs + 1
        BY <2>2, <1>1
    <3>2. Start[i] < Start[NumMsgs + 1]
        BY <3>1, SizesAssumption
    <3> QED
        BY <3>2, <1>2, <1>3 DEF WireSize
  <2> QED
      BY <2>1, <2>2
<1>5. ASSUME NEW i \in 0 .. NumMsgs
      PROVE  SizeOf(i) \in Nat /\ SizeOf(i) >= HeaderSize /\ SizeOf(i) <= BufSize
  <2>1. CASE i = 0
      BY <2>1, <1>1, SizesAssumption DEF RespSize
  <2>2. CASE i # 0
    <3>1. i \in 1 .. NumMsgs
        BY <2>2, <1>1
    <3>2. SizeOf(i) \in HeaderSize .. BufSize
        BY <3>1, SizesAssumption
    <3> QED
        BY <3>2, <1>1
  <2> QED
      BY <2>1, <2>2
<1> QED
    BY <1>1, <1>2, <1>3, <1>4, <1>5

\* Byte k of item m lies k bytes behind the start of the item.
LEMMA WireAt ==
    ASSUME NEW m \in 0 .. NumMsgs, NEW k \in 1 .. SizeOf(m)
    PROVE  /\ Start[m] + k \in 1 .. WireSize
           /\ Wire[Start[m] + k] = <<m, k>>
<1> DEFINE p == Start[m] + k
<1>1. /\ m \in 0 .. NumMsgs + 1 /\ m + 1 \in 0 .. NumMsgs + 1 /\ m \in Nat /\ NumMsgs \in Nat
      /\ k \in Nat /\ k >= 1 /\ k <= SizeOf(m)
    BY Offsets
<1>2. /\ Start[m] \in Nat /\ Start[m + 1] \in Nat /\ Start[m + 1] <= WireSize
      /\ WireSize \in Nat
    BY <1>1, Offsets
<1>3. /\ p \in Nat /\ Start[m] < p /\ p <= Start[m + 1] /\ p \in 1 .. WireSize
    BY <1>1, <1>2 DEF SizeOf
<1>4. ASSUME NEW i \in 0 .. NumMsgs, Start[i] < p, p <= Start[i + 1]
      PROVE  i = m
  <2>1. /\ i \in 0 .. NumMsgs + 1 /\ i + 1 \in 0 .. NumMsgs + 1 /\ i \in Nat
      BY <1>1
  <2>2. Start[i] \in Nat /\ Start[i + 1] \in Nat
      BY <2>1, Offsets
  <2>3. CASE i < m
    <3>1. CASE i + 1 = m
        BY <3>1, <1>2, <1>3, <1>4, <2>2
    <3>2. CASE i + 1 # m
      <4>1. i + 1 < m
          BY <3>2, <2>3, <2>1, <1>1
      <4>2. Start[i + 1] < Start[m]
          BY <4>1, <2>1, <1>1, SizesAssumption
      <4> QED
          BY <4>2, <1>2, <1>3, <1>4, <2>2
    <3> QED
        BY <3>1, <3>2
  <2>4. CASE m < i
    <3>1. CASE m + 1 = i
        BY <3>1, <1>2, <1>3, <1>4, <2>2
    <3>2. CASE m + 1 # i
      <4>1. m + 1 < i
          BY <3>2, <2>4, <2>1, <1>1
      <4>2. Start[m + 1] < Start[i]
          BY <4>1, <2>1, <1>1, SizesAssumption
      <4> QED
          BY <4>2, <1>2, <1>3, <1>4, <2>2
    <3> QED
        BY <3>1, <3>2
  <2> QED
      BY <2>3, <2>4, <2>1, <1>1
<1> HIDE DEF p
<1>5. ItemOf(p) = m
    BY <1>3, <1>4 DEF ItemOf
<1>6. Wire[p] = <<ItemOf(p), p - Start[ItemOf(p)]>>
    BY <1>3 DEF Wire
<1>7. p - Start[m] = k
    BY <1>1, <1>2 DEF p
<1> QED
    BY <1>3, <1>5, <1>6, <1>7 DEF p

----------------------------------------------------------------------------
(* Where the parser stands *)

\* What StandsAt says of item m, in numbers.
LEMMA Standing ==
    ASSUME TypeOK, phase = "parse", NEW m \in 0 .. NumMsgs + 1, StandsAt(m)
    PROVE  /\ received \in Nat /\ total \in Nat /\ avail \in Nat /\ avail <= total
           /\ Start[m] \in Nat
           /\ received - total + avail = Start[m]
           /\ received <= WireSize /\ total <= BufSize
<1>1. /\ received \in Nat /\ total \in Nat /\ avail \in Nat /\ avail <= total
      /\ received <= WireSize /\ total <= BufSize /\ Start[m] \in Nat
    BY Offsets DEF TypeOK
<1>2. received - (total - avail) = Start[m]
    BY DEF StandsAt, Unparsed
<1> QED
    BY <1>1, <1>2

\* With a byte left to parse, it is a byte of item m and m is not the end.
LEMMA NotAtEnd ==
    ASSUME TypeOK, phase = "parse", NEW m \in 0 .. NumMsgs + 1, StandsAt(m), avail < total
    PROVE  m \in 0 .. NumMsgs
<1>1. CASE m = NumMsgs + 1
  <2>1. Start[m] = WireSize
      BY <1>1 DEF WireSize
  <2> QED
      BY <2>1, Standing, Offsets
<1>2. CASE m # NumMsgs + 1
    BY <1>2, Offsets
<1> QED
    BY <1>1, <1>2

\* The bytes behind avail are those of item m.
LEMMA ItemInBuffer ==
    ASSUME BufferInv, phase = "parse", NEW m \in 0 .. NumMsgs, StandsAt(m),
           NEW k \in 1 .. SizeOf(m), avail + k <= total
    PROVE  buf[avail + k] = <<m, k>>
<1>1. /\ m \in 0 .. NumMsgs + 1 /\ k \in Nat /\ k >= 1
    BY Offsets
<1>2. /\ received \in Nat /\ total \in Nat /\ avail \in Nat /\ Start[m] \in Nat
      /\ received - total + avail = Start[m]
    BY <1>1, Standing DEF BufferInv
<1>3. avail + k \in 1 .. total
    BY <1>1, <1>2
<1>4. buf[avail + k] = Wire[received - total + (avail + k)]
    BY <1>3 DEF BufferInv, BufferFollowsWire
<1>5. received - total + (avail + k) = Start[m] + k
    BY <1>1, <1>2
<1> QED
    BY <1>4, <1>5, WireAt

LEMMA TypeAtHand ==
    ASSUME BufferInv, HeaderThere, NEW m \in 0 .. NumMsgs + 1, StandsAt(m)
    PROVE  m \in 0 .. NumMsgs /\ ItemAt = m
<1>1. /\ phase = "parse" /\ TypeOK /\ total - avail >= HeaderSize
    BY DEF HeaderThere, BufferInv
<1>2. /\ avail \in Nat /\ total \in Nat /\ HeaderSize \in Nat /\ HeaderSize >= 1
    BY <1>1, Standing, Offsets
<1>3. avail < total /\ avail + HeaderSize <= total
    BY <1>1, <1>2
<1>4. m \in 0 .. NumMsgs
    BY <1>1, <1>3, NotAtEnd
<1>5. HeaderSize \in 1 .. SizeOf(m)
    BY <1>2, <1>4, Offsets
<1>6. buf[avail + HeaderSize] = <<m, HeaderSize>>
    BY <1>1, <1>3, <1>4, <1>5, ItemInBuffer
<1> QED
    BY <1>4, <1>6 DEF ItemAt

\* One more message behind those handed over.
LEMMA OneMore ==
    ASSUME NEW n \in Nat,
           handed = [i \in 1 .. n |-> ItemBytes(i)]
    PROVE  Append(handed, ItemBytes(n + 1)) = [i \in 1 .. n + 1 |-> ItemBytes(i)]
<1> DEFINE F == {ItemBytes(i) : i \in 1 .. n + 1}
           more == [i \in 1 .. n + 1 |-> ItemBytes(i)]
           appended == Append(handed, ItemBytes(n + 1))
<1>1. handed \in Seq(F) /\ Len(handed) = n
  <2>1. handed \in [1 .. n -> F]
      BY DEF F
  <2> HIDE DEF F
  <2> QED
      BY <2>1
<1>2. ItemBytes(n + 1) \in F
    BY DEF F
<1> HIDE DEF F
<1>3. /\ appended \in Seq(F) /\ Len(appended) = n + 1
      /\ \A i \in 1 .. n : appended[i] = handed[i]
      /\ appended[n + 1] = ItemBytes(n + 1)
    BY <1>1, <1>2, AppendProperties
<1> HIDE DEF appended
<1>4. appended = [i \in 1 .. n + 1 |-> appended[i]]
    BY <1>3
<1>5. \A i \in 1 .. n + 1 : appended[i] = ItemBytes(i)
    BY <1>3
<1> QED
    BY <1>4, <1>5 DEF appended

----------------------------------------------------------------------------
(* Initially, and recv *)

LEMMA InitInv == Init => BufferInv
<1> SUFFICES ASSUME Init PROVE BufferInv
    OBVIOUS
<1>1. TypeOK
    BY Offsets DEF Init, TypeOK
<1>2. phase = "parse" => pending = 0 /\ total <= received
    BY DEF Init
<1>3. BufferFollowsWire
    BY DEF Init, BufferFollowsWire
<1>4. RoomToRead
    BY Offsets DEF Init, RoomToRead
<1>5. ParserStands
  <2>1. 0 \in 0 .. NumMsgs + 1 /\ Start[0] = 0
      BY Offsets, SizesAssumption
  <2>2. StandsAt(0)
      BY <2>1 DEF Init, StandsAt, Unparsed
  <2> QED
      BY <2>1, <2>2 DEF ParserStands
<1> QED
    BY <1>1, <1>2, <1>3, <1>4, <1>5 DEF BufferInv

LEMMA RecvInv ==
    ASSUME BufferInv, NEW k \in 1 .. BufSize, Recv(k)
    PROVE  BufferInv'
<1> DEFINE Bytes == {NoByte} \cup {Wire[p] : p \in 1 .. WireSize}
<1>1. /\ received \in Nat /\ pending \in Nat /\ k \in Nat /\ k >= 1 /\ BufSize \in Nat
      /\ WireSize \in Nat /\ buf \in [1 .. BufSize -> Bytes]
    BY Offsets DEF BufferInv, TypeOK
<1>2. /\ phase = "recv" /\ k + pending <= BufSize /\ received + k <= WireSize
      /\ received' = received + k /\ total' = k + pending /\ pending' = 0 /\ avail' = 0
      /\ phase' = "parse" /\ handed' = handed
      /\ buf' = [j \in 1 .. BufSize |-> IF j \in (pending + 1) .. (pending + k)
                                        THEN Wire[received + j - pending] ELSE buf[j]]
    BY <1>1 DEF Recv
<1>3. PICK m \in 0 .. NumMsgs + 1 : StandsAt(m)
    BY DEF BufferInv, ParserStands
<1>4. /\ received - pending = Start[m] /\ Start[m] \in Nat
    BY <1>2, <1>3, Offsets DEF StandsAt, Unparsed
<1>5. TypeOK'
  <2>1. ASSUME NEW j \in 1 .. BufSize
        PROVE  buf'[j] \in Bytes
    <3>1. CASE j \in (pending + 1) .. (pending + k)
      <4>1. received + j - pending \in 1 .. WireSize
          BY <3>1, <1>1, <1>2
      <4> QED
          BY <4>1, <3>1, <1>2
    <3>2. CASE j \notin (pending + 1) .. (pending + k)
      <4>1. buf'[j] = buf[j]
          BY <3>2, <1>2
      <4> HIDE DEF Bytes
      <4> QED
          BY <4>1, <1>1
    <3> QED
        BY <3>1, <3>2
  <2> HIDE DEF Bytes
  <2>2. buf' \in [1 .. BufSize -> Bytes]
    <3>1. buf' = [j \in 1 .. BufSize |-> buf'[j]]
        BY <1>2
    <3> QED
        BY <3>1, <2>1
  <2>3. received' \in 0 .. WireSize /\ total' \in 0 .. BufSize /\ pending' \in 0 .. BufSize
        /\ avail' \in 0 .. total' /\ phase' \in {"recv", "parse"}
      BY <1>1, <1>2
  <2> QED
      BY <2>2, <2>3 DEF TypeOK, Bytes
<1>6. (phase = "parse" => pending = 0 /\ total <= received)'
    BY <1>1, <1>2, <1>4
<1>7. BufferFollowsWire'
  <2>1. ASSUME NEW j \in 1 .. total'
        PROVE  buf'[j] = Wire[received' - total' + j]
    <3>1. j \in 1 .. BufSize /\ j \in Nat
        BY <1>1, <1>2
    <3>2. CASE j \in (pending + 1) .. (pending + k)
      <4>1. buf'[j] = Wire[received + j - pending]
          BY <3>1, <3>2, <1>2
      <4>2. received + j - pending = received' - total' + j
          BY <3>1, <1>1, <1>2
      <4> QED
          BY <4>1, <4>2
    <3>3. CASE j \notin (pending + 1) .. (pending + k)
      <4>1. j \in 1 .. pending
          BY <3>1, <3>3, <1>1, <1>2
      <4>2. buf'[j] = buf[j]
          BY <3>1, <3>3, <1>2
      <4>3. buf[j] = Wire[received - pending + j]
          BY <4>1, <1>2 DEF BufferInv, BufferFollowsWire
      <4>4. received - pending = received' - total'
          BY <1>1, <1>2
      <4> QED
          BY <4>2, <4>3, <4>4
    <3> QED
        BY <3>2, <3>3
  <2> QED
      BY <2>1, <1>2 DEF BufferFollowsWire
<1>8. RoomToRead'
    BY <1>2 DEF RoomToRead
<1>9. ParserStands'
  <2>1. received' - (total' - avail') = Start[m]
      BY <1>1, <1>2, <1>4
  <2>2. StandsAt(m)'
      BY <2>1, <1>2, <1>3 DEF StandsAt, Unparsed
  <2> QED
      BY <2>2 DEF ParserStands
<1> QED
    BY <1>5, <1>6, <1>7, <1>8, <1>9 DEF BufferInv

----------------------------------------------------------------------------
(* Parsing *)

\* Keeping the rest: it is short enough to leave room, and it stays what it was.
LEMMA KeepRestInv ==
    ASSUME BufferInv, phase = "parse", total - avail < BufSize, KeepRest
    PROVE  BufferInv'
<1> DEFINE Bytes == {NoByte} \cup {Wire[p] : p \in 1 .. WireSize}
           rest == total - avail
<1>1. /\ received \in Nat /\ total \in Nat /\ avail \in Nat /\ avail <= total
      /\ total <= BufSize /\ BufSize \in Nat /\ total <= received
      /\ received \in 0 .. WireSize /\ total \in 0 .. BufSize /\ avail \in 0 .. total
      /\ buf \in [1 .. BufSize -> Bytes]
    BY Offsets DEF BufferInv, TypeOK
<1>2. /\ rest \in Nat /\ rest < BufSize /\ avail + rest = total
    BY <1>1
<1>3. /\ pending' = rest /\ phase' = "recv"
      /\ received' = received /\ total' = total /\ avail' = avail /\ handed' = handed
      /\ buf' = [j \in 1 .. BufSize |-> IF j <= rest THEN buf[avail + j] ELSE buf[j]]
    BY DEF KeepRest
<1> HIDE DEF rest
<1>4. ASSUME NEW j \in 1 .. BufSize, j <= rest
      PROVE  avail + j \in 1 .. BufSize /\ avail + j \in 1 .. total
    BY <1>1, <1>2, <1>4
<1>5. TypeOK'
  <2> HIDE DEF Bytes
  <2>1. \A j \in 1 .. BufSize : buf'[j] \in Bytes
      BY <1>1, <1>3, <1>4
  <2>2. buf' \in [1 .. BufSize -> Bytes]
    <3>1. buf' = [j \in 1 .. BufSize |-> buf'[j]]
        BY <1>3
    <3> QED
        BY <3>1, <2>1
  <2>3. rest \in 0 .. BufSize
      BY <1>1, <1>2
  <2> QED
      BY <2>2, <2>3, <1>1, <1>3 DEF TypeOK, Bytes
<1>6. (phase = "parse" => pending = 0 /\ total <= received)'
    BY <1>3
<1>7. BufferFollowsWire'
  <2>1. ASSUME NEW j \in 1 .. rest
        PROVE  buf'[j] = Wire[received - rest + j]
    <3>1. j \in 1 .. BufSize /\ j <= rest /\ j \in Nat
        BY <1>1, <1>2
    <3>2. buf'[j] = buf[avail + j]
        BY <3>1, <1>3
    <3>3. buf[avail + j] = Wire[received - total + (avail + j)]
        BY <3>1, <1>4 DEF BufferInv, BufferFollowsWire
    <3>4. received - total + (avail + j) = received - rest + j
        BY <3>1, <1>1, <1>2
    <3> QED
        BY <3>2, <3>3, <3>4
  <2> QED
      BY <2>1, <1>3 DEF BufferFollowsWire
<1>8. RoomToRead'
    BY <1>2, <1>3 DEF RoomToRead
<1>9. ParserStands'
  <2>1. PICK m \in 0 .. NumMsgs + 1 : StandsAt(m)
      BY DEF BufferInv, ParserStands
  <2>2. StandsAt(m)'
      BY <2>1, <1>3 DEF StandsAt, Unparsed, rest
  <2> QED
      BY <2>2 DEF ParserStands
<1> QED
    BY <1>5, <1>6, <1>7, <1>8, <1>9 DEF BufferInv

LEMMA HeaderCutInv ==
    ASSUME BufferInv, HeaderCut
    PROVE  BufferInv'
<1>1. phase = "parse" /\ total - avail < HeaderSize /\ KeepRest
    BY DEF HeaderCut
<1>2. total \in Nat /\ avail \in Nat
    BY Offsets DEF BufferInv, TypeOK
<1>3. total - avail < BufSize
    BY <1>1, <1>2, Offsets
<1> QED
    BY <1>1, <1>3, KeepRestInv

LEMMA MessageCutInv ==
    ASSUME BufferInv, MessageCut
    PROVE  BufferInv'
<1>1. /\ HeaderThere /\ phase = "parse" /\ KeepRest
      /\ avail + SizeOf(ItemAt) > total
    BY DEF MessageCut, HeaderThere
<1>2. PICK m \in 0 .. NumMsgs + 1 : StandsAt(m)
    BY DEF BufferInv, ParserStands
<1>3. m \in 0 .. NumMsgs /\ ItemAt = m
    BY <1>1, <1>2, TypeAtHand
<1>4. SizeOf(ItemAt) \in Nat /\ SizeOf(ItemAt) <= BufSize
    BY <1>3, Offsets
<1>5. total \in Nat /\ avail \in Nat /\ BufSize \in Nat
    BY Offsets DEF BufferInv, TypeOK
<1>6. total - avail < BufSize
    BY <1>1, <1>4, <1>5
<1> QED
    BY <1>1, <1>6, KeepRestInv

\* Going past a whole item: the parser stands at the next one.
LEMMA MovesOn ==
    ASSUME BufferInv, phase = "parse", NEW m \in 0 .. NumMsgs, StandsAt(m),
           avail + SizeOf(m) <= total, avail' = avail + SizeOf(m),
           handed' = [i \in 1 .. m |-> ItemBytes(i)],
           UNCHANGED <<phase, received, buf, total, pending>>
    PROVE  BufferInv'
<1>1. /\ m \in Nat /\ m \in 0 .. NumMsgs + 1 /\ m + 1 \in 0 .. NumMsgs + 1
      /\ SizeOf(m) \in Nat
    BY Offsets
<1>2. /\ received \in Nat /\ total \in Nat /\ avail \in Nat
      /\ Start[m] \in Nat /\ received - total + avail = Start[m]
    BY <1>1, Standing DEF BufferInv
<1>3. Start[m + 1] \in Nat /\ SizeOf(m) = Start[m + 1] - Start[m]
    BY <1>1, Offsets DEF SizeOf
<1>4. TypeOK'
  <2>1. avail' \in 0 .. total'
      BY <1>1, <1>2
  <2> QED
      BY <2>1 DEF BufferInv, TypeOK
<1>5. (phase = "parse" => pending = 0 /\ total <= received)'
    BY DEF BufferInv
<1>6. BufferFollowsWire'
    BY DEF BufferInv, BufferFollowsWire
<1>7. RoomToRead'
    BY DEF RoomToRead
<1>8. ParserStands'
  <2>1. received' - (total' - avail') = Start[m + 1]
      BY <1>1, <1>2, <1>3
  <2>2. (IF m + 1 = 0 THEN 0 ELSE m + 1 - 1) = m
      BY <1>1
  <2>3. handed' = [i \in 1 .. (IF m + 1 = 0 THEN 0 ELSE m + 1 - 1) |-> ItemBytes(i)]
      BY <2>2
  <2>4. StandsAt(m + 1)'
      BY <2>1, <2>3 DEF StandsAt, Unparsed
  <2> QED
      BY <2>4, <1>1 DEF ParserStands
<1> QED
    BY <1>4, <1>5, <1>6, <1>7, <1>8 DEF BufferInv

LEMMA ParseResponseInv ==
    ASSUME BufferInv, ParseResponse
    PROVE  BufferInv'
<1>1. /\ HeaderThere /\ phase = "parse" /\ ItemAt = 0
      /\ avail + RespSize <= total /\ avail' = avail + RespSize
      /\ handed' = handed
      /\ UNCHANGED <<phase, received, buf, total, pending>>
    BY DEF ParseResponse, HeaderThere
<1>2. PICK m \in 0 .. NumMsgs + 1 : StandsAt(m)
    BY DEF BufferInv, ParserStands
<1>3. m \in 0 .. NumMsgs /\ m = 0
    BY <1>1, <1>2, TypeAtHand
<1>4. RespSize = SizeOf(m)
    BY <1>3, SizesAssumption
<1>5. handed' = [i \in 1 .. m |-> ItemBytes(i)]
    BY <1>1, <1>2, <1>3 DEF StandsAt
<1> QED
    BY <1>1, <1>2, <1>3, <1>4, <1>5, MovesOn

LEMMA ParseMessageInv ==
    ASSUME BufferInv, ParseMessage
    PROVE  BufferInv'
<1>1. /\ HeaderThere /\ phase = "parse" /\ ItemAt # 0
      /\ avail + SizeOf(ItemAt) <= total
      /\ avail' = avail + SizeOf(ItemAt)
      /\ handed' = Append(handed, [k \in 1 .. SizeOf(ItemAt) |-> buf[avail + k]])
      /\ UNCHANGED <<phase, received, buf, total, pending>>
    BY DEF ParseMessage, HeaderThere
<1>2. PICK m \in 0 .. NumMsgs + 1 : StandsAt(m)
    BY DEF BufferInv, ParserStands
<1>3. m \in 0 .. NumMsgs /\ ItemAt = m
    BY <1>1, <1>2, TypeAtHand
<1>4. m \in Nat /\ m # 0 /\ m - 1 \in Nat
    BY <1>1, <1>3, Offsets
<1>5. avail \in Nat /\ total \in Nat /\ SizeOf(m) \in Nat
    BY <1>3, Offsets DEF BufferInv, TypeOK
<1>6. [k \in 1 .. SizeOf(m) |-> buf[avail + k]] = ItemBytes(m)
  <2>1. ASSUME NEW k \in 1 .. SizeOf(m)
        PROVE  buf[avail + k] = <<m, k>>
    <3>1. avail + k <= total
        BY <1>1, <1>3, <1>5
    <3> QED
        BY <3>1, <1>1, <1>2, <1>3, ItemInBuffer
  <2> QED
      BY <2>1 DEF ItemBytes
<1>7. handed = [i \in 1 .. m - 1 |-> ItemBytes(i)]
    BY <1>2, <1>4 DEF StandsAt
<1>8. handed' = [i \in 1 .. m |-> ItemBytes(i)]
  <2>1. handed' = Append(handed, ItemBytes(m))
      BY <1>1, <1>3, <1>6
  <2>2. Append(handed, ItemBytes(m - 1 + 1)) = [i \in 1 .. m - 1 + 1 |-> ItemBytes(i)]
      BY <1>4, <1>7, OneMore
  <2>3. m - 1 + 1 = m
      BY <1>4
  <2> QED
      BY <2>1, <2>2, <2>3
<1> QED
    BY <1>1, <1>2, <1>3, <1>8, MovesOn

LEMMA AllParsedInv ==
    ASSUME BufferInv, AllParsed
    PROVE  BufferInv'
<1>1. /\ phase = "parse" /\ avail = total /\ phase' = "recv"
      /\ UNCHANGED <<received, buf, total, pending, avail, handed>>
    BY DEF AllParsed
<1>2. pending = 0 /\ BufSize \in Nat /\ BufSize > 0 /\ received \in Nat /\ total \in Nat
    BY <1>1, Offsets DEF BufferInv, TypeOK
<1>3. TypeOK'
    BY <1>1 DEF BufferInv, TypeOK
<1>4. (phase = "parse" => pending = 0 /\ total <= received)'
    BY <1>1
<1>5. BufferFollowsWire'
    BY <1>1, <1>2 DEF BufferFollowsWire
<1>6. RoomToRead'
    BY <1>1, <1>2 DEF RoomToRead
<1>7. ParserStands'
  <2>1. PICK m \in 0 .. NumMsgs + 1 : StandsAt(m)
      BY DEF BufferInv, ParserStands
  <2>2. received' - pending' = Start[m]
      BY <2>1, <1>1, <1>2 DEF StandsAt, Unparsed
  <2>3. StandsAt(m)'
      BY <2>1, <2>2, <1>1 DEF StandsAt, Unparsed
  <2> QED
      BY <2>3 DEF ParserStands
<1> QED
    BY <1>3, <1>4, <1>5, <1>6, <1>7 DEF BufferInv

----------------------------------------------------------------------------
(* Theorems *)

LEMMA UnchangedInv == BufferInv /\ UNCHANGED vars => BufferInv'
BY DEF BufferInv, TypeOK, BufferFollowsWire, RoomToRead, ParserStands, StandsAt, Unparsed, vars

\* Every cut of the answer leaves the parser at the first byte of an item, with
\* the bytes that came last in the buffer (RecoveryPackets, GetPacketFromMessage).
THEOREM BufferInvariant == Spec => []BufferInv
<1>1. Init => BufferInv
    BY InitInv
<1>2. BufferInv /\ [Next]_vars => BufferInv'
  <2> SUFFICES ASSUME BufferInv, [Next]_vars PROVE BufferInv'
      OBVIOUS
  <2>1. ASSUME NEW k \in 1 .. BufSize, Recv(k) PROVE BufferInv'
      BY <2>1, RecvInv
  <2>2. CASE HeaderCut
      BY <2>2, HeaderCutInv
  <2>3. CASE ParseResponse
      BY <2>3, ParseResponseInv
  <2>4. CASE ResponseCut
      BY <2>4, UnchangedInv DEF ResponseCut
  <2>5. CASE ParseMessage
      BY <2>5, ParseMessageInv
  <2>6. CASE MessageCut
      BY <2>6, MessageCutInv
  <2>7. CASE UnknownType
      BY <2>7, UnchangedInv DEF UnknownType
  <2>8. CASE AllParsed
      BY <2>8, AllParsedInv
  <2>9. CASE UNCHANGED vars
      BY <2>9, UnchangedInv
  <2> QED
      BY <2>1, <2>2, <2>3, <2>4, <2>5, <2>6, <2>7, <2>8, <2>9 DEF Next, Parse
<1> QED
    BY <1>1, <1>2, PTL DEF Spec

\* Whatever the cuts, GetPacketFromMessage hands over the server's messages,
\* complete, unmixed and in order.
THEOREM BufferMessagesIntact == Spec => []MessagesIntact
<1>1. BufferInv => MessagesIntact
  <2> SUFFICES ASSUME BufferInv PROVE MessagesIntact
      OBVIOUS
  <2>1. PICK m \in 0 .. NumMsgs + 1 : StandsAt(m)
      BY DEF BufferInv, ParserStands
  <2> DEFINE n == IF m = 0 THEN 0 ELSE m - 1
  <2>2. n \in Nat /\ n <= NumMsgs
      BY Offsets
  <2>3. handed = [i \in 1 .. n |-> ItemBytes(i)]
      BY <2>1 DEF StandsAt
  <2> HIDE DEF n
  <2>4. Len(handed) = n /\ DOMAIN handed = 1 .. n
      BY <2>2, <2>3
  <2> QED
      BY <2>2, <2>3, <2>4 DEF MessagesIntact
<1> QED
    BY <1>1, BufferInvariant, PTL

\* The bytes kept between two recv calls are the ones that came last.
THEOREM BufferKeepsBytes == Spec => []BufferFollowsWire
<1>1. BufferInv => BufferFollowsWire
    BY DEF BufferInv
<1> QED
    BY <1>1, BufferInvariant, PTL

\* recv is never called with a length of 0, so a result of 0 is the end of the
\* connection.
THEOREM BufferHasRoom == Spec => []RoomToRead
<1>1. BufferInv => RoomToRead
    BY DEF BufferInv
<1> QED
    BY <1>1, BufferInvariant, PTL
=============================================================================
