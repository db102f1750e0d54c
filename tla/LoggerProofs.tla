---------------------------- MODULE LoggerProofs ----------------------------
(***************************************************************************)
(* The logger is safe for any number of threads and any size of the ring:  *)
(* whatever the moments at which a writer looks at the two indices, it     *)
(* fills an empty place nobody else is at, and the file holds the messages *)
(* in the order of their claims.                                           *)
(***************************************************************************)
EXTENDS Logger, TLAPS

----------------------------------------------------------------------------
(* Places *)

LEMMA SlotRange ==
    ASSUME NEW n \in Int
    PROVE  Slot(n) \in 0 .. Size - 1
BY SizeAssumption DEF Slot

LEMMA Multiple ==
    ASSUME NEW k \in Int, k # 0
    PROVE  Size * k >= Size \/ Size * k <= -Size
<1>1. CASE k >= 1
    BY SizeAssumption, <1>1
<1>2. CASE k <= -1
    BY SizeAssumption, <1>2
<1> QED
    BY <1>1, <1>2

\* Less than a ring apart, two messages have different places.
LEMMA SlotWindow ==
    ASSUME NEW m \in Int, NEW n \in Int,
           Slot(m) = Slot(n), m - n < Size, n - m < Size
    PROVE  m = n
<1> DEFINE p == m \div Size
           q == n \div Size
           r == m % Size
<1>1. /\ p \in Int /\ q \in Int /\ r \in Int
      /\ m = Size * p + r /\ n = Size * q + r
    BY SizeAssumption DEF Slot
<1> HIDE DEF p, q, r
<1>2. CASE p = q
    BY <1>1, <1>2
<1>3. CASE p # q
  <2>1. m - n = Size * (p - q)
      BY <1>1, SizeAssumption
  <2>2. p - q \in Int /\ p - q # 0
      BY <1>1, <1>3
  <2> QED
      BY <2>1, <2>2, Multiple, SizeAssumption
<1> QED
    BY <1>2, <1>3

----------------------------------------------------------------------------
(* Writers *)

LEMMA InitInv == Init => LogInv
<1> SUFFICES ASSUME Init PROVE LogInv
    OBVIOUS
<1> USE DEF Empty
<1>1. TypeOK
  <2>1. /\ writeIndex \in 0 .. MaxMsgs /\ readIndex \in Nat
        /\ record \in Nat \cup {Empty} /\ file \in Seq(Nat)
      BY MaxMsgsAssumption DEF Init
  <2>4. /\ exit \in BOOLEAN /\ drains \in BOOLEAN /\ joining \in BOOLEAN
        /\ rpc \in {"top", "wait", "take", "release", "drain", "look", "done", "crashed"}
      BY DEF Init
  <2>2. /\ records \in [0 .. Size - 1 -> Nat \cup {Empty}]
        /\ flag \in [0 .. Size - 1 -> BOOLEAN]
      BY DEF Init
  <2>3. /\ pc \in [Writers -> {"idle", "claimed", "write", "flag"}]
        /\ claim \in [Writers -> Nat \cup {Empty}]
        /\ seen \in [Writers -> [read : Nat \cup {Empty}, write : Nat \cup {Empty}]]
        /\ \A w \in Writers : pc[w] = "idle"
      BY DEF Init
  <2> QED
      BY <2>1, <2>2, <2>3, <2>4 DEF TypeOK
<1>2. WrittenInOrder
    BY DEF Init, WrittenInOrder
<1>3. RoomInv
    BY DEF Init, RoomInv, Filling
<1>4. RingInv
    BY DEF Init, RingInv, Taken, Unfilled
<1>5. FlagInv
    BY DEF Init, FlagInv, Doomed, Filling
<1> QED
    BY <1>1, <1>2, <1>3, <1>4, <1>5 DEF LogInv

\* The next number is behind all there are.
LEMMA ClaimInv ==
    ASSUME LogInv, NEW w \in Writers, Claim(w)
    PROVE  LogInv'
<1> USE DEF Empty
<1>1. TypeOK'
    BY MaxMsgsAssumption DEF LogInv, TypeOK, Claim, readerVars
<1>2. WrittenInOrder'
    BY DEF LogInv, WrittenInOrder, Claim, readerVars
<1>3. RoomInv'
    BY DEF LogInv, TypeOK, RoomInv, Filling, Claim, readerVars
<1>4. ASSUME ~Doomed' PROVE RingInv'
  <2>1. RingInv
      BY <1>4 DEF LogInv, Doomed, Claim, readerVars
  <2>2. Taken' = Taken /\ Taken \in Nat
      BY DEF LogInv, TypeOK, Taken, Claim, readerVars
  <2>3. \A s \in 0 .. Size - 1 : records'[s] # Empty => InWindow(s)'
      BY <2>1, <2>2 DEF RingInv, InWindow, LogInv, TypeOK, Unfilled, Claim, readerVars
  <2> QED
      BY <2>1, <2>2, <2>3 DEF RingInv, LogInv, TypeOK, Unfilled, Claim, readerVars
<1>5. ASSUME ~exit' PROVE FlagInv'
  <2>1. /\ UNCHANGED <<readIndex, records, flag, exit>>
        /\ UNCHANGED <<rpc, record, drains, file>>
        /\ pc'[w] = "claimed"
        /\ \A v \in Writers \ {w} : pc'[v] = pc[v] /\ claim'[v] = claim[v]
      BY DEF LogInv, TypeOK, Claim, readerVars
  <2>2. FlagInv
      BY <1>5, <2>1 DEF LogInv
  <2>3. Doomed' = Doomed /\ ReadSlot' = ReadSlot
      BY <2>1 DEF Doomed, ReadSlot
  <2> QED
      BY <2>1, <2>2, <2>3 DEF FlagInv, Filling
<1> QED
    BY <1>1, <1>2, <1>3, <1>4, <1>5 DEF LogInv

\* Nobody but the writer sees anything of its loads.
LEMMA LoadInv ==
    ASSUME LogInv, NEW w \in Writers, LoadReadIndex(w) \/ LoadWriteIndex(w)
    PROVE  LogInv'
<1> USE DEF Empty
<1>1. /\ UNCHANGED <<writeIndex, readIndex, records, flag, exit, joining, pc, claim>>
      /\ UNCHANGED <<rpc, record, drains, file>>
    BY DEF LoadReadIndex, LoadWriteIndex, readerVars
<1>2. TypeOK'
    BY <1>1 DEF LogInv, TypeOK, LoadReadIndex, LoadWriteIndex
<1>3. RoomInv'
  <2>1. \A v \in Writers \ {w} : seen'[v] = seen[v]
      BY DEF LogInv, TypeOK, LoadReadIndex, LoadWriteIndex
  <2>2. /\ pc[w] = "claimed"
        /\ seen'[w].read \in {seen[w].read, readIndex}
        /\ seen'[w].write \in {seen[w].write, writeIndex}
      BY DEF LogInv, TypeOK, LoadReadIndex, LoadWriteIndex
  <2>3. claim[w] < writeIndex /\ readIndex <= readIndex
      BY <2>2 DEF LogInv, TypeOK
  <2>4. seen'[w].read <= readIndex /\ (seen'[w].write # Empty => claim[w] < seen'[w].write)
      BY <2>2, <2>3 DEF LogInv, RoomInv
  <2> QED
      BY <1>1, <2>1, <2>2, <2>4 DEF LogInv, RoomInv, Filling
<1>4. Doomed' = Doomed /\ Taken' = Taken /\ ReadSlot' = ReadSlot
    BY <1>1 DEF Doomed, Taken, ReadSlot
<1>5. WrittenInOrder'
    BY <1>1 DEF LogInv, WrittenInOrder
<1>6. RingInv => RingInv'
    BY <1>1, <1>4 DEF RingInv, InWindow, Unfilled
<1>7. FlagInv => FlagInv'
    BY <1>1, <1>4 DEF FlagInv, Filling
<1> QED
    BY <1>1, <1>2, <1>3, <1>4, <1>5, <1>6, <1>7 DEF LogInv

\* With room, the place of the claim is empty and its flag clear.
LEMMA RoomFree ==
    ASSUME LogInv, ~Doomed, NEW w \in Writers, Unfilled(w),
           claim[w] + 1 < readIndex + Size
    PROVE  /\ records[Slot(claim[w])] = Empty
           /\ ~exit => ~flag[Slot(claim[w])]
<1> USE DEF Empty
<1>1. /\ claim[w] \in Nat /\ readIndex \in Nat /\ Taken \in Nat
      /\ records \in [0 .. Size - 1 -> Nat \cup {Empty}]
    BY DEF LogInv, TypeOK, Unfilled, Taken
<1>2. /\ Taken <= claim[w] /\ claim[w] < Taken + Size
      /\ rpc = "release" => claim[w] + 1 < Taken + Size
    BY <1>1, SizeAssumption DEF LogInv, RingInv
<1>3. Slot(claim[w]) \in 0 .. Size - 1
  <2>1. claim[w] \in Int
      BY <1>1
  <2> QED
      BY <2>1, SlotRange
<1>4. records[Slot(claim[w])] = Empty
  <2> SUFFICES ASSUME records[Slot(claim[w])] # Empty PROVE FALSE
      OBVIOUS
  <2> DEFINE n == records[Slot(claim[w])]
  <2>1. /\ n \in Nat /\ Taken <= n /\ n < Taken + Size
        /\ Slot(n) = Slot(claim[w]) /\ n # claim[w]
      BY <1>1, <1>3 DEF LogInv, RingInv, InWindow
  <2> HIDE DEF n
  <2> QED
      BY <1>1, <1>2, <2>1, SizeAssumption, SlotWindow
<1>5. ASSUME ~exit PROVE ~flag[Slot(claim[w])]
  <2> SUFFICES ASSUME flag[Slot(claim[w])] PROVE FALSE
      OBVIOUS
  <2>1. rpc = "release" /\ Slot(claim[w]) = Slot(readIndex - 1)
      BY <1>3, <1>4, <1>5 DEF LogInv, FlagInv, ReadSlot
  <2>2. readIndex = Taken
      BY <2>1 DEF LogInv, RingInv
  <2> QED
      BY <1>1, <1>2, <2>1, <2>2, SizeAssumption, SlotWindow
<1> QED
    BY <1>4, <1>5

LEMMA TestRoomInv ==
    ASSUME LogInv, NEW w \in Writers, TestRoom(w)
    PROVE  LogInv'
<1> USE DEF Empty
<1>1. /\ UNCHANGED <<writeIndex, readIndex, records, flag, exit, joining, claim>>
      /\ UNCHANGED <<rpc, record, drains, file>>
    BY DEF TestRoom, readerVars
<1>2. TypeOK'
  <2>1. /\ pc' \in [Writers -> {"idle", "claimed", "write", "flag"}]
        /\ seen' \in [Writers -> [read : Nat \cup {Empty}, write : Nat \cup {Empty}]]
        /\ \A v \in Writers : pc'[v] # "idle" => pc[v] # "idle"
      BY DEF LogInv, TypeOK, TestRoom
  <2> QED
      BY <1>1, <2>1 DEF LogInv, TypeOK
<1>3. Room(w) => claim[w] + 1 < readIndex + Size
    BY SizeAssumption DEF LogInv, TypeOK, RoomInv, TestRoom, Loaded, Room
<1>4. /\ \A v \in Writers \ {w} : pc'[v] = pc[v] /\ seen'[v] = seen[v]
      /\ seen'[w] = [read |-> Empty, write |-> Empty]
      /\ pc'[w] = IF Room(w) THEN "write" ELSE "claimed"
      /\ pc[w] = "claimed"
    BY DEF LogInv, TypeOK, TestRoom
<1>5. RoomInv'
    BY <1>1, <1>3, <1>4 DEF LogInv, TypeOK, RoomInv, Filling
<1>6. \A v \in Writers : Unfilled(v)' = Unfilled(v)
    BY <1>4 DEF Unfilled
<1>7. /\ WrittenInOrder' = WrittenInOrder
      /\ Doomed' = Doomed
      /\ RingInv' = RingInv
    BY <1>1, <1>6 DEF WrittenInOrder, Doomed, RingInv, InWindow, Taken
<1>8. ASSUME ~exit' PROVE FlagInv'
  <2>1. ~exit /\ FlagInv /\ ~Doomed
      BY <1>1, <1>8 DEF LogInv, FlagInv
  <2>2. Room(w) => ~flag[Slot(claim[w])]
      BY <1>3, <1>4, <2>1, RoomFree DEF Unfilled
  <2> QED
      BY <1>1, <1>4, <1>7, <2>1, <2>2 DEF FlagInv, Filling, ReadSlot
<1> QED
    BY <1>1, <1>2, <1>5, <1>7, <1>8 DEF LogInv

\* The message goes into an empty place inside the window.
LEMMA WriteRecordInv ==
    ASSUME LogInv, NEW w \in Writers, WriteRecord(w)
    PROVE  LogInv'
<1> USE DEF Empty
<1>1. /\ UNCHANGED <<writeIndex, readIndex, flag, exit, joining, claim, seen>>
      /\ UNCHANGED <<rpc, record, drains, file>>
    BY DEF WriteRecord, readerVars
<1>2. /\ claim[w] \in Nat /\ claim[w] < writeIndex
      /\ Slot(claim[w]) \in 0 .. Size - 1
      /\ claim[w] + 1 < readIndex + Size
      /\ \A v \in Writers \ {w} : pc[v] # "idle" => claim[v] # claim[w]
  <2>1. claim[w] \in Nat /\ claim[w] < writeIndex
      BY DEF LogInv, TypeOK, WriteRecord
  <2> QED
      BY <2>1, SlotRange DEF LogInv, TypeOK, RoomInv, Filling, WriteRecord
<1>3. /\ records'[Slot(claim[w])] = claim[w]
      /\ \A s \in (0 .. Size - 1) \ {Slot(claim[w])} : records'[s] = records[s]
      /\ pc[w] = "write" /\ pc'[w] = "flag"
      /\ \A v \in Writers \ {w} : pc'[v] = pc[v]
    BY <1>2 DEF LogInv, TypeOK, WriteRecord
<1>4. TypeOK'
  <2>1. /\ records' \in [0 .. Size - 1 -> Nat \cup {Empty}]
        /\ pc' \in [Writers -> {"idle", "claimed", "write", "flag"}]
        /\ \A v \in Writers : pc'[v] # "idle" => pc[v] # "idle"
      BY <1>2 DEF LogInv, TypeOK, WriteRecord
  <2> QED
      BY <1>1, <2>1 DEF LogInv, TypeOK
<1>5. WrittenInOrder'
    BY <1>1 DEF LogInv, WrittenInOrder
<1>6. RoomInv'
    BY <1>1, <1>3 DEF LogInv, RoomInv, Filling
<1>7. Doomed' = Doomed /\ Taken' = Taken /\ ReadSlot' = ReadSlot
    BY <1>1 DEF Doomed, Taken, ReadSlot
<1>8. ASSUME ~Doomed' PROVE RingInv'
  <2>1. RingInv /\ Taken \in Nat /\ readIndex \in Nat /\ readIndex <= Taken + 1
      BY <1>7, <1>8 DEF LogInv, TypeOK, RingInv, Taken
  <2>2. \A v \in Writers : Unfilled(v)' => Unfilled(v) /\ v # w /\ pc[v] # "idle"
      BY <1>3 DEF Unfilled
  <2>3. InWindow(Slot(claim[w]))'
      BY <1>1, <1>2, <1>3, <1>7, <2>1, <2>2, SizeAssumption DEF InWindow, RingInv, Unfilled
  <2>4. \A s \in 0 .. Size - 1 : s # Slot(claim[w]) /\ records'[s] # Empty => InWindow(s)'
      BY <1>1, <1>3, <1>7, <2>1, <2>2 DEF InWindow, RingInv
  <2> QED
      BY <1>1, <1>7, <2>1, <2>2, <2>3, <2>4 DEF RingInv
<1>9. ASSUME ~exit' PROVE FlagInv'
  <2>1. ~exit /\ FlagInv /\ ~Doomed
      BY <1>1, <1>9 DEF LogInv, FlagInv
  <2>2. records[Slot(claim[w])] = Empty
      BY <1>2, <1>3, <2>1, RoomFree DEF Unfilled
  <2>3. \A v \in Writers : pc'[v] = "flag" => records'[Slot(claim[v])] = claim[v]
    <3> SUFFICES ASSUME NEW v \in Writers \ {w}, pc[v] = "flag"
                 PROVE  records'[Slot(claim[v])] = claim[v]
        BY <1>3
    <3>1. claim[v] \in Nat /\ records[Slot(claim[v])] = claim[v]
        BY <2>1 DEF LogInv, TypeOK, FlagInv
    <3>2. Slot(claim[v]) \in 0 .. Size - 1
        BY <3>1, SlotRange
    <3> QED
        BY <1>3, <2>2, <3>1, <3>2
  <2>4. ~flag[Slot(claim[w])]
      BY <2>1, <1>3 DEF FlagInv, Filling
  <2> QED
      BY <1>1, <1>2, <1>3, <1>7, <2>1, <2>3, <2>4 DEF FlagInv, Filling
<1> QED
    BY <1>4, <1>5, <1>6, <1>8, <1>9 DEF LogInv

\* Two writers that fill have different places.
LEMMA FillingApart ==
    ASSUME LogInv, ~exit, NEW w \in Writers, NEW v \in Writers, v # w,
           Filling(w), Filling(v)
    PROVE  Slot(claim[v]) # Slot(claim[w])
<1> USE DEF Empty
<1>1. /\ claim[w] \in Nat /\ claim[v] \in Nat /\ claim[v] # claim[w]
      /\ readIndex \in Nat /\ Taken \in Nat /\ readIndex <= Taken + 1
      /\ FlagInv /\ RingInv
    BY DEF LogInv, TypeOK, FlagInv, RingInv, Filling, Taken
<1>2. ASSUME NEW u \in Writers, Filling(u)
      PROVE  Taken <= claim[u] /\ claim[u] < Taken + Size
  <2>1. claim[u] \in Nat /\ claim[u] + 1 < readIndex + Size
      BY <1>2 DEF LogInv, TypeOK, RoomInv, Filling
  <2>2. CASE pc[u] = "write"
      BY <1>1, <2>1, <2>2, SizeAssumption DEF RingInv, Unfilled
  <2>3. CASE pc[u] = "flag"
    <3>1. records[Slot(claim[u])] = claim[u] /\ Slot(claim[u]) \in 0 .. Size - 1
        BY <1>1, <2>1, <2>3, SlotRange DEF FlagInv
    <3> QED
        BY <1>1, <2>1, <3>1 DEF RingInv, InWindow
  <2> QED
      BY <1>2, <2>2, <2>3 DEF Filling
<1>3. Taken <= claim[w] /\ claim[w] < Taken + Size /\ Taken <= claim[v] /\ claim[v] < Taken + Size
    BY <1>2
<1> QED
    BY <1>1, <1>3, SizeAssumption, SlotWindow

LEMMA SetFlagInv ==
    ASSUME LogInv, NEW w \in Writers, SetFlag(w)
    PROVE  LogInv'
<1> USE DEF Empty
<1>1. /\ UNCHANGED <<writeIndex, readIndex, records, exit, joining, claim, seen>>
      /\ UNCHANGED <<rpc, record, drains, file>>
    BY DEF SetFlag, readerVars
<1>2. claim[w] \in Nat /\ Slot(claim[w]) \in 0 .. Size - 1 /\ pc[w] = "flag"
    BY SlotRange DEF LogInv, TypeOK, SetFlag
<1>3. /\ \A s \in (0 .. Size - 1) \ {Slot(claim[w])} : flag'[s] = flag[s]
      /\ \A s \in 0 .. Size - 1 : flag[s] => flag'[s]
      /\ pc'[w] = "idle"
      /\ \A v \in Writers \ {w} : pc'[v] = pc[v]
    BY <1>2 DEF LogInv, TypeOK, SetFlag
<1>4. TypeOK'
  <2>1. /\ flag' \in [0 .. Size - 1 -> BOOLEAN]
        /\ pc' \in [Writers -> {"idle", "claimed", "write", "flag"}]
        /\ \A v \in Writers : pc'[v] # "idle" => pc[v] # "idle"
      BY <1>2 DEF LogInv, TypeOK, SetFlag
  <2> QED
      BY <1>1, <2>1 DEF LogInv, TypeOK
<1>5. WrittenInOrder'
    BY <1>1 DEF LogInv, WrittenInOrder
<1>6. RoomInv'
    BY <1>1, <1>2, <1>3 DEF LogInv, RoomInv, Filling
<1>7. Doomed' = Doomed /\ Taken' = Taken /\ ReadSlot' = ReadSlot
    BY <1>1 DEF Doomed, Taken, ReadSlot
<1>8. \A v \in Writers : Unfilled(v)' = Unfilled(v)
    BY <1>2, <1>3 DEF Unfilled
<1>9. RingInv => RingInv'
    BY <1>1, <1>7, <1>8 DEF RingInv, InWindow
<1>10. ASSUME ~exit' PROVE FlagInv'
  <2>1. ~exit /\ FlagInv
      BY <1>1, <1>10 DEF LogInv
  <2>2. \A v \in Writers : Filling(v)' => v # w /\ Filling(v)
      BY <1>3 DEF Filling
  <2>3. ASSUME NEW v \in Writers, Filling(v)' PROVE ~flag'[Slot(claim[v])]
    <3>1. Slot(claim[v]) # Slot(claim[w])
        BY <1>2, <2>1, <2>2, <2>3, FillingApart DEF Filling
    <3>2. Slot(claim[v]) \in 0 .. Size - 1
      <4>1. claim[v] \in Int
          BY <2>2, <2>3 DEF LogInv, TypeOK, Filling
      <4> QED
          BY <4>1, SlotRange
    <3> QED
        BY <1>3, <2>1, <2>2, <2>3, <3>1, <3>2 DEF FlagInv
  <2>4. \A s \in 0 .. Size - 1 :
            flag'[s] => records[s] # Empty \/ (rpc = "release" /\ s = ReadSlot)
      BY <1>2, <1>3, <2>1 DEF FlagInv
  <2>5. rpc \in {"take", "release"} => flag'[ReadSlot]
    <3>1. ReadSlot \in 0 .. Size - 1
        BY SlotRange DEF LogInv, TypeOK, ReadSlot
    <3> QED
        BY <1>3, <2>1, <3>1 DEF FlagInv
  <2> QED
      BY <1>1, <1>3, <1>7, <2>1, <2>2, <2>3, <2>4, <2>5 DEF FlagInv
<1> QED
    BY <1>1, <1>4, <1>5, <1>6, <1>7, <1>9, <1>10 DEF LogInv

----------------------------------------------------------------------------
(* The reader *)

\* It goes on to a place, or looks at a flag: the ring stays as it is.
LEMMA MoveInv ==
    ASSUME LogInv, NextPlace \/ LeaveLoop \/ StopWaiting \/ DrainPlace \/ DrainLook
    PROVE  LogInv'
<1> USE DEF Empty
<1>1. /\ UNCHANGED <<writeIndex, records, flag, exit, joining, pc, claim, seen>>
      /\ UNCHANGED <<record, file>>
      /\ readIndex' \in {readIndex, readIndex + 1}
      /\ rpc \in {"top", "wait", "drain", "look"}
      /\ rpc' \in {"wait", "take", "drain", "look", "done"}
    BY DEF NextPlace, LeaveLoop, StopWaiting, DrainPlace, DrainLook, writerVars
<1>2. readIndex \in Nat /\ Len(file) \in Nat
    BY DEF LogInv, TypeOK
<1>3. TypeOK'
  <2>1. drains' \in BOOLEAN
      BY DEF LogInv, TypeOK, NextPlace, LeaveLoop, StopWaiting, DrainPlace, DrainLook
  <2> QED
      BY <1>1, <1>2, <2>1 DEF LogInv, TypeOK
<1>4. WrittenInOrder'
    BY <1>1 DEF LogInv, WrittenInOrder
<1>5. RoomInv'
    BY <1>1, <1>2, SizeAssumption DEF LogInv, TypeOK, RoomInv, Filling
<1>6. ~Doomed /\ ~Doomed' /\ Taken' = Taken /\ Taken = Len(file)
    BY <1>1, <1>2 DEF Doomed, Taken
<1>7. RingInv'
  <2>1. RingInv
      BY <1>6 DEF LogInv
  <2>2. readIndex' = IF rpc' \in {"top", "drain", "release"} THEN Taken ELSE Taken + 1
      BY <1>1, <1>2, <1>6, <2>1
         DEF RingInv, NextPlace, LeaveLoop, StopWaiting, DrainPlace, DrainLook
  <2>3. \A v \in Writers : Unfilled(v)' = Unfilled(v)
      BY <1>1 DEF Unfilled
  <2> QED
      BY <1>1, <1>6, <2>1, <2>2, <2>3 DEF RingInv, InWindow
<1>8. ASSUME ~exit' PROVE FlagInv'
  <2>1. ~exit /\ FlagInv
      BY <1>1, <1>8 DEF LogInv
  <2>2. NextPlace \/ StopWaiting
      BY <2>1 DEF FlagInv, LeaveLoop, DrainPlace, DrainLook
  <2>3. ~drains' /\ rpc' \in {"wait", "take"} /\ (rpc' = "take" => flag[ReadSlot] /\ readIndex' = readIndex)
      BY <2>1, <2>2 DEF FlagInv, NextPlace, StopWaiting
  <2> QED
      BY <1>1, <1>6, <2>1, <2>3 DEF FlagInv, Filling, ReadSlot
<1> QED
    BY <1>3, <1>4, <1>5, <1>7, <1>8 DEF LogInv

\* What the reader finds in the place it is at is the next message, if anything.
LEMMA TakeRecordInv ==
    ASSUME LogInv, TakeRecord
    PROVE  LogInv'
<1> USE DEF Empty
<1>1. /\ UNCHANGED <<writeIndex, readIndex, flag, exit, joining, pc, claim, seen>>
      /\ UNCHANGED <<drains, file>>
      /\ rpc = "take" /\ rpc' = "release"
    BY DEF TakeRecord, writerVars
<1>2. readIndex \in Nat /\ Len(file) \in Nat /\ ReadSlot \in 0 .. Size - 1
    BY SlotRange DEF LogInv, TypeOK, ReadSlot
<1>3. /\ record' = records[ReadSlot]
      /\ records'[ReadSlot] = Empty
      /\ \A s \in (0 .. Size - 1) \ {ReadSlot} : records'[s] = records[s]
      /\ records' \in [0 .. Size - 1 -> Nat \cup {Empty}]
      /\ record' \in Nat \cup {Empty}
    BY <1>2 DEF LogInv, TypeOK, TakeRecord
<1>4. TypeOK'
    BY <1>1, <1>3 DEF LogInv, TypeOK
<1>5. WrittenInOrder'
    BY <1>1 DEF LogInv, WrittenInOrder
<1>6. RoomInv'
    BY <1>1 DEF LogInv, RoomInv, Filling
<1>7. /\ ~Doomed /\ RingInv
      /\ Taken = Len(file) /\ Taken' = Len(file) + 1
      /\ readIndex = Taken + 1 /\ ReadSlot' = ReadSlot
    BY <1>1, <1>2 DEF LogInv, Doomed, RingInv, Taken, ReadSlot
<1>8. ASSUME record' # Empty
      PROVE  record' = Len(file) /\ InWindow(ReadSlot)
  <2> DEFINE n == records[ReadSlot]
  <2>1. InWindow(ReadSlot) /\ n \in Nat
      BY <1>2, <1>3, <1>7, <1>8 DEF RingInv
  <2>2. Taken <= n /\ n < Taken + Size /\ Slot(n) = Slot(readIndex - 1)
      BY <2>1 DEF InWindow, ReadSlot
  <2> HIDE DEF n
  <2>3. n = readIndex - 1
      BY <1>2, <1>7, <2>1, <2>2, SizeAssumption, SlotWindow
  <2> QED
      BY <1>2, <1>3, <1>7, <2>1, <2>3 DEF n
<1>9. ASSUME ~Doomed' PROVE RingInv'
  <2>1. record' = Taken /\ InWindow(ReadSlot) /\ records[ReadSlot] = Taken
      BY <1>1, <1>3, <1>7, <1>8, <1>9 DEF Doomed
  <2>2. \A v \in Writers : Unfilled(v)' = Unfilled(v)
      BY <1>1 DEF Unfilled
  <2>3. Taken + 1 <= writeIndex
      BY <1>2, <1>7, <2>1 DEF InWindow, LogInv, TypeOK
  <2>4. ASSUME NEW s \in 0 .. Size - 1, records'[s] # Empty PROVE InWindow(s)'
    <3>1. s # ReadSlot /\ records'[s] = records[s] /\ InWindow(s) /\ records[s] \in Nat
        BY <1>3, <1>7, <2>4 DEF RingInv
    <3>2. records[s] # Taken
        BY <2>1, <3>1 DEF InWindow
    <3> QED
        BY <1>1, <1>2, <1>7, <2>2, <3>1, <3>2, SizeAssumption DEF InWindow
  <2>5. ASSUME NEW v \in Writers, Unfilled(v) PROVE Taken + 1 <= claim[v]
    <3>1. claim[v] # Taken /\ Taken <= claim[v] /\ claim[v] \in Nat
        BY <1>7, <2>1, <2>5 DEF InWindow, RingInv, LogInv, TypeOK, Unfilled
    <3> QED
        BY <1>2, <1>7, <3>1
  <2> QED
      BY <1>1, <1>2, <1>7, <2>1, <2>2, <2>3, <2>4, <2>5 DEF RingInv
<1>10. ASSUME ~exit' PROVE FlagInv'
  <2>1. ~exit /\ FlagInv /\ flag[ReadSlot]
      BY <1>1, <1>10 DEF LogInv, FlagInv
  <2>2. record' # Empty
      BY <1>1, <1>2, <1>3, <2>1 DEF FlagInv
  <2>3. ASSUME NEW v \in Writers, pc[v] = "flag"
        PROVE  records'[Slot(claim[v])] = claim[v]
    <3>1. claim[v] \in Int
        BY <2>3 DEF LogInv, TypeOK
    <3>2. Slot(claim[v]) \in 0 .. Size - 1
        BY <3>1, SlotRange
    <3>3. Slot(claim[v]) # ReadSlot
        BY <2>1, <2>3 DEF FlagInv, Filling
    <3> QED
        BY <1>3, <2>1, <2>3, <3>2, <3>3 DEF FlagInv
  <2>4. ~Doomed'
      BY <1>1, <2>2 DEF Doomed
  <2> QED
      BY <1>1, <1>3, <1>7, <2>1, <2>3, <2>4 DEF FlagInv, Filling
<1> QED
    BY <1>4, <1>5, <1>6, <1>9, <1>10 DEF LogInv

LEMMA ReleaseInv ==
    ASSUME LogInv, Release
    PROVE  LogInv'
<1> USE DEF Empty
<1>1. /\ UNCHANGED <<writeIndex, readIndex, records, exit, joining, pc, claim, seen>>
      /\ UNCHANGED <<record, drains>>
      /\ rpc = "release"
    BY DEF Release, writerVars
<1>2. /\ readIndex \in Nat /\ file \in Seq(Nat) /\ Len(file) \in Nat
      /\ ReadSlot \in 0 .. Size - 1
      /\ record \in Nat \cup {Empty}
    BY SlotRange DEF LogInv, TypeOK, ReadSlot
<1>3. /\ flag' \in [0 .. Size - 1 -> BOOLEAN]
      /\ ~flag'[ReadSlot]
      /\ \A s \in 0 .. Size - 1 : flag'[s] => flag[s] /\ s # ReadSlot
    BY <1>2 DEF LogInv, TypeOK, Release
<1>4. RoomInv'
    BY <1>1 DEF LogInv, RoomInv, Filling
<1>5. ASSUME NEW v \in Writers, Filling(v), ~flag[Slot(claim[v])]
      PROVE  ~flag'[Slot(claim[v])]
  <2>1. claim[v] \in Int
      BY <1>5 DEF LogInv, TypeOK, Filling
  <2>2. Slot(claim[v]) \in 0 .. Size - 1
      BY <2>1, SlotRange
  <2> QED
      BY <1>3, <1>5, <2>2
<1>6. CASE record = Empty
  <2>1. rpc' = "crashed" /\ file' = file
      BY <1>6 DEF Release
  <2>2. Doomed /\ Doomed'
      BY <1>1, <1>6, <2>1 DEF Doomed
  <2>3. exit
      BY <2>2 DEF LogInv, FlagInv
  <2>4. TypeOK'
      BY <1>1, <1>3, <2>1 DEF LogInv, TypeOK
  <2>5. WrittenInOrder'
      BY <2>1 DEF LogInv, WrittenInOrder
  <2> QED
      BY <1>1, <1>4, <2>2, <2>3, <2>4, <2>5 DEF LogInv
<1>7. CASE record # Empty
  <2>1. rpc' \in {"top", "drain"} /\ (~drains => rpc' = "top") /\ file' = Append(file, record)
      BY <1>7 DEF Release
  <2>2. ~Doomed /\ ~Doomed' /\ RingInv
      BY <1>1, <1>7, <2>1 DEF Doomed, LogInv
  <2>3. record = Len(file) /\ Taken' = Taken
      BY <1>1, <1>2, <2>1, <2>2 DEF RingInv, Taken
  <2>4. TypeOK'
      BY <1>1, <1>2, <1>3, <1>7, <2>1 DEF LogInv, TypeOK
  <2>5. WrittenInOrder'
      BY <1>2, <2>1, <2>3 DEF LogInv, WrittenInOrder
  <2>6. \A v \in Writers : Unfilled(v)' = Unfilled(v)
      BY <1>1 DEF Unfilled
  <2>7. RingInv'
      BY <1>1, <2>1, <2>2, <2>3, <2>6 DEF RingInv, InWindow
  <2>8. ASSUME ~exit' PROVE FlagInv'
    <3>1. ~exit /\ FlagInv
        BY <1>1, <2>8 DEF LogInv
    <3> QED
        BY <1>1, <1>3, <1>5, <2>1, <2>2, <3>1 DEF FlagInv, Filling, ReadSlot
  <2> QED
      BY <1>4, <2>4, <2>5, <2>7, <2>8 DEF LogInv
<1> QED
    BY <1>6, <1>7

----------------------------------------------------------------------------

\* exit and the end of main change nothing the threads work on.
LEMMA EndInv ==
    ASSUME LogInv, Exit \/ EndOfMain \/ UNCHANGED vars
    PROVE  LogInv'
<1>1. /\ UNCHANGED <<writeIndex, readIndex, records, flag, pc, claim, seen>>
      /\ UNCHANGED <<rpc, record, drains, file>>
      /\ exit' \in BOOLEAN /\ joining' \in BOOLEAN
      /\ ~exit' => ~exit
    BY DEF LogInv, TypeOK, Exit, EndOfMain, vars, writerVars, readerVars
<1>2. TypeOK'
    BY <1>1 DEF LogInv, TypeOK
<1>3. WrittenInOrder'
    BY <1>1 DEF LogInv, WrittenInOrder
<1>4. RoomInv'
    BY <1>1 DEF LogInv, RoomInv, Filling
<1>5. Doomed' = Doomed /\ Taken' = Taken /\ ReadSlot' = ReadSlot
    BY <1>1 DEF Doomed, Taken, ReadSlot
<1>6. RingInv => RingInv'
    BY <1>1, <1>5 DEF RingInv, InWindow, Unfilled
<1>7. FlagInv => FlagInv'
    BY <1>1, <1>5 DEF FlagInv, Filling
<1> QED
    BY <1>1, <1>2, <1>3, <1>4, <1>5, <1>6, <1>7 DEF LogInv

\* The inductive invariant of the logger.
THEOREM LogInvariant == Spec => []LogInv
<1>1. LogInv /\ [Next]_vars => LogInv'
    BY ClaimInv, LoadInv, TestRoomInv, WriteRecordInv, SetFlagInv, MoveInv, TakeRecordInv,
       ReleaseInv, EndInv
    DEF Next, LogStep, ReaderStep
<1> QED
    BY InitInv, <1>1, PTL DEF Spec

\* Type correctness, and no two writers work for one claim.
THEOREM LogTypeCorrect == Spec => []TypeOK
<1>1. LogInv => TypeOK
    BY DEF LogInv
<1> QED
    BY <1>1, LogInvariant, PTL

\* A writer that fills a place is alone there, and finds it empty.
THEOREM LogSlotExclusive == Spec => []SlotExclusive
<1>1. LogInv => SlotExclusive
  <2> SUFFICES ASSUME LogInv, ~exit, NEW w \in Writers, Filling(w)
               PROVE  /\ ~flag[Slot(claim[w])]
                      /\ pc[w] = "write" => records[Slot(claim[w])] = Empty
                      /\ rpc \in {"take", "release"} => ReadSlot # Slot(claim[w])
                      /\ \A v \in Writers \ {w} :
                             pc[v] \in {"write", "flag"} => Slot(claim[v]) # Slot(claim[w])
      BY DEF SlotExclusive, Filling
  <2>1. FlagInv /\ ~Doomed
      BY DEF LogInv, FlagInv
  <2>2. ~flag[Slot(claim[w])]
      BY <2>1 DEF FlagInv
  <2>3. rpc \in {"take", "release"} => ReadSlot # Slot(claim[w])
      BY <2>1, <2>2 DEF FlagInv
  <2>4. ASSUME pc[w] = "write" PROVE records[Slot(claim[w])] = Empty
      BY <2>1, <2>4, RoomFree DEF LogInv, RoomInv, Unfilled
  <2>5. \A v \in Writers \ {w} : Filling(v) => Slot(claim[v]) # Slot(claim[w])
      BY FillingApart
  <2> QED
      BY <2>2, <2>3, <2>4, <2>5 DEF Filling
<1> QED
    BY <1>1, LogInvariant, PTL

\* The file holds the messages in the order of their claims, without a gap.
THEOREM LogWrittenInOrder == Spec => []WrittenInOrder
<1>1. LogInv => WrittenInOrder
    BY DEF LogInv
<1> QED
    BY <1>1, LogInvariant, PTL

\* Only exit can make the reader take a place nobody filled.
THEOREM LogFilledBeforeTaken == Spec => []FilledBeforeTaken
<1>1. LogInv => FilledBeforeTaken
    BY DEF LogInv, FlagInv, Doomed, FilledBeforeTaken
<1> QED
    BY <1>1, LogInvariant, PTL
=============================================================================
