------------------------- MODULE RecoveryMgrProofs -------------------------
(***************************************************************************)
(* The recovery client keeps its invariant RecInv whatever the values of   *)
(* the constants: the first lemmas are about the helpers every exit of     *)
(* RecoveryPackets uses, then comes one lemma for the steps of the client  *)
(* and one for a call, then the theorems.  ReceiverLoopProofs uses the     *)
(* same two lemmas for the whole receiver.                                 *)
(***************************************************************************)
EXTENDS RecoveryMgr, TLAPS

\* The division of SplitRecoveryDataRequest: what is left behind the full
\* chunks is less than one chunk.
LEMMA DivisionRemainder ==
    ASSUME NEW n \in Nat, NEW m \in Nat \ {0}
    PROVE  /\ n \div m \in Nat
           /\ n - (n \div m) * m \in 0..(m - 1)
    BY SMT

\* Appending the next number keeps the detector's input in order.
LEMMA AppendKeepsOrder ==
    ASSUME handed \in Seq(Nat), InOrder, handed' = Append(handed, Len(handed) + 1)
    PROVE  handed' \in Seq(Nat) /\ InOrder' /\ Len(handed') = Len(handed) + 1
    BY DEF InOrder

\* The invariant's facts about numbers, without the records they live in.
LEMMA RecFacts ==
    ASSUME RecInv
    PROVE  /\ chunk.from \in Nat /\ chunk.to \in Nat /\ chunk.loops \in Nat
           /\ target \in Nat /\ count \in Nat /\ newCount \in Nat /\ lastRec \in Nat
           /\ handed \in Seq(Nat) /\ Len(handed) \in Nat
           /\ conn.buf \in Nat /\ conn.next \in Nat
           /\ conn.status \in Statuses \cup {"none"} /\ conn.resp \in BOOLEAN
           /\ fds \in Nat /\ connectFailures \in Nat /\ rpc \in RPC
    BY DEF RecInv, TypeOK

\* While a call is in progress the last recovered number, if it is the chunk's
\* last, is the last one the detector was handed.
LEMMA ChunkComplete ==
    ASSUME RecInv, rpc # "idle", lastRec = chunk.to
    PROVE  lastRec = Len(handed) /\ Len(handed) = chunk.to
<1>1. 1 <= chunk.from /\ chunk.from <= chunk.to
    BY DEF RecInv, ChunkInv, RequestsInsideGap
<1>2. /\ Len(handed) + 1 = chunk.from + count + newCount
      /\ count + newCount # 0 => lastRec = chunk.from + count + newCount - 1
      /\ count + newCount = 0 => lastRec = 0
    BY DEF RecInv, ProgressInv, ResumePoint
<1>3. /\ chunk.from \in Nat /\ chunk.to \in Nat /\ count \in Nat /\ newCount \in Nat
      /\ Len(handed) \in Nat
    BY RecFacts
<1>4. count + newCount # 0
    BY <1>1, <1>2, <1>3
<1> QED
    BY <1>2, <1>3, <1>4

\* Between two attempts no descriptor is in use, and no connection is open.
LEMMA BetweenAttempts ==
    ASSUME rpc' \in {"idle", "delay"}, fds' = connectFailures'
    PROVE  DescriptorsAccounted' /\ ConnInv'
<1>1. rpc' \notin {"connect", "send", "recv", "parse", "spin"}
    OBVIOUS
<1> QED
    BY <1>1 DEF DescriptorsAccounted, ConnInv, Connected

\* The end of a chunk: the next one begins where the detector stands, or the
\* call returns with the whole gap handed over.
LEMMA ChunkDoneInv ==
    ASSUME RecInv, rpc # "idle", lastRec = chunk.to, ChunkDone,
           conn' = NoConn, handed' = handed, delayOver' \in BOOLEAN,
           connectFailures' \in 0..MaxConnectFailures,
           fds' \in 0..FdLimit, fds' = connectFailures'
    PROVE  RecInv' /\ (IF rpc' = "idle" THEN Len(handed) = target ELSE target' = target)
<1>1. /\ lastRec = Len(handed)
      /\ Len(handed) = chunk.to
    BY ChunkComplete
<1>2. CASE chunk.loops = 0 \/ lastRec = target
  <2>1. CallReturned
      BY <1>2 DEF ChunkDone
  <2>2. TypeOK'
      BY <2>1 DEF CallReturned, RecInv, TypeOK, RPC, NoChunk, NoConn
  <2>3. ChunkInv' /\ ProgressInv'
      BY <2>1 DEF CallReturned, ChunkInv, ProgressInv
  <2>4. InOrder'
      BY DEF RecInv, InOrder
  <2>5. ConnInv' /\ DescriptorsAccounted'
      BY <2>1, BetweenAttempts DEF CallReturned
  <2>6. Len(handed) = target
      BY <1>1, <1>2, RecFacts DEF RecInv, ChunkInv
  <2> QED
      BY <2>1, <2>2, <2>3, <2>4, <2>5, <2>6 DEF RecInv, CallReturned
<1>3. CASE ~(chunk.loops = 0 \/ lastRec = target)
  <2>1. BeginChunk(NextChunk) /\ target' = target
      BY <1>3 DEF ChunkDone
  <2>2. /\ chunk.loops \in Nat \ {0}
        /\ chunk.to \in Nat /\ target \in Nat /\ chunk.to < target
      BY <1>3, <1>1, RecFacts DEF RecInv, ChunkInv, RequestsInsideGap
  <2>3. chunk' = NextChunk /\ chunk' \in [from : Nat, to : Nat, loops : Nat]
      BY <2>1, <2>2, MaxPacketCountAssumption DEF BeginChunk, NextChunk
  <2>4. TypeOK'
      BY <2>1, <2>2, <2>3 DEF BeginChunk, RecInv, TypeOK, RPC, NoConn
  <2>5. ChunkInv'
    <3> DEFINE rest == target - (chunk.to + (chunk.loops - 1) * MaxPacketCount)
    <3>1. rest \in 0..(MaxPacketCount - 1)
        BY <2>2 DEF RecInv, ChunkInv
    <3>2. CASE chunk.loops = 1
      <4>1. chunk' = [from |-> chunk.to + 1, to |-> target, loops |-> 0]
          BY <3>2, <2>3, <2>2 DEF NextChunk
      <4>2. target - chunk.to \in 0..(MaxPacketCount - 1)
          BY <3>1, <3>2, <2>2, MaxPacketCountAssumption
      <4> QED
          BY <4>1, <4>2, <2>1, <2>2, MaxPacketCountAssumption
             DEF ChunkInv, RequestsInsideGap
    <3>3. CASE chunk.loops # 1
      <4>1. chunk' = [from |-> chunk.to + 1, to |-> chunk.to + MaxPacketCount,
                      loops |-> chunk.loops - 1]
          BY <3>3, <2>3, <2>2 DEF NextChunk
      <4>2. target - (chunk'.to + (chunk'.loops - 1) * MaxPacketCount) = rest
          BY <4>1, <2>2, MaxPacketCountAssumption
      <4>3. 0 <= (chunk'.loops - 1) * MaxPacketCount
          BY <4>1, <3>3, <2>2, MaxPacketCountAssumption
      <4>4. chunk'.to <= target
          BY <4>1, <4>2, <4>3, <3>1, <2>2, MaxPacketCountAssumption
      <4> HIDE DEF rest
      <4> QED
          BY <4>1, <4>2, <4>4, <3>1, <3>3, <2>1, <2>2, MaxPacketCountAssumption
             DEF ChunkInv, RequestsInsideGap
    <3> QED
        BY <3>2, <3>3
  <2>6. ProgressInv'
      BY <1>1, <2>1, <2>2, <2>3, MaxPacketCountAssumption
         DEF BeginChunk, NextChunk, ProgressInv, ResumePoint, Connected
  <2>7. ConnInv' /\ DescriptorsAccounted' /\ InOrder'
      BY <2>1, BetweenAttempts DEF BeginChunk, RecInv, InOrder
  <2>8. rpc' # "idle"
      BY <2>1 DEF BeginChunk
  <2> QED
      BY <2>1, <2>4, <2>5, <2>6, <2>7, <2>8 DEF RecInv
<1> QED
    BY <1>2, <1>3

\* Every exit of RecoveryPackets: the attempt is repeated from the first number
\* still missing, or the chunk is complete.
LEMMA AttemptReturnsInv ==
    ASSUME RecInv, rpc # "idle", NEW ok \in BOOLEAN, ok => lastRec = chunk.to,
           AttemptReturns(ok),
           handed' = handed, delayOver' = delayOver,
           connectFailures' \in 0..MaxConnectFailures,
           fds' \in 0..FdLimit, fds' = connectFailures'
    PROVE  RecInv' /\ (IF rpc' = "idle" THEN Len(handed) = target ELSE target' = target)
<1>1. delayOver' \in BOOLEAN /\ conn' = NoConn
    BY DEF RecInv, TypeOK, AttemptReturns
<1>2. CASE ok \/ lastRec = chunk.to
    BY <1>1, <1>2, ChunkDoneInv DEF AttemptReturns
<1>3. CASE ~(ok \/ lastRec = chunk.to)
  <2>1. /\ rpc' = "delay" /\ count' = count + newCount /\ newCount' = 0
        /\ target' = target /\ chunk' = chunk /\ lastRec' = lastRec
      BY <1>3 DEF AttemptReturns
  <2>2. TypeOK'
      BY <1>1, <2>1 DEF RecInv, TypeOK, RPC, NoConn
  <2>3. InOrder' /\ DescriptorsAccounted' /\ ConnInv'
      BY <2>1, BetweenAttempts DEF RecInv, InOrder
  <2>4. ChunkInv'
      BY <2>1 DEF RecInv, ChunkInv, RequestsInsideGap
  <2>5. ProgressInv'
    <3>1. Len(handed) + 1 = chunk'.from + count' + newCount' /\ Len(handed) <= chunk'.to
        BY <2>1, RecFacts DEF RecInv, ProgressInv
    <3>2. count' + newCount' = count + newCount
        BY <2>1, RecFacts
    <3> QED
        BY <2>1, <3>1, <3>2, RecFacts DEF RecInv, ProgressInv, ResumePoint
  <2> QED
      BY <2>1, <2>2, <2>3, <2>4, <2>5 DEF RecInv
<1> QED
    BY <1>2, <1>3

\* A call for the numbers that follow those handed over.
LEMMA CallInv ==
    ASSUME RecInv, NEW to \in Nat, SplitRecoveryDataRequest(Len(handed) + 1, to)
    PROVE  RecInv' /\ rpc' # "idle" /\ target' = to /\ handed' = handed
<1> DEFINE from      == Len(handed) + 1
           fullCount == (to - from) \div MaxPacketCount
<1>1. /\ from \in Nat /\ from <= to /\ to - from \in Nat
      /\ rpc = "idle" /\ target' = to
      /\ chunk' = [from  |-> from,
                   to    |-> IF fullCount = 0 THEN to ELSE from + MaxPacketCount,
                   loops |-> fullCount]
      /\ count' = 0 /\ newCount' = 0 /\ lastRec' = 0 /\ rpc' = "delay"
      /\ UNCHANGED <<delayOver, fds, connectFailures, conn, handed>>
    BY DEF SplitRecoveryDataRequest, BeginChunk, RecInv, TypeOK
<1>2. /\ fullCount \in Nat
      /\ (to - from) - fullCount * MaxPacketCount \in 0..(MaxPacketCount - 1)
    BY <1>1, DivisionRemainder, MaxPacketCountAssumption
<1> HIDE DEF fullCount, from
<1>3. TypeOK'
    BY <1>1, <1>2, MaxPacketCountAssumption DEF RecInv, TypeOK, RPC
<1>4. ChunkInv'
  <2>1. CASE fullCount = 0
      BY <1>1, <1>2, <2>1, MaxPacketCountAssumption
         DEF ChunkInv, RequestsInsideGap, from, RecInv, TypeOK
  <2>2. CASE fullCount # 0
    <3>1. chunk' = [from |-> from, to |-> from + MaxPacketCount, loops |-> fullCount]
        BY <1>1, <2>2
    <3>2. to - (from + MaxPacketCount + (fullCount - 1) * MaxPacketCount)
             = (to - from) - fullCount * MaxPacketCount
        BY <1>1, <1>2, MaxPacketCountAssumption
    <3>3. 0 <= (fullCount - 1) * MaxPacketCount
        BY <1>2, <2>2, MaxPacketCountAssumption
    <3>4. from + MaxPacketCount <= to
        BY <1>1, <1>2, <3>2, <3>3, MaxPacketCountAssumption
    <3> QED
        BY <1>1, <1>2, <2>2, <3>1, <3>2, <3>4, MaxPacketCountAssumption
           DEF ChunkInv, RequestsInsideGap, from, RecInv, TypeOK
  <2> QED
      BY <2>1, <2>2
<1>5. ProgressInv'
  <2>1. Len(handed) \in Nat
      BY DEF RecInv, TypeOK
  <2>2. chunk'.from = Len(handed) + 1 /\ Len(handed) <= chunk'.to
      BY <1>1, <2>1, MaxPacketCountAssumption DEF from
  <2> QED
      BY <1>1, <2>1, <2>2 DEF ProgressInv, ResumePoint, Connected
<1>6. InOrder' /\ DescriptorsAccounted' /\ ConnInv'
    BY <1>1 DEF RecInv, InOrder, DescriptorsAccounted, ConnInv, Connected
<1> QED
    BY <1>1, <1>3, <1>4, <1>5, <1>6 DEF RecInv


----------------------------------------------------------------------------

\* What a step of the recovery code may do, seen from its caller: nothing while
\* no call is in progress; go on, possibly handing over the next number of the
\* gap; or return, with the whole gap handed over.
RecEffect ==
    \/ /\ rpc = "idle" /\ rpc' = "idle"
       /\ target' = target /\ handed' = handed
    \/ /\ rpc # "idle" /\ rpc' # "idle"
       /\ target' = target
       /\ \/ handed' = handed
          \/ handed' = Append(handed, Len(handed) + 1) /\ Len(handed) < target
    \/ /\ rpc # "idle" /\ rpc' = "idle"
       /\ Len(handed) = target /\ handed' = handed

\* Steps that leave the chunk, the counts and the detector alone.
LEMMA MoveInv ==
    ASSUME RecInv, rpc # "idle",
           UNCHANGED <<target, chunk, count, newCount, lastRec, connectFailures, handed>>,
           rpc' \in RPC \ {"idle"}, delayOver' \in BOOLEAN, fds' \in 0..FdLimit,
           conn' \in [status : Statuses \cup {"none"}, resp : BOOLEAN, buf : Nat, next : Nat],
           DescriptorsAccounted', ConnInv',
           rpc' \notin Connected => newCount = 0
    PROVE  RecInv' /\ RecEffect
<1>1. TypeOK' /\ InOrder'
    BY DEF RecInv, TypeOK, InOrder
<1>2. ChunkInv'
    BY DEF RecInv, ChunkInv, RequestsInsideGap
<1>3. ProgressInv'
    BY DEF RecInv, ProgressInv, ResumePoint
<1> QED
    BY <1>1, <1>2, <1>3 DEF RecInv, RecEffect

\* The exchange's delay runs out.
LEMMA DelayPassesInv ==
    ASSUME RecInv, DelayPasses
    PROVE  RecInv' /\ RecEffect
<1>1. /\ delayOver' \in BOOLEAN
      /\ UNCHANGED <<rpc, target, chunk, count, newCount, lastRec, fds,
                     connectFailures, conn, handed>>
    BY DEF DelayPasses
<1>2. TypeOK' /\ InOrder' /\ DescriptorsAccounted'
    BY <1>1 DEF RecInv, TypeOK, InOrder, DescriptorsAccounted
<1>3. ChunkInv' /\ ProgressInv' /\ ConnInv'
    BY <1>1 DEF RecInv, ChunkInv, RequestsInsideGap, ProgressInv, ResumePoint, ConnInv
<1> QED
    BY <1>1, <1>2, <1>3 DEF RecInv, RecEffect

\* The delay is over, and an attempt begins.
LEMMA WaitForDelayInv ==
    ASSUME RecInv, WaitForDelay
    PROVE  RecInv' /\ RecEffect
<1>1. /\ rpc = "delay" /\ rpc' = "socket"
      /\ UNCHANGED <<target, chunk, count, newCount, lastRec, delayOver, fds,
                     connectFailures, conn, handed>>
    BY DEF WaitForDelay
<1>2. newCount = 0 /\ DescriptorsAccounted' /\ ConnInv'
    BY <1>1 DEF RecInv, ProgressInv, DescriptorsAccounted, ConnInv, Connected
<1> QED
    BY <1>1, <1>2, MoveInv DEF RecInv, TypeOK, RPC

\* A descriptor is taken, or none is left and the attempt fails.
LEMMA CreateSocketInv ==
    ASSUME RecInv, CreateSocket
    PROVE  RecInv' /\ RecEffect
<1>1. /\ rpc = "socket" /\ fds = connectFailures /\ fds \in 0..FdLimit
      /\ connectFailures \in 0..MaxConnectFailures
      /\ UNCHANGED <<delayOver, connectFailures, handed>>
    BY DEF CreateSocket, RecInv, TypeOK, DescriptorsAccounted
<1>2. CASE /\ fds < FdLimit /\ fds' = fds + 1 /\ rpc' = "connect"
           /\ UNCHANGED <<target, chunk, count, newCount, lastRec, conn>>
  <2>1. newCount = 0 /\ DescriptorsAccounted' /\ ConnInv'
      BY <1>1, <1>2 DEF RecInv, ProgressInv, DescriptorsAccounted, ConnInv, Connected
  <2>2. fds' \in 0..FdLimit
      BY <1>1, <1>2, FdLimitAssumption
  <2> QED
      BY <1>1, <1>2, <2>1, <2>2, MoveInv DEF RecInv, TypeOK, RPC
<1>3. CASE AttemptReturns(FALSE) /\ UNCHANGED fds
    BY <1>1, <1>3, AttemptReturnsInv DEF RecEffect
<1> QED
    BY <1>2, <1>3 DEF CreateSocket

\* The connection is made: nothing is on the wire yet.
LEMMA ConnectServerInv ==
    ASSUME RecInv, ConnectServer
    PROVE  RecInv' /\ RecEffect
<1>1. /\ rpc = "connect" /\ rpc' = "send"
      /\ UNCHANGED <<target, chunk, count, newCount, lastRec, delayOver, fds,
                     connectFailures, conn, handed>>
    BY DEF ConnectServer
<1>2. newCount = 0 /\ DescriptorsAccounted' /\ ConnInv'
    BY <1>1 DEF RecInv, ProgressInv, DescriptorsAccounted, ConnInv, Connected
<1> QED
    BY <1>1, <1>2, MoveInv DEF RecInv, TypeOK, RPC

\* A failed connect keeps its descriptor, which stays accounted for.
LEMMA ConnectFailsInv ==
    ASSUME RecInv, ConnectFails
    PROVE  RecInv' /\ RecEffect
<1>1. /\ rpc = "connect" /\ fds = connectFailures + 1 /\ fds \in 0..FdLimit
      /\ connectFailures \in 0..MaxConnectFailures
      /\ connectFailures < MaxConnectFailures /\ connectFailures' = connectFailures + 1
      /\ UNCHANGED <<delayOver, fds, handed>>
    BY DEF ConnectFails, RecInv, TypeOK, DescriptorsAccounted
<1>2. connectFailures' \in 0..MaxConnectFailures
    BY <1>1, MaxConnectFailuresAssumption
<1> QED
    BY <1>1, <1>2, AttemptReturnsInv DEF ConnectFails, RecEffect

\* The request asks for the numbers still missing of the chunk.
LEMMA SendRequestInv ==
    ASSUME RecInv, SendRequest
    PROVE  RecInv' /\ RecEffect
<1>1. /\ rpc = "send" /\ rpc' = "recv" /\ delayOver' = FALSE
      /\ conn' = [status |-> "none", resp |-> FALSE, buf |-> 0, next |-> chunk.from + count]
      /\ UNCHANGED <<target, chunk, count, newCount, lastRec, fds,
                     connectFailures, handed>>
    BY DEF SendRequest, RequestFrom, NoConn
<1>2. /\ newCount = 0 /\ Len(handed) + 1 = chunk.from + count + newCount
      /\ Len(handed) <= chunk.to
    BY <1>1 DEF RecInv, ProgressInv, Connected
<1>3. chunk.from + count = Len(handed) + 1
    BY <1>2, RecFacts
<1>4. conn'.next = Len(handed) + 1 /\ conn'.next + conn'.buf <= chunk.to + 1
    BY <1>1, <1>2, <1>3, RecFacts
<1>5. ConnInv' /\ DescriptorsAccounted'
    BY <1>1, <1>4 DEF RecInv, ConnInv, DescriptorsAccounted
<1>6. conn' \in [status : Statuses \cup {"none"}, resp : BOOLEAN, buf : Nat, next : Nat]
    BY <1>1, RecFacts
<1> QED
    BY <1>1, <1>5, <1>6, MoveInv DEF RecInv, TypeOK, RPC, Connected

\* The exits of RecoveryPackets that close the socket.
LEMMA CloseInv ==
    ASSUME RecInv, rpc \in {"send", "recv", "parse"}, NEW ok \in BOOLEAN,
           ok => lastRec = chunk.to, fds' = fds - 1, AttemptReturns(ok),
           UNCHANGED <<delayOver, connectFailures, handed>>
    PROVE  RecInv' /\ RecEffect
<1>1. /\ fds = connectFailures + 1 /\ fds \in 0..FdLimit
      /\ connectFailures \in 0..MaxConnectFailures
    BY DEF RecInv, TypeOK, DescriptorsAccounted
<1>2. fds' \in 0..FdLimit /\ fds' = connectFailures'
    BY <1>1, FdLimitAssumption, MaxConnectFailuresAssumption
<1> QED
    BY <1>1, <1>2, AttemptReturnsInv DEF RecEffect

\* A failed send ends the attempt with the socket closed.
LEMMA SendFailsInv ==
    ASSUME RecInv, SendFails
    PROVE  RecInv' /\ RecEffect
BY CloseInv DEF SendFails

\* The end of the stream ends the attempt with the socket closed.
LEMMA PeerClosesInv ==
    ASSUME RecInv, PeerCloses
    PROVE  RecInv' /\ RecEffect
<1>1. (lastRec = chunk.to) \in BOOLEAN
    OBVIOUS
<1> QED
    BY <1>1, CloseInv DEF PeerCloses

\* A recv takes messages that follow those taken before.
LEMMA RecvDataInv ==
    ASSUME RecInv, NEW status \in Statuses, NEW n \in Nat, RecvData(status, n)
    PROVE  RecInv' /\ RecEffect
<1>1. /\ rpc = "recv" /\ rpc' = "parse"
      /\ conn.next + n - 1 <= chunk.to
      /\ conn' = [conn EXCEPT !.status = status, !.resp = (@ \/ conn.status = "none"),
                              !.buf = n]
      /\ UNCHANGED <<target, chunk, count, newCount, lastRec, delayOver, fds,
                     connectFailures, handed>>
    BY DEF RecvData
<1>2. conn \in [status : Statuses \cup {"none"}, resp : BOOLEAN, buf : Nat, next : Nat]
    BY DEF RecInv, TypeOK
<1>3. /\ conn' \in [status : Statuses \cup {"none"}, resp : BOOLEAN, buf : Nat, next : Nat]
      /\ conn'.buf = n /\ conn'.next = conn.next
    BY <1>1, <1>2
<1>4. conn'.next = Len(handed) + 1
    BY <1>1, <1>3 DEF RecInv, ConnInv, Connected
<1>5. conn'.next + conn'.buf <= chunk.to + 1
    BY <1>1, <1>3, RecFacts
<1>6. ConnInv' /\ DescriptorsAccounted'
    BY <1>1, <1>4, <1>5 DEF RecInv, ConnInv, DescriptorsAccounted
<1> QED
    BY <1>1, <1>3, <1>6, MoveInv DEF RecInv, TypeOK, RPC, Connected

\* A recv that ends inside the response leaves no message behind it.
LEMMA RecvTornResponseInv ==
    ASSUME RecInv, RecvTornResponse
    PROVE  RecInv' /\ RecEffect
<1>1. /\ rpc = "recv" /\ rpc' = "spin"
      /\ UNCHANGED <<target, chunk, count, newCount, lastRec, delayOver, fds,
                     connectFailures, conn, handed>>
    BY DEF RecvTornResponse
<1>2. ConnInv' /\ DescriptorsAccounted'
    BY <1>1 DEF RecInv, ConnInv, Connected, DescriptorsAccounted
<1> QED
    BY <1>1, <1>2, MoveInv DEF RecInv, TypeOK, RPC, Connected

\* The response is parsed; the next message expected stays the same.
LEMMA ParseResponseInv ==
    ASSUME RecInv, ParseResponse
    PROVE  RecInv' /\ RecEffect
<1>1. rpc = "parse" /\ UNCHANGED <<delayOver, connectFailures, handed>>
    BY DEF ParseResponse
<1>2. CASE fds' = fds - 1 /\ AttemptReturns(FALSE)
    BY <1>1, <1>2, CloseInv
<1>3. CASE /\ conn' = [conn EXCEPT !.resp = FALSE]
           /\ UNCHANGED <<rpc, target, chunk, count, newCount, lastRec, fds>>
  <2>1. conn \in [status : Statuses \cup {"none"}, resp : BOOLEAN, buf : Nat, next : Nat]
      BY DEF RecInv, TypeOK
  <2>2. /\ conn' \in [status : Statuses \cup {"none"}, resp : BOOLEAN, buf : Nat, next : Nat]
        /\ conn'.buf = conn.buf /\ conn'.next = conn.next
      BY <1>3, <2>1
  <2>3. ConnInv' /\ DescriptorsAccounted'
      BY <1>1, <1>3, <2>2 DEF RecInv, ConnInv, Connected, DescriptorsAccounted
  <2> QED
      BY <1>1, <1>3, <2>2, <2>3, MoveInv DEF RecInv, TypeOK, RPC, Connected
<1> QED
    BY <1>2, <1>3 DEF ParseResponse

\* The one step that hands the detector a message.
LEMMA ParseMessageInv ==
    ASSUME RecInv, ParseMessage
    PROVE  RecInv' /\ RecEffect
<1>1. /\ rpc = "parse" /\ conn.buf > 0
      /\ handed' = Append(handed, conn.next) /\ lastRec' = conn.next
      /\ newCount' = newCount + 1
      /\ conn' = [conn EXCEPT !.next = @ + 1, !.buf = @ - 1]
      /\ UNCHANGED <<rpc, target, chunk, count, delayOver, fds, connectFailures>>
    BY DEF ParseMessage
<1>2. /\ conn.next = Len(handed) + 1 /\ conn.next + conn.buf <= chunk.to + 1
      /\ chunk.to <= target
      /\ Len(handed) + 1 = chunk.from + count + newCount
    BY <1>1 DEF RecInv, ConnInv, Connected, ProgressInv, ChunkInv, RequestsInsideGap
<1>3. /\ handed' = Append(handed, Len(handed) + 1)
      /\ handed' \in Seq(Nat) /\ InOrder' /\ Len(handed') = Len(handed) + 1
    BY <1>1, <1>2, RecFacts, AppendKeepsOrder DEF RecInv
<1>4. /\ conn' \in [status : Statuses \cup {"none"}, resp : BOOLEAN, buf : Nat, next : Nat]
      /\ conn'.next = conn.next + 1 /\ conn'.buf = conn.buf - 1
  <2>1. conn \in [status : Statuses \cup {"none"}, resp : BOOLEAN, buf : Nat, next : Nat]
      BY DEF RecInv, TypeOK
  <2>2. conn.next + 1 \in Nat /\ conn.buf - 1 \in Nat
      BY <1>1, <2>1
  <2> QED
      BY <1>1, <2>1, <2>2
<1>5. Len(handed) < chunk.to /\ Len(handed) < target
    BY <1>1, <1>2, RecFacts
<1>6. TypeOK'
    BY <1>1, <1>3, <1>4, RecFacts DEF RecInv, TypeOK
<1>7. ChunkInv' /\ DescriptorsAccounted'
    BY <1>1 DEF RecInv, ChunkInv, RequestsInsideGap, DescriptorsAccounted
<1>8. ProgressInv'
  <2>1. /\ chunk.from \in Nat /\ chunk.to \in Nat /\ count \in Nat /\ newCount \in Nat
        /\ Len(handed) \in Nat
      BY RecFacts
  <2>2. newCount' = newCount + 1 /\ Len(handed') = Len(handed) + 1
      BY <1>1, <1>3
  <2>3. Len(handed') + 1 = chunk.from + count + newCount'
      BY <1>2, <2>1, <2>2
  <2>4. Len(handed') <= chunk.to /\ count + newCount' # 0
      BY <1>5, <2>1, <2>2
  <2>5. lastRec' = chunk.from + count + newCount' - 1
      BY <1>1, <1>2, <2>1, <2>2
  <2> QED
      BY <1>1, <2>3, <2>4, <2>5 DEF ProgressInv, ResumePoint, Connected
<1>9. ConnInv'
  <2>1. conn'.next = Len(handed') + 1 /\ conn'.next + conn'.buf <= chunk.to + 1
      BY <1>2, <1>3, <1>4, RecFacts
  <2> QED
      BY <1>1, <2>1 DEF ConnInv
<1> QED
    BY <1>1, <1>3, <1>5, <1>6, <1>7, <1>8, <1>9 DEF RecInv, RecEffect

\* A parsed buffer leads back to recv.
LEMMA BufferParsedInv ==
    ASSUME RecInv, BufferParsed
    PROVE  RecInv' /\ RecEffect
<1>1. /\ rpc = "parse" /\ rpc' = "recv" /\ conn.buf = 0
      /\ UNCHANGED <<target, chunk, count, newCount, lastRec, delayOver, fds,
                     connectFailures, conn, handed>>
    BY DEF BufferParsed
<1>2. ConnInv' /\ DescriptorsAccounted'
    BY <1>1 DEF RecInv, ConnInv, Connected, DescriptorsAccounted
<1> QED
    BY <1>1, <1>2, MoveInv DEF RecInv, TypeOK, RPC, Connected

\* A state in which nothing changes.
LEMMA StutterInv ==
    ASSUME RecInv, UNCHANGED recVars
    PROVE  RecInv' /\ RecEffect
<1>1. TypeOK' /\ InOrder' /\ DescriptorsAccounted'
    BY DEF recVars, RecInv, TypeOK, InOrder, DescriptorsAccounted
<1>2. ChunkInv' /\ ProgressInv' /\ ConnInv'
    BY DEF recVars, RecInv, ChunkInv, RequestsInsideGap, ProgressInv, ResumePoint, ConnInv
<1> QED
    BY <1>1, <1>2 DEF RecInv, RecEffect, recVars

\* Every step of the recovery code preserves the invariant and has no other
\* effect on its caller than RecEffect.
LEMMA RecStepInv ==
    ASSUME RecInv, RecStep
    PROVE  RecInv' /\ RecEffect
<1>1. CASE DelayPasses
    BY <1>1, DelayPassesInv
<1>2. CASE ClientStep
    BY <1>2, WaitForDelayInv, CreateSocketInv, ParseResponseInv, ParseMessageInv,
       BufferParsedInv, StutterInv DEF ClientStep, ParserSpins
<1>3. CASE NetworkStep
  <2>1. ASSUME NEW status \in Statuses, NEW n \in 0..MaxSeq, RecvData(status, n)
        PROVE  RecInv' /\ RecEffect
      BY <2>1, MaxSeqAssumption, RecvDataInv
  <2> QED
      BY <1>3, <2>1, ConnectServerInv, ConnectFailsInv, SendRequestInv, SendFailsInv,
         RecvTornResponseInv, PeerClosesInv DEF NetworkStep
<1> QED
    BY <1>1, <1>2, <1>3 DEF RecStep

----------------------------------------------------------------------------

\* The recovery manager starts with its invariant.
LEMMA RecInitInv ==
    ASSUME RecInit, handed = <<>>
    PROVE  RecInv
<1>1. TypeOK
    BY MaxConnectFailuresAssumption, FdLimitAssumption
       DEF RecInit, TypeOK, RPC, NoChunk, NoConn
<1>2. InOrder /\ DescriptorsAccounted /\ ChunkInv /\ ProgressInv /\ ConnInv
    BY DEF RecInit, InOrder, DescriptorsAccounted, ChunkInv, ProgressInv, ConnInv, Connected
<1> QED
    BY <1>1, <1>2 DEF RecInv

\* Every step of the specification preserves the invariant.
LEMMA NextInv ==
    ASSUME RecInv, [Next]_recVars
    PROVE  RecInv' /\ (rpc # "idle" /\ rpc' = "idle" => Len(handed) = target)
<1>1. CASE \E to \in 0..MaxSeq : SplitRecoveryDataRequest(Len(handed) + 1, to)
    BY <1>1, CallInv, MaxSeqAssumption
<1>2. CASE RecStep
    BY <1>2, RecStepInv DEF RecEffect
<1>3. CASE UNCHANGED recVars
    BY <1>3, StutterInv DEF RecEffect
<1>4. CASE \E to \in 0..MaxSeq : EmptyRequest(Len(handed) + 1, to)
    BY <1>3, <1>4 DEF EmptyRequest
<1> QED
    BY <1>1, <1>2, <1>3, <1>4 DEF Next

\* The invariant holds in every reachable state, whatever the chunk size, the
\* descriptor limit, the failures and the answers of the server.
THEOREM RecoveryInvariant == Spec => []RecInv
<1>1. Init => RecInv
    BY RecInitInv DEF Init
<1>2. RecInv /\ [Next]_recVars => RecInv'
    BY NextInv
<1> QED
    BY <1>1, <1>2, PTL DEF Spec

\* Type correctness of the recovery client.
THEOREM RecoveryTypeCorrect == Spec => []TypeOK
<1>1. RecInv => TypeOK
    BY DEF RecInv
<1> QED
    BY <1>1, RecoveryInvariant, PTL

\* The detector is handed 1, 2, 3, ... without hole, repetition or disorder.
THEOREM RecoveryInOrder == Spec => []InOrder
<1>1. RecInv => InOrder
    BY DEF RecInv
<1> QED
    BY <1>1, RecoveryInvariant, PTL

\* The requests stay inside the gap and are never empty.
THEOREM RecoveryRequests == Spec => []RequestsInsideGap
<1>1. RecInv => RequestsInsideGap
    BY DEF RecInv, ChunkInv, RequestsInsideGap
<1> QED
    BY <1>1, RecoveryInvariant, PTL

\* A retry resumes right behind what the detector has been handed.
THEOREM RecoveryResumes == Spec => []ResumePoint
<1>1. RecInv => ResumePoint
    BY DEF RecInv, ChunkInv, ProgressInv, ResumePoint
<1> QED
    BY <1>1, RecoveryInvariant, PTL

\* Only failed connects lose a descriptor, and each loses exactly one.
THEOREM RecoveryDescriptors == Spec => []DescriptorsAccounted
<1>1. RecInv => DescriptorsAccounted
    BY DEF RecInv
<1> QED
    BY <1>1, RecoveryInvariant, PTL

\* A call returns only when its whole gap has been handed over.
THEOREM RecoveryComplete == Spec => RecoversWholeGap
<1>1. RecInv /\ [Next]_recVars
         => [rpc # "idle" /\ rpc' = "idle" => Len(handed) = target]_recVars
    BY NextInv
<1> QED
    BY <1>1, RecoveryInvariant, PTL DEF Spec, RecoversWholeGap
=============================================================================
