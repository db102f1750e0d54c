------------------------- MODULE ReceiverLoopProofs -------------------------
(***************************************************************************)
(* The receive loop and the recovery client together, for every value of   *)
(* the constants: LoopInv is invariant, and every step is a step of the    *)
(* abstract InOrderFeed or leaves it alone.                                *)
(***************************************************************************)
EXTENDS ReceiverLoop, RecoveryMgrProofs

\* Handing over the next number outside of a recovery call.
LEMMA IdleHandInv ==
    ASSUME RecInv, rpc = "idle", handed' = Append(handed, Len(handed) + 1),
           UNCHANGED <<rpc, target, chunk, count, newCount, lastRec, delayOver, fds,
                       connectFailures, conn>>
    PROVE  RecInv' /\ Len(handed') = Len(handed) + 1
<1>1. handed' \in Seq(Nat) /\ InOrder' /\ Len(handed') = Len(handed) + 1
    BY RecFacts, AppendKeepsOrder DEF RecInv
<1>2. TypeOK' /\ DescriptorsAccounted'
    BY <1>1 DEF RecInv, TypeOK, DescriptorsAccounted
<1>3. ChunkInv' /\ ProgressInv' /\ ConnInv'
    BY DEF ChunkInv, ProgressInv, ConnInv, Connected
<1> QED
    BY <1>1, <1>2, <1>3 DEF RecInv

\* A new process.
LEMMA FreshInv ==
    ASSUME CallReturned, delayOver' = TRUE, fds' = 0, connectFailures' = 0,
           conn' = NoConn, handed' = <<>>
    PROVE  RecInv'
<1>1. TypeOK'
    BY MaxConnectFailuresAssumption, FdLimitAssumption
       DEF CallReturned, TypeOK, RPC, NoChunk, NoConn
<1>2. InOrder' /\ DescriptorsAccounted' /\ ChunkInv' /\ ProgressInv' /\ ConnInv'
    BY DEF CallReturned, InOrder, DescriptorsAccounted, ChunkInv, ProgressInv,
           ConnInv, Connected
<1> QED
    BY <1>1, <1>2 DEF RecInv

\* The loop starts with its invariant.
LEMMA LoopInitInv == LoopInit => LoopInv
<1> SUFFICES ASSUME LoopInit PROVE LoopInv
    OBVIOUS
<1>1. RecInv
    BY RecInitInv DEF LoopInit
<1>2. LoopTypeOK
    BY <1>1, MaxSeqAssumption, MaxRestartsAssumption DEF LoopInit, LoopTypeOK, RecInv
<1>3. /\ LastSeqNoExact /\ Len(handed) <= published
      /\ rpc = "idle" /\ pend = 0
    BY DEF LoopInit, RecInit, LastSeqNoExact
<1> QED
    BY <1>1, <1>2, <1>3 DEF LoopInv

\* What one step does to the feed: nothing, or one of its three actions.
FeedStep == Feed!FeedNext \/ UNCHANGED <<published, handed>>

\* The exchange publishes: what was handed over is still a prefix.
LEMMA PublishInv ==
    ASSUME LoopInv, Publish
    PROVE  LoopInv' /\ FeedStep
<1>1. /\ published < MaxSeq /\ published' = published + 1
      /\ UNCHANGED <<recVars, lastSeqNo, pend, restarts>>
    BY DEF Publish
<1>2. RecInv' /\ handed' = handed /\ rpc' = rpc /\ target' = target
    BY <1>1, StutterInv DEF LoopInv, recVars
<1>3. /\ published \in 0..MaxSeq /\ published' \in 0..MaxSeq
      /\ pend \in 0..MaxSeq /\ Len(handed) \in Nat
    BY <1>1, MaxSeqAssumption, RecFacts DEF LoopInv, LoopTypeOK
<1>4. LoopTypeOK'
    BY <1>1, <1>2, <1>3 DEF LoopInv, LoopTypeOK, RecInv
<1>5. Len(handed') <= published' /\ (pend' # 0 => pend' <= published')
    BY <1>1, <1>2, <1>3, MaxSeqAssumption DEF LoopInv
<1>6. LoopInv'
    BY <1>1, <1>2, <1>4, <1>5 DEF LoopInv, LastSeqNoExact, InLoop
<1> QED
    BY <1>1, <1>2, <1>6 DEF FeedStep, Feed!FeedNext, Feed!PublishNext

\* The expected message is handed over as it arrives.
LEMMA ReceiveNextInv ==
    ASSUME LoopInv, NEW s \in 0..published, ReceiveNext(s)
    PROVE  LoopInv' /\ FeedStep
<1>1. /\ rpc = "idle" /\ pend = 0 /\ s - lastSeqNo = 1 /\ lastSeqNo' = s
      /\ handed' = Append(handed, s)
      /\ UNCHANGED <<rpc, target, chunk, count, newCount, lastRec, delayOver, fds,
                     connectFailures, conn, published, pend, restarts>>
    BY DEF ReceiveNext, InLoop
<1>2. /\ published \in 0..MaxSeq /\ lastSeqNo = Len(handed) /\ Len(handed) \in Nat
    BY <1>1, RecFacts DEF LoopInv, LoopTypeOK, LastSeqNoExact, InLoop
<1>3. s = Len(handed) + 1 /\ s \in 0..MaxSeq /\ Len(handed) < published
    BY <1>1, <1>2, MaxSeqAssumption
<1>4. RecInv' /\ Len(handed') = Len(handed) + 1
    BY <1>1, <1>3, IdleHandInv DEF LoopInv
<1>5. LoopTypeOK'
    BY <1>1, <1>3, <1>4 DEF LoopInv, LoopTypeOK, RecInv
<1>6. LoopInv'
    BY <1>1, <1>2, <1>3, <1>4, <1>5 DEF LoopInv, LastSeqNoExact, InLoop
<1> QED
    BY <1>1, <1>3, <1>6 DEF FeedStep, Feed!FeedNext, Feed!HandNext

\* A message behind a gap is held, and its gap is what the call asks for.
LEMMA ReceiveGapInv ==
    ASSUME LoopInv, NEW s \in 0..published, ReceiveGap(s)
    PROVE  LoopInv' /\ FeedStep
<1>1. /\ rpc = "idle" /\ pend = 0 /\ s - lastSeqNo > 1 /\ pend' = s
      /\ SplitRecoveryDataRequest(lastSeqNo + 1, s - 1)
      /\ UNCHANGED <<published, lastSeqNo, restarts>>
    BY DEF ReceiveGap, InLoop
<1>2. /\ published \in 0..MaxSeq /\ lastSeqNo = Len(handed) /\ Len(handed) \in Nat
    BY <1>1, RecFacts DEF LoopInv, LoopTypeOK, LastSeqNoExact, InLoop
<1>3. s \in 0..MaxSeq /\ s - 1 \in Nat /\ s # 0
    BY <1>1, <1>2, MaxSeqAssumption
<1>4. RecInv' /\ rpc' # "idle" /\ target' = s - 1 /\ handed' = handed
    BY <1>1, <1>2, <1>3, CallInv DEF LoopInv
<1>5. LoopTypeOK'
    BY <1>1, <1>3, <1>4 DEF LoopInv, LoopTypeOK, RecInv
<1>6. LoopInv'
    BY <1>1, <1>3, <1>4, <1>5 DEF LoopInv, LastSeqNoExact, InLoop
<1> QED
    BY <1>1, <1>4, <1>6 DEF FeedStep

\* The steps of the recovery code inside the loop.
LEMMA LoopRecStepInv ==
    ASSUME LoopInv, RecStep, UNCHANGED loopVars
    PROVE  LoopInv' /\ FeedStep
<1>1. RecInv' /\ RecEffect
    BY RecStepInv DEF LoopInv
<1>2. UNCHANGED <<published, lastSeqNo, pend, restarts>>
    BY DEF loopVars
<1>3. LoopTypeOK'
    BY <1>1, <1>2 DEF LoopInv, LoopTypeOK, RecInv
<1>4. /\ published \in Nat /\ pend \in Nat /\ Len(handed) \in Nat
    BY MaxSeqAssumption, RecFacts DEF LoopInv, LoopTypeOK
<1>5. CASE rpc = "idle" /\ rpc' = "idle" /\ target' = target /\ handed' = handed
    BY <1>1, <1>2, <1>3, <1>5 DEF LoopInv, LastSeqNoExact, InLoop, FeedStep
<1>6. CASE rpc # "idle" /\ rpc' # "idle" /\ target' = target
  <2>1. pend # 0 /\ target = pend - 1 /\ pend <= published
      BY <1>6 DEF LoopInv
  <2>2. CASE handed' = handed
      BY <1>1, <1>2, <1>3, <1>6, <2>1, <2>2 DEF LoopInv, LastSeqNoExact, InLoop, FeedStep
  <2>3. CASE handed' = Append(handed, Len(handed) + 1) /\ Len(handed) < target
    <3>1. Len(handed') = Len(handed) + 1
        BY <2>3, RecFacts DEF LoopInv
    <3>2. Len(handed') <= published /\ Len(handed) < published
        BY <1>4, <2>1, <2>3, <3>1
    <3> QED
        BY <1>1, <1>2, <1>3, <1>6, <2>1, <2>3, <3>2
           DEF LoopInv, LastSeqNoExact, InLoop, FeedStep, Feed!FeedNext, Feed!HandNext
  <2> QED
      BY <1>1, <1>6, <2>2, <2>3 DEF RecEffect
<1>7. CASE rpc # "idle" /\ rpc' = "idle" /\ Len(handed) = target /\ handed' = handed
    BY <1>1, <1>2, <1>3, <1>7 DEF LoopInv, LastSeqNoExact, InLoop, FeedStep
<1> QED
    BY <1>1, <1>5, <1>6, <1>7 DEF RecEffect

\* The message behind the gap follows what the recovery has handed over.
LEMMA GapReturnedInv ==
    ASSUME LoopInv, GapReturned
    PROVE  LoopInv' /\ FeedStep
<1>1. /\ rpc = "idle" /\ pend # 0 /\ handed' = Append(handed, pend)
      /\ lastSeqNo' = pend /\ pend' = 0
      /\ UNCHANGED <<rpc, target, chunk, count, newCount, lastRec, delayOver, fds,
                     connectFailures, conn, published, restarts>>
    BY DEF GapReturned
<1>2. /\ published \in Nat /\ pend \in 0..MaxSeq /\ Len(handed) \in Nat
      /\ Len(handed) = pend - 1 /\ pend <= published
    BY <1>1, MaxSeqAssumption, RecFacts DEF LoopInv, LoopTypeOK
<1>3. pend = Len(handed) + 1 /\ Len(handed) < published
    BY <1>2, MaxSeqAssumption
<1>4. RecInv' /\ Len(handed') = Len(handed) + 1
    BY <1>1, <1>3, IdleHandInv DEF LoopInv
<1>5. LoopTypeOK'
    BY <1>1, <1>2, <1>4, MaxSeqAssumption DEF LoopInv, LoopTypeOK, RecInv
<1>6. LoopInv'
    BY <1>1, <1>2, <1>3, <1>4, <1>5 DEF LoopInv, LastSeqNoExact, InLoop
<1> QED
    BY <1>1, <1>3, <1>6 DEF FeedStep, Feed!FeedNext, Feed!HandNext

\* A crash and restart: the feed begins again from its first message.
LEMMA RestartInv ==
    ASSUME LoopInv, Restart
    PROVE  LoopInv' /\ FeedStep
<1>1. /\ restarts < MaxRestarts /\ restarts' = restarts + 1
      /\ CallReturned /\ delayOver' = TRUE /\ fds' = 0 /\ connectFailures' = 0
      /\ conn' = NoConn /\ handed' = <<>> /\ lastSeqNo' = 0 /\ pend' = 0
      /\ published' = published
    BY DEF Restart
<1>2. RecInv'
    BY <1>1, FreshInv
<1>3. LoopTypeOK'
    BY <1>1, <1>2, MaxSeqAssumption, MaxRestartsAssumption
       DEF LoopInv, LoopTypeOK, RecInv
<1>4. rpc' = "idle" /\ Len(handed') = 0 /\ published' \in Nat
    BY <1>1, MaxSeqAssumption DEF CallReturned, LoopInv, LoopTypeOK
<1>5. LoopInv'
    BY <1>1, <1>2, <1>3, <1>4 DEF LoopInv, LastSeqNoExact, InLoop
<1> QED
    BY <1>1, <1>5 DEF FeedStep, Feed!FeedNext, Feed!StartOver

\* A state in which nothing changes.
LEMMA LoopStutterInv ==
    ASSUME LoopInv, UNCHANGED vars
    PROVE  LoopInv' /\ FeedStep
<1>1. RecInv' /\ handed' = handed /\ rpc' = rpc /\ target' = target
    BY StutterInv DEF LoopInv, vars, recVars
<1>2. UNCHANGED <<published, lastSeqNo, pend, restarts>>
    BY DEF vars, loopVars
<1>3. LoopTypeOK'
    BY <1>1, <1>2 DEF LoopInv, LoopTypeOK, RecInv
<1> QED
    BY <1>1, <1>2, <1>3 DEF LoopInv, LastSeqNoExact, InLoop, FeedStep

\* Every step of the loop preserves the invariant and is a step of the feed.
LEMMA LoopNextInv == LoopInv /\ [LoopNext]_vars => LoopInv' /\ FeedStep
<1> SUFFICES ASSUME LoopInv, [LoopNext]_vars PROVE LoopInv' /\ FeedStep
    OBVIOUS
<1>1. ASSUME NEW s \in 0..published, Receive(s)
      PROVE  LoopInv' /\ FeedStep
    BY <1>1, ReceiveNextInv, ReceiveGapInv, LoopStutterInv DEF Receive, ReceiveOld
<1> QED
    BY <1>1, PublishInv, LoopRecStepInv, GapReturnedInv, RestartInv, LoopStutterInv
       DEF LoopNext

----------------------------------------------------------------------------

\* The receiver keeps its invariant whatever multicast loses, repeats and
\* reorders, whatever the recovery server does and whenever the process dies.
THEOREM LoopInvariant == LoopSpec => []LoopInv
<1> QED
    BY LoopInitInv, LoopNextInv, PTL DEF LoopSpec

\* Type correctness of the receive loop.
THEOREM LoopTypeCorrect == LoopSpec => []LoopTypeOK
<1>1. LoopInv => LoopTypeOK
    BY DEF LoopInv
<1> QED
    BY <1>1, LoopInvariant, PTL

\* The detector is handed 1, 2, 3, ..., and lnLastSeqNo says how many.
THEOREM LoopInOrder == LoopSpec => [](InOrder /\ LastSeqNoExact)
<1>1. LoopInv => InOrder /\ LastSeqNoExact
    BY DEF LoopInv, RecInv
<1> QED
    BY <1>1, LoopInvariant, PTL

\* The recovery client asks only for published messages before the one held.
THEOREM LoopRequests == LoopSpec => []RequestsPublished
<1>1. LoopInv => RequestsPublished
    BY MaxSeqAssumption DEF LoopInv, LoopTypeOK, RequestsPublished
<1> QED
    BY <1>1, LoopInvariant, PTL

\* The receive loop and the recovery client implement the in-order feed.
THEOREM LoopImplementsFeed == LoopSpec => FeedImplemented
<1>1. LoopInit => Feed!FeedInit
    BY DEF LoopInit, Feed!FeedInit
<1>2. LoopInv /\ [LoopNext]_vars => [Feed!FeedNext]_(Feed!feedVars)
    BY LoopNextInv DEF FeedStep, Feed!feedVars
<1> QED
    BY <1>1, <1>2, LoopInvariant, PTL DEF LoopSpec, FeedImplemented, Feed!FeedSpec
=============================================================================
