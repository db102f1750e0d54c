---------------------------- MODULE ReceiverLoop ----------------------------
(***************************************************************************)
(* The receive loop of main (main.cpp:214-249) together with the recovery  *)
(* client it calls.  The exchange multicasts the messages of the stream;   *)
(* multicast loses, repeats and reorders them.  The loop hands the next    *)
(* message to the detector at once, drops what it has already seen, and on *)
(* a gap calls SplitRecoveryDataRequest and holds the message in its hands *)
(* until that returns.  The process may crash and start again at any step. *)
(*                                                                         *)
(* The module extends RecoveryMgr: the call runs in the same thread, and   *)
(* its steps are the recovery steps RecStep.                               *)
(***************************************************************************)
EXTENDS RecoveryMgr

CONSTANT MaxRestarts      \* bound: restarts of the process

ASSUME MaxRestartsAssumption == MaxRestarts \in Nat

VARIABLES
    published,   \* messages the exchange has published: 1..published
    lastSeqNo,   \* lnLastSeqNo
    pend,        \* the message behind the gap being recovered, 0: none
    restarts     \* restarts so far (history)

loopVars == <<published, lastSeqNo, pend, restarts>>

vars == <<recVars, loopVars>>

LoopInit ==
    /\ RecInit
    /\ handed = <<>>
    /\ published = 0
    /\ lastSeqNo = 0
    /\ pend = 0
    /\ restarts = 0

Publish ==
    /\ published < MaxSeq
    /\ published' = published + 1
    /\ UNCHANGED <<recVars, lastSeqNo, pend, restarts>>

\* The loop runs only while it is not inside SplitRecoveryDataRequest.
InLoop == rpc = "idle" /\ pend = 0

\* Heartbeats have sequence number 0; a number at or below the last one seen is
\* a repetition or comes late.
ReceiveOld(s) ==
    /\ InLoop
    /\ s <= lastSeqNo
    /\ UNCHANGED vars

\* Slip: any newer message is taken for the next one.
ReceiveNextAnyNewer(s) ==
    /\ InLoop
    /\ s - lastSeqNo >= 1
    /\ lastSeqNo' = s
    /\ handed' = Append(handed, s)
    /\ UNCHANGED <<rpc, target, chunk, count, newCount, lastRec, delayOver, fds,
                   connectFailures, conn, published, pend, restarts>>

ReceiveNext(s) ==
    /\ InLoop
    /\ s - lastSeqNo = 1
    /\ lastSeqNo' = s
    /\ handed' = Append(handed, s)
    /\ UNCHANGED <<rpc, target, chunk, count, newCount, lastRec, delayOver, fds,
                   connectFailures, conn, published, pend, restarts>>

\* Slip: the gap is requested up to and with the message that revealed it.
ReceiveGapInclusive(s) ==
    /\ InLoop
    /\ s - lastSeqNo > 1
    /\ pend' = s
    /\ SplitRecoveryDataRequest(lastSeqNo + 1, s)
    /\ UNCHANGED <<published, lastSeqNo, restarts>>

ReceiveGap(s) ==
    /\ InLoop
    /\ s - lastSeqNo > 1
    /\ pend' = s
    /\ SplitRecoveryDataRequest(lastSeqNo + 1, s - 1)
    /\ UNCHANGED <<published, lastSeqNo, restarts>>

\* Slip: lnLastSeqNo is not brought up to the message behind the gap.
GapReturnedKeepsLast ==
    /\ rpc = "idle"
    /\ pend # 0
    /\ handed' = Append(handed, pend)
    /\ pend' = 0
    /\ UNCHANGED <<rpc, target, chunk, count, newCount, lastRec, delayOver, fds,
                   connectFailures, conn, published, lastSeqNo, restarts>>

\* SplitRecoveryDataRequest has returned, whatever it has recovered.
GapReturned ==
    /\ rpc = "idle"
    /\ pend # 0
    /\ handed' = Append(handed, pend)
    /\ lastSeqNo' = pend
    /\ pend' = 0
    /\ UNCHANGED <<rpc, target, chunk, count, newCount, lastRec, delayOver, fds,
                   connectFailures, conn, published, restarts>>

\* Slip: the position in the stream survives, what was handed over does not.
RestartKeepsLast ==
    /\ restarts < MaxRestarts
    /\ restarts' = restarts + 1
    /\ CallReturned
    /\ delayOver' = TRUE
    /\ fds' = 0
    /\ connectFailures' = 0
    /\ conn' = NoConn
    /\ handed' = <<>>
    /\ pend' = 0
    /\ UNCHANGED <<published, lastSeqNo>>

\* Nothing is persisted: a new process begins with lnLastSeqNo = 0.
Restart ==
    /\ restarts < MaxRestarts
    /\ restarts' = restarts + 1
    /\ CallReturned
    /\ delayOver' = TRUE
    /\ fds' = 0
    /\ connectFailures' = 0
    /\ conn' = NoConn
    /\ handed' = <<>>
    /\ lastSeqNo' = 0
    /\ pend' = 0
    /\ UNCHANGED published

Receive(s) == ReceiveOld(s) \/ ReceiveNext(s) \/ ReceiveGap(s)

LoopNext ==
    \/ Publish
    \/ \E s \in 0..published : Receive(s)
    \/ RecStep /\ UNCHANGED loopVars
    \/ GapReturned
    \/ Restart

LoopSpec == LoopInit /\ [][LoopNext]_vars

\* The loop takes up the message it holds, and the recovery steps are as fair as
\* in RecoveryMgr.  Nothing is asked of the multicast: it sends a message once,
\* and whether any arrives is not in the hands of the program.
LoopFairness ==
    /\ WF_vars(GapReturned)
    /\ WF_vars(DelayPasses /\ UNCHANGED loopVars)
    /\ WF_vars(ClientStep /\ UNCHANGED loopVars)
    /\ WF_vars(PeerCloses /\ UNCHANGED loopVars)
    /\ SF_vars(ConnectServer /\ UNCHANGED loopVars)
    /\ SF_vars(SendRequest /\ UNCHANGED loopVars)
    /\ SF_vars((\E n \in 1..MaxSeq : RecvData("S", n)) /\ UNCHANGED loopVars)

LoopFairSpec == LoopSpec /\ LoopFairness

----------------------------------------------------------------------------
(* Properties *)

LoopTypeOK ==
    /\ TypeOK
    /\ published \in 0..MaxSeq
    /\ lastSeqNo \in 0..MaxSeq
    /\ pend \in 0..MaxSeq
    /\ restarts \in 0..MaxRestarts

\* lnLastSeqNo counts what the detector has been handed whenever the loop is
\* back at recvfrom: recovery and loop agree about where the stream stands.
LastSeqNoExact == InLoop => lastSeqNo = Len(handed)

\* Recovery never asks the server for a number the exchange has not published,
\* nor for the message the loop is holding (main.cpp:237-238).
RequestsPublished == rpc # "idle" => target < pend /\ pend <= published

\* The inductive invariant: in the loop lnLastSeqNo is what the detector has;
\* during a call the gap ends right before the message being held, and when the
\* call has returned that message is the next one.
LoopInv ==
    /\ RecInv
    /\ LoopTypeOK
    /\ LastSeqNoExact
    /\ Len(handed) <= published
    /\ pend = 0 => rpc = "idle"
    /\ pend # 0 => /\ pend <= published
                   /\ IF rpc = "idle" THEN Len(handed) = pend - 1
                                     ELSE target = pend - 1

\* The loop and the recovery client together implement the in-order feed.
Feed == INSTANCE InOrderFeed
FeedImplemented == Feed!FeedSpec

\* A message behind a gap does not stay in the loop's hands for ever.
GapClosed == pend # 0 ~> pend = 0
=============================================================================
