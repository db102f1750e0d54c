---------------------------- MODULE RecoveryMgr ----------------------------
(***************************************************************************)
(* CRecoveryMgr (recoverymgr.h): the client of the exchange's recovery     *)
(* server.  SplitRecoveryDataRequest cuts a gap of missing sequence        *)
(* numbers into chunks; RecoveryPackets makes one attempt at a chunk (wait *)
(* for the exchange's delay, socket, connect, send, then recv and parse    *)
(* until the server closes); ForceRecoveryPackets repeats the attempt from *)
(* the first number still missing until the chunk's last number was seen.  *)
(*                                                                         *)
(* One action per system call and one per parsed item, so that every       *)
(* failure can come between any two of them.  The server and the network   *)
(* are the nondeterminism of these actions.  A message is its sequence     *)
(* number; how bytes become messages is the subject of module RecvBuffer.  *)
(***************************************************************************)
EXTENDS Integers, Sequences

CONSTANTS
    MaxPacketCount,      \* m_nMaxPacketCount, SINGLE_RECOVERY_COUNT in the config file
    FdLimit,             \* descriptors the process may still open for recovery
    MaxConnectFailures,  \* bound: connect() fails at most this often
    Statuses,            \* cReqStatus bytes the server may answer with
    TornResponse,        \* may a recv() end one byte before RECOVERY_RESP does?
    MaxSeq               \* bound: largest sequence number of the instance

ASSUME MaxPacketCountAssumption == MaxPacketCount \in Nat \ {0}
ASSUME FdLimitAssumption == FdLimit \in Nat \ {0}
ASSUME MaxConnectFailuresAssumption == MaxConnectFailures \in Nat
ASSUME StatusesAssumption == Statuses \subseteq {"S", "E", "Y"}
ASSUME TornResponseAssumption == TornResponse \in BOOLEAN
ASSUME MaxSeqAssumption == MaxSeq \in Nat

VARIABLES
    rpc,              \* where the recovery code is
    target,           \* nToSeqNo of SplitRecoveryDataRequest
    chunk,            \* from, to: the chunk being recovered; loops: iterations of
                      \* the splitting loop left, this one included (0: the last chunk)
    count,            \* messages of the chunk recovered by earlier attempts
    newCount,         \* messages of the chunk recovered by this attempt
    lastRec,          \* lnLastRecoverySeqNo
    delayOver,        \* has m_nConnectionDelay passed since m_nLastRecoveryTime?
    fds,              \* descriptors opened by CreateSocket and not closed
    connectFailures,  \* failed connect() calls so far (history)
    conn,             \* the connection: the unparsed part of what recv returned
    handed            \* sequence numbers handed to WriteDataInFile1 (history)

\* The variables of CRecoveryMgr and of the calls in progress.
recVars == <<rpc, target, chunk, count, newCount, lastRec, delayOver,
             fds, connectFailures, conn, handed>>

NoChunk == [from |-> 0, to |-> 0, loops |-> 0]

\* status: cReqStatus once the response was received; resp: is the response
\* still to be parsed?; buf: complete messages received and still to be
\* parsed; next: sequence number of the first message not yet parsed.
NoConn == [status |-> "none", resp |-> FALSE, buf |-> 0, next |-> 0]

RPC == {"idle", "delay", "socket", "connect", "send", "recv", "parse", "spin"}

\* m_nLastRecoveryTime = 2147483647 microseconds is in 1970: the first attempt
\* of a process is never delayed.
RecInit ==
    /\ rpc = "idle"
    /\ target = 0
    /\ chunk = NoChunk
    /\ count = 0
    /\ newCount = 0
    /\ lastRec = 0
    /\ delayOver = TRUE
    /\ fds = 0
    /\ connectFailures = 0
    /\ conn = NoConn

----------------------------------------------------------------------------
(* Splitting the gap and repeating attempts *)

\* Slip: every attempt asks for the whole chunk again.
RequestFromRestarts == chunk.from

\* nBegSeqNo of the request: lnNewFromSeqNo = nFromSeqNo + nRecoveryCount
\* (on the first attempt nRecoveryCount is 0).
RequestFrom == chunk.from + count

\* Slip: lnLastRecoverySeqNo keeps the value of the chunk before.
BeginChunkKeepsLast(c) ==
    /\ chunk' = c
    /\ count' = 0
    /\ newCount' = 0
    /\ rpc' = "delay"
    /\ UNCHANGED lastRec

\* RecoveryPackets is about to be called for chunk c.
BeginChunk(c) ==
    /\ chunk' = c
    /\ count' = 0
    /\ newCount' = 0
    /\ lastRec' = 0
    /\ rpc' = "delay"

\* The early return for an empty gap; main never asks for one.
EmptyRequest(from, to) ==
    /\ rpc = "idle"
    /\ to < from
    /\ UNCHANGED recVars

SplitRecoveryDataRequest(from, to) ==
    /\ rpc = "idle"
    /\ from <= to
    /\ target' = to
    /\ LET fullCount == (to - from) \div MaxPacketCount IN
       BeginChunk([from  |-> from,
                   to    |-> IF fullCount = 0 THEN to ELSE from + MaxPacketCount,
                   loops |-> fullCount])
    /\ UNCHANGED <<delayOver, fds, connectFailures, conn, handed>>

NextChunk ==
    [from  |-> chunk.to + 1,
     to    |-> IF chunk.loops = 1 THEN target ELSE chunk.to + MaxPacketCount,
     loops |-> chunk.loops - 1]

\* The locals of the call are gone.
CallReturned ==
    /\ rpc' = "idle"
    /\ target' = 0
    /\ chunk' = NoChunk
    /\ count' = 0
    /\ newCount' = 0
    /\ lastRec' = 0

\* Slip: without the early return inside the splitting loop.
ChunkDoneNoEarlyReturn ==
    IF chunk.loops = 0
    THEN CallReturned
    ELSE /\ BeginChunk(NextChunk)
         /\ UNCHANGED target

\* After the chunk: return when it was the last one or when the gap's last
\* number has been seen, otherwise go on with the next one.
ChunkDone ==
    IF chunk.loops = 0 \/ lastRec = target
    THEN CallReturned
    ELSE /\ BeginChunk(NextChunk)
         /\ UNCHANGED target

\* Slip: a failed attempt is not repeated.
AttemptReturnsGivesUp(ok) == ChunkDone /\ conn' = NoConn

\* Slip: the count of a failed attempt is not added to the chunk's.
AttemptReturnsLosesCount(ok) ==
    /\ IF ok \/ lastRec = chunk.to
       THEN ChunkDone
       ELSE /\ rpc' = "delay"
            /\ newCount' = 0
            /\ UNCHANGED <<target, chunk, count, lastRec>>
    /\ conn' = NoConn

\* RecoveryPackets returns; it returns 0 exactly when ok.  On -1
\* ForceRecoveryPackets tests its loop condition and tries again.
AttemptReturns(ok) ==
    /\ IF ok \/ lastRec = chunk.to
       THEN ChunkDone
       ELSE /\ rpc' = "delay"
            /\ count' = count + newCount
            /\ newCount' = 0
            /\ UNCHANGED <<target, chunk, lastRec>>
    /\ conn' = NoConn

----------------------------------------------------------------------------
(* One attempt: RecoveryPackets *)

\* The time between two attempts passes, usleep included.
DelayPasses ==
    /\ ~delayOver
    /\ delayOver' = TRUE
    /\ UNCHANGED <<rpc, target, chunk, count, newCount, lastRec, fds,
                   connectFailures, conn, handed>>

WaitForDelay ==
    /\ rpc = "delay"
    /\ delayOver
    /\ rpc' = "socket"
    /\ UNCHANGED <<target, chunk, count, newCount, lastRec, delayOver, fds,
                   connectFailures, conn, handed>>

CreateSocket ==
    /\ rpc = "socket"
    /\ \/ /\ fds < FdLimit
          /\ fds' = fds + 1
          /\ rpc' = "connect"
          /\ UNCHANGED <<target, chunk, count, newCount, lastRec, conn>>
       \/ /\ fds >= FdLimit
          /\ AttemptReturns(FALSE)
          /\ UNCHANGED fds
    /\ UNCHANGED <<delayOver, connectFailures, handed>>

ConnectServer ==
    /\ rpc = "connect"
    /\ rpc' = "send"
    /\ UNCHANGED <<target, chunk, count, newCount, lastRec, delayOver, fds,
                   connectFailures, conn, handed>>

\* connect() fails: RecoveryPackets returns without closing the socket.
ConnectFails ==
    /\ rpc = "connect"
    /\ connectFailures < MaxConnectFailures
    /\ connectFailures' = connectFailures + 1
    /\ AttemptReturns(FALSE)
    /\ UNCHANGED <<delayOver, fds, handed>>

SendRequest ==
    /\ rpc = "send"
    /\ rpc' = "recv"
    /\ delayOver' = FALSE
    /\ conn' = [NoConn EXCEPT !.next = RequestFrom]
    /\ UNCHANGED <<target, chunk, count, newCount, lastRec, fds,
                   connectFailures, handed>>

\* Slip: the socket stays open, as it does after a failed connect.
SendFailsNoClose ==
    /\ rpc = "send"
    /\ AttemptReturns(FALSE)
    /\ UNCHANGED <<delayOver, fds, connectFailures, handed>>

SendFails ==
    /\ rpc = "send"
    /\ fds' = fds - 1
    /\ AttemptReturns(FALSE)
    /\ UNCHANGED <<delayOver, connectFailures, handed>>

\* The server's answer begins with the response; after a success it continues
\* with the requested messages in order, and recv returns any prefix of what is
\* left.  A message cut short stays in the buffer until the rest of it comes.
RecvData(status, n) ==
    /\ rpc = "recv"
    /\ \/ conn.status = "none"
       \/ conn.status = status /\ n > 0
    /\ n > 0 => status = "S"
    /\ conn.next + n - 1 <= chunk.to
    /\ conn' = [conn EXCEPT !.status = status, !.resp = (@ \/ conn.status = "none"),
                            !.buf = n]
    /\ rpc' = "parse"
    /\ UNCHANGED <<target, chunk, count, newCount, lastRec, delayOver, fds,
                   connectFailures, handed>>

\* recv returns the header of the response but not its last byte.
RecvTornResponse ==
    /\ rpc = "recv"
    /\ TornResponse
    /\ conn.status = "none"
    /\ rpc' = "spin"
    /\ UNCHANGED <<target, chunk, count, newCount, lastRec, delayOver, fds,
                   connectFailures, conn, handed>>

\* recv returns 0 or -1: the server closed the connection, or it broke.
PeerCloses ==
    /\ rpc = "recv"
    /\ fds' = fds - 1
    /\ AttemptReturns(lastRec = chunk.to)
    /\ UNCHANGED <<delayOver, connectFailures, handed>>

----------------------------------------------------------------------------
(* GetPacketFromMessage *)

\* The test the code makes is cReqStatus == RECOVERY_RESPONSE ('Y').
ParseResponse ==
    /\ rpc = "parse"
    /\ conn.resp
    /\ \/ /\ conn.status = "Y"
          /\ fds' = fds - 1
          /\ AttemptReturns(FALSE)
       \/ /\ conn.status # "Y"
          /\ conn' = [conn EXCEPT !.resp = FALSE]
          /\ UNCHANGED <<rpc, target, chunk, count, newCount, lastRec, fds>>
    /\ UNCHANGED <<delayOver, connectFailures, handed>>

\* Slip: the parser's loop runs once too often (<= for <).
ParseMessagePastEnd ==
    /\ rpc = "parse"
    /\ ~conn.resp
    /\ conn.buf >= 0
    /\ handed' = Append(handed, conn.next)
    /\ lastRec' = conn.next
    /\ newCount' = newCount + 1
    /\ conn' = [conn EXCEPT !.next = @ + 1, !.buf = @ - 1]
    /\ UNCHANGED <<rpc, target, chunk, count, delayOver, fds, connectFailures>>

ParseMessage ==
    /\ rpc = "parse"
    /\ ~conn.resp
    /\ conn.buf > 0
    /\ handed' = Append(handed, conn.next)
    /\ lastRec' = conn.next
    /\ newCount' = newCount + 1
    /\ conn' = [conn EXCEPT !.next = @ + 1, !.buf = @ - 1]
    /\ UNCHANGED <<rpc, target, chunk, count, delayOver, fds, connectFailures>>

BufferParsed ==
    /\ rpc = "parse"
    /\ ~conn.resp
    /\ conn.buf = 0
    /\ rpc' = "recv"
    /\ UNCHANGED <<target, chunk, count, newCount, lastRec, delayOver, fds,
                   connectFailures, conn, handed>>

\* On a torn response the parser's loop neither advances nor ends: every
\* iteration finds the same bytes and leaves them where they are.
ParserSpins ==
    /\ rpc = "spin"
    /\ UNCHANGED recVars

----------------------------------------------------------------------------

\* The steps the recovery code takes by itself once it has been called.
ClientStep ==
    \/ WaitForDelay
    \/ CreateSocket
    \/ ParseResponse
    \/ ParseMessage
    \/ BufferParsed
    \/ ParserSpins

\* The steps whose outcome the network and the server decide.
NetworkStep ==
    \/ ConnectServer
    \/ ConnectFails
    \/ SendRequest
    \/ SendFails
    \/ \E status \in Statuses, n \in 0..MaxSeq : RecvData(status, n)
    \/ RecvTornResponse
    \/ PeerCloses

RecStep == DelayPasses \/ ClientStep \/ NetworkStep

\* The manager alone: any caller that asks for the numbers that follow those
\* already handed over, as main does.
Init == RecInit /\ handed = <<>>

Next ==
    \/ \E to \in 0..MaxSeq : \/ SplitRecoveryDataRequest(Len(handed) + 1, to)
                           \/ EmptyRequest(Len(handed) + 1, to)
    \/ RecStep

Spec == Init /\ [][Next]_recVars

\* Fairness: the thread keeps running and time passes (WF); connections that
\* may succeed do so again and again (SF); a server that has answered delivers
\* the next message again and again, and closes every connection in the end:
\* the client has no timeout of its own, so nothing less makes it progress.
RecFairness ==
    /\ WF_recVars(DelayPasses)
    /\ WF_recVars(ClientStep)
    /\ WF_recVars(PeerCloses)
    /\ SF_recVars(ConnectServer)
    /\ SF_recVars(SendRequest)
    /\ SF_recVars(\E n \in 1..MaxSeq : RecvData("S", n))

FairSpec == Spec /\ RecFairness

----------------------------------------------------------------------------
(* Properties *)

TypeOK ==
    /\ rpc \in RPC
    /\ target \in Nat
    /\ chunk \in [from : Nat, to : Nat, loops : Nat]
    /\ count \in Nat
    /\ newCount \in Nat
    /\ lastRec \in Nat
    /\ delayOver \in BOOLEAN
    /\ fds \in 0..FdLimit
    /\ connectFailures \in 0..MaxConnectFailures
    /\ conn \in [status : Statuses \cup {"none"}, resp : BOOLEAN, buf : Nat, next : Nat]
    /\ handed \in Seq(Nat)

\* The detector is handed 1, 2, 3, ... by whatever splits, failures and
\* repeated attempts: no number is skipped, repeated or out of order
\* (SplitRecoveryDataRequest, ForceRecoveryPackets, GetPacketFromMessage).
InOrder == \A i \in DOMAIN handed : handed[i] = i

\* Every request lies inside the gap, is not empty, and asks for at most
\* MaxPacketCount + 1 messages: the chunks never overshoot nToSeqNo, also when
\* the gap is a multiple of the chunk size (the loop in SplitRecoveryDataRequest).
RequestsInsideGap ==
    rpc # "idle" => /\ 1 <= chunk.from
                    /\ chunk.from <= chunk.to
                    /\ chunk.to <= target
                    /\ chunk.to - chunk.from <= MaxPacketCount

\* A new attempt resumes exactly behind what earlier attempts recovered, as the
\* worked example above ForceRecoveryPackets shows it: the counts of the chunk
\* and the last recovered number never drift apart.
ResumePoint ==
    rpc # "idle" =>
        IF count + newCount = 0 THEN lastRec = 0
        ELSE lastRec = chunk.from + count + newCount - 1

\* SplitRecoveryDataRequest only returns when the whole gap has been handed
\* over: main continues with the message behind the gap.
RecoversWholeGap ==
    [][rpc # "idle" /\ rpc' = "idle" => Len(handed) = target]_recVars

\* Descriptors: one for the attempt in progress, and one more lost for ever for
\* each failed connect; every other way out of RecoveryPackets closes its own.
DescriptorsAccounted ==
    IF rpc \in {"connect", "send", "recv", "parse", "spin"}
    THEN fds = connectFailures + 1
    ELSE fds = connectFailures

\* With fewer failed connects than descriptors, every gap is filled in the end.
GapEventuallyFilled == rpc # "idle" ~> rpc = "idle"

----------------------------------------------------------------------------
(* The inductive invariant behind the safety properties *)

Connected == {"recv", "parse", "spin"}

\* What is left of the gap behind the full chunks still to come is less than
\* one chunk, so the last chunk ends at target and none passes it.
ChunkInv ==
    rpc # "idle" =>
        /\ RequestsInsideGap
        /\ chunk.loops = 0 => chunk.to = target
        /\ chunk.loops > 0 =>
               target - (chunk.to + (chunk.loops - 1) * MaxPacketCount)
                   \in 0..(MaxPacketCount - 1)

\* The counts say how far the detector has come inside the chunk.
ProgressInv ==
    rpc # "idle" =>
        /\ Len(handed) + 1 = chunk.from + count + newCount
        /\ Len(handed) <= chunk.to
        /\ ResumePoint
        /\ rpc \notin Connected => newCount = 0

\* The connection continues where the detector stands and ends with the chunk.
ConnInv ==
    /\ rpc \in Connected => /\ conn.next = Len(handed) + 1
                            /\ conn.next + conn.buf <= chunk.to + 1
    /\ rpc = "recv" => conn.buf = 0

\* With this invariant every step of the manager, and every call made for the
\* numbers that follow those handed over, keeps the detector's input in order.
RecInv ==
    /\ TypeOK
    /\ InOrder
    /\ DescriptorsAccounted
    /\ ChunkInv
    /\ ProgressInv
    /\ ConnInv
=============================================================================
