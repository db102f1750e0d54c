----------------------------- MODULE RealTimeCR -----------------------------
(***************************************************************************)
(* The program as its surroundings see it: messages of the exchange go in, *)
(* records come out in the process that reads the queue.  Composed of      *)
(*   InOrderFeed    what the receive loop and the recovery client promise  *)
(*                  (ReceiverLoop implements it),                          *)
(*   ConRevDetector the detector itself, and                               *)
(*   LossyFifo      what the queue in shared memory promises (ShmQueue     *)
(*                  implements it while no dequeue runs into the start of  *)
(*                  the program).                                          *)
(* One thread hands a message to the detector and enqueues the records it  *)
(* finds; the exchange and the reader go on meanwhile.  A crash loses all  *)
(* the program knows, and the new process is handed the stream from its    *)
(* first message.                                                          *)
(***************************************************************************)
EXTENDS InOrderFeed, ConRevDetector, LossyFifo

CONSTANTS
    Streams,      \* the streams the exchange may publish: sequences of messages
    MaxRestarts   \* bound

\* A message that ends a run of trades: orders and spread trades; one of a kind
\* the detector skips: the master data of contracts.
EndMessage  == [kind |-> "end"]
SkipMessage == [kind |-> "skip"]

ASSUME StreamsAssumption ==
    \A s \in Streams : s \in Seq(Trades \cup {EndMessage, SkipMessage})

ASSUME MaxRestartsAssumption == MaxRestarts \in Nat

VARIABLES
    stream,      \* what the exchange publishes, the same to every process
    outbox,      \* records found and not yet enqueued
    restarts,
    produced,    \* records enqueued since the start (history)
    old          \* records received when the process started (history)

detectorVars == <<tradeStore, tokenStore, flushed, records, crashed>>
sysVars == <<stream, feedVars, detectorVars, outbox, fifoVars, restarts, produced, old>>

SysInit ==
    /\ stream \in Streams
    /\ FeedInit
    /\ Init
    /\ FifoInit
    /\ outbox = <<>>
    /\ restarts = 0
    /\ produced = <<>>
    /\ old = 0

----------------------------------------------------------------------------
(* The exchange and the reader *)

ExchangePublishes ==
    /\ published < Len(stream)
    /\ PublishNext
    /\ UNCHANGED <<stream, detectorVars, outbox, fifoVars, restarts, produced, old>>

ReaderTakes ==
    /\ Take
    /\ UNCHANGED <<stream, feedVars, detectorVars, outbox, restarts, produced, old>>

----------------------------------------------------------------------------
(* The thread of the program *)

\* Slip: master data ends a run as well.
DetectAnyKind(n) ==
    IF stream[n] \in {EndMessage, SkipMessage} THEN EndOfRun
    ELSE TradeMessage(stream[n], n) \/ ZeroLot(stream[n], n)

Skip == flushed' = <<>> /\ records' = <<>> /\ UNCHANGED <<tradeStore, tokenStore, crashed>>

\* What WriteDataInFile does with message n.
Detect(n) ==
    CASE stream[n] = EndMessage  -> EndOfRun
      [] stream[n] = SkipMessage -> ~crashed /\ Skip
      [] OTHER -> TradeMessage(stream[n], n) \/ ZeroLot(stream[n], n)

HandMessage ==
    /\ outbox = <<>>
    /\ HandNext
    /\ Detect(Len(handed) + 1)
    /\ outbox' = records'
    /\ UNCHANGED <<stream, fifoVars, restarts, produced, old>>

EnqueueRecord ==
    /\ outbox # <<>>
    /\ Put(Head(outbox)) \/ Lose(Head(outbox))
    /\ outbox' = Tail(outbox)
    /\ produced' = Append(produced, Head(outbox))
    /\ UNCHANGED <<stream, feedVars, detectorVars, restarts, old>>

----------------------------------------------------------------------------
(* Crash and restart *)

\* Slip: the position in the stream outlives the process, the run does not.
RestartKeepsPosition ==
    /\ restarts < MaxRestarts
    /\ restarts' = restarts + 1
    /\ tradeStore' = <<>> /\ tokenStore' = {} /\ flushed' = <<>> /\ records' = <<>>
    /\ crashed' = FALSE
    /\ outbox' = <<>> /\ produced' = <<>>
    /\ EmptyOut
    /\ old' = Len(received)
    /\ UNCHANGED <<stream, feedVars>>

\* Slip: the queue that is there is used on.
RestartKeepsQueue ==
    /\ restarts < MaxRestarts
    /\ restarts' = restarts + 1
    /\ StartOver
    /\ tradeStore' = <<>> /\ tokenStore' = {} /\ flushed' = <<>> /\ records' = <<>>
    /\ crashed' = FALSE
    /\ outbox' = <<>> /\ produced' = <<>>
    /\ old' = Len(received)
    /\ UNCHANGED <<stream, fifoVars>>

\* The process ends at any step, by itself or by a crash of the detector, and is
\* started again: main constructs the queue anew, and nothing else is left.
Restart ==
    /\ restarts < MaxRestarts
    /\ restarts' = restarts + 1
    /\ StartOver
    /\ tradeStore' = <<>> /\ tokenStore' = {} /\ flushed' = <<>> /\ records' = <<>>
    /\ crashed' = FALSE
    /\ outbox' = <<>> /\ produced' = <<>>
    /\ EmptyOut
    /\ old' = Len(received)
    /\ UNCHANGED stream

SysNext ==
    \/ ExchangePublishes \/ ReaderTakes
    \/ HandMessage \/ EnqueueRecord
    \/ Restart

SysSpec == SysInit /\ [][SysNext]_sysVars

\* A step of HandMessage, told by what it does to the feed; it is possible
\* whenever this is.
MessageHanded == ~crashed /\ outbox = <<>> /\ HandNext

\* The feed hands over what is published, the thread runs, the reader polls the
\* queue.  The first is an assumption about the outside: of every message lost a
\* later one arrives, and then the gap in front of it is closed (GapClosed of
\* ReceiverLoop); nothing in the program notices the loss of the last messages.
SysFairSpec ==
    /\ SysSpec
    /\ WF_feedVars(MessageHanded) /\ WF_sysVars(EnqueueRecord) /\ WF_sysVars(ReaderTakes)

----------------------------------------------------------------------------
(* Properties *)

\* The trades that the end message at e of stream s ends, numbered: what was
\* collected since the end message before.
RunEndingAt(s, e) ==
    LET from == Max({0} \cup {d \in 1 .. e - 1 : s[d] = EndMessage})
        collected == Kept([i \in 1 .. e - from - 1 |-> from + i],
                          {n \in from + 1 .. e - 1 : s[n] # SkipMessage /\ s[n].side # "none"})
    IN  [i \in DOMAIN collected |-> NumberedTrade(s[collected[i]], collected[i])]

RecordsOfRun(run) ==
    IF /\ \A t \in TokensOf(run) : t \in DOMAIN Scrips /\ Scrips[t].lot # 0
       /\ ValidateTradeMsgRecords(run, TokensOf(run))
    THEN RecordsOf(SplitTrade(run, TokensOf(run)).out) ELSE <<>>

\* The records of the first n messages of every stream, run by run.
RecordsOfStreams ==
    [s \in Streams |->
        [n \in 0 .. Len(s) |->
            FlattenSeq([e \in 1 .. n |->
                IF s[e] = EndMessage THEN RecordsOfRun(RunEndingAt(s, e)) ELSE <<>>])]]

Expected(n) == RecordsOfStreams[stream][n]

\* Whatever the process went through, the records it has enqueued since its
\* start and is about to enqueue are those of the messages it was handed: no run
\* is cut by a crash, by master data or by the run before, and none is mixed with
\* another.
ProducedExactly == ~crashed => produced \o outbox = Expected(Len(handed))

\* Since the start of the process the reader receives every record at most once,
\* in the order of the stream; a record comes again only after a restart.
AgainOnlyAfterRestart ==
    \A i, j \in old + 1 .. Len(received) : i < j => received[i].seqNo < received[j].seqNo

\* Every record of the stream is received in the end, or was lost to a full
\* queue: restarts repeat records and lose none.  A message that crashes the
\* detector crashes every process after it again, but does not keep back the
\* records of the runs in front of it.
RecordsReported ==
    published = Len(stream) ~>
        ToSet(Expected(IF crashed THEN Len(handed) - 1 ELSE Len(stream)))
            \subseteq ToSet(received) \cup ToSet(lost)
=============================================================================
