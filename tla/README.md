# Verification of the real-time conversion/reversal trade generator

The program listens to the exchange's multicast of orders and trades, recovers
what multicast loses over TCP, and reports every conversion or reversal (future,
call and put of one contract, bought and sold as one order) to a queue in shared
memory. This directory holds TLA+ models of it, the TLC runs that check them and
proofs that TLAPS checks.

## Inventory

| component | code | state | operations | what makes it correct |
|---|---|---|---|---|
| receive loop | `main.cpp:214-249` | `lnLastSeqNo`, the message in hand | receive, drop, hand over, recover a gap | the detector gets 1, 2, 3, ... whatever multicast does |
| recovery client | `recoverymgr.h` | sockets, time of the last request, counts and positions of the chunk | split, force, one attempt | the gap comes back whole and in order; retries resume; it ends |
| receive buffer and parser | `recoverymgr.h:147-363, 417-446` | `lcRecoveryData`, `lnPendingData`, `lnAvailable` | recv, parse, keep the rest | messages come out whole whatever TCP cuts |
| detector | `main.cpp:259-1254` | `vTradeMsgStore`, `cTokenStore` | collect a trade; end the run, cut it, report | no trade counted twice, only real triples, every order reported |
| contract file | `main.cpp:1264-1394` | token to instrument | read once | types, strikes and lots as the detector expects |
| record queue | `shmQueue.h:200-289` | ring in shared memory, two indices | construct, attach, enqueue, dequeue | a FIFO through crashes of either process |
| logger | `log.h`, `logs.cpp` | ring, two indices, a flag per place | log, write in the background, exit, destroy | each message written once and in order, no place shared |
| start of main, configuration, core pinning, layouts, unused queues | `main.cpp:95-213`, `ConfigReader.h`, `setaffinity.*`, `*msg.h`, `*conrev*.h`, rest of `shmQueue.h` | none that changes | | |

How they interact: everything but the writing of the log file runs in one thread.
The loop calls `SplitRecoveryDataRequest` and waits for it; the parser of the
recovery hands each message to the detector through `WriteDataInFile1`, the loop
through `WriteDataInFile`, over the same global stores; the detector enqueues
records. All of them call the logger, whose background thread writes the file.
The exchange, the recovery server and the reader of the queue are other
processes.

Hard behaviours: loss, repetition and reordering of multicast; failures of every
system call of an attempt and retries from the middle of a chunk; bytes cut
anywhere; a crash and restart (nothing is persisted) with a reader at the queue
meanwhile; descriptors that run out; a `recv` without timeout; long runs of
trades cut by a dozen locals with partial resets; two rings without locks.
`PROJECT.json` lists them as hazards, each at its line with the properties that
would show it going wrong.

## Modules

| module | models |
|---|---|
| `InOrderFeed` | abstract: published messages are handed over one by one; a restart begins again |
| `LossyFifo` | abstract: a bounded queue; a record that finds it full is lost, a new producer empties it |
| `RecoveryMgr` | the recovery client, one action per system call and parsed item |
| `ReceiverLoop` | extends `RecoveryMgr` by the receive loop, multicast and restarts; implements `InOrderFeed` |
| `RecvBuffer` | the recv loop and the parser over bytes (`MCRecvBuffer`: message sizes) |
| `ContractFile` | `FileDigester` (`MCContractFile`: lines) |
| `ConRevDetector` | the detector (`MCConRevDetector`: contract files and trades) |
| `ShmQueue` | `shmQueue1` and both processes at it; implements `LossyFifo` |
| `Logger` | the logger, one action per access to what threads share |
| `RealTimeCR` | the program: `InOrderFeed`, `ConRevDetector` and `LossyFifo` composed (`MCRealTimeCR`: streams) |
| `*Proofs` | theorems about the module they are named after |

Operators named after a definition with one thing wrong (`SendFailsNoClose`,
`PutOutKeepsGroup`, ..., commented "Slip") are not part of the models. Each is a
plausible bug; put in the place of the definition it follows, it makes a
property fail, which shows that the property watches that line.

### RecoveryMgr

`rpc` is the place in the code: `idle` (not called), `delay`, `socket`,
`connect`, `send`, `recv`, `parse`, and `spin` (the parser's loop that does not
move). `chunk`, `target`, `count`, `newCount` and `lastRec` are the locals of
`SplitRecoveryDataRequest` and `ForceRecoveryPackets`; `loops` counts what is
left of the splitting loop. `count + newCount` is `lnRecoveryCount`, split into
what earlier attempts brought and what this one has. `conn` is the connection:
the kind of answer, whether the response is still to be parsed, how many whole
messages are in the buffer and which number comes next. Time is one bit,
`delayOver`; it becomes true by itself, and a successful `send` makes it false.

`RecvData(status, n)` is a `recv` that returns a prefix of what the server
sends. The server is assumed to answer a request with a response and, after
success, with the requested messages in order, possibly not all of them, and to
close. `AttemptReturns` is every exit of `RecoveryPackets`, with the condition
`ForceRecoveryPackets` tests next.

Left out: addresses, message contents, logging. `END_OF_MASTER` is counted by
the parser and not handed over; as the detector ignores that kind the model
treats it as any other message.

### ReceiverLoop

`Receive(s)` is one datagram with any number published so far (0 is a
heartbeat): the loop drops it, hands it over, or calls the recovery with it in
hand (`pend`). While `rpc # "idle"` only recovery steps are taken, as in the
single thread. `Restart` is a crash at any step: no variable of the process
survives, and what the new process hands over starts over.

### RecvBuffer

A byte is a pair of item and position. `Start` gives the place of each item in
the stream, item 0 being the response; all sizes are arbitrary as long as a
message holds a header and fits the buffer. `Recv(k)` appends any number of
bytes, the parser's steps follow the cases of the `switch`: header cut, message
cut, whole message, and the two that do not move, a cut response and an unknown
type. The rest is moved by `memcpy` between overlapping ranges, which is
undefined; the model takes the result of a forward copy, which is what the C
library of current Linux builds produces; a library that copies backwards would
garble the rest, and is not modelled.

### ContractFile

A line is a record of the fields the detector uses, with the number of fields it
ends (`fields`): a line may be cut behind any of them, and what is missing is 0.
`Insert` is `map::insert`, which leaves an instrument that is there.
`OpenFails` leaves the store empty, and the caller does not notice. A line whose
fields contradict each other (a future with a strike, a series other than `XX`,
`CE` and `PE`) is excluded: cutting is the only defect.

### ConRevDetector

`Scrips` is the result of `ContractFile`; `ScripsAssumption` is what
`StoreFitsDetector` says of it. An instrument without a lot size may have no
type: the first trade in it ends the program by a division by zero (`ZeroLot`).
The state between messages is the run collected so far; a message of another kind
is `DropRun`, `ReportRun` or `UnknownToken`. The twelve locals of `SplitTrade`
are the state of the pass (`NothingSplit` before its first trade, `SplitStep` for
each trade), with the details of the group in the record `d`: `DropOthers` is the test on expiry and
strike, `LegAgain` the branch at the top of the three cases, `AddTrade` the rest
of the case, `PutOut` the two ways a group is complete. The branch for trades
with both or neither order id (676-691) is left out: such trades never reach the
store. `flushed` and `group` are history variables.

### ShmQueue

The segment holds a boost `spsc_queue`: an array of one place more than the
capacity and two indices, modelled from its documented algorithm (the library is
not in the repository) with each load and store an action of its own. The
program (`ppc`) constructs the queue whenever it starts, one index and then the
other; the reader (`cpc`) only attaches. Both may crash between any two accesses
and start again; the segment outlives them. The mutex and `_Size` lie in each
process and keep nothing apart; nothing reads `_Size`, and it is left out.

`half` says that the construction is between the two indices, `overlap` that a
dequeue and a construction ran into each other. From then on nothing can be
said: the reader sets the index it moves to the place behind a record of the old
queue, and receives what was never put in. The properties hold until then, and
this exclusion is the one precondition the use of the queue has: do not start
the program while the reader is inside a dequeue.

### Logger

A message is the number of its claim (`fetch_add` on `_writeIndex`). A writer
claims, loads the two indices of the test for room at different moments and in
either order, writes its record, and sets the flag of the place; the reader goes
on by one place, waits for the flag, moves the record out and destroys it,
clears the flag and writes the line. All accesses are relaxed: the model takes the
stores of a thread in program order, as on x86 and with a compiler that does not
move them; one that reads `_exit` only once per wait removes behaviours and adds
none. A record that `exit` makes the reader take while it is being filled is
either the old or the new one in the model, not a mixture of both.

The program has one thread that logs; the class is written for several, and
`Writers` is any set. The background thread is taken to run from the start
(`setDump` is the second thing main does). Two things the model has no use for
but a reader should know: `_logLevel` is never consulted, and a call with a level
above `PERF` returns at once, so such messages are dropped without a trace.

### RealTimeCR

The stream is a sequence of trades, messages that end a run and messages that
are skipped, fixed from the start. `HandMessage` is the next step of
`InOrderFeed` and what `WriteDataInFile` does with the message; records found go
out one by one (`EnqueueRecord`, stored or lost). `Restart` is an exit at any
step, of the detector's own or not: feed, detector and queue start over
together. That the feed and the queue behave as their abstract modules say is
what `ReceiverLoop` and `ShmQueue` are shown to implement. `MaxStore` and
`Records` belong to parts of the composed modules that are not used here.

## Runs

| run | module | shows | bounds | states |
|---|---|---|---|---|
| `RecoverySafety` | `RecoveryMgr` | order, completeness, requests, resume point, descriptors, the inductive invariant | chunks of 2 (3 first), gaps up to 6: no full chunk, exact multiples, remainders; both descriptors can leak | 4,153 |
| `ReceiverLoop` | `ReceiverLoop` | loop and recovery agree and implement `InOrderFeed`; a gap that a message reveals is closed | 8 messages, every loss pattern, chunks of 2, two restarts, two descriptors and one failed connect, no torn response | 46,575 |
| `RecvBuffer` | `MCRecvBuffer` | the parser stands at the first byte of an item, whole messages, no byte lost, room to read; only a torn response or an unknown type stops it | six messages of 2 to 5 bytes, header of 2, buffer of 7, all cuts | 816 |
| `DetectorContracts` | `MCConRevDetector` | only an unknown token or a missing lot crashes; stores in step; no trade twice; three legs of one expiry | all runs of up to 5 trades in 8 instruments, both sides of one contract, trades not collected, unknown token, no lot | 588,147 |
| `DetectorFills` | `MCConRevDetector` | whole orders are all reported | all runs of up to 6 trades of 1 or 2 lots in one contract: two orders, or one in parts | 111,973 |
| `ContractFile` | `MCContractFile` | the first line of a token counts; an instrument with a lot size is complete | three lines of 32 (4 lines, 8 cuts each) | 67,652 |
| `Logger` | `Logger` | no place shared, claim order in the file, calls return, messages are written | two writers, ring of two, five messages (the ring goes round twice), exit at any step | 44,940 |
| `ShmQueue` | `ShmQueue` | no torn, lost or repeated record; implements `LossyFifo`; stored records are received | queue of two, four records, two starts of each process | 93,637 |
| `RealTimeCR` | `MCRealTimeCR` | the records are those of the stream, run by run; again only after a restart; all reach the reader or a full queue | 399 streams of up to three pieces, queue of one, two restarts | 296,552 |

The bounds are enough because the code compares, never computes with the size of
a number: a gap matters by its remainder modulo the chunk size and by being
shorter, equal or longer than one or two chunks; the detector's tests are about
equality of three sums and of at most two expiries and strikes at a time; a ring
matters by going round, a crash by the step it comes at, and a second crash by
meeting what the first one left. For the safety properties the proofs remove the
bounds altogether.

`CHECK_DEADLOCK FALSE` stands where the modelled thing ends: `RecvBuffer` when
the answer has been read (the server closes), `ContractFile` when the file has,
the detector and `RealTimeCR` when the program crashed or the stream is over,
`Logger` when the reader is done or the bound of messages is used up, `ShmQueue`
when the bound on starts is.

In `ReceiverLoop` the properties of liveness need fewer failed connects than
descriptors and whole responses; what happens otherwise is `DescriptorLeak` and
the torn response of `RecvBuffer`. Safety with both is in `RecoverySafety` and,
for the loop, in the proofs, which do not depend on these constants.

Runs that are expected to fail, each a disagreement of the code with what it
says of itself (`PROJECT.json`, findings):

| run | what the code does |
|---|---|
| `DescriptorLeak` | a failed connect leaks its socket; when all are gone recovery never succeeds |
| `OneStrike` | a call and a put of different strikes are reported as one conversion |
| `JoinHang` | the destructor of the logger waits for a thread nothing tells to end, so a return from main hangs |

Also seen while modelling, without a run of their own:

- the first request of a long gap asks for one message more than
  `SINGLE_RECOVERY_COUNT` (`recoverymgr.h:122`);
- a refused connection is retried without the configured delay, which only a
  successful send starts (`recoverymgr.h:393`);
- `REQUEST_ERROR` is logged and treated as success (`recoverymgr.h:178`);
- a `recv` that ends inside the response sends the parser into an endless loop
  (`recoverymgr.h:175`), and so does a message of unknown type (`:347`);
- a reversal is reported although a part of its call was sold, because only the
  last side of each leg is kept (`main.cpp:1034`);
- messages lost behind the last one that arrives stay missing, as heartbeats
  are skipped (`main.cpp:220`);
- a run in two contracts of one expiry is dropped whole when the highest call
  token and the highest put token have different strikes and no lower pair
  matches at its turn in the token order (`LegsMatch`); `WholeOrdersReported` is
  therefore about orders in one contract;
- with two threads that log, a writer held up between its claim and its test for
  room while the others claim a whole ring never finds room again, and everybody
  waits for everybody (`Overtaken`); with one thread this cannot happen;
- `exit` of the logger makes a waiting reader take a place that was never filled
  and index the level names with -1; nothing in the program calls it;
- the `exit(1)` in the constructor of the queue runs the destructor of the logger
  and hangs as `JoinHang` does.

## Fairness

Recovery: the thread keeps running and time passes (weak fairness of
`ClientStep`, `DelayPasses`); the server closes every connection in the end
(weak fairness of `PeerCloses`): the client has no timeout, so nothing less
makes it progress. A `connect`, a `send` and the arrival of the next message
that are possible again and again happen again and again (strong fairness): a
server that refuses every attempt for ever is not one any retry can succeed
with. Nothing forbids failures; they are only not eternal.

Loop: in addition the loop takes up the message it holds when a recovery has
returned (weak fairness of `GapReturned`). Nothing is asked of the multicast: it
sends a message once, and none need arrive. `GapClosed` therefore speaks of gaps
that a received message has revealed. That the detector catches up with the
exchange is not a property of the code: heartbeats carry number 0 and are
skipped, so the loss of the last messages goes unnoticed, and messages published
during every recovery can keep the detector behind for ever.

Buffer: the thread runs, and bytes that were sent arrive.

Logger: every writer that is inside a call and the reader keep running (weak
fairness of `LogStep`, `ReaderStep`). Nothing makes a thread log, and nothing
calls `exit`.

Queue: the reader polls, and is started again when it crashed. Nothing is asked
of the producer.

Program: the feed hands over what is published; the thread enqueues what it
found; the reader polls. The first is an assumption about the outside, that a
later message arrives for every one that is lost and that the recovery server
answers; what `ReceiverLoop` shows under no such assumption about arrival is
`GapClosed`. So `RecordsReported` says nothing of messages lost behind the last
one that arrives. The fairness of the feed is stated over `MessageHanded`, the
condition under which `HandMessage` is possible, so that TLC need not cut a run
of trades to find out whether a step is enabled.

## Proofs

Each theorem holds for every value of the constants that satisfies the named
`ASSUME`s of the module: sizes and capacities are positive, bounds are numbers,
lines and instruments have the fields they should. Those bounds that exist only
for TLC may be any number.

**RecoveryMgrProofs**: `Spec => []RecInv`, and from it type correctness,
`InOrder`, `RequestsInsideGap`, `ResumePoint`, `DescriptorsAccounted` and the
action property `RecoversWholeGap`. `InOrder` is not inductive by itself: the
next message handed over is what the connection sends next, which is what the
request asked for, which comes from the chunk and the count. `RecInv` ties these
together. `ProgressInv`: the detector stands at `chunk.from + count + newCount`,
inside the chunk, and `lastRec` says so. `ConnInv`: the connection continues
there and ends with the chunk. `ChunkInv`: what lies behind the full chunks
still to come is less than one chunk, by the division in
`SplitRecoveryDataRequest`, so the last request ends at `target`. There is a
lemma per action; those that only move inside an attempt share `MoveInv`.

**ReceiverLoopProofs** reuses them. `RecEffect` says what a recovery step may do
to its caller: hand over the next number up to `target`, keep `target` until it
returns, return only when the gap is complete. From it follow `LoopInv`,
`LastSeqNoExact`, `RequestsPublished`, and that every step of the loop is a step
of `InOrderFeed` or leaves it alone (`LoopImplementsFeed`).

**RecvBufferProofs**: `BufferInv` says where the parser stands: what is read and
not parsed begins with the first byte of some item, exactly the messages in front
of it have been handed over, and the buffer holds the last bytes that came.
`WireAt` places every byte of the stream; from it the type byte the parser reads
is that of the item it stands at (`TypeAtHand`), so it goes on by that item's
size (`MovesOn`), and a rest that is kept is shorter than a message and leaves
room (`KeepRestInv`). `MessagesIntact`, `BufferFollowsWire` and `RoomToRead` are
consequences.

**LoggerProofs**: the argument is a window. Messages in the ring are among the
`Size` behind those taken, each in the place of its claim (`RingInv`). A writer
that finds room has seen two old indices; both only grow, and `_writeIndex` was
already past its own claim, so its claim is in the window too (`RoomInv`), and two
members of a window have different places (`SlotWindow`). Flags stand for filled
places until `exit` (`FlagInv`). From `LogInv` follow `SlotExclusive`,
`WrittenInOrder` and `FilledBeforeTaken`, for any number of threads.

**ShmQueueProofs**: an index of the other process that was loaded long ago is
still safe, because the distance around the ring has only changed to one's
advantage (`IndexInv`); the records received, those stored and those lost are in
the order of their calls and disjoint (`OrderInv`). `QueueInv` holds until a
dequeue runs into a construction and implies `PlacesApart` and `ReceivedInOrder`;
step by step the segment implements `LossyFifo` (`QueueImplementsFifo`): publish
appends, advance takes the head, a finished construction empties.

**ContractFileProofs**: an instrument with a lot size is complete (`StoreFits`),
because the lot size is the last field of a line that is read; and the first line
of a token counts (`FirstLineCounts`). The first is what the detector assumes.

**ConRevDetectorProofs**: every safety property of the detector, for runs of any
length. `Kept`, `QtySum` and the pass of `SplitTrade` are recursive functions;
their members are reached by induction with a set (`NatSetInduction`, from the
well-foundedness of the natural numbers), because the induction theorems of the
library take an operator. `DetectorInv` is the invariant of the messages: the
numbers of the collected trades count up, none is of an instrument without a lot
size, and the records are good ones (`GoodRecords`). That a flush leaves good
records is the work of an invariant of the pass over one run, `PassInv`:

- the collected group is a piece of the run in the order of the feed, its details
  describe it, and all its trades have one expiry;
- a group that was put out and that `IsValidateConRev` lets pass is made of
  trades of the run up to here, of three instruments of one expiry, and lies
  behind the valid groups before it and in front of what is collected now.

Three lemmas carry it. The trade that makes `LegAgain` put out a balanced group
and keep it collected is in that group already and unbalances it, so the group is
no record (`OneTooMany`). `SecondLevelOrderValidation` is only called for a group
of more than one type of instrument, so it never empties it. The group around a
complete middle leg is made of trades of the group, each once, and ends with the
last of them (`MiddleGroupTrades`). `NeverCrashes`, `RecordsInOrder` and
`ThreeLegsOneExpiry` follow.

`WholeOrdersReported` asks for more, that nothing is missed, and has an invariant
of its own, `OrderInv`: at every trade of a run of whole orders in one contract
the collected group is what the current order has traded so far, and all orders
before it are out. It holds because no quantity of an order that misses trades of
its last leg is balanced, and its middle leg is not matched by the last one
either (`NotYet`); because the types of leg that `PutOut` fails to forget make
`LegAgain` count the details anew and drop nothing (`LegAgainKeeps`); and because
the last order alone decides whether `ValidateTradeMsgRecords` lets the run pass
(`LastSidesOfTail`).

**RealTimeCRProofs**: the program from the stream to the reader. `FeedInv`: what
was handed over is a prefix of what was published. `RunInv`: the detector holds
the trades since the last message that ends a run, which is what the stream says
of that place. `ProducedExactly` follows message by message. `FlowInv`: what the
reader has received since the last start of the program, the queue and the
outbox, one behind the other, rise in the sequence numbers of their records and
lie in front of every trade collected now; a record that a full queue refuses is
taken out of the middle, which leaves the rest in order. A start and a restart
share one lemma (`StartInv`). `AgainOnlyAfterRestart` follows from `FlowInv`.

All safety properties of the runs are proved. Model-checked only is what must
eventually happen (`GapClosed`, `AllHanded`, `LogReturns`,
`EveryMessageWritten`, `StoredReceived`, `RecordsReported`): liveness under
fairness is beyond the proof system. So are the three runs that end in a
violation.

## Not modelled

- `ConfigReader` and `CFeedReceiver`: their implementation is not in the
  repository, and the latter is unused; what main reads from the configuration
  are constants of the models.
- The start of main (one call after the other, and a return when one fails), core
  pinning, message and record layouts.
- `shmQueue` and `shmMPSCQueue`, which the program does not use.
- `SetListenerConfiguration`: its calls are commented out.
- Prices, spreads and times of the records; of lot sizes the division by them is.
- A backward `memcpy`, a torn log record, stores of one thread out of order (see
  the sections above).

## What is left

The runs of the detector are short because the number of states grows fast with
the number of trades; the theorems hold for runs of any length. Nothing is said
of orders in several contracts that come in one run: some of them are dropped
(`LegsMatch`, above), and which ones depends on the order of the tokens.
The composition of `ReceiverLoop` itself, in the place of `InOrderFeed`, with the
detector multiplies two large state spaces and would show nothing that the
refinement does not.
