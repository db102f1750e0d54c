------------------------------ MODULE ShmQueue ------------------------------
(***************************************************************************)
(* The queue the records leave by: shmQueue1 (shmQueue.h:200-289) around a *)
(* boost spsc_queue that lies in a segment of shared memory.  The program  *)
(* is the producer (exists = 0: the queue is constructed whenever it       *)
(* starts), another process the consumer (exists = 1).  Both may crash and *)
(* start again between any two accesses to the segment, which outlives     *)
(* them.                                                                   *)
(*                                                                         *)
(* The spsc_queue is external: an array of one place more than it holds    *)
(* and two indices.  The mutex and _Size are not in the segment; each      *)
(* process has its own, and they keep nothing apart.                       *)
(***************************************************************************)
EXTENDS Integers, SequencesExt

CONSTANTS
    Size,         \* records the queue holds
    MaxRecords,   \* bound: calls of enqueue that return
    MaxStarts     \* bound: starts of each process

ASSUME SizeAssumption == Size \in Nat \ {0}

ASSUME BoundsAssumption == MaxRecords \in Nat /\ MaxStarts \in Nat

VARIABLES
    \* the segment
    write_index, read_index,
    buffer,
    \* the producer
    ppc,        \* "down", "attached", "half", "ready", "write", "publish"
    \* the consumer
    cpc,        \* "down", "ready", "loaded", "copy", "advance"
    taking,     \* what dequeue has loaded: both indices, the record
    \* history
    starts,     \* process -> how often it started
    enqueued,   \* calls of enqueue that returned; a record is the number of its call
    lost,       \* records that found the queue full
    received,   \* records dequeue returned
    half,       \* the construction has set one index and not the other
    overlap     \* a dequeue ran into a construction

segment == <<write_index, read_index, buffer>>
producerVars == <<ppc, enqueued, lost>>
consumerVars == <<cpc, taking, received>>
vars == <<segment, producerVars, consumerVars, starts, half, overlap>>

Places == 0 .. Size
Nothing == 0

\* The segment is created filled with zeros, which is an empty queue.
Init ==
    /\ write_index = 0 /\ read_index = 0
    /\ buffer = [p \in Places |-> Nothing]
    /\ ppc = "down" /\ enqueued = 0 /\ lost = <<>>
    /\ cpc = "down" /\ taking = [write |-> 0, read |-> 0, record |-> Nothing] /\ received = <<>>
    /\ starts = [producer |-> 0, consumer |-> 0]
    /\ half = FALSE /\ overlap = FALSE

\* Slip: one place too many.
NextIndexPastEnd(i) == (i + 1) % (Size + 2)

NextIndex(i) == (i + 1) % (Size + 1)

----------------------------------------------------------------------------
(* The program: the constructor with exists = 0, and enqueue *)

Dequeuing == cpc \notin {"down", "ready"}

\* shmget and shmat find the segment, whoever created it.
AttachProducer ==
    /\ ppc = "down"
    /\ starts.producer < MaxStarts
    /\ starts' = [starts EXCEPT !.producer = @ + 1]
    /\ ppc' = "attached"
    /\ UNCHANGED <<segment, enqueued, lost, consumerVars, half, overlap>>

\* The spsc_queue is constructed in the segment: one index, then the other.
ConstructWriteIndex ==
    /\ ppc = "attached"
    /\ write_index' = 0
    /\ ppc' = "half"
    /\ half' = TRUE
    /\ overlap' = (overlap \/ Dequeuing)
    /\ UNCHANGED <<read_index, buffer, enqueued, lost, consumerVars, starts>>

ConstructReadIndex ==
    /\ ppc = "half"
    /\ read_index' = 0
    /\ ppc' = "ready"
    /\ half' = FALSE
    /\ overlap' = (overlap \/ Dequeuing)
    /\ UNCHANGED <<write_index, buffer, enqueued, lost, consumerVars, starts>>

\* Slip: no place is kept free.
FullLooksAtPlace == NextIndex(write_index) = read_index /\ buffer[write_index] # Nothing

Full == NextIndex(write_index) = read_index

\* The caller ignores that enqueue returns false (main.cpp:396, 420).
EnqueueFull ==
    /\ ppc = "ready"
    /\ enqueued < MaxRecords
    /\ Full
    /\ enqueued' = enqueued + 1
    /\ lost' = Append(lost, enqueued + 1)
    /\ UNCHANGED <<segment, ppc, consumerVars, starts, half, overlap>>

EnqueueRoom ==
    /\ ppc = "ready"
    /\ enqueued < MaxRecords
    /\ ~Full
    /\ ppc' = "write"
    /\ UNCHANGED <<segment, enqueued, lost, consumerVars, starts, half, overlap>>

WritePlace ==
    /\ ppc = "write"
    /\ buffer' = [buffer EXCEPT ![write_index] = enqueued + 1]
    /\ ppc' = "publish"
    /\ UNCHANGED <<write_index, read_index, enqueued, lost, consumerVars, starts, half, overlap>>

Publish ==
    /\ ppc = "publish"
    /\ write_index' = NextIndex(write_index)
    /\ enqueued' = enqueued + 1
    /\ ppc' = "ready"
    /\ UNCHANGED <<read_index, buffer, lost, consumerVars, starts, half, overlap>>

ProducerCrashes ==
    /\ ppc # "down"
    /\ ppc' = "down"
    /\ UNCHANGED <<segment, enqueued, lost, consumerVars, starts, half, overlap>>

ProducerStep ==
    ConstructWriteIndex \/ ConstructReadIndex \/ EnqueueFull \/ EnqueueRoom \/ WritePlace \/ Publish

----------------------------------------------------------------------------
(* The reader: the constructor with exists = 1, and dequeue *)

\* Slip: exists is not looked at, and the reader constructs the queue too.
AttachAndConstruct ==
    /\ cpc = "down"
    /\ starts.consumer < MaxStarts
    /\ starts' = [starts EXCEPT !.consumer = @ + 1]
    /\ cpc' = "ready"
    /\ write_index' = 0 /\ read_index' = 0
    /\ UNCHANGED <<buffer, producerVars, taking, received, half, overlap>>

AttachConsumer ==
    /\ cpc = "down"
    /\ starts.consumer < MaxStarts
    /\ starts' = [starts EXCEPT !.consumer = @ + 1]
    /\ cpc' = "ready"
    /\ UNCHANGED <<segment, producerVars, taking, received, half, overlap>>

DequeueLoads ==
    /\ cpc = "ready"
    /\ cpc' = "loaded"
    /\ taking' = [taking EXCEPT !.write = write_index]
    /\ overlap' = (overlap \/ half)
    /\ UNCHANGED <<segment, producerVars, received, starts, half>>

DequeueLooks ==
    /\ cpc = "loaded"
    /\ taking' = [taking EXCEPT !.read = read_index]
    /\ cpc' = IF taking.write = read_index THEN "ready" ELSE "copy"
    /\ UNCHANGED <<segment, producerVars, received, starts, half, overlap>>

CopyPlace ==
    /\ cpc = "copy"
    /\ taking' = [taking EXCEPT !.record = buffer[taking.read]]
    /\ cpc' = "advance"
    /\ UNCHANGED <<segment, producerVars, received, starts, half, overlap>>

\* Slip: the index goes on by two.
AdvanceTwice ==
    /\ cpc = "advance"
    /\ read_index' = NextIndex(NextIndex(taking.read))
    /\ received' = Append(received, taking.record)
    /\ cpc' = "ready"
    /\ UNCHANGED <<write_index, buffer, producerVars, taking, starts, half, overlap>>

Advance ==
    /\ cpc = "advance"
    /\ read_index' = NextIndex(taking.read)
    /\ received' = Append(received, taking.record)
    /\ cpc' = "ready"
    /\ UNCHANGED <<write_index, buffer, producerVars, taking, starts, half, overlap>>

ConsumerCrashes ==
    /\ cpc # "down"
    /\ cpc' = "down"
    /\ UNCHANGED <<segment, producerVars, taking, received, starts, half, overlap>>

ConsumerStep == DequeueLoads \/ DequeueLooks \/ CopyPlace \/ Advance

Next ==
    \/ AttachProducer \/ ProducerStep \/ ProducerCrashes
    \/ AttachConsumer \/ ConsumerStep \/ ConsumerCrashes

Spec == Init /\ [][Next]_vars

\* The reader polls for ever, and is started again when it has crashed.  Nothing
\* is asked of the producer.
FairSpec == Spec /\ WF_vars(AttachConsumer) /\ WF_vars(ConsumerStep)

----------------------------------------------------------------------------
(* Properties *)

\* The records between the two indices.
Stored ==
    [i \in 1 .. (write_index - read_index) % (Size + 1) |->
        buffer[(read_index + i - 1) % (Size + 1)]]

\* The variables have their types, and an index loaded is still the one in the
\* segment: each process moves its own index only.
TypeOK ==
    /\ {write_index, read_index} \subseteq Places
    /\ buffer \in [Places -> 0 .. MaxRecords]
    /\ ppc \in {"down", "attached", "half", "ready", "write", "publish"}
    /\ cpc \in {"down", "ready", "loaded", "copy", "advance"}
    /\ taking \in [write : Places, read : Places, record : 0 .. MaxRecords]
    /\ enqueued \in 0 .. MaxRecords
    /\ lost \in Seq(1 .. MaxRecords)
    /\ received \in Seq(0 .. MaxRecords)
    /\ starts \in [producer : 0 .. MaxStarts, consumer : 0 .. MaxStarts]
    /\ half \in BOOLEAN /\ overlap \in BOOLEAN
    /\ ~overlap /\ cpc \in {"copy", "advance"} => taking.read = read_index

\* The producer never writes the place the reader copies from: no record is torn.
\* The one place kept free guarantees it (a reader that the construction of the
\* queue overtakes has no such guarantee).
PlacesApart == ~overlap /\ ppc = "write" /\ cpc = "copy" => write_index # taking.read

\* Every record is received at most once, in the order of the calls of enqueue,
\* and none that was lost or never put in is: not even after crashes of either
\* process between any two accesses, unless a dequeue ran into a construction.
ReceivedInOrder ==
    ~overlap =>
        /\ \A i, j \in DOMAIN received : i < j => received[i] < received[j]
        /\ ToSet(received) \subseteq 1 .. enqueued
        /\ ToSet(received) \cap ToSet(lost) = {}

\* While the queue is under construction it is taken for empty.
Fifo == INSTANCE LossyFifo WITH
            Records  <- 1 .. MaxRecords,
            Capacity <- Size,
            queue    <- IF half THEN <<>> ELSE Stored,
            received <- received,
            lost     <- lost

\* Until a dequeue runs into a construction, the segment with its two indices
\* implements the lossy queue: records are lost only when Size of them are
\* stored, or when the producer starts again.
FifoImplemented == Fifo!FifoInit /\ [][Fifo!FifoNext \/ overlap']_(Fifo!fifoVars)

\* Where the two processes can be during a construction, and what the producer
\* still has to put in.
ConstructionInv ==
    /\ ppc = "half" => half
    /\ half => ppc \in {"down", "attached", "half"} /\ write_index = 0
    /\ half /\ ~overlap => ~Dequeuing
    /\ ppc \in {"write", "publish"} => enqueued < MaxRecords

\* The distance from one index to another around the ring.
Distance(from, to) == (to - from) % (Size + 1)

\* What a process knows of the index of the other stays true, however old.
IndexInv ==
    /\ ppc \in {"write", "publish"} => NextIndex(write_index) # read_index
    /\ ppc = "publish" => buffer[write_index] = enqueued + 1
    /\ cpc = "loaded" =>
           Distance(read_index, taking.write) <= Distance(read_index, write_index)
    /\ cpc \in {"copy", "advance"} => taking.read = read_index /\ write_index # read_index
    /\ cpc = "advance" => taking.record = buffer[read_index]

\* The records received and then those stored are in the order of the calls of
\* enqueue, and none of them was lost.
OrderInv ==
    /\ \A i \in DOMAIN received : received[i] \in 1 .. enqueued
    /\ \A i, j \in DOMAIN received : i < j => received[i] < received[j]
    /\ \A k \in DOMAIN lost : lost[k] \in 1 .. enqueued
    /\ \A i \in DOMAIN received, k \in DOMAIN lost : received[i] # lost[k]
    /\ ~half =>
           /\ \A i \in DOMAIN Stored : Stored[i] \in 1 .. enqueued
           /\ \A i, j \in DOMAIN Stored : i < j => Stored[i] < Stored[j]
           /\ \A i \in DOMAIN received, j \in DOMAIN Stored : received[i] < Stored[j]
           /\ \A i \in DOMAIN Stored, k \in DOMAIN lost : Stored[i] # lost[k]

\* The inductive invariant of the safety properties (shmQueue.h:255-271): what
\* holds as long as no dequeue runs into a construction.
QueueInv ==
    /\ TypeOK
    /\ ConstructionInv
    /\ ~overlap /\ ~half => IndexInv
    /\ ~overlap => OrderInv

\* The bound on the starts has left the segment without a reader.
ReaderGone == cpc = "down" /\ starts.consumer = MaxStarts

\* A record that is stored is received in the end: readers that crash and start
\* again, and a producer that is down, never lose it; the construction of the
\* queue by a producer that starts again is what does.
StoredReceived ==
    \A r \in 1 .. MaxRecords :
        (~half /\ r \in ToSet(Stored)) ~> (r \in ToSet(received) \/ half \/ overlap \/ ReaderGone)
=============================================================================
