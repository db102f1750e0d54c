--------------------------- MODULE ShmQueueProofs ---------------------------
(***************************************************************************)
(* The queue in shared memory is safe for every capacity and any number of *)
(* crashes of either process, until a dequeue runs into a construction: no *)
(* record is torn, lost on the way, repeated or out of order, and the      *)
(* segment implements LossyFifo.                                           *)
(***************************************************************************)
EXTENDS ShmQueue, SequenceTheorems, TLAPS

----------------------------------------------------------------------------
(* Going round the ring *)

LEMMA Multiple ==
    ASSUME NEW N \in Nat \ {0}, NEW k \in Int, k # 0
    PROVE  N * k >= N \/ N * k <= -N
<1>1. CASE k >= 1
    BY <1>1
<1>2. CASE k <= -1
    BY <1>2
<1> QED
    BY <1>1, <1>2

LEMMA Division ==
    ASSUME NEW N \in Nat \ {0}, NEW n \in Int
    PROVE  /\ n \div N \in Int /\ n % N \in 0 .. N - 1
           /\ n = N * (n \div N) + (n % N)
OBVIOUS

\* n and m are at most one round of the ring apart, and m is a place.
LEMMA Residue ==
    ASSUME NEW N \in Nat \ {0}, NEW m \in 0 .. N - 1, NEW c \in {-1, 0, 1},
           NEW n \in Int, n = m + c * N
    PROVE  n % N = m
<1> DEFINE q == n \div N
           r == n % N
<1>0. q \in Int /\ r \in 0 .. N - 1 /\ n = N * q + r
    BY Division
<1> HIDE DEF q, r
<1>1. q \in Int /\ r \in Int /\ 0 <= r /\ r < N /\ n = N * q + r
    BY <1>0
<1>2. N * (q - c) = m - r
    BY <1>1
<1>3. q - c \in Int /\ m - r < N /\ m - r > -N
    BY <1>1
<1>4. q - c = 0
    BY <1>2, <1>3, Multiple
<1> QED
    BY <1>1, <1>2, <1>4 DEF r

LEMMA NextIndexIs ==
    ASSUME NEW i \in Places
    PROVE  NextIndex(i) \in Places /\ NextIndex(i) = IF i = Size THEN 0 ELSE i + 1
<1>1. CASE i = Size
    BY <1>1, Residue, SizeAssumption DEF NextIndex, Places
<1>2. CASE i # Size
    BY <1>2, Residue, SizeAssumption DEF NextIndex, Places
<1> QED
    BY <1>1, <1>2

LEMMA DistanceIs ==
    ASSUME NEW from \in Places, NEW to \in Places
    PROVE  /\ Distance(from, to) \in 0 .. Size
           /\ Distance(from, to) = IF from <= to THEN to - from ELSE to - from + Size + 1
<1>1. CASE from <= to
    BY <1>1, Residue, SizeAssumption DEF Distance, Places
<1>2. CASE ~(from <= to)
    BY <1>2, Residue, SizeAssumption DEF Distance, Places
<1> QED
    BY <1>1, <1>2

\* The place k behind place i.
Behind(i, k) == IF i + k <= Size THEN i + k ELSE i + k - Size - 1

LEMMA PlaceIs ==
    ASSUME NEW i \in Places, NEW k \in 0 .. Size
    PROVE  (i + k) % (Size + 1) = Behind(i, k) /\ Behind(i, k) \in Places
<1>1. CASE i + k <= Size
    BY <1>1, Residue, SizeAssumption DEF Behind, Places
<1>2. CASE ~(i + k <= Size)
    BY <1>2, Residue, SizeAssumption DEF Behind, Places
<1> QED
    BY <1>1, <1>2

----------------------------------------------------------------------------
(* What is stored *)

LEMMA Enumerated ==
    ASSUME NEW n \in Nat, NEW S, NEW seq \in [1 .. n -> S]
    PROVE  seq \in Seq(S) /\ Len(seq) = n
OBVIOUS

LEMMA RingContents ==
    ASSUME NEW w \in Places, NEW r \in Places, NEW b \in [Places -> 0 .. MaxRecords],
           NEW s, s = [i \in 1 .. (w - r) % (Size + 1) |-> b[(r + i - 1) % (Size + 1)]]
    PROVE  /\ s \in Seq(0 .. MaxRecords)
           /\ Len(s) = Distance(r, w)
           /\ DOMAIN s = 1 .. Distance(r, w)
           /\ \A i \in 1 .. Distance(r, w) : s[i] = b[Behind(r, i - 1)]
<1> DEFINE d == Distance(r, w)
<1>1. d \in 0 .. Size
    BY DistanceIs
<1>2. s = [i \in 1 .. d |-> b[(r + i - 1) % (Size + 1)]]
    BY DEF Distance
<1> HIDE DEF d
<1>3. ASSUME NEW i \in 1 .. d
      PROVE  /\ (r + i - 1) % (Size + 1) = Behind(r, i - 1)
             /\ Behind(r, i - 1) \in Places
  <2>1. i - 1 \in 0 .. Size /\ r + i - 1 = r + (i - 1)
      BY <1>1, <1>3, SizeAssumption DEF Places
  <2> QED
      BY <2>1, PlaceIs
<1>4. \A i \in 1 .. d : s[i] = b[Behind(r, i - 1)] /\ s[i] \in 0 .. MaxRecords
    BY <1>2, <1>3
<1>5. s \in [1 .. d -> 0 .. MaxRecords]
    BY <1>2, <1>4
<1>6. d \in Nat
    BY <1>1, SizeAssumption
<1>7. s \in Seq(0 .. MaxRecords) /\ Len(s) = d
    BY <1>5, <1>6, Enumerated
<1>8. DOMAIN s = 1 .. d
    BY <1>2
<1> QED
    BY <1>4, <1>7, <1>8 DEF d

LEMMA StoredIs ==
    ASSUME write_index \in Places, read_index \in Places, buffer \in [Places -> 0 .. MaxRecords]
    PROVE  /\ Stored \in Seq(0 .. MaxRecords)
           /\ Len(Stored) = Distance(read_index, write_index)
           /\ DOMAIN Stored = 1 .. Distance(read_index, write_index)
           /\ \A i \in 1 .. Distance(read_index, write_index) :
                  Stored[i] = buffer[Behind(read_index, i - 1)]
BY RingContents DEF Stored

LEMMA StoredIsNext ==
    ASSUME write_index' \in Places, read_index' \in Places, buffer' \in [Places -> 0 .. MaxRecords]
    PROVE  /\ Stored' \in Seq(0 .. MaxRecords)
           /\ Len(Stored') = Distance(read_index', write_index')
           /\ DOMAIN Stored' = 1 .. Distance(read_index', write_index')
           /\ \A i \in 1 .. Distance(read_index', write_index') :
                  Stored'[i] = buffer'[Behind(read_index', i - 1)]
BY RingContents DEF Stored

\* The place the producer writes is none of those stored.
LEMMA WriteKeeps ==
    ASSUME TypeOK, TypeOK', WritePlace
    PROVE  Stored' = Stored
<1> DEFINE d == Distance(read_index, write_index)
<1>1. /\ write_index \in Places /\ read_index \in Places
      /\ write_index' = write_index /\ read_index' = read_index
      /\ buffer \in [Places -> 0 .. MaxRecords] /\ buffer' \in [Places -> 0 .. MaxRecords]
      /\ \A p \in Places \ {write_index} : buffer'[p] = buffer[p]
    BY DEF TypeOK, WritePlace
<1>2. /\ d \in 0 .. Size
      /\ d = IF read_index <= write_index THEN write_index - read_index
             ELSE write_index - read_index + Size + 1
    BY <1>1, DistanceIs
<1>3. /\ Stored \in Seq(0 .. MaxRecords) /\ Stored' \in Seq(0 .. MaxRecords)
      /\ Len(Stored) = d /\ Len(Stored') = d
      /\ \A i \in 1 .. d : Stored[i] = buffer[Behind(read_index, i - 1)]
      /\ \A i \in 1 .. d : Stored'[i] = buffer'[Behind(read_index, i - 1)]
    BY <1>1, StoredIs, StoredIsNext
<1> HIDE DEF d
<1>4. ASSUME NEW i \in 1 .. d PROVE Stored'[i] = Stored[i]
  <2>1. i - 1 \in 0 .. Size /\ Behind(read_index, i - 1) \in Places
      BY <1>1, <1>2, <1>4, PlaceIs, SizeAssumption
  <2>2. Behind(read_index, i - 1) # write_index
      BY <1>1, <1>2, <1>4, SizeAssumption DEF Behind, Places
  <2> QED
      BY <1>1, <1>3, <1>4, <2>1, <2>2
<1> QED
    BY <1>3, <1>4, SeqEqual

LEMMA PublishStores ==
    ASSUME TypeOK, TypeOK', Publish, NextIndex(write_index) # read_index
    PROVE  /\ Len(Stored) < Size
           /\ Stored' = Append(Stored, buffer[write_index])
<1> DEFINE d == Distance(read_index, write_index)
           s == Append(Stored, buffer[write_index])
<1>1. /\ write_index \in Places /\ read_index \in Places
      /\ write_index' = NextIndex(write_index) /\ read_index' = read_index
      /\ buffer \in [Places -> 0 .. MaxRecords] /\ buffer' = buffer
      /\ write_index' \in Places
    BY NextIndexIs DEF TypeOK, Publish
<1>2. write_index' = IF write_index = Size THEN 0 ELSE write_index + 1
    BY <1>1, NextIndexIs
<1>3. /\ d \in 0 .. Size
      /\ d = IF read_index <= write_index THEN write_index - read_index
             ELSE write_index - read_index + Size + 1
    BY <1>1, DistanceIs
<1>4. Distance(read_index', write_index')
          = IF read_index <= write_index' THEN write_index' - read_index
            ELSE write_index' - read_index + Size + 1
    BY <1>1, DistanceIs
<1>5. Distance(read_index', write_index') = d + 1 /\ d < Size
    BY <1>1, <1>2, <1>3, <1>4, SizeAssumption DEF Places
<1>6. /\ Stored \in Seq(0 .. MaxRecords) /\ Len(Stored) = d
      /\ \A i \in 1 .. d : Stored[i] = buffer[Behind(read_index, i - 1)]
    BY <1>1, StoredIs
<1>7. /\ Stored' \in Seq(0 .. MaxRecords) /\ Len(Stored') = d + 1
      /\ \A i \in 1 .. d + 1 : Stored'[i] = buffer[Behind(read_index, i - 1)]
    BY <1>1, <1>5, StoredIsNext
<1>8. Behind(read_index, (d + 1) - 1) = write_index
    BY <1>1, <1>3, SizeAssumption DEF Behind, Places
<1> HIDE DEF d
<1>9. /\ s \in Seq(0 .. MaxRecords) /\ Len(s) = d + 1
      /\ \A i \in 1 .. d : s[i] = Stored[i]
      /\ s[d + 1] = buffer[write_index]
    BY <1>1, <1>6, AppendProperties
<1> HIDE DEF s
<1>10. ASSUME NEW i \in 1 .. d + 1 PROVE Stored'[i] = s[i]
  <2>1. CASE i = d + 1
      BY <1>7, <1>8, <1>9, <1>10, <2>1
  <2>2. CASE i # d + 1
    <3>1. i \in 1 .. d
        BY <1>3, <1>10, <2>2
    <3> QED
        BY <1>6, <1>7, <1>9, <1>10, <3>1
  <2> QED
      BY <2>1, <2>2
<1>11. Stored' = s
    BY <1>7, <1>9, <1>10, SeqEqual
<1> QED
    BY <1>5, <1>6, <1>11 DEF s

LEMMA AdvanceTakes ==
    ASSUME TypeOK, TypeOK', Advance, taking.read = read_index, write_index # read_index
    PROVE  /\ Stored # <<>>
           /\ Head(Stored) = buffer[read_index]
           /\ Stored' = Tail(Stored)
<1> DEFINE d == Distance(read_index, write_index)
<1>1. /\ write_index \in Places /\ read_index \in Places
      /\ write_index' = write_index /\ read_index' = NextIndex(read_index)
      /\ buffer \in [Places -> 0 .. MaxRecords] /\ buffer' = buffer
      /\ read_index' \in Places
    BY NextIndexIs DEF TypeOK, Advance
<1>2. read_index' = IF read_index = Size THEN 0 ELSE read_index + 1
    BY <1>1, NextIndexIs
<1>3. /\ d \in 0 .. Size
      /\ d = IF read_index <= write_index THEN write_index - read_index
             ELSE write_index - read_index + Size + 1
    BY <1>1, DistanceIs
<1>4. Distance(read_index', write_index')
          = IF read_index' <= write_index THEN write_index - read_index'
            ELSE write_index - read_index' + Size + 1
    BY <1>1, DistanceIs
<1> HIDE DEF d
<1>5. Distance(read_index', write_index') = d - 1 /\ d > 0
  <2>1. d > 0
      BY <1>1, <1>3, SizeAssumption DEF Places
  <2>2. CASE read_index = Size
      BY <1>1, <1>2, <1>3, <1>4, <2>2, SizeAssumption DEF Places
  <2>3. CASE read_index # Size
      BY <1>1, <1>2, <1>3, <1>4, <2>3, SizeAssumption DEF Places
  <2> QED
      BY <2>1, <2>2, <2>3
<1>6. /\ Stored \in Seq(0 .. MaxRecords) /\ Len(Stored) = d
      /\ \A i \in 1 .. d : Stored[i] = buffer[Behind(read_index, i - 1)]
    BY <1>1, StoredIs DEF d
<1>7. /\ Stored' \in Seq(0 .. MaxRecords) /\ Len(Stored') = d - 1
      /\ \A i \in 1 .. d - 1 : Stored'[i] = buffer[Behind(read_index', i - 1)]
    BY <1>1, <1>5, StoredIsNext
<1>8. Behind(read_index, 1 - 1) = read_index
    BY <1>1, SizeAssumption DEF Behind, Places
<1>9. ASSUME NEW i \in 1 .. d - 1 PROVE Behind(read_index', i - 1) = Behind(read_index, (i + 1) - 1)
    BY <1>1, <1>2, <1>3, <1>9, SizeAssumption DEF Behind, Places
<1>10. Stored # <<>> /\ Head(Stored) = Stored[1] /\ Stored[1] = buffer[read_index]
  <2>1. 1 \in 1 .. d
      BY <1>3, <1>5
  <2> QED
      BY <1>6, <1>8, <2>1
<1>11. /\ Tail(Stored) \in Seq(0 .. MaxRecords) /\ Len(Tail(Stored)) = d - 1
       /\ \A i \in 1 .. d - 1 : Tail(Stored)[i] = Stored[i + 1]
    BY <1>6, <1>10, HeadTailProperties
<1>12. ASSUME NEW i \in 1 .. d - 1 PROVE Stored'[i] = Tail(Stored)[i]
  <2>1. i + 1 \in 1 .. d
      BY <1>3, <1>12
  <2> QED
      BY <1>6, <1>7, <1>9, <1>11, <1>12, <2>1
<1>13. Stored' = Tail(Stored)
    BY <1>7, <1>11, <1>12, SeqEqual
<1> QED
    BY <1>10, <1>13

LEMMA FullStored ==
    ASSUME TypeOK, Full
    PROVE  Len(Stored) = Size
<1>1. /\ write_index \in Places /\ read_index \in Places
      /\ buffer \in [Places -> 0 .. MaxRecords]
      /\ NextIndex(write_index) = read_index
    BY DEF TypeOK, Full
<1>2. read_index = IF write_index = Size THEN 0 ELSE write_index + 1
    BY <1>1, NextIndexIs
<1>3. Distance(read_index, write_index)
          = IF read_index <= write_index THEN write_index - read_index
            ELSE write_index - read_index + Size + 1
    BY <1>1, DistanceIs
<1>4. Len(Stored) = Distance(read_index, write_index)
    BY <1>1, StoredIs
<1> QED
    BY <1>1, <1>2, <1>3, <1>4, SizeAssumption DEF Places

LEMMA EmptyStored ==
    ASSUME TypeOK', write_index' = 0, read_index' = 0
    PROVE  Stored' = <<>>
<1>1. Distance(read_index', write_index') = 0
    BY DistanceIs, SizeAssumption DEF TypeOK, Places
<1>2. Stored' \in Seq(0 .. MaxRecords) /\ Len(Stored') = 0
    BY <1>1, StoredIsNext DEF TypeOK
<1> QED
    BY <1>2, EmptySeq

----------------------------------------------------------------------------
(* The invariant *)

LEMMA InitInv == Init => QueueInv
<1> SUFFICES ASSUME Init PROVE QueueInv
    OBVIOUS
<1> USE SizeAssumption, BoundsAssumption DEF Nothing
<1>1. 0 \in Places
    BY DEF Places
<1>2. TypeOK
  <2>1. /\ {write_index, read_index} \subseteq Places
        /\ buffer \in [Places -> 0 .. MaxRecords]
        /\ taking \in [write : Places, read : Places, record : 0 .. MaxRecords]
        /\ enqueued \in 0 .. MaxRecords
        /\ starts \in [producer : 0 .. MaxStarts, consumer : 0 .. MaxStarts]
      BY <1>1 DEF Init
  <2>2. ppc = "down" /\ cpc = "down" /\ half \in BOOLEAN /\ overlap \in BOOLEAN
      BY DEF Init
  <2>3. lost \in Seq(1 .. MaxRecords) /\ received \in Seq(0 .. MaxRecords)
      BY DEF Init
  <2> QED
      BY <2>1, <2>2, <2>3 DEF TypeOK
<1>3. ConstructionInv
    BY DEF Init, ConstructionInv
<1>4. IndexInv
    BY DEF Init, IndexInv
<1>5. DOMAIN Stored = {}
  <2>1. /\ write_index = 0 /\ read_index = 0 /\ write_index \in Places /\ read_index \in Places
        /\ buffer \in [Places -> 0 .. MaxRecords]
      BY <1>1, <1>2 DEF Init, TypeOK
  <2>2. Distance(read_index, write_index) = 0
      BY <2>1, DistanceIs
  <2> QED
      BY <2>1, <2>2, StoredIs
<1>6. OrderInv
    BY <1>5 DEF Init, OrderInv
<1> QED
    BY <1>2, <1>3, <1>4, <1>6 DEF QueueInv

\* Steps that touch neither the segment nor what was put in and taken out.
Quiet ==
    \/ AttachProducer \/ EnqueueRoom \/ ProducerCrashes
    \/ AttachConsumer \/ DequeueLoads \/ DequeueLooks \/ CopyPlace \/ ConsumerCrashes
    \/ UNCHANGED vars

LEMMA QuietKeeps ==
    ASSUME Quiet
    PROVE  /\ UNCHANGED <<write_index, read_index, buffer, enqueued, lost, received, half>>
           /\ Stored' = Stored
<1>1. UNCHANGED <<write_index, read_index, buffer, enqueued, lost, received, half>>
    BY DEF Quiet, AttachProducer, EnqueueRoom, ProducerCrashes, AttachConsumer, DequeueLoads,
       DequeueLooks, CopyPlace, ConsumerCrashes, vars, segment, producerVars, consumerVars
<1> QED
    BY <1>1 DEF Stored

LEMMA QuietType ==
    ASSUME QueueInv, Quiet
    PROVE  TypeOK'
<1>1. TypeOK
    BY DEF QueueInv
<1>2. UNCHANGED <<write_index, read_index, buffer, enqueued, lost, received, half>>
    BY QuietKeeps
<1>3. /\ ppc' \in {"down", "attached", "half", "ready", "write", "publish"}
      /\ cpc' \in {"down", "ready", "loaded", "copy", "advance"}
    BY <1>1 DEF TypeOK, Quiet, AttachProducer, EnqueueRoom, ProducerCrashes, AttachConsumer,
       DequeueLoads, DequeueLooks, CopyPlace, ConsumerCrashes, vars, producerVars, consumerVars
<1>4. /\ taking' \in [write : Places, read : Places, record : 0 .. MaxRecords]
      /\ overlap' \in BOOLEAN
      /\ ~overlap' => ~overlap
      /\ cpc' \in {"copy", "advance"} =>
             (cpc \in {"copy", "advance"} /\ taking'.read = taking.read) \/ taking'.read = read_index
    BY <1>1 DEF TypeOK, Quiet, AttachProducer, EnqueueRoom, ProducerCrashes, AttachConsumer,
       DequeueLoads, DequeueLooks, CopyPlace, ConsumerCrashes, vars, producerVars, consumerVars
<1>5. starts' \in [producer : 0 .. MaxStarts, consumer : 0 .. MaxStarts]
  <2>1. starts \in [producer : 0 .. MaxStarts, consumer : 0 .. MaxStarts] /\ MaxStarts \in Nat
      BY <1>1, BoundsAssumption DEF TypeOK
  <2>2. CASE AttachProducer
      BY <2>1, <2>2 DEF AttachProducer
  <2>3. CASE AttachConsumer
      BY <2>1, <2>3 DEF AttachConsumer
  <2>4. CASE UNCHANGED starts
      BY <2>1, <2>4
  <2> QED
      BY <2>2, <2>3, <2>4 DEF Quiet, EnqueueRoom, ProducerCrashes, DequeueLoads, DequeueLooks,
         CopyPlace, ConsumerCrashes, vars
<1> QED
    BY <1>1, <1>2, <1>3, <1>4, <1>5 DEF TypeOK

LEMMA QuietInv ==
    ASSUME QueueInv, Quiet
    PROVE  QueueInv'
<1>1. UNCHANGED <<write_index, read_index, buffer, enqueued, lost, received, half>> /\ Stored' = Stored
    BY QuietKeeps
<1>2. TypeOK'
    BY QuietType
<1>3. ~overlap' => ~overlap
    BY DEF Quiet, AttachProducer, EnqueueRoom, ProducerCrashes, AttachConsumer,
       DequeueLoads, DequeueLooks, CopyPlace, ConsumerCrashes, vars, producerVars, consumerVars
<1>4. ConstructionInv'
  <2>1. ConstructionInv /\ TypeOK
      BY DEF QueueInv
  <2>2. /\ ppc' \in {"down", "attached"} \/ ppc' = ppc
           \/ (ppc = "ready" /\ ppc' = "write" /\ enqueued < MaxRecords)
      BY DEF Quiet, AttachProducer, EnqueueRoom, ProducerCrashes, AttachConsumer,
         DequeueLoads, DequeueLooks, CopyPlace, ConsumerCrashes, vars, producerVars, consumerVars
  <2>3. half /\ ~overlap' => cpc' \in {"down", "ready"}
    <3>1. half /\ ~overlap' => cpc \in {"down", "ready"}
        BY <1>3, <2>1 DEF ConstructionInv, Dequeuing
    <3> QED
        BY <3>1 DEF Quiet, AttachProducer, EnqueueRoom, ProducerCrashes, AttachConsumer,
           DequeueLoads, DequeueLooks, CopyPlace, ConsumerCrashes, vars, producerVars, consumerVars
  <2> QED
      BY <1>1, <2>1, <2>2, <2>3 DEF ConstructionInv, Dequeuing
<1>5. ASSUME ~overlap', ~half' PROVE IndexInv'
  <2>1. IndexInv /\ TypeOK
      BY <1>1, <1>3, <1>5 DEF QueueInv
  <2>2. CASE EnqueueRoom
      BY <1>1, <2>1, <2>2 DEF IndexInv, EnqueueRoom, Full, consumerVars, Distance
  <2>3. CASE DequeueLoads
    <3>1. Distance(read_index, write_index) \in Int
        BY <2>1, DistanceIs, SizeAssumption DEF TypeOK
    <3>2. /\ cpc' = "loaded" /\ taking'.write = write_index /\ UNCHANGED ppc
        BY <2>1, <2>3 DEF DequeueLoads, producerVars, TypeOK
    <3> QED
        BY <1>1, <2>1, <3>1, <3>2 DEF IndexInv, Distance
  <2>4. CASE DequeueLooks
    <3>1. /\ UNCHANGED ppc /\ cpc = "loaded" /\ taking'.read = read_index
          /\ cpc' = IF taking.write = read_index THEN "ready" ELSE "copy"
        BY <2>1, <2>4 DEF DequeueLooks, producerVars, TypeOK
    <3>2. ASSUME taking.write # read_index PROVE write_index # read_index
      <4>1. taking.write \in Places /\ read_index \in Places
          BY <2>1 DEF TypeOK
      <4>2. Distance(read_index, taking.write) \in Int /\ Distance(read_index, taking.write) > 0
        <5>1. /\ Distance(read_index, taking.write) =
                     IF read_index <= taking.write THEN taking.write - read_index
                     ELSE taking.write - read_index + Size + 1
              /\ Distance(read_index, taking.write) \in 0 .. Size
            BY <4>1, DistanceIs
        <5> HIDE DEF Distance
        <5> QED
            BY <3>2, <4>1, <5>1, SizeAssumption DEF Places
      <4>3. Distance(read_index, read_index) = 0
          BY <4>1, DistanceIs, SizeAssumption DEF Places
      <4>4. Distance(read_index, taking.write) <= Distance(read_index, write_index)
          BY <2>1, <3>1 DEF IndexInv
      <4> QED
          BY <4>2, <4>3, <4>4
    <3> QED
        BY <1>1, <2>1, <3>1, <3>2 DEF IndexInv
  <2>5. CASE CopyPlace
    <3>1. /\ UNCHANGED ppc /\ cpc = "copy" /\ cpc' = "advance"
          /\ taking'.read = taking.read /\ taking'.record = buffer[taking.read]
        BY <2>1, <2>5 DEF CopyPlace, producerVars, TypeOK
    <3> QED
        BY <1>1, <2>1, <3>1 DEF IndexInv
  <2>6. CASE AttachProducer \/ ProducerCrashes
      BY <1>1, <2>1, <2>6 DEF IndexInv, AttachProducer, ProducerCrashes, consumerVars, Distance
  <2>7. CASE AttachConsumer \/ ConsumerCrashes
      BY <1>1, <2>1, <2>7 DEF IndexInv, AttachConsumer, ConsumerCrashes, producerVars
  <2>8. CASE UNCHANGED vars
      BY <1>1, <2>1, <2>8 DEF IndexInv, vars, producerVars, consumerVars, Distance
  <2> QED
      BY <2>2, <2>3, <2>4, <2>5, <2>6, <2>7, <2>8 DEF Quiet
<1>6. ASSUME ~overlap' PROVE OrderInv'
    BY <1>1, <1>3, <1>6 DEF QueueInv, OrderInv
<1> QED
    BY <1>2, <1>4, <1>5, <1>6 DEF QueueInv

LEMMA ConstructInv ==
    ASSUME QueueInv, ConstructWriteIndex \/ ConstructReadIndex
    PROVE  QueueInv'
<1>1. /\ UNCHANGED <<buffer, enqueued, lost, cpc, taking, received, starts>>
      /\ write_index' = 0 \/ write_index' = write_index
      /\ read_index' = 0 \/ read_index' = read_index
      /\ overlap' = (overlap \/ Dequeuing)
      /\ ppc' \in {"half", "ready"}
      /\ half' = (ppc' = "half")
      /\ half' \in BOOLEAN
      /\ half' => write_index' = 0
    BY DEF ConstructWriteIndex, ConstructReadIndex, consumerVars
<1>2. TypeOK /\ ConstructionInv
    BY DEF QueueInv
<1>3. ~overlap' => ~overlap /\ cpc \in {"down", "ready"}
    BY <1>1, <1>2 DEF Dequeuing, TypeOK
<1>4. 0 \in Places
    BY SizeAssumption DEF Places
<1>5. overlap' \in BOOLEAN
    BY <1>1, <1>2 DEF TypeOK
<1>6. TypeOK'
    BY <1>1, <1>2, <1>3, <1>4, <1>5 DEF TypeOK
<1>7. ConstructionInv'
    BY <1>1, <1>3 DEF ConstructionInv, Dequeuing
<1>8. ASSUME ~overlap', ~half' PROVE IndexInv'
    BY <1>1, <1>3, <1>8 DEF IndexInv
<1>9. ASSUME ~overlap' PROVE OrderInv'
  <2>1. OrderInv
      BY <1>3, <1>9 DEF QueueInv
  <2>2. ASSUME ~half' PROVE Stored' = <<>>
    <3>1. write_index' = 0 /\ read_index' = 0
        BY <1>1, <1>2, <2>2 DEF ConstructWriteIndex, ConstructReadIndex, ConstructionInv
    <3> QED
        BY <1>6, <3>1, EmptyStored
  <2> QED
      BY <1>1, <2>1, <2>2 DEF OrderInv
<1> QED
    BY <1>6, <1>7, <1>8, <1>9 DEF QueueInv

LEMMA EnqueueFullInv ==
    ASSUME QueueInv, EnqueueFull
    PROVE  QueueInv'
<1>1. /\ UNCHANGED <<write_index, read_index, buffer, ppc, cpc, taking, received, starts, half, overlap>>
      /\ ppc = "ready" /\ enqueued < MaxRecords
      /\ enqueued' = enqueued + 1 /\ lost' = Append(lost, enqueued + 1)
    BY DEF EnqueueFull, segment, consumerVars
<1>2. TypeOK /\ ConstructionInv
    BY DEF QueueInv
<1>3. enqueued \in Nat /\ enqueued + 1 \in 1 .. MaxRecords /\ lost \in Seq(1 .. MaxRecords)
    BY <1>1, <1>2, BoundsAssumption DEF TypeOK
<1>4. lost' \in Seq(1 .. MaxRecords)
    BY <1>1, <1>3
<1>5. TypeOK'
    BY <1>1, <1>2, <1>3, <1>4, BoundsAssumption DEF TypeOK
<1>6. Stored' = Stored /\ Dequeuing' = Dequeuing
    BY <1>1 DEF Stored, Dequeuing
<1>7. ConstructionInv'
    BY <1>1, <1>2, <1>6 DEF ConstructionInv
<1>8. IndexInv => IndexInv'
    BY <1>1 DEF IndexInv, Distance
<1>9. ASSUME ~overlap' PROVE OrderInv'
  <2>1. OrderInv
      BY <1>1, <1>9 DEF QueueInv
  <2>2. ASSUME NEW k \in DOMAIN lost'
        PROVE  lost'[k] = enqueued + 1 \/ (k \in DOMAIN lost /\ lost'[k] = lost[k])
    <3>1. DOMAIN lost' = 1 .. Len(lost) + 1 /\ DOMAIN lost = 1 .. Len(lost) /\ Len(lost) \in Nat
        BY <1>1, <1>3, <1>4, LenProperties, AppendProperties
    <3>2. CASE k = Len(lost) + 1
        BY <1>1, <1>3, <3>2, AppendProperties
    <3>3. CASE k # Len(lost) + 1
      <4>1. k \in 1 .. Len(lost)
          BY <2>2, <3>1, <3>3
      <4> QED
          BY <1>1, <1>3, <3>1, <4>1, AppendProperties
    <3> QED
        BY <3>2, <3>3
  <2>3. \A k \in DOMAIN lost' : lost'[k] \in 1 .. enqueued + 1
      BY <1>3, <2>1, <2>2 DEF OrderInv
  <2>4. /\ \A i \in DOMAIN received : received[i] \in 1 .. enqueued + 1
        /\ \A i \in DOMAIN received, k \in DOMAIN lost' : received[i] # lost'[k]
      BY <1>3, <2>1, <2>2 DEF OrderInv
  <2>5. ASSUME ~half
        PROVE  /\ \A i \in DOMAIN Stored : Stored[i] \in 1 .. enqueued + 1
               /\ \A i \in DOMAIN Stored, k \in DOMAIN lost' : Stored[i] # lost'[k]
      BY <1>3, <2>1, <2>2, <2>5 DEF OrderInv
  <2> QED
      BY <1>1, <1>6, <2>1, <2>3, <2>4, <2>5 DEF OrderInv
<1> QED
    BY <1>1, <1>5, <1>7, <1>8, <1>9 DEF QueueInv

LEMMA WritePlaceInv ==
    ASSUME QueueInv, WritePlace
    PROVE  QueueInv'
<1>1. /\ UNCHANGED <<write_index, read_index, enqueued, lost, cpc, taking, received, starts, half, overlap>>
      /\ ppc = "write" /\ ppc' = "publish"
    BY DEF WritePlace, consumerVars
<1>2. TypeOK /\ ConstructionInv
    BY DEF QueueInv
<1>3. enqueued + 1 \in 0 .. MaxRecords
    BY <1>1, <1>2, BoundsAssumption DEF TypeOK, ConstructionInv
<1>4. /\ buffer' \in [Places -> 0 .. MaxRecords]
      /\ write_index \in Places /\ read_index \in Places
      /\ buffer'[write_index] = enqueued + 1
      /\ \A p \in Places \ {write_index} : buffer'[p] = buffer[p]
    BY <1>2, <1>3 DEF TypeOK, WritePlace
<1>5. TypeOK'
    BY <1>1, <1>2, <1>4 DEF TypeOK
<1>6. Stored' = Stored
    BY <1>2, <1>5, WriteKeeps
<1>7. ConstructionInv'
    BY <1>1, <1>2 DEF ConstructionInv, Dequeuing
<1>8. IndexInv => IndexInv'
    BY <1>1, <1>4 DEF IndexInv, Distance
<1>9. OrderInv => OrderInv'
    BY <1>1, <1>6 DEF OrderInv
<1> QED
    BY <1>1, <1>5, <1>7, <1>8, <1>9 DEF QueueInv

LEMMA PublishInv ==
    ASSUME QueueInv, Publish
    PROVE  QueueInv'
<1>1. /\ UNCHANGED <<read_index, buffer, lost, cpc, taking, received, starts, half, overlap>>
      /\ ppc = "publish" /\ ppc' = "ready"
      /\ enqueued' = enqueued + 1 /\ write_index' = NextIndex(write_index)
    BY DEF Publish, consumerVars
<1>2. TypeOK /\ ConstructionInv /\ ~half
    BY <1>1 DEF QueueInv, ConstructionInv
<1>3. enqueued \in Nat /\ enqueued + 1 \in 0 .. MaxRecords
    BY <1>1, <1>2, BoundsAssumption DEF TypeOK, ConstructionInv
<1>4. write_index \in Places /\ read_index \in Places /\ write_index' \in Places
    BY <1>1, <1>2, NextIndexIs DEF TypeOK
<1>5. TypeOK'
    BY <1>1, <1>2, <1>3, <1>4 DEF TypeOK
<1>6. ConstructionInv'
    BY <1>1, <1>2 DEF ConstructionInv, Dequeuing
<1>7. ASSUME ~overlap
      PROVE  /\ IndexInv /\ OrderInv
             /\ NextIndex(write_index) # read_index /\ buffer[write_index] = enqueued + 1
    BY <1>1, <1>2, <1>7 DEF QueueInv, IndexInv
<1>8. ASSUME ~overlap' PROVE IndexInv'
  <2>1. ~overlap
      BY <1>1, <1>8
  <2>2. Distance(read_index, write_index') >= Distance(read_index, write_index)
    <3>1. /\ Distance(read_index, write_index) = IF read_index <= write_index THEN write_index - read_index
                                                 ELSE write_index - read_index + Size + 1
          /\ Distance(read_index, write_index') = IF read_index <= write_index' THEN write_index' - read_index
                                                  ELSE write_index' - read_index + Size + 1
        BY <1>4, DistanceIs
    <3>2. write_index' = IF write_index = Size THEN 0 ELSE write_index + 1
        BY <1>1, <1>4, NextIndexIs
    <3> QED
        BY <1>1, <1>4, <1>7, <2>1, <3>1, <3>2, SizeAssumption DEF Places
  <2>3. /\ Distance(read_index, write_index) \in Int
        /\ Distance(read_index, write_index') \in Int
        /\ Distance(read_index, taking.write) \in Int
    <3>1. taking.write \in Places
        BY <1>2 DEF TypeOK
    <3> QED
        BY <1>4, <3>1, DistanceIs, SizeAssumption
  <2>4. cpc = "loaded" => Distance(read_index, taking.write) <= Distance(read_index, write_index')
      BY <1>7, <2>1, <2>2, <2>3 DEF IndexInv
  <2> QED
      BY <1>1, <1>7, <2>1, <2>4 DEF IndexInv, Distance
<1>9. ASSUME ~overlap' PROVE OrderInv'
  <2>1. OrderInv /\ Stored' = Append(Stored, enqueued + 1)
      BY <1>1, <1>2, <1>5, <1>7, <1>9, PublishStores
  <2>2. Stored \in Seq(0 .. MaxRecords)
      BY <1>2, StoredIs DEF TypeOK
  <2>3. /\ Len(Stored) \in Nat /\ DOMAIN Stored = 1 .. Len(Stored)
        /\ DOMAIN Stored' = 1 .. Len(Stored) + 1
        /\ \A i \in 1 .. Len(Stored) : Stored'[i] = Stored[i]
        /\ Stored'[Len(Stored) + 1] = enqueued + 1
      BY <1>3, <2>1, <2>2, LenProperties, AppendProperties
  <2>4. ASSUME NEW i \in DOMAIN Stored'
        PROVE  \/ i = Len(Stored) + 1 /\ Stored'[i] = enqueued + 1
               \/ i \in DOMAIN Stored /\ i < Len(Stored) + 1 /\ Stored'[i] = Stored[i]
      BY <2>3, <2>4
  <2>5. \A i \in DOMAIN Stored : Stored[i] \in 1 .. enqueued
      BY <1>2, <2>1 DEF OrderInv
  <2>6. \A i \in DOMAIN Stored' : Stored'[i] \in 1 .. enqueued + 1
      BY <1>3, <2>4, <2>5
  <2>7. ASSUME NEW i \in DOMAIN Stored', NEW j \in DOMAIN Stored', i < j
        PROVE  Stored'[i] < Stored'[j]
    <3>1. i \in DOMAIN Stored /\ Stored'[i] = Stored[i]
        BY <2>3, <2>4, <2>7
    <3> QED
        BY <1>2, <1>3, <2>1, <2>4, <2>5, <2>7, <3>1 DEF OrderInv
  <2>8. \A i \in DOMAIN received, j \in DOMAIN Stored' : received[i] < Stored'[j]
      BY <1>2, <1>3, <2>1, <2>4 DEF OrderInv
  <2>9. \A i \in DOMAIN Stored', k \in DOMAIN lost : Stored'[i] # lost[k]
      BY <1>2, <1>3, <2>1, <2>4 DEF OrderInv
  <2>10. /\ \A i \in DOMAIN received : received[i] \in 1 .. enqueued + 1
         /\ \A k \in DOMAIN lost : lost[k] \in 1 .. enqueued + 1
      BY <1>3, <2>1 DEF OrderInv
  <2> QED
      BY <1>1, <2>1, <2>6, <2>7, <2>8, <2>9, <2>10 DEF OrderInv
<1> QED
    BY <1>1, <1>5, <1>6, <1>8, <1>9 DEF QueueInv

LEMMA AdvanceInv ==
    ASSUME QueueInv, Advance
    PROVE  QueueInv'
<1>1. /\ UNCHANGED <<write_index, buffer, ppc, enqueued, lost, taking, starts, half, overlap>>
      /\ cpc = "advance" /\ cpc' = "ready"
      /\ read_index' = NextIndex(taking.read) /\ received' = Append(received, taking.record)
    BY DEF Advance, producerVars
<1>2. TypeOK /\ ConstructionInv
    BY DEF QueueInv
<1>3. /\ taking.read \in Places /\ taking.record \in 0 .. MaxRecords
      /\ read_index' \in Places /\ read_index \in Places /\ write_index \in Places
    BY <1>1, <1>2, NextIndexIs DEF TypeOK
<1>4. received \in Seq(0 .. MaxRecords) /\ received' \in Seq(0 .. MaxRecords)
    BY <1>1, <1>2, <1>3 DEF TypeOK
<1>5. TypeOK'
    BY <1>1, <1>2, <1>3, <1>4 DEF TypeOK
<1>6. ConstructionInv'
    BY <1>1, <1>2 DEF ConstructionInv, Dequeuing
<1>7. ASSUME ~overlap
      PROVE  /\ ~half /\ IndexInv /\ OrderInv
             /\ taking.read = read_index /\ write_index # read_index
             /\ taking.record = buffer[read_index]
  <2>1. ~half
      BY <1>1, <1>2, <1>7 DEF ConstructionInv, Dequeuing
  <2> QED
      BY <1>1, <1>7, <2>1 DEF QueueInv, IndexInv
<1>8. ASSUME ~overlap' PROVE IndexInv'
  <2>1. NextIndex(write_index) # NextIndex(read_index)
    <3>1. /\ NextIndex(write_index) = IF write_index = Size THEN 0 ELSE write_index + 1
          /\ NextIndex(read_index) = IF read_index = Size THEN 0 ELSE read_index + 1
        BY <1>3, NextIndexIs
    <3> QED
        BY <1>1, <1>3, <1>7, <1>8, <3>1, SizeAssumption DEF Places
  <2> QED
      BY <1>1, <1>7, <1>8, <2>1 DEF IndexInv
<1>9. ASSUME ~overlap' PROVE OrderInv'
  <2>1. /\ ~half /\ OrderInv /\ Stored # <<>>
        /\ Head(Stored) = taking.record /\ Stored' = Tail(Stored)
      BY <1>1, <1>2, <1>5, <1>7, <1>9, AdvanceTakes
  <2>2. Stored \in Seq(0 .. MaxRecords)
      BY <1>2, StoredIs DEF TypeOK
  <2>3. /\ Len(Stored) \in Nat /\ Len(Stored) > 0 /\ DOMAIN Stored = 1 .. Len(Stored)
        /\ Stored[1] = taking.record
      BY <2>1, <2>2, LenProperties, EmptySeq
  <2>4. /\ DOMAIN Stored' = 1 .. Len(Stored) - 1
        /\ \A i \in 1 .. Len(Stored) - 1 : Stored'[i] = Stored[i + 1]
    <3>1. Stored' \in Seq(0 .. MaxRecords) /\ Len(Stored') = Len(Stored) - 1
        BY <2>1, <2>2, HeadTailProperties
    <3> QED
        BY <2>1, <2>2, <3>1, HeadTailProperties, LenProperties
  <2>5. 1 \in DOMAIN Stored /\ \A i \in DOMAIN Stored' : i + 1 \in DOMAIN Stored /\ 1 < i + 1
      BY <2>3, <2>4
  <2>6. /\ Len(received) \in Nat /\ DOMAIN received = 1 .. Len(received)
        /\ DOMAIN received' = 1 .. Len(received) + 1
        /\ \A i \in 1 .. Len(received) : received'[i] = received[i]
        /\ received'[Len(received) + 1] = Stored[1]
      BY <1>1, <1>3, <1>4, <2>3, LenProperties, AppendProperties
  <2>7. ASSUME NEW i \in DOMAIN received'
        PROVE  \/ i = Len(received) + 1 /\ received'[i] = Stored[1]
               \/ i \in DOMAIN received /\ i < Len(received) + 1 /\ received'[i] = received[i]
      BY <2>6, <2>7
  <2>8. /\ \A i \in DOMAIN Stored' : Stored'[i] = Stored[i + 1]
        /\ \A i \in DOMAIN Stored' : Stored'[i] \in 1 .. enqueued
        /\ \A i \in DOMAIN Stored' : Stored[1] < Stored'[i]
      BY <2>1, <2>4, <2>5 DEF OrderInv
  <2>9. ASSUME NEW i \in DOMAIN Stored', NEW j \in DOMAIN Stored', i < j
        PROVE  Stored'[i] < Stored'[j]
    <3>1. i + 1 \in DOMAIN Stored /\ j + 1 \in DOMAIN Stored /\ i + 1 < j + 1
        BY <2>4, <2>5, <2>9
    <3> QED
        BY <2>1, <2>8, <3>1 DEF OrderInv
  <2>10. \A i \in DOMAIN received', j \in DOMAIN Stored' : received'[i] < Stored'[j]
      BY <2>1, <2>5, <2>7, <2>8 DEF OrderInv
  <2>11. \A i \in DOMAIN Stored', k \in DOMAIN lost : Stored'[i] # lost[k]
      BY <2>1, <2>5, <2>8 DEF OrderInv
  <2>12. /\ \A i \in DOMAIN received' : received'[i] \in 1 .. enqueued
         /\ \A i \in DOMAIN received', k \in DOMAIN lost : received'[i] # lost[k]
      BY <2>1, <2>5, <2>7 DEF OrderInv
  <2>13. ASSUME NEW i \in DOMAIN received', NEW j \in DOMAIN received', i < j
         PROVE  received'[i] < received'[j]
    <3>1. i \in DOMAIN received /\ received'[i] = received[i]
        BY <2>6, <2>7, <2>13
    <3> QED
        BY <2>1, <2>5, <2>7, <2>13, <3>1 DEF OrderInv
  <2> QED
      BY <1>1, <2>1, <2>8, <2>9, <2>10, <2>11, <2>12, <2>13 DEF OrderInv
<1> QED
    BY <1>1, <1>5, <1>6, <1>8, <1>9 DEF QueueInv

LEMMA NextInv == QueueInv /\ [Next]_vars => QueueInv'
BY QuietInv, ConstructInv, EnqueueFullInv, WritePlaceInv, PublishInv, AdvanceInv
DEF Next, ProducerStep, ConsumerStep, Quiet

----------------------------------------------------------------------------
(* Theorems *)

\* The inductive invariant of the queue.
THEOREM QueueInvariant == Spec => []QueueInv
<1> QED
    BY InitInv, NextInv, PTL DEF Spec

\* The producer never writes the place the reader copies from.
THEOREM QueuePlacesApart == Spec => []PlacesApart
<1>1. QueueInv => PlacesApart
    BY DEF QueueInv, ConstructionInv, IndexInv, PlacesApart
<1> QED
    BY <1>1, QueueInvariant, PTL

\* Every record is received at most once, in order, and none that was lost.
THEOREM QueueReceivedInOrder == Spec => []ReceivedInOrder
<1>1. QueueInv => ReceivedInOrder
  <2> SUFFICES ASSUME OrderInv
               PROVE  /\ \A i, j \in DOMAIN received : i < j => received[i] < received[j]
                      /\ ToSet(received) \subseteq 1 .. enqueued
                      /\ ToSet(received) \cap ToSet(lost) = {}
      BY DEF QueueInv, ReceivedInOrder
  <2> QED
      BY DEF OrderInv, ToSet
<1> QED
    BY <1>1, QueueInvariant, PTL

\* Until a dequeue runs into a construction, the segment implements the lossy
\* queue.
THEOREM QueueImplementsFifo == Spec => FifoImplemented
<1>1. Init => Fifo!FifoInit
  <2> SUFFICES ASSUME Init PROVE Fifo!FifoInit
      OBVIOUS
  <2>1. QueueInv
      BY InitInv
  <2>2. write_index \in Places /\ read_index \in Places /\ Stored \in Seq(0 .. MaxRecords)
        /\ Len(Stored) = Distance(read_index, write_index)
      BY <2>1, StoredIs DEF QueueInv, TypeOK
  <2>3. Len(Stored) = 0
      BY <2>2, DistanceIs, SizeAssumption DEF Init, Places
  <2>4. Stored = <<>>
      BY <2>2, <2>3, EmptySeq
  <2> QED
      BY <2>4 DEF Init, Fifo!FifoInit
<1>2. QueueInv /\ QueueInv' /\ [Next]_vars => [Fifo!FifoNext \/ overlap']_(Fifo!fifoVars)
  <2> DEFINE queue == IF half THEN <<>> ELSE Stored
  <2> SUFFICES ASSUME QueueInv, QueueInv', [Next]_vars, ~overlap'
               PROVE  Fifo!FifoNext \/ (queue' = queue /\ received' = received /\ lost' = lost)
      BY DEF Fifo!fifoVars
  <2>1. TypeOK /\ TypeOK' /\ ConstructionInv
      BY DEF QueueInv
  <2>2. CASE Quiet
      BY <2>2, QuietKeeps
  <2>3. CASE ConstructWriteIndex
    <3>1. half' /\ received' = received /\ lost' = lost
        BY <2>3 DEF ConstructWriteIndex, consumerVars
    <3> QED
        BY <3>1 DEF Fifo!FifoNext, Fifo!EmptyOut
  <2>4. CASE ConstructReadIndex
    <3>1. half /\ ~half' /\ write_index' = 0 /\ read_index' = 0
        BY <2>1, <2>4 DEF ConstructReadIndex, ConstructionInv
    <3>2. Stored' = <<>>
        BY <2>1, <3>1, EmptyStored
    <3> QED
        BY <2>4, <3>1, <3>2 DEF ConstructReadIndex, consumerVars
  <2>5. CASE EnqueueFull
    <3>1. /\ ~half /\ ~half' /\ received' = received /\ lost' = Append(lost, enqueued + 1)
          /\ Full /\ Stored' = Stored
        BY <2>1, <2>5 DEF EnqueueFull, ConstructionInv, Stored, segment, consumerVars
    <3>2. Len(Stored) = Size
        BY <2>1, <3>1, FullStored
    <3>3. enqueued + 1 \in 1 .. MaxRecords
        BY <2>1, <2>5, BoundsAssumption DEF EnqueueFull, TypeOK
    <3> QED
        BY <3>1, <3>2, <3>3 DEF Fifo!FifoNext, Fifo!Lose
  <2>6. CASE WritePlace
    <3>1. Stored' = Stored /\ UNCHANGED <<half, received, lost>>
        BY <2>1, <2>6, WriteKeeps DEF WritePlace, consumerVars
    <3> QED
        BY <3>1
  <2>7. CASE Publish
    <3>1. /\ ppc = "publish" /\ ~half /\ ~half' /\ received' = received /\ lost' = lost /\ ~overlap
        BY <2>1, <2>7 DEF Publish, ConstructionInv, consumerVars
    <3>2. NextIndex(write_index) # read_index /\ buffer[write_index] = enqueued + 1
        BY <3>1 DEF QueueInv, IndexInv
    <3>3. Len(Stored) < Size /\ Stored' = Append(Stored, enqueued + 1)
        BY <2>1, <2>7, <3>2, PublishStores
    <3>4. enqueued + 1 \in 1 .. MaxRecords
        BY <2>1, <3>1, BoundsAssumption DEF ConstructionInv, TypeOK
    <3> QED
        BY <3>1, <3>3, <3>4 DEF Fifo!FifoNext, Fifo!Put
  <2>8. CASE Advance
    <3>1. /\ cpc = "advance" /\ half' = half /\ lost' = lost /\ ~overlap
          /\ received' = Append(received, taking.record)
        BY <2>8 DEF Advance, producerVars
    <3>2. ~half
        BY <2>1, <3>1 DEF ConstructionInv, Dequeuing
    <3>3. /\ taking.read = read_index /\ write_index # read_index
          /\ taking.record = buffer[read_index]
        BY <3>1, <3>2 DEF QueueInv, IndexInv
    <3>4. Stored # <<>> /\ Head(Stored) = taking.record /\ Stored' = Tail(Stored)
        BY <2>1, <2>8, <3>3, AdvanceTakes
    <3> QED
        BY <3>1, <3>2, <3>4 DEF Fifo!FifoNext, Fifo!Take
  <2> QED
      BY <2>2, <2>3, <2>4, <2>5, <2>6, <2>7, <2>8 DEF Next, ProducerStep, ConsumerStep, Quiet
<1> QED
    BY <1>1, <1>2, QueueInvariant, PTL DEF Spec, FifoImplemented
=============================================================================
