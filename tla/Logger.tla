------------------------------- MODULE Logger -------------------------------
(***************************************************************************)
(* The logger (log.h, logs.cpp): threads that log claim a place in a ring  *)
(* of records and fill it; backgroundThread reads the ring and writes the  *)
(* file.  Nothing is locked: a place belongs to a writer from the moment   *)
(* it sees room until it sets the flag of the place, and to the reader     *)
(* until it clears the flag.                                               *)
(*                                                                         *)
(* One action per access to what the threads share.  Every access is       *)
(* relaxed; the model takes the stores of one thread in program order, as  *)
(* the x86 build makes them.  A message is the number of its claim.        *)
(* Levels, times and texts are left out.                                   *)
(***************************************************************************)
EXTENDS Integers, Sequences

CONSTANTS
    Writers,   \* the threads that log; the program has one, the class allows more
    Size,      \* LOGGER_QUEUE_SIZE
    MaxMsgs    \* bound: messages logged

ASSUME SizeAssumption == Size \in Nat \ {0}

ASSUME MaxMsgsAssumption == MaxMsgs \in Nat

\* The level -1 of a record that was never filled, or was destroyed; a load
\* that has not been made.
Empty == -1

VARIABLES
    writeIndex,  \* _writeIndex: claims so far
    readIndex,   \* _readIndex: places the reader has gone on to so far
    records,     \* _records
    flag,        \* _flag
    exit,        \* _exit
    pc,          \* writer -> "idle", "claimed", "write", "flag"
    claim,       \* writer -> currentWrite
    seen,        \* writer -> what the room test has loaded of the two indices
    rpc,         \* reader: "top", "wait", "take", "release", "drain", "look", "done", "crashed"
    record,      \* the reader's record
    drains,      \* the reader is behind its first loop
    file,        \* the log file
    joining      \* ~Logger is waiting for the reader

writerVars == <<pc, claim, seen>>
readerVars == <<rpc, record, drains, file>>
vars == <<writeIndex, readIndex, records, flag, exit, joining, writerVars, readerVars>>

Slot(n) == n % Size

Init ==
    /\ writeIndex = 0
    /\ readIndex = 0
    /\ records = [s \in 0 .. Size - 1 |-> Empty]
    /\ flag = [s \in 0 .. Size - 1 |-> FALSE]
    /\ exit = FALSE
    /\ pc = [w \in Writers |-> "idle"]
    /\ claim = [w \in Writers |-> Empty]
    /\ seen = [w \in Writers |-> [read |-> Empty, write |-> Empty]]
    /\ rpc = "top"
    /\ record = Empty
    /\ drains = FALSE
    /\ file = <<>>
    /\ joining = FALSE

----------------------------------------------------------------------------
(* log: the caller's part *)

\* Slip: the index is loaded and not increased.
ClaimLoadsOnly(w) ==
    /\ pc[w] = "idle"
    /\ ~joining
    /\ writeIndex < MaxMsgs
    /\ claim' = [claim EXCEPT ![w] = writeIndex]
    /\ pc' = [pc EXCEPT ![w] = "claimed"]
    /\ UNCHANGED <<writeIndex, readIndex, records, flag, exit, joining, seen, readerVars>>

Claim(w) ==
    /\ pc[w] = "idle"
    /\ ~joining
    /\ writeIndex < MaxMsgs
    /\ claim' = [claim EXCEPT ![w] = writeIndex]
    /\ writeIndex' = writeIndex + 1
    /\ pc' = [pc EXCEPT ![w] = "claimed"]
    /\ UNCHANGED <<readIndex, records, flag, exit, joining, seen, readerVars>>

\* The test for room loads both indices, in an order that C++ leaves open.
LoadReadIndex(w) ==
    /\ pc[w] = "claimed"
    /\ seen[w].read = Empty
    /\ seen' = [seen EXCEPT ![w].read = readIndex]
    /\ UNCHANGED <<writeIndex, readIndex, records, flag, exit, joining, pc, claim, readerVars>>

LoadWriteIndex(w) ==
    /\ pc[w] = "claimed"
    /\ seen[w].write = Empty
    /\ seen' = [seen EXCEPT ![w].write = writeIndex]
    /\ UNCHANGED <<writeIndex, readIndex, records, flag, exit, joining, pc, claim, readerVars>>

Loaded(w) == seen[w].read # Empty /\ seen[w].write # Empty

\* Slip: one place too many.
RoomOffByOne(w) == seen[w].read + Size >= seen[w].write

\* The whole ring counts from the place the reader is at.
Room(w) == seen[w].read + Size > seen[w].write

TestRoom(w) ==
    /\ pc[w] = "claimed"
    /\ Loaded(w)
    /\ seen' = [seen EXCEPT ![w] = [read |-> Empty, write |-> Empty]]
    /\ pc' = IF Room(w) THEN [pc EXCEPT ![w] = "write"] ELSE pc
    /\ UNCHANGED <<writeIndex, readIndex, records, flag, exit, joining, claim, readerVars>>

\* The LogMsg is constructed in its place.
WriteRecord(w) ==
    /\ pc[w] = "write"
    /\ records' = [records EXCEPT ![Slot(claim[w])] = claim[w]]
    /\ pc' = [pc EXCEPT ![w] = "flag"]
    /\ UNCHANGED <<writeIndex, readIndex, flag, exit, joining, claim, seen, readerVars>>

\* Slip: the flag of the place behind is set.
SetNextFlag(w) ==
    /\ pc[w] = "flag"
    /\ flag' = [flag EXCEPT ![Slot(claim[w] + 1)] = TRUE]
    /\ pc' = [pc EXCEPT ![w] = "idle"]
    /\ UNCHANGED <<writeIndex, readIndex, records, exit, joining, claim, seen, readerVars>>

SetFlag(w) ==
    /\ pc[w] = "flag"
    /\ flag' = [flag EXCEPT ![Slot(claim[w])] = TRUE]
    /\ pc' = [pc EXCEPT ![w] = "idle"]
    /\ UNCHANGED <<writeIndex, readIndex, records, exit, joining, claim, seen, readerVars>>

LogStep(w) ==
    LoadReadIndex(w) \/ LoadWriteIndex(w) \/ TestRoom(w) \/ WriteRecord(w) \/ SetFlag(w)

----------------------------------------------------------------------------
(* backgroundThread *)

\* The place the reader is at.
ReadSlot == Slot(readIndex - 1)

\* The first loop goes on to the next place until it finds _exit set.
NextPlace ==
    /\ rpc = "top"
    /\ ~exit
    /\ readIndex' = readIndex + 1
    /\ rpc' = "wait"
    /\ UNCHANGED <<writeIndex, records, flag, exit, joining, writerVars, record, drains, file>>

LeaveLoop ==
    /\ rpc = "top"
    /\ exit
    /\ rpc' = "drain"
    /\ drains' = TRUE
    /\ UNCHANGED <<writeIndex, readIndex, records, flag, exit, joining, writerVars, record, file>>

\* Slip: the flag is not waited for.
StopWaitingAtOnce ==
    /\ rpc = "wait"
    /\ rpc' = "take"
    /\ UNCHANGED <<writeIndex, readIndex, records, flag, exit, joining, writerVars, record, drains, file>>

\* An _exit found here ends the wait as well, flag or not.
StopWaiting ==
    /\ rpc = "wait"
    /\ exit \/ flag[ReadSlot]
    /\ rpc' = "take"
    /\ UNCHANGED <<writeIndex, readIndex, records, flag, exit, joining, writerVars, record, drains, file>>

\* The record is moved out of its place and destroyed there.
TakeRecord ==
    /\ rpc = "take"
    /\ record' = records[ReadSlot]
    /\ records' = [records EXCEPT ![ReadSlot] = Empty]
    /\ rpc' = "release"
    /\ UNCHANGED <<writeIndex, readIndex, flag, exit, joining, writerVars, drains, file>>

\* Slip: the flag stays set.
ReleaseKeepsFlag ==
    /\ rpc = "release"
    /\ IF record = Empty
       THEN rpc' = "crashed" /\ UNCHANGED file
       ELSE /\ rpc' = IF drains THEN "drain" ELSE "top"
            /\ file' = Append(file, record)
    /\ UNCHANGED <<writeIndex, readIndex, records, flag, exit, joining, writerVars, record, drains>>

\* The flag is cleared and the record written to the file; the level of an
\* empty one is no index of the table of levels.
Release ==
    /\ rpc = "release"
    /\ flag' = [flag EXCEPT ![ReadSlot] = FALSE]
    /\ IF record = Empty
       THEN rpc' = "crashed" /\ UNCHANGED file
       ELSE /\ rpc' = IF drains THEN "drain" ELSE "top"
            /\ file' = Append(file, record)
    /\ UNCHANGED <<writeIndex, readIndex, records, exit, joining, writerVars, record, drains>>

\* Behind the first loop: on to the next place, as long as its flag is set.
DrainPlace ==
    /\ rpc = "drain"
    /\ readIndex' = readIndex + 1
    /\ rpc' = "look"
    /\ UNCHANGED <<writeIndex, records, flag, exit, joining, writerVars, record, drains, file>>

DrainLook ==
    /\ rpc = "look"
    /\ rpc' = IF flag[ReadSlot] THEN "take" ELSE "done"
    /\ UNCHANGED <<writeIndex, readIndex, records, flag, exit, joining, writerVars, record, drains, file>>

ReaderStep ==
    NextPlace \/ LeaveLoop \/ StopWaiting \/ TakeRecord \/ Release \/ DrainPlace \/ DrainLook

----------------------------------------------------------------------------
(* exit and the end of main *)

\* Nothing in the program calls it.
Exit ==
    /\ ~exit
    /\ exit' = TRUE
    /\ UNCHANGED <<writeIndex, readIndex, records, flag, joining, writerVars, readerVars>>

\* main returns, as it does when a system call of its start fails, and ~Logger
\* joins the reader.
EndOfMain ==
    /\ ~joining
    /\ \A w \in Writers : pc[w] = "idle"
    /\ joining' = TRUE
    /\ UNCHANGED <<writeIndex, readIndex, records, flag, exit, writerVars, readerVars>>

Next ==
    \/ \E w \in Writers : Claim(w) \/ LogStep(w)
    \/ ReaderStep
    \/ Exit
    \/ EndOfMain

Spec == Init /\ [][Next]_vars

\* The threads run; whether and when a thread logs is its own affair.
Fairness ==
    /\ \A w \in Writers : WF_vars(LogStep(w))
    /\ WF_vars(ReaderStep)

FairSpec == Spec /\ Fairness

\* The program itself, in which nothing calls exit.
ProgramNext == (Next /\ UNCHANGED exit)

ProgramSpec == Init /\ [][ProgramNext]_vars /\ Fairness

----------------------------------------------------------------------------
(* Safety *)

\* The variables have their types, and the places claimed and not yet filled are
\* different ones: nothing but fetch_add keeps two writers apart.
TypeOK ==
    /\ writeIndex \in 0 .. MaxMsgs
    /\ readIndex \in Nat
    /\ records \in [0 .. Size - 1 -> Nat \cup {Empty}]
    /\ flag \in [0 .. Size - 1 -> BOOLEAN]
    /\ exit \in BOOLEAN
    /\ pc \in [Writers -> {"idle", "claimed", "write", "flag"}]
    /\ claim \in [Writers -> Nat \cup {Empty}]
    /\ seen \in [Writers -> [read : Nat \cup {Empty}, write : Nat \cup {Empty}]]
    /\ rpc \in {"top", "wait", "take", "release", "drain", "look", "done", "crashed"}
    /\ record \in Nat \cup {Empty}
    /\ drains \in BOOLEAN
    /\ file \in Seq(Nat)
    /\ joining \in BOOLEAN
    /\ \A w \in Writers : pc[w] # "idle" =>
           /\ claim[w] \in 0 .. writeIndex - 1
           /\ \A v \in Writers \ {w} : pc[v] # "idle" => claim[v] # claim[w]

\* A writer that fills its place finds it empty and alone: the message a ring
\* earlier has been taken, and neither the reader nor another writer is there
\* (log.h:131-136).  The test for room looks at two indices at different times,
\* and at neither of them for the writer's own claim.
SlotExclusive ==
    ~exit => \A w \in Writers : pc[w] \in {"write", "flag"} =>
        /\ ~flag[Slot(claim[w])]
        /\ pc[w] = "write" => records[Slot(claim[w])] = Empty
        /\ rpc \in {"take", "release"} => ReadSlot # Slot(claim[w])
        /\ \A v \in Writers \ {w} :
               pc[v] \in {"write", "flag"} => Slot(claim[v]) # Slot(claim[w])

\* The file holds the messages in the order of their claims, none missing and
\* none twice, to the end, exit and the reading of what is left included.
WrittenInOrder == \A i \in DOMAIN file : file[i] = i - 1

\* The reader never takes a place that nobody filled, unless exit has made it
\* stop waiting.
FilledBeforeTaken == rpc = "crashed" => exit

----------------------------------------------------------------------------
(* The inductive invariant of the safety properties *)

\* Messages moved out of the ring so far.
Taken == Len(file) + (IF rpc = "release" THEN 1 ELSE 0)

\* The reader holds a place nobody filled; it will not write anything any more.
Doomed == rpc = "crashed" \/ (rpc = "release" /\ record = Empty)

Unfilled(w) == pc[w] \in {"claimed", "write"}

Filling(w) == pc[w] \in {"write", "flag"}

\* A message in the ring is one of the Size messages behind those taken, in the
\* place of its claim, and nobody is going to write it again.
InWindow(s) ==
    /\ Taken <= records[s]
    /\ records[s] < Taken + Size
    /\ records[s] < writeIndex
    /\ Slot(records[s]) = s
    /\ \A w \in Writers : Unfilled(w) => claim[w] # records[s]

RingInv ==
    /\ readIndex = IF rpc \in {"top", "drain", "release"} THEN Taken ELSE Taken + 1
    /\ Taken <= writeIndex
    /\ rpc = "release" => record = Len(file)
    /\ \A s \in 0 .. Size - 1 : records[s] # Empty => InWindow(s)
    /\ \A w \in Writers : Unfilled(w) => Taken <= claim[w]

\* What a writer knows of the indices from its test for room.
RoomInv ==
    \A w \in Writers :
        /\ pc[w] = "claimed" =>
               /\ seen[w].read <= readIndex
               /\ seen[w].write # Empty => claim[w] < seen[w].write
        /\ pc[w] # "claimed" => seen[w] = [read |-> Empty, write |-> Empty]
        /\ Filling(w) => claim[w] + 1 < readIndex + Size

\* Before exit a flag stands for a filled place.
FlagInv ==
    /\ ~Doomed
    /\ ~drains
    /\ rpc \in {"top", "wait", "take", "release"}
    /\ rpc \in {"take", "release"} => flag[ReadSlot]
    /\ \A s \in 0 .. Size - 1 :
           flag[s] => records[s] # Empty \/ (rpc = "release" /\ s = ReadSlot)
    /\ \A w \in Writers :
           /\ pc[w] = "flag" => records[Slot(claim[w])] = claim[w]
           /\ Filling(w) => ~flag[Slot(claim[w])]

\* The inductive invariant: the ring holds messages of one window, each in the
\* place of its claim; a writer's test for room is never too generous, however old
\* the indices it looked at (log.h:131-136, logs.cpp:95-110).
LogInv ==
    /\ TypeOK
    /\ WrittenInOrder
    /\ RoomInv
    /\ ~Doomed => RingInv
    /\ ~exit => FlagInv

----------------------------------------------------------------------------
(* Progress *)

\* Another writer's claims have gone a whole ring past w's, which has not yet
\* found room.  The reader waits for w's message, so w will not find room again.
Overtaken(w) == pc[w] = "claimed" /\ writeIndex > claim[w] + Size

\* A call of log returns, unless a writer was held up between its claim and its
\* test for room while the others claimed a whole ring: then all of them wait for
\* ever (log.h:131 compares with the claims of all).  One writer is never overtaken.
LogReturns ==
    \A w \in Writers :
        pc[w] # "idle" ~> (pc[w] = "idle" \/ exit \/ \E v \in Writers : Overtaken(v))

\* Every message claimed is written to the file, with the same exceptions.
EveryMessageWritten ==
    \A n \in 0 .. MaxMsgs - 1 :
        writeIndex > n ~> (Len(file) > n \/ exit \/ \E v \in Writers : Overtaken(v))

\* What the destructor is for, "//_exit=true;" and _bgthread.join()
\* (logs.cpp:36-37): the reader ends and the process with it.  Violated: nothing
\* tells the reader.
JoinReturns == joining ~> rpc = "done"
=============================================================================
