----------------------------- MODULE RecvBuffer -----------------------------
(***************************************************************************)
(* How the bytes of a recovery connection become messages: the recv loop   *)
(* of RecoveryPackets (recoverymgr.h:417-446) and GetPacketFromMessage     *)
(* (147-363), which share one buffer.  TCP cuts the stream anywhere; a     *)
(* message cut short is moved to the front of the buffer and completed by  *)
(* the next recv.  RecoveryMgr counts whole messages; this module shows    *)
(* that it may: whatever the cuts, whole messages come out, each of them   *)
(* once and in order.                                                      *)
(*                                                                         *)
(* A byte of the stream is <<i, k>>: byte k of item i.  Item 0 is the      *)
(* RECOVERY_RESP, one byte longer than a header; the others are messages.  *)
(***************************************************************************)
EXTENDS Integers, SequencesExt

CONSTANTS
    HeaderSize,     \* sizeof(MSG_HEADER); its last byte is the message type
    NumMsgs,        \* messages the server sends
    Start,          \* item -> bytes of the stream in front of it; the last entry is the end
    Unknown,        \* messages of a type the parser has no case for
    BufSize,        \* sizeof(lcRecoveryData)
    TornResponse    \* may a recv() end one byte before RECOVERY_RESP does?

RespSize == HeaderSize + 1

SizeOf(i) == Start[i + 1] - Start[i]

\* Every message holds a header and fits into the buffer.  The conjunct on two
\* items follows from those on one.
ASSUME SizesAssumption ==
    /\ HeaderSize \in Nat \ {0}
    /\ BufSize \in Nat
    /\ NumMsgs \in Nat
    /\ Start \in [0 .. NumMsgs + 1 -> Nat]
    /\ Start[0] = 0
    /\ SizeOf(0) = RespSize
    /\ RespSize <= BufSize
    /\ \A i \in 1 .. NumMsgs : SizeOf(i) \in HeaderSize .. BufSize
    /\ \A i, j \in 0 .. NumMsgs + 1 : i < j => Start[i] < Start[j]
    /\ Unknown \subseteq 1 .. NumMsgs
    /\ TornResponse \in BOOLEAN

VARIABLES
    phase,      \* "recv": waiting in recv; "parse": in GetPacketFromMessage
    received,   \* bytes taken from the connection so far
    buf,        \* lcRecoveryData
    total,      \* lnTotalSize
    pending,    \* lnPendingData
    avail,      \* lnAvailable
    handed      \* the bytes handed to WriteDataInFile1, message by message

vars == <<phase, received, buf, total, pending, avail, handed>>

ItemBytes(i) == [k \in 1 .. SizeOf(i) |-> <<i, k>>]

\* Bytes of the whole answer.
WireSize == Start[NumMsgs + 1]

\* The answer of the server: the response, then the messages.
ItemOf(p) == CHOOSE i \in 0 .. NumMsgs : Start[i] < p /\ p <= Start[i + 1]

Wire == [p \in 1 .. WireSize |-> <<ItemOf(p), p - Start[ItemOf(p)]>>]

NoByte == <<0, 0>>

Init ==
    /\ phase = "recv"
    /\ received = 0
    /\ buf = [j \in 1..BufSize |-> NoByte]
    /\ total = 0
    /\ pending = 0
    /\ avail = 0
    /\ handed = <<>>

\* Slip: recv writes to the front of the buffer although data is pending there.
RecvOverwrites(k) ==
    /\ phase = "recv"
    /\ k <= BufSize - pending
    /\ received + k <= WireSize
    /\ TornResponse \/ received + k # RespSize - 1
    /\ buf' = [j \in 1..BufSize |-> IF j <= k THEN Wire[received + j] ELSE buf[j]]
    /\ received' = received + k
    /\ total' = k + pending
    /\ pending' = 0
    /\ avail' = 0
    /\ phase' = "parse"
    /\ UNCHANGED handed

\* recv appends any k > 0 bytes that are left to what is pending.
Recv(k) ==
    /\ phase = "recv"
    /\ k <= BufSize - pending
    /\ received + k <= WireSize
    /\ TornResponse \/ received + k # RespSize - 1
    /\ buf' = [j \in 1..BufSize |-> IF j \in (pending + 1)..(pending + k)
                                    THEN Wire[received + j - pending] ELSE buf[j]]
    /\ received' = received + k
    /\ total' = k + pending
    /\ pending' = 0
    /\ avail' = 0
    /\ phase' = "parse"
    /\ UNCHANGED handed

\* Slip: the whole buffer is taken for unparsed.
KeepRestWhole ==
    /\ pending' = total
    /\ buf' = [j \in 1..BufSize |-> IF j <= total - avail THEN buf[avail + j] ELSE buf[j]]
    /\ phase' = "recv"
    /\ UNCHANGED <<received, total, avail, handed>>

\* The unparsed rest moves to the front (memcpy of overlapping ranges: on the
\* glibc of the build's platform memcpy is memmove).
KeepRest ==
    /\ pending' = total - avail
    /\ buf' = [j \in 1..BufSize |-> IF j <= total - avail THEN buf[avail + j] ELSE buf[j]]
    /\ phase' = "recv"
    /\ UNCHANGED <<received, total, avail, handed>>

HeaderCut ==
    /\ phase = "parse"
    /\ avail < total
    /\ total - avail < HeaderSize
    /\ KeepRest

HeaderThere == phase = "parse" /\ total - avail >= HeaderSize

\* cMsgType and the length of the struct it stands for, read from the type byte.
ItemAt == buf[avail + HeaderSize][1]

ParseResponse ==
    /\ HeaderThere
    /\ ItemAt = 0
    /\ avail + RespSize <= total
    /\ avail' = avail + RespSize
    /\ UNCHANGED <<phase, received, buf, total, pending, handed>>

\* The response's case has no else branch: the loop goes round without moving.
ResponseCut ==
    /\ HeaderThere
    /\ ItemAt = 0
    /\ avail + RespSize > total
    /\ UNCHANGED vars

\* Slip: the test for a complete message looks at the header only.
ParseMessageUnchecked ==
    /\ HeaderThere
    /\ ItemAt \notin {0} \cup Unknown
    /\ handed' = Append(handed, [k \in 1..SizeOf(ItemAt) |-> buf[avail + k]])
    /\ avail' = avail + SizeOf(ItemAt)
    /\ UNCHANGED <<phase, received, buf, total, pending>>

ParseMessage ==
    /\ HeaderThere
    /\ ItemAt \notin {0} \cup Unknown
    /\ avail + SizeOf(ItemAt) <= total
    /\ handed' = Append(handed, [k \in 1..SizeOf(ItemAt) |-> buf[avail + k]])
    /\ avail' = avail + SizeOf(ItemAt)
    /\ UNCHANGED <<phase, received, buf, total, pending>>

\* Slip: a message cut short is treated like the response, without an else.
MessageCutSpins ==
    /\ HeaderThere
    /\ ItemAt \notin {0} \cup Unknown
    /\ avail + SizeOf(ItemAt) > total
    /\ UNCHANGED vars

MessageCut ==
    /\ HeaderThere
    /\ ItemAt \notin {0} \cup Unknown
    /\ avail + SizeOf(ItemAt) > total
    /\ KeepRest

\* The default case logs "Invalid message type" and does not move either.
UnknownType ==
    /\ HeaderThere
    /\ ItemAt \in Unknown
    /\ UNCHANGED vars

AllParsed ==
    /\ phase = "parse"
    /\ avail = total
    /\ phase' = "recv"
    /\ UNCHANGED <<received, buf, total, pending, avail, handed>>

Parse ==
    \/ HeaderCut
    \/ ParseResponse
    \/ ResponseCut
    \/ ParseMessage
    \/ MessageCut
    \/ UnknownType
    \/ AllParsed

Next ==
    \/ \E k \in 1..BufSize : Recv(k)
    \/ Parse

Spec == Init /\ [][Next]_vars

\* The thread runs, and bytes that were sent arrive.
FairSpec == Spec /\ WF_vars(Parse) /\ WF_vars(\E k \in 1..BufSize : Recv(k))

----------------------------------------------------------------------------

TypeOK ==
    /\ phase \in {"recv", "parse"}
    /\ received \in 0..WireSize
    /\ buf \in [1..BufSize -> {NoByte} \cup {Wire[p] : p \in 1 .. WireSize}]
    /\ total \in 0..BufSize
    /\ pending \in 0..BufSize
    /\ avail \in 0..total

\* Where the parser stands: the bytes read and not yet parsed begin with item m,
\* and exactly the messages in front of it have been handed over.
Unparsed == IF phase = "recv" THEN pending ELSE total - avail

StandsAt(m) ==
    /\ received - Unparsed = Start[m]
    /\ handed = [i \in 1 .. (IF m = 0 THEN 0 ELSE m - 1) |-> ItemBytes(i)]

ParserStands == \E m \in 0 .. NumMsgs + 1 : StandsAt(m)

\* Whatever the cuts, what is handed over are the server's messages, complete,
\* unmixed and in order (GetPacketFromMessage).
MessagesIntact ==
    /\ Len(handed) <= NumMsgs
    /\ \A i \in DOMAIN handed : handed[i] = ItemBytes(i)

\* The bytes kept between two recv calls are the ones that came last, so no
\* byte of the connection is lost or parsed twice (KeepRest, Recv).
BufferFollowsWire ==
    LET kept == IF phase = "recv" THEN pending ELSE total
    IN  \A j \in 1..kept : buf[j] = Wire[received - kept + j]

\* recv always has room: with a length of 0 it would return 0, which
\* RecoveryPackets takes for the end of the connection.
RoomToRead == phase = "recv" => pending < BufSize

\* The inductive invariant: every cut leaves the parser at the first byte of an
\* item, with what is in the buffer the last bytes that came and with room for
\* more of them (RecoveryPackets and GetPacketFromMessage together).
BufferInv ==
    /\ TypeOK
    /\ phase = "parse" => pending = 0 /\ total <= received
    /\ BufferFollowsWire
    /\ RoomToRead
    /\ ParserStands

\* The two ways in which the parser goes round without moving are a response cut
\* short and a message of unknown type.  No other cut stops it: every message the
\* server sent before one of them is handed over in the end.
AllHanded ==
    <>(\/ ENABLED ResponseCut
       \/ Len(handed) = Cardinality({i \in 1 .. NumMsgs : Unknown \cap 1 .. i = {}}))
=============================================================================
