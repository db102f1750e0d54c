---------------------------- MODULE MCRecvBuffer ----------------------------
(* A response and six messages, for the run of RecvBuffer. *)
EXTENDS RecvBuffer

ItemSizes == <<3, 3, 2, 5, 4, 3, 2>>

SixMessages == [i \in 0 .. Len(ItemSizes) |-> FoldLeft(LAMBDA x, y : x + y, 0, SubSeq(ItemSizes, 1, i))]
=============================================================================
