----------------------------- MODULE LossyFifo -----------------------------
(***************************************************************************)
(* What the queue of records promises: the receiver gets the records that  *)
(* were put in, each once and in order; a record that finds the queue full *)
(* is lost, and a producer that starts again empties the queue.            *)
(***************************************************************************)
EXTENDS Naturals, Sequences

CONSTANTS
    Records,    \* what is put in
    Capacity    \* records the queue holds

VARIABLES
    queue,      \* records put in and not taken
    received,   \* records taken
    lost        \* records that found the queue full

fifoVars == <<queue, received, lost>>

FifoInit ==
    /\ queue = <<>>
    /\ received = <<>>
    /\ lost = <<>>

Put(r) ==
    /\ Len(queue) < Capacity
    /\ queue' = Append(queue, r)
    /\ UNCHANGED <<received, lost>>

Lose(r) ==
    /\ Len(queue) = Capacity
    /\ lost' = Append(lost, r)
    /\ UNCHANGED <<queue, received>>

Take ==
    /\ queue # <<>>
    /\ received' = Append(received, Head(queue))
    /\ queue' = Tail(queue)
    /\ UNCHANGED lost

EmptyOut ==
    /\ queue' = <<>>
    /\ UNCHANGED <<received, lost>>

FifoNext ==
    \/ \E r \in Records : Put(r) \/ Lose(r)
    \/ Take
    \/ EmptyOut

FifoSpec == FifoInit /\ [][FifoNext]_fifoVars
=============================================================================
