---------------------------- MODULE InOrderFeed ----------------------------
(***************************************************************************)
(* What the receiving side of the program promises to the trade detector:  *)
(* the exchange publishes messages 1, 2, 3, ... of one stream and the      *)
(* detector is handed exactly these, in order, none missing and none       *)
(* twice.  A restart of the process begins again with message 1 (nothing   *)
(* is persisted, main.cpp:214).  How a message reaches the process, by     *)
(* multicast or from the recovery server, is not visible here.             *)
(***************************************************************************)
EXTENDS Naturals, Sequences

VARIABLES
    published,   \* number of messages the exchange has published so far
    handed       \* sequence numbers handed to the detector since the start

feedVars == <<published, handed>>

FeedTypeOK ==
    /\ published \in Nat
    /\ handed \in Seq(Nat)

FeedInit ==
    /\ published = 0
    /\ handed = <<>>

PublishNext ==
    /\ published' = published + 1
    /\ UNCHANGED handed

HandNext ==
    /\ Len(handed) < published
    /\ handed' = Append(handed, Len(handed) + 1)
    /\ UNCHANGED published

StartOver ==
    /\ handed' = <<>>
    /\ UNCHANGED published

FeedNext == PublishNext \/ HandNext \/ StartOver

FeedSpec == FeedInit /\ [][FeedNext]_feedVars
=============================================================================
