---------------------------- MODULE MCSmsPipeline ----------------------------
(* Small instances of SmsPipeline: inbound messages with the same sender   *)
(* and text that differ only in the SMSC timestamp, as the one-time codes  *)
(* of a service do.  A message is its own timestamp, so that messages may  *)
(* be permuted.                                                            *)
EXTENDS SmsPipeline, TLC

CONSTANTS a, b

OwnPeer  == [m \in Msgs |-> a]
OwnBody  == [m \in Msgs |-> b]
OwnStamp == [m \in Msgs |-> m]
Undated  == [m \in Msgs |-> None]   \* SMSC without a timestamp

Symmetry == Permutations(Msgs \ Outbound)

\* Any two of: a crash, a failing call, a failing transaction, a DELETE.
AnyTwo == crashes' + busFaults' + dbFaults' + deletes' <= 2
=============================================================================
