------------------------------ MODULE MCWsPush ------------------------------
(* Two sockets, one of which may still be closing as the other opens, and a *)
(* modem that is known, in service or not.                                  *)
EXTENDS WsPush
MCTables == {[m \in Modems |-> [at |-> "online", sim |-> None]]}
=============================================================================
