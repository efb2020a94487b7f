----------------------------- MODULE MCSettings -----------------------------
(* Two requests of each kind; a bot and no password in config.yaml. *)
EXTENDS Settings, TLC

CONSTANTS t1, c1

MCFileConfig == [token |-> t1, chat |-> c1]
Symmetry == Permutations(Requests) \cup Permutations(Changers)
=============================================================================
