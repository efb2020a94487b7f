--------------------------- MODULE MCModemRegistry ---------------------------
(* Small instances of ModemRegistry: one module that changes its           *)
(* identifier, one that does not.                                          *)
EXTENDS ModemRegistry, TLC

CONSTANTS a, b, a1, a2, b1, s1, s2, s3

Identifiers == (a :> {a1, a2}) @@ (b :> {b1})
OneSim == (a :> s1) @@ (b :> None)
=============================================================================
