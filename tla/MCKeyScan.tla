------------------------------ MODULE MCKeyScan ------------------------------
(* KeyScan with two keys and short times; one key reports single clicks only. *)
EXTENDS KeyScan

CONSTANTS k1, k2
MCKeys == {k1, k2}
MCClickOnly == {k2}
=============================================================================
