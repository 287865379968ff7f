--------------------------- MODULE MCFileTransfer ---------------------------
(* FileTransfer for TLC: two contents under one name, the second shorter.   *)
EXTENDS FileTransfer

CONSTANTS a, b

MCContents == {a, b}
MCSize == [c \in MCContents |-> IF c = a THEN 4 ELSE 2]
MCRemain == [c \in MCContents |-> IF c = a THEN 1 ELSE 0]
=============================================================================
