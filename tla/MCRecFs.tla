------------------------------- MODULE MCRecFs -------------------------------
(* RecFs on a partition of four real sectors.                               *)
EXTENDS RecFs

MCCapacity == 4 * 4096
=============================================================================
