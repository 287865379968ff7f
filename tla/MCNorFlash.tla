----------------------------- MODULE MCNorFlash -----------------------------
(* NorFlash on a chip of two or three sectors of two pages.                 *)
EXTENDS NorFlash, TLC
CONSTANTS fat, rec, v, w
\* One partition of two sectors, behind the cache.
MCFatOnly == fat :> {0, 1}
\* A raw partition at the start of the chip, where open fills the cache from.
MCSideBySide == fat :> {1} @@ rec :> {0}
MCValues == Permutations({v, w})
=============================================================================
