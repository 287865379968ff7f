----------------------------- MODULE FlashStore -----------------------------
(***************************************************************************)
(* What the cached view of the NOR flash promises (norflash_dev_ops).       *)
(*                                                                         *)
(* Sectors hold what was last written to them.  A failure of the chip or a  *)
(* power loss touches at most one sector: it may change it at once, or leave *)
(* it weak, so that its content may be lost later, silently, but only once   *)
(* and before any other sector can become weak.                             *)
(***************************************************************************)
EXTENDS Naturals

CONSTANTS
  Sectors,    \* the sectors clients read and write through the driver
  Page,       \* page numbers of a sector
  Data,       \* what a page can hold
  Value       \* what clients write

VARIABLES
  data,       \* what a read returns: sector -> page -> data
  weak,       \* the sector whose last write-back failed, as a set
  failures    \* failures so far

vars == <<data, weak, failures>>

Contents == [Page -> Data]

Init ==
  /\ data \in [Sectors -> Contents]
  /\ weak = {} /\ failures = 0

\* Pages P of one sector take value v; the others keep what they hold.
Write(s, P, v) ==
  /\ data' = [data EXCEPT ![s] = [q \in Page |-> IF q \in P THEN v ELSE @[q]]]
  /\ UNCHANGED <<weak, failures>>

\* A failure hits sector s, or nothing.
Fail ==
  /\ failures' = failures + 1
  /\ \/ UNCHANGED <<data, weak>>
     \/ \E s \in Sectors, c \in Contents :
          /\ weak \subseteq {s} /\ weak' \in {{}, {s}}
          /\ data' = [data EXCEPT ![s] = c]

\* The weak sector is lost, or turns out well.
Settle ==
  /\ weak' = {}
  /\ \E s \in weak, c \in Contents : data' = [data EXCEPT ![s] = c]
  /\ UNCHANGED failures

Next ==
  \/ \E s \in Sectors, P \in SUBSET Page, v \in Value : Write(s, P, v)
  \/ Fail
  \/ Settle

Spec == Init /\ [][Next]_vars
=============================================================================
