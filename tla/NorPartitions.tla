---------------------------- MODULE NorPartitions ----------------------------
(***************************************************************************)
(* The partition table of the NOR flash driver (norflash.c): how the boards' *)
(* device tables register partitions, and what is checked of them.          *)
(*                                                                         *)
(* An ASSERT that fails stops or resets the system: halted.                 *)
(***************************************************************************)
EXTENDS Naturals, Sequences

CONSTANTS
  Name,       \* device names
  Addr,       \* start addresses
  Size,       \* sizes of partitions
  Slots,      \* MAX_NORFLASH_PART_NUM
  Capacity    \* flash_capacity

ASSUME NorPartitionsAssumption ==
  /\ Addr \subseteq Nat /\ Size \subseteq Nat \ {0}
  /\ Slots \in Nat /\ Capacity \in Nat

VARIABLES
  parts,      \* part_list, in the order of registration
  maxEnd,     \* max_end_addr
  open,       \* names of the partitions with references
  halted      \* an ASSERT has failed

vars == <<parts, maxEnd, open, halted>>

Part == [name : Name, start : Addr, size : Size]

End(p) == p.start + p.size
InsideOpen(a, p) == a > p.start /\ a < End(p)     \* mutant
Inside(a, p) == a >= p.start /\ a < End(p)

\* norflash_find_part
Known(n) == \E i \in DOMAIN parts : parts[i].name = n

\* norflash_verify_part: the new start lies in no other partition.
Verified(p) == \A i \in DOMAIN parts : ~Inside(p.start, parts[i])

\* max_end_addr in norflash_new_part.
ExtendedLast(p) == End(p)     \* mutant
Extended(p) == IF End(p) > maxEnd THEN End(p) ELSE maxEnd

\* _norflash_init, once for each line of the device table.
Register(p) ==
  /\ ~halted
  /\ IF Known(p.name) \/ Len(parts) = Slots
     THEN halted' = TRUE /\ UNCHANGED <<parts, maxEnd>>
     ELSE /\ parts' = Append(parts, p)
          /\ maxEnd' = Extended(p)
          /\ halted' = ~Verified(p)
  /\ UNCHANGED open

\* norflash_dev_open and _norflash_open, for the first reference.
Open(n) ==
  /\ ~halted /\ Known(n) /\ n \notin open
  /\ IF maxEnd <= Capacity
     THEN open' = open \cup {n} /\ UNCHANGED halted
     ELSE halted' = TRUE /\ UNCHANGED open
  /\ UNCHANGED <<parts, maxEnd>>

\* The last reference is closed.
Close(n) ==
  /\ ~halted /\ n \in open
  /\ open' = open \ {n}
  /\ UNCHANGED <<parts, maxEnd, halted>>

Init == parts = <<>> /\ maxEnd = 0 /\ open = {} /\ halted = FALSE

Next ==
  \/ \E p \in Part : Register(p)
  \/ \E n \in Name : Open(n) \/ Close(n)

Spec == Init /\ [][Next]_vars
-----------------------------------------------------------------------------
(* Properties.                                                              *)

Apart(p, q) == End(p) <= q.start \/ End(q) <= p.start

Ascending == \A i, j \in DOMAIN parts : i < j => parts[i].start <= parts[j].start

\* Partitions registered from low to high addresses, as the boards do it, are
\* disjoint: no two clients of the driver share a sector.
AscendingApart ==
  ~halted /\ Ascending => \A i, j \in DOMAIN parts : i < j => Apart(parts[i], parts[j])

\* A partition that is open lies on the chip, although the assertion at open
\* looks at one number only, whichever partitions were registered since.
OpenFits ==
  \A i \in DOMAIN parts : parts[i].name \in open => End(parts[i]) <= Capacity
=============================================================================
