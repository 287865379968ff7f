------------------------ MODULE NorPartitionsProofs ------------------------
(***************************************************************************)
(* Proofs about NorPartitions for every partition table and chip.           *)
(***************************************************************************)
EXTENDS NorPartitions, SequenceTheorems, TLAPS

\* Types; max_end_addr bounds the ends; only registered partitions are open.
TableInv ==
  /\ parts \in Seq(Part) /\ maxEnd \in Nat /\ open \subseteq Name
  /\ \A i \in DOMAIN parts : End(parts[i]) <= maxEnd
  /\ \A n \in open : Known(n)

IInv == TableInv /\ AscendingApart /\ OpenFits

\* A partition's ends are numbers.
LEMMA PartShape ==
  ASSUME NEW p \in Part
  PROVE  p.name \in Name /\ p.start \in Nat /\ p.size \in Nat /\ p.size > 0
         /\ End(p) \in Nat
<1>1. p.name \in Name /\ p.start \in Addr /\ p.size \in Size
  BY DEF Part
<1>2. p.start \in Nat /\ p.size \in Nat /\ p.size # 0
  BY <1>1, NorPartitionsAssumption
<1> QED BY <1>1, <1>2 DEF End

\* The invariant survives the registration of a partition.
LEMMA RegisterKeeps ==
  ASSUME IInv, NEW p \in Part, Register(p)
  PROVE  IInv'
<1>1. CASE Known(p.name) \/ Len(parts) = Slots
  <2>1. halted' /\ UNCHANGED <<parts, maxEnd, open>>
    BY <1>1 DEF Register
  <2> QED BY <2>1 DEF IInv, TableInv, Known, AscendingApart, Ascending, OpenFits
<1>2. CASE ~(Known(p.name) \/ Len(parts) = Slots)
  <2>1. /\ parts' = Append(parts, p) /\ maxEnd' = Extended(p)
        /\ halted' = ~Verified(p) /\ ~halted /\ open' = open
    BY <1>2 DEF Register
  <2>2. /\ parts \in Seq(Part) /\ DOMAIN parts = 1..Len(parts) /\ Len(parts) \in Nat
        /\ parts' \in Seq(Part) /\ DOMAIN parts' = 1..(Len(parts) + 1)
        /\ parts'[Len(parts) + 1] = p
        /\ \A i \in DOMAIN parts : parts'[i] = parts[i]
    BY <2>1, AppendProperties DEF IInv, TableInv
  <2>3. /\ \A i \in DOMAIN parts : i \in DOMAIN parts' /\ i < Len(parts) + 1
        /\ \A i \in DOMAIN parts' : i \in DOMAIN parts \/ i = Len(parts) + 1
        /\ \A i \in DOMAIN parts' : parts'[i] \in Part
        /\ Len(parts) + 1 \in DOMAIN parts'
    BY <2>2
  <2>4. maxEnd' \in Nat /\ maxEnd' >= maxEnd /\ maxEnd' >= End(p)
    BY <2>1, PartShape DEF IInv, TableInv, Extended
  <2>5. TableInv'
    <3>1. ASSUME NEW i \in DOMAIN parts' PROVE End(parts'[i]) <= maxEnd'
      <4>1. CASE i \in DOMAIN parts
        <5>1. End(parts[i]) <= maxEnd /\ End(parts[i]) \in Nat
          BY <2>2, <4>1, PartShape DEF IInv, TableInv
        <5> QED BY <2>2, <2>4, <4>1, <5>1 DEF IInv, TableInv
      <4>2. CASE i = Len(parts) + 1
        BY <2>2, <2>4, <4>2
      <4> QED BY <2>3, <4>1, <4>2
    <3>2. ASSUME NEW n \in open PROVE \E i \in DOMAIN parts' : parts'[i].name = n
      BY <2>2, <2>3 DEF IInv, TableInv, Known
    <3> QED BY <2>1, <2>2, <2>4, <3>1, <3>2 DEF IInv, TableInv, Known, End
  <2>6. AscendingApart'
    <3> SUFFICES ASSUME ~halted', Ascending', NEW i \in DOMAIN parts', NEW j \in DOMAIN parts',
                        i < j
                 PROVE  Apart(parts'[i], parts'[j])
      BY DEF AscendingApart, Apart, End
    <3>1. CASE j \in DOMAIN parts
      <4>1. i \in DOMAIN parts
        BY <2>2, <3>1
      <4>2. Ascending
        BY <2>2, <2>3 DEF Ascending
      <4> QED BY <2>1, <2>2, <3>1, <4>1, <4>2 DEF IInv, AscendingApart
    <3>2. CASE j = Len(parts) + 1
      <4>1. i \in DOMAIN parts
        BY <2>2, <3>2
      <4>2. parts[i].start <= p.start
        BY <2>2, <2>3, <3>2, <4>1 DEF Ascending
      <4>3. ~Inside(p.start, parts[i])
        BY <2>1, <4>1 DEF Verified
      <4>4. End(parts[i]) <= p.start
        BY <2>2, <4>1, <4>2, <4>3, PartShape DEF Inside
      <4> QED BY <2>2, <3>2, <4>1, <4>4 DEF Apart
    <3> QED BY <2>3, <3>1, <3>2
  <2>7. OpenFits'
    <3>1. p.name \notin open
      BY <1>2 DEF IInv, TableInv
    <3>2. ASSUME NEW i \in DOMAIN parts', parts'[i].name \in open
          PROVE  End(parts'[i]) <= Capacity
      BY <2>2, <2>3, <3>1, <3>2 DEF IInv, OpenFits
    <3> QED BY <2>1, <3>2 DEF OpenFits, End
  <2> QED BY <2>5, <2>6, <2>7 DEF IInv
<1> QED BY <1>1, <1>2

\* And opening one, which looks at max_end_addr only.
LEMMA OpenKeeps ==
  ASSUME IInv, NEW n \in Name, Open(n)
  PROVE  IInv'
<1>1. UNCHANGED <<parts, maxEnd>> /\ ~halted /\ Known(n)
      /\ (open' = open \/ (open' = open \cup {n} /\ maxEnd <= Capacity))
  BY DEF Open
<1>2. TableInv' /\ AscendingApart'
  BY <1>1 DEF IInv, TableInv, Known, AscendingApart, Ascending
<1>3. OpenFits'
  <2>1. CASE open' = open
    BY <1>1, <2>1 DEF IInv, OpenFits
  <2>2. CASE maxEnd <= Capacity
    <3>1. ASSUME NEW i \in DOMAIN parts PROVE End(parts[i]) <= Capacity
      <4>1. End(parts[i]) <= maxEnd /\ End(parts[i]) \in Nat /\ maxEnd \in Nat
        BY PartShape DEF IInv, TableInv
      <4> QED BY <2>2, <4>1, NorPartitionsAssumption
    <3> QED BY <1>1, <3>1 DEF OpenFits
  <2> QED BY <1>1, <2>1, <2>2
<1> QED BY <1>2, <1>3 DEF IInv

\* Every step keeps the invariant.
LEMMA StepKeeps == IInv /\ [Next]_vars => IInv'
<1> SUFFICES ASSUME IInv, [Next]_vars PROVE IInv'
  OBVIOUS
<1>1. ASSUME NEW n \in Name, Close(n) PROVE IInv'
  BY <1>1 DEF Close, IInv, TableInv, Known, AscendingApart, Ascending, OpenFits
<1>2. CASE UNCHANGED vars
  BY <1>2 DEF vars, IInv, TableInv, Known, AscendingApart, Ascending, OpenFits
<1> QED BY <1>1, <1>2, RegisterKeeps, OpenKeeps DEF Next

\* The invariant holds in every reachable state.
THEOREM Invariance == Spec => []IInv
<1>1. Init => IInv
  BY DEF Init, IInv, TableInv, AscendingApart, OpenFits
<1> QED BY <1>1, StepKeeps, PTL DEF Spec

\* Tables written from low to high addresses give disjoint partitions: the
\* one-sided check of norflash_verify_part is enough for them.
THEOREM TablesApart == Spec => []AscendingApart
<1>1. IInv => AscendingApart
  BY DEF IInv
<1> QED BY Invariance, <1>1, PTL

\* Open partitions lie on the chip, though open compares one number only.
THEOREM OpenOnChip == Spec => []OpenFits
<1>1. IInv => OpenFits
  BY DEF IInv
<1> QED BY Invariance, <1>1, PTL
=============================================================================
