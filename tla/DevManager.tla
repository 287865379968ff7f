------------------------------ MODULE DevManager ------------------------------
(***************************************************************************)
(* The list of storage devices (dev_manager.c): SD cards, USB disks, flash.  *)
(* An entry is made when a device comes in, whether or not its file system   *)
(* mounts; it is removed when the device goes.  Other parts of the program   *)
(* hold on to the address of an entry, which malloc may give to the next     *)
(* one.                                                                      *)
(*                                                                         *)
(* Queries take the nodes they look at, so that a handler can change an      *)
(* entry and ask again.                                                      *)
(***************************************************************************)
EXTENDS Naturals, Sequences, FiniteSets

CONSTANTS
  Logos,   \* names of devices in dev_reg
  Addr,    \* addresses malloc can give an entry
  Null     \* the C NULL, as an address and as a name

ASSUME DevAssumption ==
  /\ Null \notin Logos /\ Null \notin Addr
  /\ IsFiniteSet(Logos) /\ IsFiniteSet(Addr) /\ Cardinality(Addr) >= Cardinality(Logos)

VARIABLES
  node,     \* struct __dev at each address
  list,     \* addresses of the entries, in list order
  recent    \* addresses of the entries, by active_stamp, newest last

mgr == <<node, list, recent>>

\* failed: in the list, fmnt NULL; invalid: mounted, valid 0; valid: mounted, 1.
Statuses == {"free", "failed", "invalid", "valid"}
Free == [logo |-> Null, st |-> "free"]
Nodes == [Addr -> [logo : Logos \cup {Null}, st : Statuses]]

\* Every check skips the entries without fmnt.
Mounted(n) == {a \in Addr : n[a].st \in {"invalid", "valid"}}
Valid(n) == {a \in Addr : n[a].st = "valid"}
Total(n) == Cardinality(Valid(n))

\* Mutant: entries that did not mount are passed over here too.
ListedMounted(n, l) == \E a \in Mounted(n) : n[a].logo = l
Listed(n, l) == \E a \in Addr : n[a].st # "free" /\ n[a].logo = l
LogoOf(n, d) == IF d \in Mounted(n) THEN n[d].logo ELSE Null

FindSpec(n, l) ==
  LET named == {a \in Valid(n) : n[a].logo = l}
  IN IF named = {} THEN Null ELSE CHOOSE a \in named : TRUE
-----------------------------------------------------------------------------
(* Searches with valid = 1.                                                 *)

\* The first valid address of a sequence.
IsFirst(n, q, i) == q[i] \in Valid(n) /\ \A j \in DOMAIN q : j < i => q[j] \notin Valid(n)
FirstValid(n, q) ==
  IF \E i \in DOMAIN q : IsFirst(n, q, i) THEN q[CHOOSE i \in DOMAIN q : IsFirst(n, q, i)] ELSE Null

Turn(q) == [i \in DOMAIN q |-> q[Len(q) + 1 - i]]
FindActive(n, r) == FirstValid(n, Turn(r))

\* The rest of a list behind d, once round, d and the list's head left out.
After(q, d) ==
  LET i == CHOOSE k \in DOMAIN q : q[k] = d
  IN [k \in 1..(Len(q) - 1) |-> q[((i + k - 1) % Len(q)) + 1]]

\* An address that is no mounted entry finds the active device.
Find(n, q, r, d) ==
  CASE d = Null -> Null
    [] d # Null /\ d \notin Mounted(n) -> FindActive(n, r)
    [] OTHER -> FirstValid(n, After(q, d))

\* dev_manager_find_next walks the list backwards, dev_manager_find_prev forwards.
FindNext(n, q, r, d) == Find(n, Turn(q), r, d)
FindPrev(n, q, r, d) == Find(n, q, r, d)
-----------------------------------------------------------------------------
(* Changes.                                                                 *)

\* list_del, where an entry occurs once.
Without(q, a) ==
  IF \E i \in DOMAIN q : q[i] = a
  THEN LET at == CHOOSE i \in DOMAIN q : q[i] = a
       IN [i \in 1..(Len(q) - 1) |-> IF i < at THEN q[i] ELSE q[i + 1]]
  ELSE q

DevInit ==
  /\ node = [a \in Addr |-> Free]
  /\ list = <<>>
  /\ recent = <<>>

\* __dev_manager_add, when no entry of the name is listed.
AddAt(a, l, mounts) ==
  /\ node' = [node EXCEPT ![a] = [logo |-> l, st |-> IF mounts THEN "valid" ELSE "failed"]]
  /\ list' = Append(list, a)
  /\ recent' = Append(recent, a)

DelAt(a) ==
  /\ node' = [node EXCEPT ![a] = Free]
  /\ list' = Without(list, a)
  /\ recent' = Without(recent, a)

Del(l) ==
  IF Listed(node, l)
  THEN \E a \in Addr : node[a].st # "free" /\ node[a].logo = l /\ DelAt(a)
  ELSE UNCHANGED mgr

Marked(n, d, s) == IF d \in Mounted(n) THEN [n EXCEPT ![d].st = s] ELSE n
\* Mutant: the order of activity stays.
SetActiveNone(d) == UNCHANGED recent
SetActive(d) == recent' = IF d \in Mounted(node) THEN Append(Without(recent, d), d) ELSE recent
=============================================================================
