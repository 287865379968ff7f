---------------------------- MODULE RecordingLog ----------------------------
(***************************************************************************)
(* What the recording file system promises: recordings that were closed      *)
(* stay until the ring needs their space, and then go oldest first.  Power   *)
(* loss takes none of them.                                                  *)
(***************************************************************************)
EXTENDS Naturals

CONSTANT Recording  \* recordings, numbered by age

VARIABLE kept       \* finished recordings

Init == kept = {}

\* A recording is closed: it is younger than all others.
Finish ==
  \E g \in Recording :
    /\ \A h \in kept : h < g
    /\ kept' = kept \cup {g}

\* The ring takes the space of the oldest.
Forget ==
  \E g \in kept :
    /\ \A h \in kept : g <= h
    /\ kept' = kept \ {g}

Next == Finish \/ Forget

Spec == Init /\ [][Next]_kept
=============================================================================
