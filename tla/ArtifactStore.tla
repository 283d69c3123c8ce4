----------------------------- MODULE ArtifactStore ----------------------------
(***************************************************************************)
(* What ArtifactWriter and DiagnosticCapsule::write_to promise of the name *)
(* they write to: nothing, or one thing, put there whole and never         *)
(* replaced; a loss of power takes it back only while it was not durable.  *)
(***************************************************************************)
CONSTANTS
  Thing,        \* what can be at the destination, whole
  Nothing       \* it is free

VARIABLES
  visible,      \* what a reader finds
  durable       \* what it finds after a loss of power, at the least

Init == visible = Nothing /\ durable = Nothing

(* The rename of a staging directory: the commit point.                    *)
Publish(thing) ==
  /\ visible = Nothing
  /\ visible' = thing
  /\ UNCHANGED durable

(* The parent directory is synchronised.                                   *)
Harden == durable' = visible /\ UNCHANGED visible

LosePower ==
  /\ visible' \in {visible, durable}
  /\ durable' = visible'

Next == Harden \/ LosePower \/ \E thing \in Thing : Publish(thing)

Spec == Init /\ [][Next]_<<visible, durable>>
=============================================================================
