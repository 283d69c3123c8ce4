------------------------ MODULE MCObservationCompare ------------------------
(* An instance of ObservationCompare for TLC: the contents of one          *)
(* fingerprint, each at most once in a report, and no longer history.      *)
EXTENDS ObservationCompare

MixedFingerprint == [d \in Contents |-> "f"]

MixedSeverity == [d \in Contents |-> IF d = "warning" THEN 3 ELSE 4]

SingleCopies == [d \in Contents |-> 1]

NoContents == {}

NoOrders == {}
=============================================================================
