------------------------- MODULE MCValidationEngine -------------------------
(* Instances of ValidationEngine for TLC. *)
EXTENDS ValidationEngine

CONSTANTS p1, p2, valid, invalid, garbled

\* One message of each kind.
EachKind == [r \in Request |-> CASE r = garbled -> "garbled"
                                 [] r = invalid -> "invalid"
                                 [] OTHER -> "valid"]

\* The well-formed and the unparsable one share a partition.
TwoPartitions == [r \in Request |-> IF r = invalid THEN p2 ELSE p1]
=============================================================================
