--------------------------- MODULE MCFindingStore ---------------------------
(***************************************************************************)
(* Instances of FindingStore for TLC: findings 1 and 2 are one task line   *)
(* with two severities, finding 3 is elsewhere.                            *)
(***************************************************************************)
EXTENDS FindingStore

MCPlace == [f \in Findings |-> IF f = 3 THEN 2 ELSE 1]
=============================================================================
