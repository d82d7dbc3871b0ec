------------------------ MODULE MCRepairPersistence ------------------------
(***************************************************************************)
(* Instances of RepairPersistence for TLC: p1 repairs both notes and p2    *)
(* repairs on n2 what p1 repairs there: what is left to do when p1 was cut *)
(* off after its first write.                                              *)
(***************************************************************************)
EXTENDS RepairPersistence, TLC

CONSTANTS p1, p2, n1, n2, c1, c2, t1, t2

MCOperations ==
  {o \in {[proposal |-> p1, path |-> n1, start |-> 0, end |-> 2, quoted |-> TRUE],
          [proposal |-> p1, path |-> n2, start |-> 0, end |-> 2, quoted |-> TRUE],
          [proposal |-> p2, path |-> n2, start |-> 0, end |-> 2, quoted |-> TRUE]} :
     o.proposal \in Proposals}

MCFinding == [p \in Proposals |-> p]
MCScan    == [p \in Proposals |-> IF p = p1 THEN 1 ELSE 2]
MCBatches == {<<p>> : p \in Proposals}

Symmetry == Permutations({c1, c2}) \cup Permutations({t1, t2})
=============================================================================
