-------------------------- MODULE MCReviewWorkflow --------------------------
(***************************************************************************)
(* Instances of ReviewWorkflow for TLC: p1 spans both notes, p2 shares n1  *)
(* with it without overlapping, p3 overlaps p1 on n2.                      *)
(***************************************************************************)
EXTENDS ReviewWorkflow, TLC

CONSTANTS p1, p2, p3, n1, n2, c1, c2, t1, t2

Op(p, n, s, e) ==
  [proposal |-> p, path |-> n, start |-> s, end |-> e, quoted |-> TRUE]

MCOperations ==
  {o \in {Op(p1, n1, 0, 2), Op(p1, n2, 0, 2), Op(p2, n1, 2, 3),
          Op(p3, n2, 1, 3)} :
     o.proposal \in Proposals}

MCFinding == [p \in Proposals |-> p]
MCScan    == [p \in Proposals |-> 1]

\* Single proposals, a compatible pair, overlapping ones, a pair with a
\* repetition and a batch above the limit.
MCBatches ==
  {b \in {<<p1>>, <<p2>>, <<p3>>, <<p1, p2>>, <<p2, p3>>, <<p1, p3>>,
          <<p1, p1>>, <<p1, p2, p3>>} : Range(b) \subseteq Proposals}

Symmetry == Permutations({c1, c2}) \cup Permutations({t1, t2})

\* One first text for all notes: which one it is makes no difference, and the
\* liveness of the calls cannot be checked under symmetry.
InitOneText == Init /\ \A n \in Notes : note[n].text = t1
FromOneText == InitOneText /\ [][Next]_vars /\ Fairness
=============================================================================
