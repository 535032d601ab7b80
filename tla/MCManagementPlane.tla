------------------------- MODULE MCManagementPlane -------------------------
(* The management handlers with two identities of one personal access      *)
(* token: the first imported without a workspace, so that its metadata may *)
(* change, the second for the workspace that m1 names.                     *)
EXTENDS ManagementPlane, TLC

CONSTANTS m1, m2

OneChanges == [i \in Ids |-> IF i = 1 THEN Metas ELSE {m1}]

FirstIsLegacy == [i \in Ids |-> IF i = 2 THEN 1 ELSE None]
SecondInM1 == [i \in Ids |-> IF i = 2 THEN {m1} ELSE {}]

\* Client keys are interchangeable.
Symmetry == Permutations(Keys)
=============================================================================
