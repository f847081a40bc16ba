------------------------------ MODULE MCUserGroup ------------------------------
(***************************************************************************)
(* Instances of the PocketIDUserGroup controller for TLC.                  *)
(***************************************************************************)
EXTENDS UserGroupProps, TLC

CONSTANTS g1, g2, n1, n2, l1, l2, i1, i2, i3

S(n, l) == [name |-> n, label |-> l]

\* A group of the second name was made by hand in PocketID.
HandMade == [i \in {i1} |-> n2]

\* The label of the first resource changes.
LabelledSpecs == [g \in {g1, g2} |->
    IF g = g1 THEN {S(n1, l1), S(n1, l2)} ELSE {S(n2, l1)}]
===============================================================================
