--------------------------------- MODULE MCUser ---------------------------------
(***************************************************************************)
(* Instances of the PocketIDUser controller for TLC.                       *)
(***************************************************************************)
EXTENDS UserProps, TLC

CONSTANTS u1, n1, x1, x2, g1, p1, p2, i1, i2

S(x, refs, link) == [name |-> n1, profile |-> x, refs |-> refs, link |-> link]

NoExisting == [i \in {} |-> n1]

\* A user who joins or leaves a group; the link is asked for later, or at once.
MemberSpecs == [u \in {u1} |-> {S(x1, {g1}, TRUE), S(x1, {}, FALSE)}]

\* A user whose profile changes.
EditedSpecs == [u \in {u1} |-> {S(x1, {}, FALSE), S(x2, {}, FALSE)}]

\* A user with a link.
LinkedSpecs == [u \in {u1} |-> {S(x1, {}, TRUE)}]

GroupsAlike == Permutations({p1, p2}) \cup Permutations({i1, i2})
===============================================================================
