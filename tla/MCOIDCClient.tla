----------------------------- MODULE MCOIDCClient -----------------------------
(***************************************************************************)
(* Instances of the PocketIDOIDCClient controller for TLC.                 *)
(***************************************************************************)
EXTENDS OIDCClientProps, TLC

CONSTANTS c1, c2, n1, n2, n3, x1, x2, g1, p1, p2, i1, i2, i3, k1, k2

S(n, x, refs, creds, gateway) ==
    [name |-> n, conf |-> x, refs |-> refs, creds |-> creds, gateway |-> gateway]

NoExisting == [i \in {} |-> n1]

\* A client of the first name was made by hand in PocketID.
FirstExisting == [i \in {i1} |-> n1]

\* One resource, always restricted to a group, whose gateway comes and goes.
GuardedSpecs == [c \in {c1} |-> {S(n1, x1, {g1}, TRUE, FALSE),
                                 S(n1, x2, {g1}, TRUE, TRUE)}]

\* Two resources with names of their own; users rename the first one.
RenamedSpecs == [c \in {c1, c2} |->
    IF c = c1 THEN {S(n1, x1, {}, FALSE, FALSE), S(n2, x1, {}, TRUE, FALSE)}
              ELSE {S(n3, x1, {}, FALSE, FALSE)}]

\* One resource without a gateway, restricted to a group or not.
PlainSpecs == [c \in {c1} |-> {S(n1, x1, {g1}, TRUE, FALSE),
                               S(n1, x2, {}, TRUE, FALSE)}]

\* One resource that protects a route.
GatewaySpecs == [c \in {c1} |-> {S(n1, x1, {}, TRUE, TRUE)}]

\* PocketID's ids and secrets are interchangeable, and so are group ids.
IdsAlike  == Permutations({i1, i2}) \cup Permutations({p1, p2})
                \cup Permutations({k1, k2})
NewAlike  == Permutations({i2, i3}) \cup Permutations({k1, k2})
===============================================================================
