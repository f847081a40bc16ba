----------------------------- MODULE MCHTTPRoute -----------------------------
(***************************************************************************)
(* An instance of the HTTPRoute controller beside the PocketIDOIDCClient   *)
(* controller for TLC.                                                     *)
(***************************************************************************)
EXTENDS HTTPRouteProps

CONSTANTS c1, n1, x1, x2, i1, i2, i3, k1, k2, here, there, trusted

NoExisting == [i \in {} |-> n1]

\* What users give the client by hand.
HandMade == [c \in {c1} |-> {[name |-> n1, conf |-> x2, refs |-> {},
                              creds |-> FALSE, gateway |-> FALSE]}]

A(enabled, named, conf, gateway) ==
    [enabled |-> enabled, named |-> named, conf |-> conf, refs |-> {},
     gateway |-> gateway]

\* One that is served, one without hostnames, one that looks next to it.
SomeAsks == {A(TRUE, TRUE, x1, FALSE), A(TRUE, TRUE, None, FALSE),
             A(TRUE, FALSE, x2, FALSE)}

Elsewhere(from, selector) ==
    [namespace |-> there, allowed |-> [from |-> from, selector |-> selector]]

\* Open to the namespaces with a label.
SomeInstances == {Elsewhere("Selector", {trusted})}
===============================================================================
