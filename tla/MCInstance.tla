------------------------------ MODULE MCInstance ------------------------------
(***************************************************************************)
(* Instances of the PocketIDInstance controller for TLC.                   *)
(***************************************************************************)
EXTENDS InstanceProps, TLC

CONSTANTS a1, a2, x1, x2, m1, m2, k1, k2, k3

S(admin, conf, image, own) ==
    [admin |-> admin, conf |-> conf, image |-> image, own |-> own]

\* The administrator asked for, the configuration and the image change together.
EditedSpecs == {S(a1, x1, m1, {}), S(a2, x2, m2, {"apiKey"})}
===============================================================================
