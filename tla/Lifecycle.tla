------------------------------- MODULE Lifecycle -------------------------------
(***************************************************************************)
(* What a controller of this operator promises of the remote objects it    *)
(* manages, whatever its caches, retries and crashes: a remote object is   *)
(* provisioned only while a resource holds the finalizer, a resource       *)
(* records only objects that exist, an object is deprovisioned only during *)
(* a deletion and when no resource still in use records it, and a resource *)
(* disappears only when what it recorded is gone.                          *)
(***************************************************************************)
CONSTANTS Resources, Objects, None

VARIABLES
    phase,     \* phase[r]: what users and the finalizer make of resource r
    recorded,  \* recorded[r]: the object r's status names, or None
    object     \* object[i]: whether remote object i exists

vars == <<phase, recorded, object>>

Managed == {r \in Resources : phase[r] \in {"managed", "deleting"}}

Init ==
    /\ phase = [r \in Resources |-> "absent"]
    /\ recorded = [r \in Resources |-> None]
    /\ object \in [Objects -> {"unused", "live"}]

Become(r, from, to) ==
    /\ phase[r] = from
    /\ phase' = [phase EXCEPT ![r] = to]
    /\ UNCHANGED <<recorded, object>>

Declare(r)       == Become(r, "absent", "declared")
Manage(r)        == Become(r, "declared", "managed")
Withdraw(r)      == recorded[r] = None /\ Become(r, "declared", "absent")
RequestDelete(r) == Become(r, "managed", "deleting")

Provision(i) ==
    /\ Managed # {}
    /\ object[i] = "unused"
    /\ object' = [object EXCEPT ![i] = "live"]
    /\ UNCHANGED <<phase, recorded>>

Record(r, i) ==
    /\ r \in Managed
    /\ object[i] = "live"
    /\ recorded' = [recorded EXCEPT ![r] = i]
    /\ UNCHANGED <<phase, object>>

Deprovision(i) ==
    /\ object[i] = "live"
    /\ \A r \in Resources : phase[r] = "managed" => recorded[r] # i
    /\ \E r \in Resources : phase[r] = "deleting"
    /\ object' = [object EXCEPT ![i] = "deleted"]
    /\ UNCHANGED <<phase, recorded>>

Remove(r) ==
    /\ phase[r] = "deleting"
    /\ recorded[r] # None => object[recorded[r]] = "deleted"
    /\ phase' = [phase EXCEPT ![r] = "absent"]
    /\ recorded' = [recorded EXCEPT ![r] = None]
    /\ UNCHANGED object

Next ==
    \/ \E r \in Resources :
         \/ Declare(r) \/ Manage(r) \/ Withdraw(r) \/ RequestDelete(r) \/ Remove(r)
         \/ \E i \in Objects : Record(r, i)
    \/ \E i \in Objects : Provision(i) \/ Deprovision(i)

Spec == Init /\ [][Next]_vars
===============================================================================
