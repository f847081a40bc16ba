---------------------------- MODULE InstanceProps ----------------------------
(***************************************************************************)
(* What the PocketIDInstance controller should guarantee, stated over the  *)
(* state of module Instance.                                               *)
(***************************************************************************)
EXTENDS Instance

\* Objects are created, patched and given an administrator only for an instance
\* that is there and holds the finalizer, however stale the copy: nothing is made
\* for an instance that is gone.
InstanceHeld ==
    job.pc \in Working => inst.state # "absent" /\ inst.finalizer

\* An instance says Initialized only when its own database had a user: the
\* condition is never carried over to a namesake made later on fresh data.
InitializedEarned == inst.initialized => db.used

\* The operator never makes a second administrator beside its first one, whatever
\* answers are lost and whatever name the spec asks for by then.
OneAdmin == Cardinality(db.admins) <= 1

\* A generated key is kept as long as its Secret is there, though the cache may
\* not show it: a new key would lock the operator out of the running server, and
\* the server out of what it encrypted.
KeysKept ==
    [][\A k \in SecretKinds :
          (child[k].there /\ child'[k].there) => child'[k].data = child[k].data]_vars
-------------------------------------------------------------------------------
(* Liveness, under FairSpec. *)

Deployed ==
    /\ child["config"].there /\ child["config"].data = inst.spec.conf
    /\ child["service"].there
    /\ Workload.there /\ Workload.data = Template(inst.spec)
    /\ pod # NoPod /\ pod.ready /\ pod.template = Template(inst.spec)

\* Once the instance is left alone its objects, the running pod included, become
\* and stay what the latest spec says, with no other wake-up than their events.
\* The pod has the latest template; contents of the ConfigMap that changed since it
\* started reach the ConfigMap only, as the template does not depend on them.
RollsOut == (<>[](inst.state = "live")) => <>[]Deployed

InForce ==
    /\ "apiKey" \notin inst.spec.own => child["apiKey"].there
    /\ pod # NoPod => pod.key = IF "apiKey" \in inst.spec.own
                                THEN UserKey ELSE child["apiKey"].data

\* It is then reported as ready and, if an administrator is asked for and the
\* server accepts the operator's key, initialized, whatever failed on the way.
Settles ==
    (<>[](inst.state = "live" /\ (inst.spec.admin # None => InForce)))
        => <>[](/\ inst.ready /\ inst.observed /\ ~inst.degraded
                /\ inst.spec.admin # None => inst.initialized)

\* A deleted instance leaves nothing behind but its data.
NothingLeft ==
    (<>[](inst.state \in {"absent", "deleting"}))
        => <>[](inst.state = "absent" /\ pod = NoPod
                  /\ \A k \in Kinds : ~child[k].there)
===============================================================================
