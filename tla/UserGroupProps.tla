---------------------------- MODULE UserGroupProps ----------------------------
(***************************************************************************)
(* What the PocketIDUserGroup controller should guarantee, stated over the *)
(* state of module UserGroup.                                              *)
(***************************************************************************)
EXTENDS UserGroup

NamesOf(g) == {s.name : s \in Specs[g]}

\* No two resources are ever given the same spec.name.
NamesDisjoint ==
    \A g, h \in Groups : g # h => NamesOf(g) \cap NamesOf(h) = {}

\* No resource is ever given another spec.name.
NamesFixed == \A g \in Groups : \A s, t \in Specs[g] : s.name = t.name

Fresh(g) == obj[g].state = "live" /\ obj[g].groupID # None

\* Users and OIDC clients take status.groupId from live resources: unless two
\* resources share a name, it never names a group that was deleted.
RecordedLive ==
    NamesDisjoint =>
        \A g \in Groups : Fresh(g) => obj[g].groupID \in Live

\* Retries after lost answers, conflicts and crashes adopt the group they find by
\* name and never create a second one, while names do not change.
OneGroupPerName ==
    NamesFixed =>
        \A i, j \in Live : remote[i].name = remote[j].name => i = j

\* A group id other resources may have read is not replaced while its resource
\* lives, not even when the group is gone from PocketID.
IdStable ==
    [][\A g \in Groups :
          (Fresh(g) /\ obj'[g].state # "absent") => obj'[g].groupID = obj[g].groupID]_vars

\* What PocketID holds is what the spec of g says.
Matches(g) ==
    /\ obj[g].groupID \in Live
    /\ remote[obj[g].groupID].name = obj[g].spec.name
    /\ remote[obj[g].groupID].label = obj[g].spec.label

\* The status of g says that the latest generation is synced, and it is not.
FalseClaim(g) ==
    obj[g].state = "live" /\ obj[g].ready /\ obj[g].observed /\ ~Matches(g)

\* Unless two resources share a name, the status comes to claim a sync that did not
\* happen in one way only: the last write of a reconciliation reads the resource
\* again and marks the generation it finds, which users made since the one that was
\* synced.  No stale copy, lost answer or crash does it, and no later step of this
\* controller makes a claim false that was true.
ReadyIsEarned ==
    [][NamesDisjoint =>
          \A g \in Groups :
              FalseClaim(g)' =>
                  \/ FalseClaim(g)
                  \/ /\ At("finish") /\ job.c = g
                     /\ job.mem.spec # obj[g].spec]_vars

\* The controller implements the lifecycle of remote objects.
Phase(o) == IF o.state = "live"
            THEN IF o.finalizer THEN "managed" ELSE "declared"
            ELSE o.state

Abstract == INSTANCE Lifecycle WITH
    Resources <- Groups,
    Objects   <- Ids,
    phase     <- [g \in Groups |-> Phase(obj[g])],
    recorded  <- [g \in Groups |-> obj[g].groupID],
    object    <- [i \in Ids |-> remote[i].state]

Implements == Abstract!Spec
-------------------------------------------------------------------------------
(* Liveness, under FairSpec. *)

Synced(g) == obj[g].ready /\ obj[g].observed /\ Matches(g)

\* Once users leave a resource alone and the instance is there, the group becomes
\* and stays what the latest spec says.
Converges ==
    \A g \in Groups :
        (<>[](obj[g].state = "live" /\ instanceOK)) => <>[]Synced(g)

\* A requested deletion completes if the instance stays reachable, and PocketID
\* answers the repeated deletion of an id like the first (see OIDCClientProps).
DeletionCompletes ==
    (<>[]instanceOK) =>
        \A g \in Groups : obj[g].state = "deleting" ~> obj[g].state = "absent"
===============================================================================
