------------------------------- MODULE UserProps -------------------------------
(***************************************************************************)
(* What the PocketIDUser controller should guarantee, stated over the      *)
(* state of module User.                                                   *)
(***************************************************************************)
EXTENDS User

NamesOf(u) == {s.name : s \in Specs[u]}

\* No two resources are ever given the same spec.username.
NamesDisjoint ==
    \A u, v \in Users : u # v => NamesOf(u) \cap NamesOf(v) = {}

\* No resource is ever given another spec.username.
NamesFixed == \A u \in Users : \A s, t \in Specs[u] : s.name = t.name

Fresh(u) == obj[u].state = "live" /\ obj[u].userID # None
-------------------------------------------------------------------------------
(* Safety. *)

\* Retries after lost answers, conflicts and crashes adopt the user they find by
\* name and never create a second one, while usernames do not change.
OneUserPerName ==
    NamesFixed =>
        \A i, j \in Live : remote[i].name = remote[j].name => i = j

\* A recorded one-time access link logs in the recorded user: not one created by
\* a reconciliation whose status was lost, and not a deleted predecessor.
LinkOfRecorded ==
    \A u \in Users :
        (Fresh(u) /\ obj[u].link /\ secret[u].state # "none")
            => secret[u].user = obj[u].userID

\* After the memberships were compared and set, the user is in exactly those of
\* the groups resolved that still exist, though the comparison used an answer
\* that groups deleted meanwhile made stale.
MembershipsAsRead ==
    job.pc \in {"token", "storeLink", "finish"} =>
        remote[job.id].groups = job.want \cap LiveGroups

\* The controller implements the lifecycle of remote objects.
Phase(o) == IF o.state = "live"
            THEN IF o.finalizer THEN "managed" ELSE "declared"
            ELSE o.state

Abstract == INSTANCE Lifecycle WITH
    Resources <- Users,
    Objects   <- Ids,
    phase     <- [u \in Users |-> Phase(obj[u])],
    recorded  <- [u \in Users |-> obj[u].userID],
    object    <- [i \in Ids |-> remote[i].state]

Implements == Abstract!Spec
-------------------------------------------------------------------------------
(* Liveness, under FairSpec. *)

\* Once a resource is left alone and the instance is there, its user is in the
\* groups its references resolve to, whatever the group controller did meanwhile.
MembershipsSettle ==
    \A u \in Users :
        (<>[](obj[u].state = "live" /\ instanceOK)) =>
            <>[](\E i \in Live :
                    /\ obj[u].userID = i
                    /\ remote[i].groups =
                          {gid[g] : g \in obj[u].spec.refs} \cap LiveGroups)

\* An onboarding link that is asked for is made in the end, whatever call failed.
OnboardingSettles ==
    \A u \in Users :
        (<>[](obj[u].state = "live" /\ obj[u].spec.link /\ instanceOK))
            => <>[](obj[u].link)

\* A requested deletion completes if the instance stays reachable, and PocketID
\* answers the repeated deletion of an id like the first (see OIDCClientProps).
DeletionCompletes ==
    (<>[]instanceOK) =>
        \A u \in Users : obj[u].state = "deleting" ~> obj[u].state = "absent"
-------------------------------------------------------------------------------
(* Claims of the documentation that the code does not keep. *)

\* pocketiduser_types.go:51 and :76: disabled prevents the user from logging in,
\* ready says that the user is synced.  Once a resource is left alone, the user in
\* PocketID carries the profile of its spec.
ProfileSettles ==
    \A u \in Users :
        (<>[](obj[u].state = "live" /\ instanceOK)) =>
            <>[](\E i \in Live : /\ obj[u].userID = i
                                 /\ remote[i].profile = obj[u].spec.profile)

\* pocketiduser_types.go:65: the Secret stores the one-time access link.  A link
\* recorded as created is gone only when somebody deletes it.
LinkKept ==
    [][\A u \in Users :
          (Fresh(u) /\ obj[u].link /\ secret[u].state # "none"
             /\ secret'[u].state = "none") => edits' # edits]_vars
===============================================================================
