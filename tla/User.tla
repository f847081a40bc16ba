---------------------------------- MODULE User ----------------------------------
(***************************************************************************)
(* The PocketIDUser controller (src/internal/controller/                   *)
(* pocketiduser_controller.go and onboarding.go): one worker that          *)
(* reconciles PocketIDUser resources into users of a PocketID server,      *)
(* their group memberships and a Secret with a one-time access link.       *)
(* Caches, writes and calls behave as in OIDCClient, except that a lagging *)
(* copy of the Secret is not modelled: all it does is to fail a write, as  *)
(* CallFails does.  The user groups are the work of another controller     *)
(* (module UserGroup): here their ids come and go as they may.             *)
(***************************************************************************)
EXTENDS Naturals, FiniteSets

CONSTANTS
    Users,      \* the PocketIDUser resources, by namespace/name
    Names,      \* values of spec.username
    Profiles,   \* the other synced fields: email, names, isAdmin, disabled, locale
    Groups,     \* the PocketIDUserGroup resources users may refer to
    GroupIds,   \* ids PocketID gives to user groups, never reused
    Ids,        \* ids PocketID gives to users, never reused
    None,       \* an empty status field
    Specs,      \* Specs[u]: the specs users give to u
    Existing,   \* id -> username of the users PocketID holds from the start
    PreCreated, \* resources whose Secret exists already, for whatever purpose
    PageSize,   \* how many users one answer of the list call holds
    MaxFaults,  \* bound: failed calls, lost answers and crashes
    MaxEdits    \* bound: steps of users and of the rest of the cluster

UserSpec == [name : Names, profile : Profiles, refs : SUBSET Groups,
             link : BOOLEAN]   \* the name of the onboarding Secret is not empty

ASSUME UserNoneAssumption == None \notin Ids \cup GroupIds
ASSUME UserSpecsAssumption == Specs \in [Users -> (SUBSET UserSpec) \ {{}}]
ASSUME UserExistingAssumption == \E S \in SUBSET Ids : Existing \in [S -> Names]
ASSUME UserBoundsAssumption ==
    /\ Names # {} /\ Profiles # {}
    /\ MaxFaults \in Nat /\ MaxEdits \in Nat /\ PageSize \in Nat

VARIABLES
    obj,          \* obj[u]: the resource u as the API server stores it
    cache,        \* cache[u]: the informer's copy of it
    remote,       \* remote[i]: the user with id i in PocketID
    secret,       \* secret[u]: the Secret for u's one-time access link
    gid,          \* gid[g]: the id the cached user group g shows, or None
    groupState,   \* groupState[p]: whether user group p exists in PocketID
    instanceOK,   \* the instance, its permission and its API key resolve
    job,          \* what the worker is doing
    faults,       \* faults so far
    edits         \* steps of users and the rest of the cluster so far

vars == <<obj, cache, remote, secret, gid, groupState, instanceOK,
          job, faults, edits>>

kube    == <<obj, cache, secret>>
outside == <<gid, groupState, instanceOK, edits>>
-------------------------------------------------------------------------------
CR == [state : {"absent", "live", "deleting"}, finalizer : BOOLEAN,
       spec : UserSpec, userID : Ids \cup {None},
       link : BOOLEAN,       \* status.onboardingLinkCreated
       ready : BOOLEAN, observed : BOOLEAN]

NewCR(s) == [state |-> "live", finalizer |-> FALSE, spec |-> s, userID |-> None,
             link |-> FALSE, ready |-> FALSE, observed |-> FALSE]

NoCR(u) == [NewCR(CHOOSE s \in Specs[u] : TRUE) EXCEPT !.state = "absent"]

\* user is the one whose one-time token the stored link carries.
Secret == [state : {"none", "owned", "orphaned", "foreign"},
           user : Ids \cup {None}]

NoSecret == [state |-> "none", user |-> None]

\* An object owned by a resource that is gone waits for the garbage collector.
Disown(o) == IF o.state = "owned" THEN [o EXCEPT !.state = "orphaned"] ELSE o

Remote == [state : {"unused", "live", "deleted"}, name : Names,
           profile : Profiles, groups : SUBSET GroupIds]

Live == {i \in Ids : remote[i].state = "live"}

LiveGroups == {p \in GroupIds : groupState[p] = "live"}

\* What the list call can answer: its first page, in an order of its own.
Pages == {P \in SUBSET Live :
             IF Cardinality(Live) <= PageSize THEN P = Live
                                              ELSE Cardinality(P) = PageSize}

InitialRemote(i) ==
    [state   |-> IF i \in DOMAIN Existing THEN "live" ELSE "unused",
     name    |-> IF i \in DOMAIN Existing THEN Existing[i]
                                          ELSE CHOOSE n \in Names : TRUE,
     profile |-> CHOOSE x \in Profiles : TRUE,
     groups  |-> {}]

\* base is the copy the reconciliation started from, mem the object in memory,
\* has the memberships in PocketID's last answer, want those resolved.
Job == [pc : {"addFinalizer", "deleteRemote", "removeFinalizer", "resolve",
              "create", "update", "groups", "setGroups", "token", "storeLink",
              "finish", "errorStatus"},
        c : Users, base : CR, mem : CR, id : Ids \cup {None},
        has : SUBSET GroupIds, want : SUBSET GroupIds, secret : Secret,
        link : BOOLEAN]

Idle == [pc |-> "idle"]

At(pc)   == job.pc = pc
Goto(pc) == job' = [job EXCEPT !.pc = pc]
Done     == job' = Idle
Fault    == faults < MaxFaults /\ faults' = faults + 1
Edit     == edits < MaxEdits /\ edits' = edits + 1
Current  == job.base = obj[job.c]

TypeOK ==
    /\ obj \in [Users -> CR]
    /\ cache \in [Users -> CR]
    /\ remote \in [Ids -> Remote]
    /\ secret \in [Users -> Secret]
    /\ gid \in [Groups -> GroupIds \cup {None}]
    /\ groupState \in [GroupIds -> {"unused", "live", "deleted"}]
    /\ instanceOK \in BOOLEAN
    /\ job \in {Idle} \cup Job
    /\ job.pc \in {"update", "groups", "setGroups", "token", "storeLink", "finish"}
          => job.id \in Ids
    /\ faults \in 0..MaxFaults
    /\ edits \in 0..MaxEdits

InitialSecret(u) ==
    IF u \in PreCreated THEN [NoSecret EXCEPT !.state = "foreign"] ELSE NoSecret

Init ==
    /\ obj = [u \in Users |-> NoCR(u)]
    /\ cache = obj
    /\ remote = [i \in Ids |-> InitialRemote(i)]
    /\ secret = [u \in Users |-> InitialSecret(u)]
    /\ gid = [g \in Groups |-> None]
    /\ groupState = [p \in GroupIds |-> "unused"]
    /\ instanceOK = TRUE
    /\ job = Idle
    /\ faults = 0
    /\ edits = 0
-------------------------------------------------------------------------------
(* Reconcile up to the first write, and handleDeletion. *)

Start(u, pc) ==
    job' = [pc |-> pc, c |-> u, base |-> cache[u], mem |-> cache[u],
            id |-> None, has |-> {}, want |-> {}, secret |-> NoSecret,
            link |-> FALSE]

\* The instance is resolved before anything else, for a deletion too.
Begin(u) ==
    /\ job = Idle
    /\ LET o == cache[u] IN
       \/ o.state # "absent" /\ ~instanceOK /\ Start(u, "errorStatus")
       \/ /\ o.state = "deleting" /\ o.finalizer /\ instanceOK
          /\ \/ o.userID # None /\ Start(u, "deleteRemote")
             \/ o.userID = None /\ Start(u, "removeFinalizer")
       \/ /\ o.state = "live" /\ instanceOK
          /\ \/ ~o.finalizer /\ Start(u, "addFinalizer")
             \/ o.finalizer /\ Start(u, "resolve")
    /\ UNCHANGED <<kube, remote, faults, outside>>

AddFinalizer ==
    /\ At("addFinalizer")
    /\ \/ /\ Current
          /\ obj' = [obj EXCEPT ![job.c].finalizer = TRUE]
          /\ job' = [job EXCEPT !.pc = "resolve", !.base.finalizer = TRUE,
                                !.mem.finalizer = TRUE]
       \/ ~Current /\ Done /\ UNCHANGED obj
    /\ UNCHANGED <<cache, secret, remote, faults, outside>>

\* Slip: a user that is already gone counts as an error.
DeleteRemoteStrictly ==
    /\ At("deleteRemote")
    /\ remote' = [remote EXCEPT ![job.base.userID].state = "deleted"]
    /\ \/ /\ job.base.userID \in Live
          /\ \/ Goto("removeFinalizer") /\ UNCHANGED faults
             \/ Goto("errorStatus") /\ Fault
       \/ job.base.userID \notin Live /\ Goto("errorStatus") /\ UNCHANGED faults
    /\ UNCHANGED <<kube, outside>>

\* PocketID answers a delete of an unknown user like one that succeeds.
DeleteRemote ==
    /\ At("deleteRemote")
    /\ remote' = [remote EXCEPT ![job.base.userID].state = "deleted"]
    /\ \/ Goto("removeFinalizer") /\ UNCHANGED faults
       \/ Goto("errorStatus") /\ Fault
    /\ UNCHANGED <<kube, outside>>

\* Once its last finalizer is gone the API server drops the resource.
Drop(u) ==
    /\ obj' = [obj EXCEPT ![u] = NoCR(u)]
    /\ secret' = [secret EXCEPT ![u] = Disown(@)]

\* Slip: the finalizer is removed from the copy read last, not from the one that
\* was cleaned up.
RemoveFinalizerBlindly ==
    /\ At("removeFinalizer")
    /\ Drop(job.c)
    /\ Done
    /\ UNCHANGED <<cache, remote, faults, outside>>

RemoveFinalizer ==
    /\ At("removeFinalizer")
    /\ \/ Current /\ Drop(job.c)
       \/ ~Current /\ UNCHANGED <<obj, secret>>
    /\ Done
    /\ UNCHANGED <<cache, remote, faults, outside>>
-------------------------------------------------------------------------------
(* resolveOrCreateUser *)

\* Slip: the loop copies the wrong variable, so the user found is lost.
ResolveLosingId ==
    /\ At("resolve")
    /\ Goto(IF \E i \in Live : remote[i].name = job.mem.spec.name
            THEN "update" ELSE "create")
    /\ UNCHANGED <<kube, remote, faults, outside>>

\* Slip: a resource without a recorded user gets a new one unlisted.
ResolveUnlisted ==
    /\ At("resolve")
    /\ \/ /\ job.mem.userID \in Live
          /\ job' = [job EXCEPT !.pc = "groups", !.id = job.mem.userID,
                                !.has = remote[job.mem.userID].groups]
       \/ job.mem.userID \notin Live \cup {None} /\ Goto("errorStatus")
       \/ job.mem.userID = None /\ Goto("create")
    /\ UNCHANGED <<kube, remote, faults, outside>>

\* Slip: the memberships of a recorded user are taken to be right already.
ResolveWithoutGroups ==
    /\ At("resolve")
    /\ \/ /\ job.mem.userID \in Live
          /\ job' = [job EXCEPT !.pc = "token", !.id = job.mem.userID,
                                !.want = remote[job.mem.userID].groups]
       \/ job.mem.userID \notin Live \cup {None} /\ Goto("errorStatus")
       \/ /\ job.mem.userID = None
          /\ LET named == {i \in Live : remote[i].name = job.mem.spec.name} IN
             \/ \E i \in named : job' = [job EXCEPT !.pc = "update", !.id = i,
                                                    !.has = remote[i].groups]
             \/ named = {} /\ Goto("create")
    /\ UNCHANGED <<kube, remote, faults, outside>>

\* A recorded user is fetched by id and taken as it is.  Otherwise the first user
\* of that name in the listing is adopted, and only if there is none one is
\* created.
Resolve ==
    /\ At("resolve")
    /\ \/ /\ job.mem.userID # None
          /\ \/ /\ job.mem.userID \in Live
                /\ job' = [job EXCEPT !.pc = "groups", !.id = job.mem.userID,
                                      !.has = remote[job.mem.userID].groups]
             \/ job.mem.userID \notin Live /\ Goto("errorStatus")
       \/ /\ job.mem.userID = None
          /\ \E page \in Pages :
               LET named == {i \in page : remote[i].name = job.mem.spec.name} IN
               \/ \E i \in named : job' = [job EXCEPT !.pc = "update", !.id = i,
                                                      !.has = remote[i].groups]
               \/ named = {} /\ Goto("create")
    /\ UNCHANGED <<kube, remote, faults, outside>>

\* Only a created user's id enters the status in memory at once; an adopted one's
\* does not.
Create(i) ==
    /\ At("create")
    /\ remote[i].state = "unused"
    /\ remote' = [remote EXCEPT ![i] =
                    [state |-> "live", name |-> job.mem.spec.name,
                     profile |-> job.mem.spec.profile, groups |-> {}]]
    /\ \/ /\ job' = [job EXCEPT !.pc = "groups", !.id = i, !.mem.userID = i]
          /\ UNCHANGED faults
       \/ Goto("errorStatus") /\ Fault
    /\ UNCHANGED <<kube, outside>>

NeedsUpdate(r) ==
    r.name # job.mem.spec.name \/ r.profile # job.mem.spec.profile

\* The answer to an update carries the memberships anew.
Update ==
    /\ At("update")
    /\ \/ /\ NeedsUpdate(remote[job.id])
          /\ remote' = [remote EXCEPT ![job.id] =
                          [@ EXCEPT !.name    = job.mem.spec.name,
                                    !.profile = job.mem.spec.profile]]
          /\ \/ /\ job' = [job EXCEPT !.pc = "groups",
                                      !.has = remote[job.id].groups]
                /\ UNCHANGED faults
             \/ Goto("errorStatus") /\ Fault
       \/ /\ ~NeedsUpdate(remote[job.id])
          /\ Goto("groups")
          /\ UNCHANGED <<remote, faults>>
    /\ UNCHANGED <<kube, outside>>
-------------------------------------------------------------------------------
(* syncGroupMemberships *)

\* Slip: only additions are looked for.
SyncGroupsAdding ==
    /\ At("groups")
    /\ LET want == {gid[g] : g \in job.mem.spec.refs} \ {None} IN
       job' = [job EXCEPT !.pc = IF want \subseteq job.has THEN "token"
                                                           ELSE "setGroups",
                          !.has = {}, !.want = want]
    /\ UNCHANGED <<kube, remote, faults, outside>>

\* References without a resource or an id are skipped.
SyncGroups ==
    /\ At("groups")
    /\ LET want == {gid[g] : g \in job.mem.spec.refs} \ {None} IN
       job' = [job EXCEPT !.pc = IF want = job.has THEN "token" ELSE "setGroups",
                          !.has = {}, !.want = want]
    /\ UNCHANGED <<kube, remote, faults, outside>>

\* PocketID ignores ids of groups it does not have.
SetGroups ==
    /\ At("setGroups")
    /\ remote' = [remote EXCEPT ![job.id].groups = job.want \cap LiveGroups]
    /\ \/ Goto("token") /\ UNCHANGED faults
       \/ Goto("errorStatus") /\ Fault
    /\ UNCHANGED <<kube, outside>>
-------------------------------------------------------------------------------
(* reconcileOnboarding and storeOneTimeAccessLink: their errors are only logged. *)

\* Slip: only the reconciliation that created the user makes its link.
CreateTokenForNew ==
    /\ At("token")
    /\ \/ /\ ~job.mem.spec.link \/ job.mem.link \/ job.mem.userID = job.base.userID
          /\ job' = [job EXCEPT !.pc = "finish", !.link = job.mem.link]
       \/ /\ job.mem.spec.link /\ ~job.mem.link
          /\ job.mem.userID # job.base.userID
          /\ job' = [job EXCEPT !.pc = "storeLink", !.secret = secret[job.c]]
    /\ UNCHANGED <<kube, remote, faults, outside>>

CreateToken ==
    /\ At("token")
    /\ \/ /\ ~job.mem.spec.link \/ job.mem.link
          /\ job' = [job EXCEPT !.pc = "finish", !.link = job.mem.link]
       \/ /\ job.mem.spec.link /\ ~job.mem.link
          /\ job' = [job EXCEPT !.pc = "storeLink", !.secret = secret[job.c]]
    /\ UNCHANGED <<kube, remote, faults, outside>>

\* Slip: a Secret that is there is left alone.
StoreLinkOnce ==
    /\ At("storeLink")
    /\ IF job.secret.state = "none" /\ secret[job.c].state = "none"
       THEN secret' = [secret EXCEPT ![job.c] = [state |-> "owned", user |-> job.id]]
       ELSE UNCHANGED secret
    /\ job' = [job EXCEPT !.pc = "finish", !.link = TRUE]
    /\ UNCHANGED <<obj, cache, remote, faults, outside>>

\* Create when the copy read was missing, else Update of that copy, which keeps
\* its owner.
StoreLink ==
    /\ At("storeLink")
    /\ LET stored == secret[job.c] IN
       \/ /\ \/ job.secret.state = "none" /\ stored.state = "none"
             \/ job.secret.state # "none" /\ stored = job.secret
          /\ secret' = [secret EXCEPT ![job.c] =
                          [state |-> IF stored.state = "none" THEN "owned"
                                                              ELSE stored.state,
                           user |-> job.id]]
          /\ job' = [job EXCEPT !.pc = "finish", !.link = TRUE,
                                !.secret = NoSecret]
       \/ /\ \/ job.secret.state = "none" /\ stored.state # "none"
             \/ job.secret.state # "none" /\ stored # job.secret
          /\ job' = [job EXCEPT !.pc = "finish", !.secret = NoSecret]
          /\ UNCHANGED secret
    /\ UNCHANGED <<obj, cache, remote, faults, outside>>
-------------------------------------------------------------------------------
(* The two ways a reconciliation reports. *)

\* The resource is read again and the status is written into that copy,
\* whichever generation it is.
Finish ==
    /\ At("finish")
    /\ LET o == cache[job.c] IN
       \/ /\ o.state # "absent" /\ o = obj[job.c]
          /\ obj' = [obj EXCEPT ![job.c] =
                       [o EXCEPT !.userID = job.id, !.link = o.link \/ job.link,
                                 !.ready = TRUE, !.observed = TRUE]]
       \/ (o.state = "absent" \/ o # obj[job.c]) /\ UNCHANGED obj
    /\ Done
    /\ UNCHANGED <<cache, secret, remote, faults, outside>>

\* updateErrorStatus writes the object in memory; its own failure is only logged.
WriteErrorStatus ==
    /\ At("errorStatus")
    /\ \/ /\ Current
          /\ obj' = [obj EXCEPT ![job.c] = [job.mem EXCEPT !.ready = FALSE,
                                                           !.observed = TRUE]]
       \/ ~Current /\ UNCHANGED obj
    /\ Done
    /\ UNCHANGED <<cache, secret, remote, faults, outside>>

\* A call fails without effect: errors of the user's calls reach the status, those
\* of the onboarding are only logged, others are returned as they are.
CallFails ==
    /\ Fault
    /\ \/ /\ \/ job.pc \in {"deleteRemote", "resolve", "create", "setGroups"}
             \/ At("update") /\ NeedsUpdate(remote[job.id])
          /\ Goto("errorStatus")
       \/ /\ \/ At("token") /\ job.mem.spec.link /\ ~job.mem.link
             \/ At("storeLink")
          /\ Goto("finish")
       \/ /\ job.pc \in {"addFinalizer", "removeFinalizer", "finish", "errorStatus"}
          /\ Done
    /\ UNCHANGED <<kube, remote, outside>>

\* The process stops and a new one fills its caches from the API server.
Crash ==
    /\ Fault
    /\ job # Idle
    /\ Done
    /\ cache' = obj
    /\ UNCHANGED <<obj, secret, remote, outside>>
-------------------------------------------------------------------------------
(* Users and the rest of the cluster. *)

CreateCR(u, s) ==
    /\ Edit
    /\ obj[u].state = "absent"
    /\ obj' = [obj EXCEPT ![u] = NewCR(s)]
    /\ UNCHANGED <<cache, secret, remote, gid, groupState,
                   instanceOK, job, faults>>

EditSpec(u, s) ==
    /\ Edit
    /\ obj[u].state = "live" /\ obj[u].spec # s
    /\ obj' = [obj EXCEPT ![u] = [@ EXCEPT !.spec = s, !.observed = FALSE]]
    /\ UNCHANGED <<cache, secret, remote, gid, groupState,
                   instanceOK, job, faults>>

RequestDelete(u) ==
    /\ Edit
    /\ obj[u].state = "live"
    /\ \/ /\ obj[u].finalizer
          /\ obj' = [obj EXCEPT ![u].state = "deleting"]
          /\ UNCHANGED secret
       \/ ~obj[u].finalizer /\ Drop(u)
    /\ UNCHANGED <<cache, remote, gid, groupState, instanceOK, job,
                   faults>>

DeleteSecret(u) ==
    /\ Edit
    /\ secret[u].state # "none"
    /\ secret' = [secret EXCEPT ![u] = NoSecret]
    /\ UNCHANGED <<obj, cache, remote, gid, groupState, instanceOK,
                   job, faults>>

FlipInstance ==
    /\ Edit
    /\ instanceOK' = ~instanceOK
    /\ UNCHANGED <<kube, remote, gid, groupState, job, faults>>

\* The group controller makes a group in PocketID, deletes one there, which ends
\* its memberships, or its resource shows another id.
MakeGroup(p) ==
    /\ Edit
    /\ groupState[p] = "unused"
    /\ groupState' = [groupState EXCEPT ![p] = "live"]
    /\ UNCHANGED <<kube, remote, gid, instanceOK, job, faults>>

DeleteGroup(p) ==
    /\ Edit
    /\ groupState[p] = "live"
    /\ groupState' = [groupState EXCEPT ![p] = "deleted"]
    /\ remote' = [i \in Ids |-> [remote[i] EXCEPT !.groups = @ \ {p}]]
    /\ UNCHANGED <<kube, gid, instanceOK, job, faults>>

ShowGroup(g, x) ==
    /\ Edit
    /\ gid[g] # x
    /\ x # None => groupState[x] # "unused"
    /\ gid' = [gid EXCEPT ![g] = x]
    /\ UNCHANGED <<kube, remote, groupState, instanceOK, job, faults>>

CacheSync(u) ==
    /\ cache[u] # obj[u]
    /\ cache' = [cache EXCEPT ![u] = obj[u]]
    /\ UNCHANGED <<obj, secret, remote, job, faults, outside>>

CollectSecret(u) ==
    /\ secret[u].state = "orphaned"
    /\ secret' = [secret EXCEPT ![u] = NoSecret]
    /\ UNCHANGED <<obj, cache, remote, job, faults, outside>>
-------------------------------------------------------------------------------
Worker ==
    \/ AddFinalizer \/ DeleteRemote \/ RemoveFinalizer
    \/ Resolve \/ (\E i \in Ids : Create(i)) \/ Update
    \/ SyncGroups \/ SetGroups \/ CreateToken \/ StoreLink
    \/ Finish \/ WriteErrorStatus

Cluster(u) == CacheSync(u) \/ CollectSecret(u)

Groupwork ==
    \/ \E p \in GroupIds : MakeGroup(p) \/ DeleteGroup(p)
    \/ \E g \in Groups, x \in GroupIds \cup {None} : ShowGroup(g, x)

Environment ==
    \/ \E u \in Users : \/ \E s \in Specs[u] : CreateCR(u, s) \/ EditSpec(u, s)
                        \/ RequestDelete(u) \/ DeleteSecret(u)
    \/ FlipInstance

Next ==
    \/ \E u \in Users : Begin(u) \/ Cluster(u)
    \/ Worker
    \/ CallFails \/ Crash
    \/ Environment \/ Groupwork

Spec == Init /\ [][Next]_vars

\* A success is requeued after five minutes, an error is retried, watches and the
\* garbage collector eventually deliver.
Fairness ==
    /\ WF_vars(Worker)
    /\ \A u \in Users : /\ WF_vars(Begin(u))
                        /\ WF_vars(CacheSync(u))
                        /\ WF_vars(CollectSecret(u))

FairSpec == Spec /\ Fairness
===============================================================================
