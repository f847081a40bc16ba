------------------------------ MODULE OIDCClient ------------------------------
(***************************************************************************)
(* The PocketIDOIDCClient controller                                       *)
(* (src/internal/controller/pocketidoidcclient_controller.go and           *)
(* securitypolicy.go): one worker that reconciles PocketIDOIDCClient       *)
(* resources into OIDC clients of a PocketID server, a credentials Secret  *)
(* and an Envoy Gateway SecurityPolicy.                                    *)
(*                                                                         *)
(* The worker reads resources through an informer cache that may lag the   *)
(* API server and writes them to the API server under optimistic           *)
(* concurrency.  Every remote call and every write is a step of its own,   *)
(* so users, the garbage collector, the cache and crashes interleave with  *)
(* it wherever the code gives up control.                                  *)
(***************************************************************************)
EXTENDS Naturals, FiniteSets

CONSTANTS
    Clients,    \* the PocketIDOIDCClient resources, by namespace/name
    Names,      \* values of spec.name, the name of a client in PocketID
    Confs,      \* the other synced fields: callbackURLs, isPublic, pkceEnabled
    Groups,     \* the PocketIDUserGroup resources clients may refer to
    GroupIds,   \* values of a user group's status.groupId
    Ids,        \* ids PocketID gives to OIDC clients, never reused
    Keys,       \* client secrets PocketID generates
    None,       \* an empty status field, a missing key
    Specs,      \* Specs[c]: the specs users give to c
    Existing,   \* id -> name of the clients PocketID holds from the start
    PreCreated, \* resources whose Secret the user created beforehand
    Lagging,    \* which informer caches may lag: a subset of {"client", "secret"}
    PageSize,   \* how many clients one answer of the list call holds
    MaxFaults,  \* bound: failed calls, lost answers and crashes
    MaxEdits    \* bound: steps of users and of the rest of the cluster

ClientSpec ==
    [name : Names, conf : Confs, refs : SUBSET Groups,
     creds : BOOLEAN,    \* not public and credentialsSecretRef given
     gateway : BOOLEAN]  \* envoyGateway.enabled

ASSUME NoneAssumption ==
    None \notin Clients \cup Ids \cup GroupIds \cup Keys
ASSUME SpecsAssumption ==
    Specs \in [Clients -> (SUBSET ClientSpec) \ {{}}]
ASSUME ExistingAssumption ==
    \E S \in SUBSET Ids : Existing \in [S -> Names]
ASSUME InitialValuesAssumption ==
    Confs # {} /\ Names # {}
ASSUME BoundsAssumption ==
    MaxFaults \in Nat /\ MaxEdits \in Nat /\ PageSize \in Nat

VARIABLES
    obj,          \* obj[c]: the resource c as the API server stores it
    cache,        \* cache[c]: the informer's copy of it
    remote,       \* remote[i]: the OIDC client with id i in PocketID
    secret,       \* secret[c]: the credentials Secret of c
    secretCache,  \* secretCache[c]: the informer's copy of it
    policy,       \* policy[c]: the SecurityPolicy of c
    gid,          \* gid[g]: the id user group g resolves to, None if it does not
    instanceOK,   \* the instance, its permission and its API key resolve
    routeOK,      \* the HTTPRoute the gateway refers to is usable
    job,          \* what the worker is doing
    faults,       \* faults so far
    edits         \* steps of users and the rest of the cluster so far

vars == <<obj, cache, remote, secret, secretCache, policy, gid, instanceOK,
          routeOK, job, faults, edits>>

kube   == <<obj, cache, secret, secretCache, policy>>
others == <<gid, instanceOK, routeOK, edits>>
-------------------------------------------------------------------------------
(* The resources.  A write to the API server succeeds exactly when the copy *)
(* it starts from is still what the server stores: equality of contents     *)
(* stands for equality of resourceVersions.                                 *)

CR == [state : {"absent", "live", "deleting"}, finalizer : BOOLEAN,
       spec : ClientSpec, clientID : Ids \cup {None}, credName : BOOLEAN,
       policyName : BOOLEAN, ready : BOOLEAN, observed : BOOLEAN]

NewCR(s) == [state |-> "live", finalizer |-> FALSE, spec |-> s,
             clientID |-> None, credName |-> FALSE, policyName |-> FALSE,
             ready |-> FALSE, observed |-> FALSE]

NoCR(c) == [NewCR(CHOOSE s \in Specs[c] : TRUE) EXCEPT !.state = "absent"]

Secret == [state : {"none", "owned", "orphaned", "foreign"},
           id : Ids \cup {None}, key : Keys \cup {None}]

NoSecret == [state |-> "none", id |-> None, key |-> None]

Policy == [state : {"none", "owned", "orphaned"}, id : Ids \cup {None}]

NoPolicy == [state |-> "none", id |-> None]

\* An object owned by a resource that is gone waits for the garbage collector.
Disown(o) == IF o.state = "owned" THEN [o EXCEPT !.state = "orphaned"] ELSE o

SeenClient(c) == IF "client" \in Lagging THEN cache[c] ELSE obj[c]
SeenSecret(c) == IF "secret" \in Lagging THEN secretCache[c] ELSE secret[c]
-------------------------------------------------------------------------------
(* PocketID. *)

Remote == [state : {"unused", "live", "deleted"}, name : Names, conf : Confs,
           groups : SUBSET GroupIds, key : Keys \cup {None}]

Live == {i \in Ids : remote[i].state = "live"}

\* What the list call can answer: its first page, in an order of its own.
Pages == {P \in SUBSET Live :
             IF Cardinality(Live) <= PageSize THEN P = Live
                                              ELSE Cardinality(P) = PageSize}

InitialRemote(i) ==
    [state |-> IF i \in DOMAIN Existing THEN "live" ELSE "unused",
     name  |-> IF i \in DOMAIN Existing THEN Existing[i]
                                        ELSE CHOOSE n \in Names : TRUE,
     conf  |-> CHOOSE x \in Confs : TRUE, groups |-> {}, key |-> None]
-------------------------------------------------------------------------------
(* The worker.  base is the copy the reconciliation started from, mem the  *)
(* object in memory, whose status the code fills in as it goes.            *)

AfterFinalizer == {"groups", "resolve", "create", "update", "ensureSecret",
                   "generate", "storeSecret", "ensurePolicy", "finish"}

Busy == AfterFinalizer
          \cup {"addFinalizer", "deleteRemote", "removeFinalizer", "errorStatus"}

Job == [pc : Busy, c : Clients, base : CR, mem : CR, id : Ids \cup {None},
        groups : SUBSET GroupIds, secret : Secret, key : Keys \cup {None}]

Idle == [pc |-> "idle"]

At(pc)   == job.pc = pc
Goto(pc) == job' = [job EXCEPT !.pc = pc]
Done     == job' = Idle
Fault    == faults < MaxFaults /\ faults' = faults + 1
Edit     == edits < MaxEdits /\ edits' = edits + 1

Current  == job.base = obj[job.c]

\* From these steps on the client the worker acts on is known.
Resolved == {"update", "ensureSecret", "generate", "storeSecret", "ensurePolicy",
             "finish"}

JobOK == job \in {Idle} \cup Job /\ (job.pc \in Resolved => job.id \in Ids)

TypeOK ==
    /\ obj \in [Clients -> CR]
    /\ cache \in [Clients -> CR]
    /\ remote \in [Ids -> Remote]
    /\ secret \in [Clients -> Secret]
    /\ secretCache \in [Clients -> Secret]
    /\ policy \in [Clients -> Policy]
    /\ gid \in [Groups -> GroupIds \cup {None}]
    /\ instanceOK \in BOOLEAN
    /\ routeOK \in BOOLEAN
    /\ JobOK
    /\ faults \in 0..MaxFaults
    /\ edits \in 0..MaxEdits

InitialSecret(c) ==
    IF c \in PreCreated THEN [NoSecret EXCEPT !.state = "foreign"] ELSE NoSecret

Init ==
    /\ obj = [c \in Clients |-> NoCR(c)]
    /\ cache = obj
    /\ remote = [i \in Ids |-> InitialRemote(i)]
    /\ secret = [c \in Clients |-> InitialSecret(c)]
    /\ secretCache = secret
    /\ policy = [c \in Clients |-> NoPolicy]
    /\ gid = [g \in Groups |-> None]
    /\ instanceOK = TRUE
    /\ routeOK = TRUE
    /\ job = Idle
    /\ faults = 0
    /\ edits = 0
-------------------------------------------------------------------------------
(* Reconcile up to the first write. *)

Start(c, pc) ==
    job' = [pc |-> pc, c |-> c, base |-> SeenClient(c), mem |-> SeenClient(c),
            id |-> None, groups |-> {}, secret |-> NoSecret, key |-> None]

\* The request for c is taken from the queue and the cached copy is read.  The
\* instance, the permission to use it and its API key are resolved before
\* anything else, for a deletion too.
Begin(c) ==
    /\ job = Idle
    /\ LET o == SeenClient(c) IN
       \/ o.state # "absent" /\ ~instanceOK /\ Start(c, "errorStatus")
       \/ /\ o.state = "deleting" /\ o.finalizer /\ instanceOK
          /\ \/ o.clientID # None /\ Start(c, "deleteRemote")
             \/ o.clientID = None /\ Start(c, "removeFinalizer")
       \/ /\ o.state = "live" /\ instanceOK
          /\ \/ ~o.finalizer /\ Start(c, "addFinalizer")
             \/ o.finalizer /\ Start(c, "groups")
    /\ UNCHANGED <<kube, remote, faults, others>>

\* Slip: the error of the Update is ignored.
AddFinalizerIgnoringConflict ==
    /\ At("addFinalizer")
    /\ obj' = IF Current THEN [obj EXCEPT ![job.c].finalizer = TRUE] ELSE obj
    /\ Goto("groups")
    /\ UNCHANGED <<cache, secret, secretCache, policy, remote, faults, others>>

\* The Update answers with the stored object, which replaces the copy.
AddFinalizer ==
    /\ At("addFinalizer")
    /\ \/ /\ Current
          /\ obj' = [obj EXCEPT ![job.c].finalizer = TRUE]
          /\ job' = [job EXCEPT !.pc = "groups", !.base.finalizer = TRUE,
                                !.mem.finalizer = TRUE]
       \/ ~Current /\ Done /\ UNCHANGED obj
    /\ UNCHANGED <<cache, secret, secretCache, policy, remote, faults, others>>
-------------------------------------------------------------------------------
(* handleDeletion *)

\* Slip: a client that is already gone counts as an error.
DeleteRemoteStrictly ==
    /\ At("deleteRemote")
    /\ remote' = [remote EXCEPT ![job.base.clientID].state = "deleted"]
    /\ \/ /\ job.base.clientID \in Live
          /\ \/ Goto("removeFinalizer") /\ UNCHANGED faults
             \/ Goto("errorStatus") /\ Fault
       \/ job.base.clientID \notin Live /\ Goto("errorStatus") /\ UNCHANGED faults
    /\ UNCHANGED <<kube, others>>

\* PocketID answers a delete of an unknown client like one that succeeds.
DeleteRemote ==
    /\ At("deleteRemote")
    /\ remote' = [remote EXCEPT ![job.base.clientID].state = "deleted"]
    /\ \/ Goto("removeFinalizer") /\ UNCHANGED faults
       \/ Goto("errorStatus") /\ Fault
    /\ UNCHANGED <<kube, others>>

\* Once its last finalizer is gone the API server drops the resource.
Drop(c) ==
    /\ obj' = [obj EXCEPT ![c] = NoCR(c)]
    /\ secret' = [secret EXCEPT ![c] = Disown(@)]
    /\ policy' = [policy EXCEPT ![c] = Disown(@)]

\* Slip: a patch without a resourceVersion.
RemoveFinalizerBlindly ==
    /\ At("removeFinalizer")
    /\ Drop(job.c)
    /\ Done
    /\ UNCHANGED <<cache, secretCache, remote, faults, others>>

RemoveFinalizer ==
    /\ At("removeFinalizer")
    /\ \/ Current /\ Drop(job.c)
       \/ ~Current /\ UNCHANGED <<obj, secret, policy>>
    /\ Done
    /\ UNCHANGED <<cache, secretCache, remote, faults, others>>
-------------------------------------------------------------------------------
(* resolveAllowedUserGroups and resolveOrCreateClient *)

\* Slip: groups that do not resolve are skipped.
ResolveGroupsSkipping ==
    /\ At("groups")
    /\ job' = [job EXCEPT !.pc = "resolve",
                          !.groups = {gid[g] : g \in job.mem.spec.refs} \ {None}]
    /\ UNCHANGED <<kube, remote, faults, others>>

ResolveGroups ==
    /\ At("groups")
    /\ LET ids == {gid[g] : g \in job.mem.spec.refs} IN
       \/ None \in ids /\ Goto("errorStatus")
       \/ /\ None \notin ids
          /\ job' = [job EXCEPT !.pc = "resolve", !.groups = ids]
    /\ UNCHANGED <<kube, remote, faults, others>>

\* Slip: a resource without a recorded client gets a new one unlisted.
ResolveUnlisted ==
    /\ At("resolve")
    /\ \/ /\ job.mem.clientID \in Live
          /\ job' = [job EXCEPT !.pc = "update", !.id = job.mem.clientID]
       \/ job.mem.clientID \notin Live \cup {None} /\ Goto("errorStatus")
       \/ job.mem.clientID = None /\ Goto("create")
    /\ UNCHANGED <<kube, remote, faults, others>>

\* Slip: the listing is not compared with spec.name.
ResolveAnyName ==
    /\ At("resolve")
    /\ \/ /\ job.mem.clientID \in Live
          /\ job' = [job EXCEPT !.pc = "update", !.id = job.mem.clientID]
       \/ job.mem.clientID \notin Live \cup {None} /\ Goto("errorStatus")
       \/ /\ job.mem.clientID = None
          /\ \/ \E i \in Live : job' = [job EXCEPT !.pc = "update", !.id = i]
             \/ Live = {} /\ Goto("create")
    /\ UNCHANGED <<kube, remote, faults, others>>

\* Slip: the loop copies the wrong variable, so the client found is lost.
ResolveLosingId ==
    /\ At("resolve")
    /\ Goto(IF \E i \in Live : remote[i].name = job.mem.spec.name
            THEN "update" ELSE "create")
    /\ UNCHANGED <<kube, remote, faults, others>>

\* Slip: a recorded client is returned before it is compared with the spec.
ResolveWithoutUpdate ==
    /\ At("resolve")
    /\ \/ /\ job.mem.clientID \in Live
          /\ job' = [job EXCEPT !.pc = "ensureSecret", !.id = job.mem.clientID]
       \/ job.mem.clientID \notin Live \cup {None} /\ Goto("errorStatus")
       \/ /\ job.mem.clientID = None
          /\ LET named == {i \in Live : remote[i].name = job.mem.spec.name} IN
             \/ \E i \in named : job' = [job EXCEPT !.pc = "update", !.id = i]
             \/ named = {} /\ Goto("create")
    /\ UNCHANGED <<kube, remote, faults, others>>

\* A recorded client is fetched by id.  Otherwise the first client of that name
\* in the listing is adopted, and only if there is none one is created.
Resolve ==
    /\ At("resolve")
    /\ \/ /\ job.mem.clientID # None
          /\ \/ /\ job.mem.clientID \in Live
                /\ job' = [job EXCEPT !.pc = "update", !.id = job.mem.clientID]
             \/ job.mem.clientID \notin Live /\ Goto("errorStatus")
       \/ /\ job.mem.clientID = None
          /\ \E page \in Pages :
               LET named == {i \in page : remote[i].name = job.mem.spec.name} IN
               \/ \E i \in named : job' = [job EXCEPT !.pc = "update", !.id = i]
               \/ named = {} /\ Goto("create")
    /\ UNCHANGED <<kube, remote, faults, others>>

\* Only a created client's id enters the status in memory at once; an adopted
\* one's does not.
Create(i) ==
    /\ At("create")
    /\ remote[i].state = "unused"
    /\ remote' = [remote EXCEPT ![i] =
                    [state |-> "live", name |-> job.mem.spec.name,
                     conf |-> job.mem.spec.conf, groups |-> job.groups,
                     key |-> None]]
    /\ \/ /\ job' = [job EXCEPT !.pc = "ensureSecret", !.id = i,
                                !.mem.clientID = i]
          /\ UNCHANGED faults
       \/ Goto("errorStatus") /\ Fault
    /\ UNCHANGED <<kube, others>>

\* Slip: the group restriction is not compared.
NeedsUpdateButGroups(r) ==
    r.name # job.mem.spec.name \/ r.conf # job.mem.spec.conf

NeedsUpdate(r) ==
    \/ r.name # job.mem.spec.name
    \/ r.conf # job.mem.spec.conf
    \/ r.groups # job.groups

Update ==
    /\ At("update")
    /\ \/ /\ NeedsUpdate(remote[job.id])
          /\ remote' = [remote EXCEPT ![job.id] =
                          [@ EXCEPT !.name = job.mem.spec.name,
                                    !.conf = job.mem.spec.conf,
                                    !.groups = job.groups]]
          /\ \/ Goto("ensureSecret") /\ UNCHANGED faults
             \/ Goto("errorStatus") /\ Fault
       \/ /\ ~NeedsUpdate(remote[job.id])
          /\ Goto("ensureSecret")
          /\ UNCHANGED <<remote, faults>>
    /\ UNCHANGED <<kube, others>>
-------------------------------------------------------------------------------
(* ensureCredentialsSecret *)

\* Slip: the key looked for is not the key written.
EnsureSecretRotating ==
    /\ At("ensureSecret")
    /\ \/ ~job.mem.spec.creds /\ Goto("ensurePolicy")
       \/ /\ job.mem.spec.creds
          /\ job' = [job EXCEPT !.pc = "generate", !.secret = SeenSecret(job.c)]
    /\ UNCHANGED <<kube, remote, faults, others>>

\* Slip: the status is trusted instead of the Secret.
EnsureSecretByStatus ==
    /\ At("ensureSecret")
    /\ \/ /\ ~job.mem.spec.creds \/ job.mem.credName
          /\ Goto("ensurePolicy")
       \/ /\ job.mem.spec.creds /\ ~job.mem.credName
          /\ job' = [job EXCEPT !.pc = "generate", !.secret = SeenSecret(job.c)]
    /\ UNCHANGED <<kube, remote, faults, others>>

EnsureSecret ==
    /\ At("ensureSecret")
    /\ LET s == SeenSecret(job.c) IN
       \/ /\ ~job.mem.spec.creds \/ s.key # None
          /\ Goto("ensurePolicy")
       \/ /\ job.mem.spec.creds /\ s.key = None
          /\ job' = [job EXCEPT !.pc = "generate", !.secret = s]
    /\ UNCHANGED <<kube, remote, faults, others>>

\* PocketID replaces the client's secret: the previous one stops working.  An
\* error of this call is returned as it is, without an error status.
Generate ==
    /\ At("generate")
    /\ \E k \in Keys \ {remote[job.id].key} :
         /\ remote' = [remote EXCEPT ![job.id].key = k]
         /\ \/ /\ job' = [job EXCEPT !.pc = "storeSecret", !.key = k]
               /\ UNCHANGED faults
            \/ Done /\ Fault
    /\ UNCHANGED <<kube, others>>

\* Create when the copy read was missing, else Update of that copy.
StoreSecret ==
    /\ At("storeSecret")
    /\ LET stored == secret[job.c] IN
       \/ /\ \/ job.secret.state = "none" /\ stored.state = "none"
             \/ job.secret.state # "none" /\ stored = job.secret
          /\ secret' = [secret EXCEPT ![job.c] =
                          [state |-> IF stored.state = "none" THEN "owned"
                                                              ELSE stored.state,
                           id |-> job.id, key |-> job.key]]
          /\ job' = [job EXCEPT !.pc = "ensurePolicy", !.mem.credName = TRUE]
       \/ /\ \/ job.secret.state = "none" /\ stored.state # "none"
             \/ job.secret.state # "none" /\ stored # job.secret
          /\ Done
          /\ UNCHANGED secret
    /\ UNCHANGED <<obj, cache, secretCache, policy, remote, faults, others>>
-------------------------------------------------------------------------------
(* ensureSecurityPolicy.  SecurityPolicies are read from the API server.   *)

PolicyReady == job.mem.clientID # None /\ job.mem.credName /\ routeOK

\* A policy is removed when the gateway is disabled; that it could not be read is
\* not an error, and its name is forgotten all the same.
EnsurePolicy ==
    /\ At("ensurePolicy")
    /\ \/ /\ ~job.mem.spec.gateway /\ job.mem.policyName
          /\ \/ policy' = [policy EXCEPT ![job.c] = NoPolicy] /\ UNCHANGED faults
             \/ Fault /\ UNCHANGED policy
          /\ job' = [job EXCEPT !.pc = "finish", !.mem.policyName = FALSE]
       \/ /\ ~job.mem.spec.gateway /\ ~job.mem.policyName
          /\ Goto("finish")
          /\ UNCHANGED <<policy, faults>>
       \/ /\ job.mem.spec.gateway /\ PolicyReady
          /\ policy' = [policy EXCEPT ![job.c] =
                          [state |-> IF @.state = "none" THEN "owned" ELSE @.state,
                           id |-> job.mem.clientID]]
          /\ job' = [job EXCEPT !.pc = "finish", !.mem.policyName = TRUE]
          /\ UNCHANGED faults
       \/ /\ job.mem.spec.gateway /\ ~PolicyReady
          /\ Goto("errorStatus")
          /\ UNCHANGED <<policy, faults>>
    /\ UNCHANGED <<obj, cache, secret, secretCache, remote, others>>
-------------------------------------------------------------------------------
(* The two ways a reconciliation reports. *)

\* The resource is read again and the status fields are written into that copy,
\* whichever generation it is.
Finish ==
    /\ At("finish")
    /\ LET o == SeenClient(job.c) IN
       \/ /\ o.state # "absent" /\ o = obj[job.c]
          /\ obj' = [obj EXCEPT ![job.c] =
                       [o EXCEPT !.clientID = job.id,
                                 !.credName = job.mem.credName,
                                 !.policyName = job.mem.policyName,
                                 !.ready = TRUE, !.observed = TRUE]]
       \/ (o.state = "absent" \/ o # obj[job.c]) /\ UNCHANGED obj
    /\ Done
    /\ UNCHANGED <<cache, secret, secretCache, policy, remote, faults, others>>

\* Slip: a patch of the status without a resourceVersion.
WriteErrorStatusBlindly ==
    /\ At("errorStatus")
    /\ obj' = IF obj[job.c].state = "absent" THEN obj
              ELSE [obj EXCEPT ![job.c].clientID = job.mem.clientID,
                               ![job.c].ready = FALSE, ![job.c].observed = TRUE]
    /\ Done
    /\ UNCHANGED <<cache, secret, secretCache, policy, remote, faults, others>>

\* updateErrorStatus writes the object in memory; its own failure is only logged.
WriteErrorStatus ==
    /\ At("errorStatus")
    /\ \/ /\ Current
          /\ obj' = [obj EXCEPT ![job.c] = [job.mem EXCEPT !.ready = FALSE,
                                                           !.observed = TRUE]]
       \/ ~Current /\ UNCHANGED obj
    /\ Done
    /\ UNCHANGED <<cache, secret, secretCache, policy, remote, faults, others>>
-------------------------------------------------------------------------------
(* Faults. *)

\* A call fails without effect.  Some errors are reported in the status, others
\* are returned as they are.
CallFails ==
    /\ Fault
    /\ \/ /\ \/ job.pc \in {"deleteRemote", "resolve", "create"}
             \/ At("groups") /\ job.mem.spec.refs # {}
             \/ At("update") /\ NeedsUpdate(remote[job.id])
             \/ At("ensurePolicy") /\ (job.mem.spec.gateway \/ job.mem.policyName)
          /\ Goto("errorStatus")
       \/ /\ \/ job.pc \in {"addFinalizer", "removeFinalizer", "generate",
                            "storeSecret", "finish", "errorStatus"}
             \/ At("ensureSecret") /\ job.mem.spec.creds
          /\ Done
    /\ UNCHANGED <<kube, remote, others>>

\* The process stops and a new one fills its caches from the API server.
Crash ==
    /\ Fault
    /\ job # Idle
    /\ Done
    /\ cache' = obj
    /\ secretCache' = secret
    /\ UNCHANGED <<obj, secret, policy, remote, others>>
-------------------------------------------------------------------------------
(* Users and the rest of the cluster. *)

CreateCR(c, s) ==
    /\ Edit
    /\ obj[c].state = "absent"
    /\ obj' = [obj EXCEPT ![c] = NewCR(s)]
    /\ UNCHANGED <<cache, remote, secret, secretCache, policy, gid, instanceOK,
                   routeOK, job, faults>>

EditSpec(c, s) ==
    /\ Edit
    /\ obj[c].state = "live" /\ obj[c].spec # s
    /\ obj' = [obj EXCEPT ![c] = [@ EXCEPT !.spec = s, !.observed = FALSE]]
    /\ UNCHANGED <<cache, remote, secret, secretCache, policy, gid, instanceOK,
                   routeOK, job, faults>>

RequestDelete(c) ==
    /\ Edit
    /\ obj[c].state = "live"
    /\ \/ /\ obj[c].finalizer
          /\ obj' = [obj EXCEPT ![c].state = "deleting"]
          /\ UNCHANGED <<secret, policy>>
       \/ ~obj[c].finalizer /\ Drop(c)
    /\ UNCHANGED <<cache, remote, secretCache, gid, instanceOK, routeOK, job,
                   faults>>

DeleteSecret(c) ==
    /\ Edit
    /\ secret[c].state # "none"
    /\ secret' = [secret EXCEPT ![c] = NoSecret]
    /\ UNCHANGED <<obj, cache, remote, secretCache, policy, gid, instanceOK,
                   routeOK, job, faults>>

\* The user group controller records a group's id; a group is deleted.
ChangeGroup(g, x) ==
    /\ Edit
    /\ gid[g] # x
    /\ gid' = [gid EXCEPT ![g] = x]
    /\ UNCHANGED <<kube, remote, instanceOK, routeOK, job, faults>>

FlipInstance ==
    /\ Edit
    /\ instanceOK' = ~instanceOK
    /\ UNCHANGED <<kube, remote, gid, routeOK, job, faults>>

FlipRoute ==
    /\ Edit
    /\ routeOK' = ~routeOK
    /\ UNCHANGED <<kube, remote, gid, instanceOK, job, faults>>

CacheSync(c) ==
    /\ "client" \in Lagging
    /\ cache[c] # obj[c]
    /\ cache' = [cache EXCEPT ![c] = obj[c]]
    /\ UNCHANGED <<obj, secret, secretCache, policy, remote, job, faults, others>>

SecretSync(c) ==
    /\ "secret" \in Lagging
    /\ secretCache[c] # secret[c]
    /\ secretCache' = [secretCache EXCEPT ![c] = secret[c]]
    /\ UNCHANGED <<obj, cache, secret, policy, remote, job, faults, others>>

CollectSecret(c) ==
    /\ secret[c].state = "orphaned"
    /\ secret' = [secret EXCEPT ![c] = NoSecret]
    /\ UNCHANGED <<obj, cache, secretCache, policy, remote, job, faults, others>>

CollectPolicy(c) ==
    /\ policy[c].state = "orphaned"
    /\ policy' = [policy EXCEPT ![c] = NoPolicy]
    /\ UNCHANGED <<obj, cache, secret, secretCache, remote, job, faults, others>>
-------------------------------------------------------------------------------
Worker ==
    \/ AddFinalizer \/ DeleteRemote \/ RemoveFinalizer
    \/ ResolveGroups \/ Resolve \/ (\E i \in Ids : Create(i)) \/ Update
    \/ EnsureSecret \/ Generate \/ StoreSecret
    \/ EnsurePolicy \/ Finish \/ WriteErrorStatus

Cluster(c) ==
    CacheSync(c) \/ SecretSync(c) \/ CollectSecret(c) \/ CollectPolicy(c)

Environment ==
    \/ \E c \in Clients : \/ \E s \in Specs[c] : CreateCR(c, s) \/ EditSpec(c, s)
                          \/ RequestDelete(c) \/ DeleteSecret(c)
    \/ \E g \in Groups, x \in GroupIds \cup {None} : ChangeGroup(g, x)
    \/ FlipInstance \/ FlipRoute

Next ==
    \/ \E c \in Clients : Begin(c) \/ Cluster(c)
    \/ Worker
    \/ CallFails \/ Crash
    \/ Environment

Spec == Init /\ [][Next]_vars

\* Every request is served again: a success is requeued after five minutes, an
\* error is retried.  Watches and the garbage collector eventually deliver.
Fairness ==
    /\ WF_vars(Worker)
    /\ \A c \in Clients : /\ WF_vars(Begin(c))
                          /\ WF_vars(CacheSync(c)) /\ WF_vars(SecretSync(c))
                          /\ WF_vars(CollectSecret(c)) /\ WF_vars(CollectPolicy(c))

FairSpec == Spec /\ Fairness
===============================================================================
