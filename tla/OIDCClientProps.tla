---------------------------- MODULE OIDCClientProps ----------------------------
(***************************************************************************)
(* What the PocketIDOIDCClient controller should guarantee, stated over    *)
(* the state of module OIDCClient.                                         *)
(***************************************************************************)
EXTENDS OIDCClient

NamesOf(c) == {s.name : s \in Specs[c]}

\* No two resources are ever given the same spec.name.
NamesDisjoint ==
    \A c, d \in Clients : c # d => NamesOf(c) \cap NamesOf(d) = {}

\* A resource, or every one, that users never give another spec.name.
NameFixed(c) == \A s, t \in Specs[c] : s.name = t.name
NamesFixed   == \A c \in Clients : NameFixed(c)

Fresh(c) == obj[c].state = "live" /\ obj[c].clientID # None
-------------------------------------------------------------------------------
(* Safety. *)

\* From the group resolution on, the resource the worker acts for exists and
\* holds the finalizer, however stale the copy it started from: nothing is
\* created in PocketID for a resource whose deletion would not come back here.
FinalizerHeld ==
    job.pc \in AfterFinalizer =>
        obj[job.c].state # "absent" /\ obj[job.c].finalizer

\* The inductive invariant behind FinalizerHeld: what the cached copy of a
\* resource, the copy the worker started from and the stored resource can be at
\* the same time.  Only the worker adds and removes the finalizer, so a copy that
\* shows a deletion, however old, excludes a finalizer added since.
Held(o)     == o.state # "absent" /\ o.finalizer
LiveHeld(o) == o.state = "live" /\ o.finalizer

CopiesInv ==
    \A c \in Clients :
        /\ LiveHeld(SeenClient(c)) => Held(obj[c])
        /\ SeenClient(c).state = "deleting" => ~LiveHeld(obj[c])

JobInv ==
    job.pc # "idle" =>
        /\ LiveHeld(job.base) => Held(obj[job.c])
        /\ job.base.state = "deleting" =>
              ~LiveHeld(obj[job.c]) /\ ~LiveHeld(SeenClient(job.c))
        /\ job.pc = "addFinalizer" =>
              /\ job.base.state = "live"
              /\ SeenClient(job.c).state = "deleting" => obj[job.c].state = "deleting"
        /\ job.pc \in AfterFinalizer => LiveHeld(job.base)
        /\ job.pc \in {"deleteRemote", "removeFinalizer"} =>
              job.base.state = "deleting"
        /\ job.base.state # "absent"
        /\ job.mem.state = job.base.state /\ job.mem.finalizer = job.base.finalizer
        /\ job.mem.spec = job.base.spec

FinalizerInv == CopiesInv /\ JobInv

\* A resource that is not being deleted never records a client that was deleted,
\* neither by an earlier incarnation of the resource nor by a stale deletion.
RecordedLive ==
    NamesDisjoint =>
        \A c \in Clients : Fresh(c) => remote[obj[c].clientID].state = "live"

\* Retries after lost answers, conflicts and crashes adopt the client they find
\* by name and never create a second one.
OneClientPerName ==
    \A i, j \in Live : remote[i].name = remote[j].name => i = j

\* A client whose every declared spec restricts it to user groups is never open
\* to all users, whatever happens to the groups meanwhile.
NeverUnrestricted ==
    \A i \in Live \ DOMAIN Existing :
        (\A c \in Clients : \A s \in Specs[c] :
            s.name = remote[i].name => s.refs # {}) => remote[i].groups # {}

\* Ready is written only after the client carries what this reconciliation read:
\* the copy's fields, the groups resolved, and a policy naming this very client.
FinishIsEarned ==
    job.pc = "finish" =>
        /\ job.id \in Live
        /\ remote[job.id].name = job.mem.spec.name
        /\ remote[job.id].conf = job.mem.spec.conf
        /\ remote[job.id].groups = job.groups
        /\ job.mem.spec.gateway => \/ policy[job.c].state = "none"
                                   \/ policy[job.c].id = job.id

\* The policy that guards a route names the client its resource records, and so
\* does the Secret made for it, if users never rename the client: neither a crash
\* before the id is recorded nor a predecessor's leftovers make them disagree.
NamesRecorded ==
    \A c \in Clients :
        (NameFixed(c) /\ Fresh(c)) =>
            /\ policy[c].state = "owned" => policy[c].id = obj[c].clientID
            /\ secret[c].state = "owned" => secret[c].id = obj[c].clientID
-------------------------------------------------------------------------------
(* Action properties. *)

\* As long as a resource lives its recorded client is not replaced by another.
IdStable ==
    [][\A c \in Clients :
          (Fresh(c) /\ obj'[c].state # "absent") => obj'[c].clientID = obj[c].clientID]_vars

\* The Secret of c holds a key that PocketID no longer accepts for its client.
KeyRefused(c) ==
    LET s == secret[c] IN
    s.key # None /\ s.id \in Live /\ s.key # remote[s.id].key

\* Unless two resources share a name, credentials in use stop working in one way
\* only: the key is rotated because of a copy of the resource's own Secret that is
\* behind the stored one.  No other resource's reconciliation does it, no renaming,
\* no re-creation over what a predecessor left, and no write ever stores a key that
\* PocketID does not accept.
CredentialsKept ==
    [][NamesDisjoint =>
          \A c \in Clients :
              KeyRefused(c)' =>
                  \/ KeyRefused(c)
                  \/ At("generate") /\ job.c = c /\ job.secret # secret[c]]_vars
-------------------------------------------------------------------------------
(* The controller implements the lifecycle of remote objects. *)

Phase(o) == IF o.state = "live"
            THEN IF o.finalizer THEN "managed" ELSE "declared"
            ELSE o.state

Abstract == INSTANCE Lifecycle WITH
    Resources <- Clients,
    Objects   <- Ids,
    phase     <- [c \in Clients |-> Phase(obj[c])],
    recorded  <- [c \in Clients |-> obj[c].clientID],
    object    <- [i \in Ids |-> remote[i].state]

Implements == Abstract!Spec
-------------------------------------------------------------------------------
(* Liveness, under FairSpec. *)

Serviceable(c) ==
    /\ instanceOK
    /\ obj[c].spec.gateway => routeOK
    /\ \A g \in obj[c].spec.refs : gid[g] # None

Synced(c) ==
    /\ obj[c].ready /\ obj[c].observed
    /\ \E i \in Live :
         LET r == remote[i]
             s == obj[c].spec
         IN /\ obj[c].clientID = i
            /\ r.name = s.name /\ r.conf = s.conf
            /\ r.groups = {gid[g] : g \in s.refs}

\* Once users and the cluster leave a resource alone, it becomes and stays
\* synced, with its latest spec, if what it refers to is there.
Converges ==
    \A c \in Clients :
        (<>[](obj[c].state = "live" /\ ~obj[c].spec.gateway /\ Serviceable(c)))
            => <>[]Synced(c)

\* A requested deletion completes if the instance stays reachable.  It rests on the
\* assumption that PocketID answers the repeated deletion of a client like the
\* first: the code takes any status >= 400 for an error (internal/pocketid/client.go:68).
DeletionCompletes ==
    (<>[]instanceOK) =>
        \A c \in Clients : obj[c].state = "deleting" ~> obj[c].state = "absent"

\* And the Secret then holds the credentials of that client.
CredentialsSettle ==
    \A c \in Clients :
        (<>[](obj[c].state = "live" /\ obj[c].spec.creds
                /\ ~obj[c].spec.gateway /\ Serviceable(c)))
            => <>[](\E i \in Live : /\ obj[c].clientID = i
                                   /\ secret[c].id = i
                                   /\ secret[c].key = remote[i].key)
-------------------------------------------------------------------------------
(* Claims of the documentation that the code does not keep. *)

\* README.md:242: finalizers prevent deletion before the cleanup in PocketID.
\* Once all resources are gone and the worker rests, no client they created is
\* left in PocketID.
CleanedUp ==
    (job = Idle /\ \A c \in Clients : obj[c].state = "absent")
        => Live \subseteq DOMAIN Existing

\* pocketidoidcclient_types.go:52: the operator creates and updates the Secret with
\* the client's credentials.  So what it stores for a client in use is the key that
\* PocketID accepts, except between the rotation and the write that follows it.
CredentialsCurrent ==
    \A c \in Clients :
        LET s == secret[c] IN
        (s.key # None /\ s.id \in Live /\ ~(At("storeSecret") /\ job.id = s.id))
            => s.key = remote[s.id].key

\* README.md:163: with envoy-gateway the operator creates an OIDC client and a
\* SecurityPolicy that protects the route.  So the policy is there some time after
\* all that it needs is.
GatewaySettles ==
    \A c \in Clients :
        (<>[](obj[c].state = "live" /\ obj[c].spec.gateway
                /\ obj[c].spec.creds /\ Serviceable(c)))
            => <>[](policy[c].state # "none")
===============================================================================
