--------------------------- MODULE OIDCClientRecords ---------------------------
(***************************************************************************)
(* What the PocketIDOIDCClient controller leaves behind is what it read:   *)
(* the client in PocketID, its restriction to groups, the Secret and the   *)
(* SecurityPolicy agree, for every instance of it.                         *)
(***************************************************************************)
EXTENDS OIDCClientOwnership, FiniteSetTheorems
-------------------------------------------------------------------------------
(* The invariant of one reconciliation.  None of it depends on the names   *)
(* that users give.                                                        *)

\* From these steps on the groups of the spec are resolved, and from those on
\* the client carries what the spec says.
AfterGroups == {"resolve", "create"} \cup Resolved
Written     == Resolved \ {"update"}

\* A spec that names groups is resolved to some.
GroupsInv ==
    (job.pc \in AfterGroups /\ job.mem.spec.refs # {}) => job.groups # {}

\* The client the worker acts on exists and, once written, stays as written: no
\* other worker touches it.
EarnedInv ==
    /\ job.pc \in Resolved =>
         job.id \in Live /\ job.mem.clientID \in {None, job.id}
    /\ job.pc \in Written =>
         /\ remote[job.id].name = job.mem.spec.name
         /\ remote[job.id].conf = job.mem.spec.conf
         /\ remote[job.id].groups = job.groups

\* The policy written last names that client; it may have been collected since.
PolicyInv ==
    (job.pc = "finish" /\ job.mem.spec.gateway) =>
        policy[job.c].state = "none" \/ policy[job.c].id = job.id

\* The secret that is about to be stored is the one PocketID made last.
KeyInv == job.pc = "storeSecret" => remote[job.id].key = job.key

\* The parts of the invariant.
WorkInv == GroupsInv /\ EarnedInv /\ PolicyInv /\ KeyInv

\* All that its inductive step may assume.
WorkAll == CoreInv /\ WorkInv
-------------------------------------------------------------------------------
(* What a step can do to it. *)

\* While the worker waits, policies are only disowned or collected.
PolicyMove(c) ==
    \/ /\ policy'[c].id = policy[c].id
       /\ policy[c].state = "none" => policy'[c].state = "none"
    \/ policy'[c].state = "none"

\* A step of somebody else, or one that ends the work on the client.
Aside == \/ job'.pc \notin AfterGroups
         \/ /\ job' = job /\ remote' = remote
            /\ \A c \in Clients : PolicyMove(c)

\* Losing its owner changes nothing else of an object.
LEMMA DisownKeeps ==
    /\ \A p \in Policy : /\ Disown(p).id = p.id
                         /\ p.state = "none" => Disown(p).state = "none"
    /\ \A s \in Secret : Disown(s).id = s.id /\ Disown(s).key = s.key
  BY DEF Disown, Policy, Secret

\* Drop makes nothing else of Secrets and policies.
LEMMA DropKeeps ==
    ASSUME TypeOK, NEW d \in Clients, Drop(d), NEW c \in Clients
    PROVE  /\ policy'[c] = policy[c] \/ policy'[c] = Disown(policy[c])
           /\ secret'[c] = secret[c] \/ secret'[c] = Disown(secret[c])
  BY StateTypes DEF Drop

\* Going on to the error status, or to nothing, is aside.
LEMMA AsideOnGoto ==
    ASSUME TypeOK, job.pc # "idle", Done \/ Goto("errorStatus")
    PROVE  Aside
<1>1. job \in Job /\ "idle" \notin AfterGroups /\ "errorStatus" \notin AfterGroups
  BY BusyJob DEF AfterGroups, Resolved
<1>2. QED
  BY <1>1 DEF Done, Idle, Goto, Job, Aside

\* Only the worker's steps on the client are not aside.
LEMMA Asides ==
    ASSUME TypeOK, Next
    PROVE  \/ Aside
           \/ ResolveGroups \/ Resolve \/ (\E i \in Ids : Create(i)) \/ Update
           \/ EnsureSecret \/ Generate \/ StoreSecret \/ EnsurePolicy
<1>1. ASSUME NEW c \in Clients, Begin(c)
      PROVE  Aside
  <2>1. \E pc \in {"errorStatus", "deleteRemote", "removeFinalizer",
                   "addFinalizer", "groups"} : Start(c, pc)
    BY <1>1 DEF Begin
  <2>2. QED
    BY <2>1 DEF Start, Aside, AfterGroups, Resolved
<1>2. CASE job' = job /\ remote' = remote /\ policy' = policy
  BY <1>2 DEF Aside, PolicyMove
<1>3. ASSUME NEW c \in Clients, CollectPolicy(c)
      PROVE  Aside
  BY <1>3, StateTypes DEF CollectPolicy, NoPolicy, Aside, PolicyMove
<1>4. ASSUME NEW c \in Clients, RequestDelete(c)
      PROVE  Aside
  <2>1. job' = job /\ remote' = remote /\ (policy' = policy \/ Drop(c))
    BY <1>4 DEF RequestDelete
  <2>2. policy \in [Clients -> Policy]
    BY StateTypes
  <2>3. \A d \in Clients : PolicyMove(d)
    BY <2>1, <2>2, DropKeeps, DisownKeeps DEF PolicyMove
  <2>4. QED
    BY <2>1, <2>3 DEF Aside
<1>5. CASE AddFinalizer
  <2>1. CASE job' = [job EXCEPT !.pc = "groups", !.base.finalizer = TRUE,
                                !.mem.finalizer = TRUE]
    <3>1. job \in Job
      BY <1>5, BusyJob DEF AddFinalizer, At
    <3>2. job'.pc = "groups"
      BY <2>1, <3>1 DEF Job
    <3>3. QED
      BY <3>2 DEF Aside, AfterGroups, Resolved
  <2>2. QED
    BY <1>5, <2>1, AsideOnGoto DEF AddFinalizer, At
<1>6. CASE DeleteRemote
  <2>1. CASE Goto("removeFinalizer")
    <3>1. job \in Job
      BY <1>6, BusyJob DEF DeleteRemote, At
    <3>2. QED
      BY <2>1, <3>1 DEF Goto, Job, Aside, AfterGroups, Resolved
  <2>2. QED
    BY <1>6, <2>1, AsideOnGoto DEF DeleteRemote, At
<1>7. CASE RemoveFinalizer \/ Finish \/ WriteErrorStatus
  BY <1>7, AsideOnGoto DEF RemoveFinalizer, Finish, WriteErrorStatus, At
<1>8. CASE CallFails
  BY <1>8, AsideOnGoto DEF CallFails, At
<1>9. CASE Crash
  BY <1>9 DEF Crash, Done, Idle, Aside, AfterGroups, Resolved
<1>10. QED
  BY <1>1, <1>2, <1>3, <1>4, <1>5, <1>6, <1>7, <1>8, <1>9 DEF Next, Worker,
     Environment, Cluster, CacheSync, SecretSync, CollectSecret, CreateCR, EditSpec,
     DeleteSecret, ChangeGroup, FlipInstance, FlipRoute, kube
-------------------------------------------------------------------------------
(* Each step of the worker preserves it. *)

\* Steps aside do.
LEMMA WorkAside ==
    ASSUME WorkAll, Aside
    PROVE  WorkInv'
<1>1. CASE job'.pc \notin AfterGroups
  BY <1>1 DEF AfterGroups, Written, Resolved, WorkInv, GroupsInv, EarnedInv,
     PolicyInv, KeyInv
<1>2. CASE job' = job /\ remote' = remote /\ \A c \in Clients : PolicyMove(c)
  <2>1. job.pc = "finish" => PolicyMove(job.c)
    BY <1>2, BusyJob DEF WorkAll, CoreInv
  <2>2. PolicyInv'
    BY <1>2, <2>1 DEF WorkAll, WorkInv, PolicyInv, PolicyMove
  <2>3. GroupsInv' /\ EarnedInv' /\ KeyInv'
    BY <1>2 DEF WorkAll, WorkInv, GroupsInv, EarnedInv, KeyInv, Live
  <2>4. QED
    BY <2>2, <2>3 DEF WorkInv
<1>3. QED
  BY <1>1, <1>2 DEF Aside

\* The job of a worker that is not idle.
LEMMA WorkJob ==
    ASSUME WorkAll, job.pc # "idle"
    PROVE  /\ TypeOK /\ job \in Job /\ job.c \in Clients /\ job.mem \in CR
           /\ job.mem.spec \in Specs[job.c] /\ job.mem.spec \in ClientSpec
           /\ job.groups \in SUBSET GroupIds
           /\ remote \in [Ids -> Remote] /\ policy \in [Clients -> Policy]
<1>1. TypeOK /\ job.c \in Clients /\ job.mem.spec \in Specs[job.c]
  BY BusyJob DEF WorkAll, CoreInv, FinalizerInv, JobInv, SpecsInv
<1>2. QED
  BY <1>1, BusyJob, StateTypes DEF CR

\* A step that goes on with the same client and leaves it alone.
LEMMA WorkOn ==
    ASSUME WorkAll, job.pc \in Resolved, remote' = remote,
           job'.pc \in Written, job.pc \in Written,
           job'.id = job.id, job'.mem.clientID = job.mem.clientID,
           job'.mem.spec = job.mem.spec, job'.groups = job.groups,
           job'.pc \notin {"finish", "storeSecret"}
    PROVE  WorkInv'
  BY DEF WorkAll, WorkInv, GroupsInv, EarnedInv, PolicyInv, KeyInv, AfterGroups, Live

\* resolveAllowedUserGroups
LEMMA WorkGroups ==
    ASSUME WorkAll, ResolveGroups
    PROVE  WorkInv'
<1>1. TypeOK /\ job.pc # "idle" /\ job \in Job
  BY WorkJob DEF ResolveGroups, At
<1>2. CASE Goto("errorStatus")
  BY <1>1, <1>2, AsideOnGoto, WorkAside
<1>3. CASE job' = [job EXCEPT !.pc = "resolve",
                              !.groups = {gid[g] : g \in job.mem.spec.refs}]
  BY <1>1, <1>3 DEF Job, Written, Resolved, WorkInv, GroupsInv, EarnedInv, PolicyInv,
     KeyInv
<1>4. QED
  BY <1>2, <1>3 DEF ResolveGroups

\* resolveOrCreateClient up to the choice of the client.
LEMMA WorkResolve ==
    ASSUME WorkAll, Resolve
    PROVE  WorkInv'
<1>1. TypeOK /\ job.pc = "resolve" /\ job \in Job /\ remote' = remote
  BY WorkJob DEF Resolve, At
<1>2. job.mem.spec.refs # {} => job.groups # {}
  BY <1>1 DEF WorkAll, WorkInv, GroupsInv, AfterGroups
<1>3. CASE Goto("errorStatus")
  BY <1>1, <1>3, AsideOnGoto, WorkAside
<1>4. CASE Goto("create")
  BY <1>1, <1>2, <1>4 DEF Goto, Job, Written, Resolved, WorkInv, GroupsInv, EarnedInv,
     PolicyInv, KeyInv
<1>5. ASSUME NEW i \in Live, job' = [job EXCEPT !.pc = "update", !.id = i],
             job.mem.clientID \in {None, i}
      PROVE  WorkInv'
  BY <1>1, <1>2, <1>5 DEF Job, Written, Resolved, WorkInv, GroupsInv, EarnedInv,
     PolicyInv, KeyInv, Live
<1>6. CASE job.mem.clientID # None
  BY <1>3, <1>5, <1>6 DEF Resolve
<1>7. CASE job.mem.clientID = None
  <2>1. PICK page \in Pages :
          LET named == {i \in page : remote[i].name = job.mem.spec.name} IN
          \/ \E i \in named : job' = [job EXCEPT !.pc = "update", !.id = i]
          \/ named = {} /\ Goto("create")
    BY <1>7 DEF Resolve
  <2>2. page \subseteq Live
    BY DEF Pages
  <2>3. QED
    BY <1>4, <1>5, <1>7, <2>1, <2>2
<1>8. QED
  BY <1>6, <1>7

\* CreateOIDCClient and UpdateOIDCClient
LEMMA WorkWrite ==
    ASSUME WorkAll, (\E i \in Ids : Create(i)) \/ Update
    PROVE  WorkInv'
<1>1. /\ TypeOK /\ job.pc \in {"create", "update"} /\ job \in Job /\ job.mem \in CR
      /\ remote \in [Ids -> Remote] /\ job.pc # "idle"
  BY WorkJob DEF Create, Update, At
<1>2. job.mem.spec.refs # {} => job.groups # {}
  BY <1>1 DEF WorkAll, WorkInv, GroupsInv, AfterGroups, Resolved
<1>3. CASE Goto("errorStatus")
  BY <1>1, <1>3, AsideOnGoto, WorkAside
<1>4. ASSUME NEW i \in Ids, job'.id = i, job'.pc = "ensureSecret",
             job'.mem.clientID \in {None, i}, job'.mem.spec = job.mem.spec,
             job'.groups = job.groups, remote'[i].state = "live",
             remote'[i].name = job.mem.spec.name, remote'[i].conf = job.mem.spec.conf,
             remote'[i].groups = job.groups
      PROVE  WorkInv'
  BY <1>2, <1>4 DEF WorkInv, GroupsInv, EarnedInv, PolicyInv, KeyInv, Live
<1>5. ASSUME NEW i \in Ids, Create(i)
      PROVE  WorkInv'
  <2>1. /\ remote'[i].state = "live" /\ remote'[i].name = job.mem.spec.name
        /\ remote'[i].conf = job.mem.spec.conf /\ remote'[i].groups = job.groups
    BY <1>1, <1>5 DEF Create
  <2>2. CASE job' = [job EXCEPT !.pc = "ensureSecret", !.id = i, !.mem.clientID = i]
    <3>1. /\ job'.id = i /\ job'.pc = "ensureSecret" /\ job'.mem.clientID = i
          /\ job'.mem.spec = job.mem.spec /\ job'.groups = job.groups
      BY <1>1, <2>2 DEF Job, CR
    <3>2. QED
      BY <1>4, <2>1, <3>1
  <2>3. QED
    BY <1>3, <1>5, <2>2 DEF Create
<1>6. CASE Update /\ Goto("ensureSecret")
  <2>1. /\ job.id \in Ids /\ remote[job.id] \in Remote
        /\ remote[job.id].state = "live" /\ job.mem.clientID \in {None, job.id}
    BY <1>1, <1>6 DEF Update, At, WorkAll, WorkInv, EarnedInv, Resolved, Live
  <2>2. /\ job'.id = job.id /\ job'.pc = "ensureSecret" /\ job'.mem = job.mem
        /\ job'.groups = job.groups
    BY <1>1, <1>6 DEF Goto, Job
  <2>3. /\ remote'[job.id].state = "live"
        /\ remote'[job.id].name = job.mem.spec.name
        /\ remote'[job.id].conf = job.mem.spec.conf
        /\ remote'[job.id].groups = job.groups
    <3>1. CASE NeedsUpdate(remote[job.id])
      <4>1. remote' = [remote EXCEPT ![job.id] =
                         [remote[job.id] EXCEPT !.name = job.mem.spec.name,
                                                !.conf = job.mem.spec.conf,
                                                !.groups = job.groups]]
        BY <1>6, <3>1 DEF Update
      <4>2. QED
        BY <1>1, <2>1, <4>1 DEF Remote
    <3>2. CASE ~NeedsUpdate(remote[job.id])
      BY <1>6, <2>1, <3>2 DEF Update, NeedsUpdate
    <3>3. QED
      BY <3>1, <3>2
  <2>4. QED
    BY <1>4, <2>1, <2>2, <2>3
<1>7. QED
  BY <1>3, <1>5, <1>6 DEF Update

\* ensureCredentialsSecret
LEMMA WorkSecret ==
    ASSUME WorkAll, EnsureSecret \/ Generate \/ StoreSecret
    PROVE  WorkInv'
<1>1. /\ TypeOK /\ job.pc \in {"ensureSecret", "generate", "storeSecret"}
      /\ job \in Job /\ job.mem \in CR /\ remote \in [Ids -> Remote]
      /\ job.pc # "idle" /\ job.id \in Ids
  <2>1. job.pc \in {"ensureSecret", "generate", "storeSecret"}
    BY DEF EnsureSecret, Generate, StoreSecret, At
  <2>2. QED
    BY <2>1, WorkJob, BusyJob DEF Resolved
<1>2. job.pc \in Resolved /\ job.pc \in Written
  BY <1>1 DEF Resolved, Written
<1>3. CASE EnsureSecret
  <2>1. CASE Goto("ensurePolicy")
    BY <1>1, <1>2, <1>3, <2>1, WorkOn DEF EnsureSecret, Goto, Job, Written, Resolved
  <2>2. CASE job' = [job EXCEPT !.pc = "generate", !.secret = SeenSecret(job.c)]
    BY <1>1, <1>2, <1>3, <2>2, WorkOn DEF EnsureSecret, Job, Written, Resolved
  <2>3. QED
    BY <1>3, <2>1, <2>2 DEF EnsureSecret
<1>4. CASE StoreSecret
  <2>1. CASE job' = [job EXCEPT !.pc = "ensurePolicy", !.mem.credName = TRUE]
    BY <1>1, <1>2, <1>4, <2>1, WorkOn DEF StoreSecret, Job, CR, Written, Resolved
  <2>2. QED
    BY <1>1, <1>4, <2>1, AsideOnGoto, WorkAside DEF StoreSecret
<1>5. CASE Generate
  <2>1. PICK k \in Keys :
          /\ remote' = [remote EXCEPT ![job.id].key = k]
          /\ \/ job' = [job EXCEPT !.pc = "storeSecret", !.key = k]
             \/ Done
    BY <1>5 DEF Generate
  <2>2. CASE job' = [job EXCEPT !.pc = "storeSecret", !.key = k]
    <3>1. /\ job'.pc = "storeSecret" /\ job'.key = k /\ job'.id = job.id
          /\ job'.mem = job.mem /\ job'.groups = job.groups
      BY <1>1, <2>2 DEF Job
    <3>2. /\ remote'[job.id].key = k
          /\ remote'[job.id].state = remote[job.id].state
          /\ remote'[job.id].name = remote[job.id].name
          /\ remote'[job.id].conf = remote[job.id].conf
          /\ remote'[job.id].groups = remote[job.id].groups
      BY <1>1, <2>1 DEF Remote
    <3>3. QED
      BY <1>2, <3>1, <3>2 DEF WorkAll, WorkInv, GroupsInv, EarnedInv, PolicyInv, KeyInv,
         AfterGroups, Live
  <2>3. QED
    BY <1>1, <2>1, <2>2, AsideOnGoto, WorkAside
<1>6. QED
  BY <1>3, <1>4, <1>5

\* ensureSecurityPolicy
LEMMA WorkPolicy ==
    ASSUME WorkAll, EnsurePolicy
    PROVE  WorkInv'
<1>1. /\ TypeOK /\ job.pc = "ensurePolicy" /\ job \in Job /\ job.mem \in CR
      /\ job.c \in Clients /\ policy \in [Clients -> Policy] /\ remote' = remote
  BY WorkJob DEF EnsurePolicy, At
<1>2. job.pc \in Resolved /\ job.pc \in Written
  BY <1>1 DEF Resolved, Written
<1>3. ASSUME job'.pc = "finish", job'.c = job.c, job'.id = job.id,
             job'.mem.clientID = job.mem.clientID, job'.mem.spec = job.mem.spec,
             job'.groups = job.groups,
             job.mem.spec.gateway => policy'[job.c].id = job.id
      PROVE  WorkInv'
  BY <1>1, <1>2, <1>3 DEF WorkAll, WorkInv, GroupsInv, EarnedInv, PolicyInv, KeyInv,
     AfterGroups, Live
<1>4. CASE Goto("errorStatus")
  BY <1>1, <1>4, AsideOnGoto, WorkAside
<1>5. CASE ~job.mem.spec.gateway /\ Goto("finish")
  BY <1>1, <1>3, <1>5 DEF Goto, Job
<1>6. ASSUME ~job.mem.spec.gateway,
             job' = [job EXCEPT !.pc = "finish", !.mem.policyName = FALSE]
      PROVE  WorkInv'
  BY <1>1, <1>3, <1>6 DEF Job, CR
<1>7. CASE job.mem.spec.gateway /\ PolicyReady
  <2>1. /\ policy'[job.c].id = job.mem.clientID
        /\ job' = [job EXCEPT !.pc = "finish", !.mem.policyName = TRUE]
    BY <1>1, <1>7 DEF EnsurePolicy
  <2>2. job.mem.clientID = job.id
    BY <1>2, <1>7 DEF PolicyReady, WorkAll, WorkInv, EarnedInv
  <2>3. QED
    BY <1>1, <1>3, <2>1, <2>2 DEF Job, CR
<1>8. QED
  BY <1>4, <1>5, <1>6, <1>7 DEF EnsurePolicy

\* Every step preserves it.
LEMMA WorkStep == WorkAll /\ [Next]_vars => WorkAll'
<1>1. SUFFICES ASSUME WorkAll, [Next]_vars
               PROVE  WorkInv'
  BY CoreStep DEF WorkAll
<1>2. CASE UNCHANGED vars
  BY <1>1, <1>2 DEF vars, WorkAll, WorkInv, GroupsInv, EarnedInv, PolicyInv, KeyInv, Live
<1>3. CASE Next
  BY <1>1, <1>3, Asides, WorkAside, WorkGroups, WorkResolve, WorkWrite, WorkSecret,
     WorkPolicy DEF WorkAll, CoreInv
<1>4. QED
  BY <1>1, <1>2, <1>3

\* It holds in every reachable state.
LEMMA Work == Spec => []WorkAll
<1>1. Init => WorkAll
  <2>1. Init => WorkInv
    BY DEF Init, Idle, WorkInv, GroupsInv, EarnedInv, PolicyInv, KeyInv, AfterGroups,
       Written, Resolved
  <2>2. QED
    BY <2>1, CoreInit DEF WorkAll
<1>2. QED
  BY <1>1, WorkStep, PTL DEF Spec

\* Ready is written only after the client carries what this reconciliation read and
\* the policy names this very client, whatever users, the cache, the garbage
\* collector and other reconciliations of shared names do meanwhile.
THEOREM FinishEarned == Spec => []FinishIsEarned
<1>1. WorkAll => FinishIsEarned
  BY DEF WorkAll, WorkInv, EarnedInv, PolicyInv, FinishIsEarned, Written, Resolved
<1>2. QED
  BY <1>1, Work, PTL
-------------------------------------------------------------------------------
(* The restriction to user groups. *)

\* Only three calls change what PocketID holds of a client that is there.
LEMMA RemoteWrites ==
    ASSUME TypeOK, Next
    PROVE  \/ (\E i \in Ids : Create(i)) \/ Update
           \/ \A i \in Ids : /\ remote'[i].name = remote[i].name
                             /\ remote'[i].groups = remote[i].groups
                             /\ i \in Live' => i \in Live
<1>1. remote \in [Ids -> Remote]
  BY StateTypes
<1>2. CASE DeleteRemote
  BY <1>1, <1>2 DEF DeleteRemote, Live, Remote
<1>3. CASE Generate
  <2>1. PICK k \in Keys : remote' = [remote EXCEPT ![job.id].key = k]
    BY <1>3 DEF Generate
  <2>2. QED
    BY <1>1, <2>1 DEF Live, Remote
<1>4. CASE remote' = remote
  BY <1>4 DEF Live
<1>5. QED
  BY <1>2, <1>3, <1>4 DEF Next, Worker, Environment, Begin, Cluster, CacheSync,
     SecretSync, CollectSecret, CollectPolicy, CallFails, Crash, AddFinalizer,
     RemoveFinalizer, ResolveGroups, Resolve, EnsureSecret, StoreSecret, EnsurePolicy,
     Finish, WriteErrorStatus, CreateCR, EditSpec, RequestDelete, DeleteSecret,
     ChangeGroup, FlipInstance, FlipRoute

\* What is written into a client restricts it, if every spec of that name does.
LEMMA WritesRestricted ==
    ASSUME WorkAll, job.pc \in {"create", "update"},
           \A c \in Clients : \A s \in Specs[c] :
              s.name = job.mem.spec.name => s.refs # {}
    PROVE  job.groups # {}
<1>1. job.c \in Clients /\ job.mem.spec \in Specs[job.c]
  BY WorkJob
<1>2. job.mem.spec.refs # {}
  BY <1>1
<1>3. QED
  BY <1>2 DEF WorkAll, WorkInv, GroupsInv, AfterGroups, Resolved

\* Every step keeps clients restricted.
LEMMA RestrictedStep ==
    ASSUME WorkAll, NeverUnrestricted, Next
    PROVE  NeverUnrestricted'
<1>0. TypeOK /\ remote \in [Ids -> Remote]
  BY StateTypes DEF WorkAll, CoreInv
<1>1. SUFFICES ASSUME NEW i \in Ids, i \in Live', i \notin DOMAIN Existing,
                      \A c \in Clients : \A s \in Specs[c] :
                         s.name = remote'[i].name => s.refs # {}
               PROVE  remote'[i].groups # {}
  BY DEF NeverUnrestricted, Live
<1>2. CASE /\ remote'[i].name = remote[i].name /\ remote'[i].groups = remote[i].groups
           /\ i \in Live
  BY <1>1, <1>2 DEF NeverUnrestricted
<1>3. CASE /\ job.pc \in {"create", "update"}
           /\ remote'[i].name = job.mem.spec.name /\ remote'[i].groups = job.groups
  BY <1>1, <1>3, WritesRestricted
<1>4. ASSUME NEW j \in Ids, Create(j)
      PROVE  remote'[i].groups # {}
  BY <1>0, <1>1, <1>2, <1>3, <1>4 DEF Create, At, Live
<1>5. CASE Update
  <2>1. CASE remote' = remote
    BY <1>1, <1>2, <2>1 DEF Live
  <2>2. CASE remote' = [remote EXCEPT ![job.id] =
                          [remote[job.id] EXCEPT !.name = job.mem.spec.name,
                                                 !.conf = job.mem.spec.conf,
                                                 !.groups = job.groups]]
    <3>1. CASE job.id = i
      BY <1>0, <1>3, <1>5, <2>2, <3>1 DEF Update, At, Remote
    <3>2. CASE job.id # i
      BY <1>0, <1>1, <1>2, <2>2, <3>2 DEF Live
    <3>3. QED
      BY <3>1, <3>2
  <2>3. QED
    BY <1>5, <2>1, <2>2 DEF Update
<1>6. QED
  BY <1>0, <1>1, <1>2, <1>4, <1>5, RemoteWrites

\* A client whose every declared spec restricts it to user groups is never open to
\* all users: a group that does not resolve, or that goes in the middle of a
\* reconciliation, stops the write or leaves its last known id in the client.
THEOREM RestrictionHolds == Spec => []NeverUnrestricted
<1>1. Init => NeverUnrestricted
  BY DEF Init, NeverUnrestricted, Live, InitialRemote
<1>2. WorkAll /\ NeverUnrestricted /\ [Next]_vars => NeverUnrestricted'
  <2>1. CASE UNCHANGED vars
    BY <2>1 DEF vars, NeverUnrestricted, Live
  <2>2. QED
    BY <2>1, RestrictedStep
<1>3. QED
  BY <1>1, <1>2, Work, PTL DEF Spec
-------------------------------------------------------------------------------
(* What is left beside a client: its Secret and its policy. *)

\* Only StoreSecret puts anything into a Secret.
SecretMove(c) ==
    \/ secret'[c] \in {secret[c], Disown(secret[c]), NoSecret}
    \/ /\ At("storeSecret") /\ job.c = c /\ obj' = obj /\ remote' = remote
       /\ secret'[c].id = job.id /\ secret'[c].key = job.key
       /\ job'.pc = "ensurePolicy"

\* Only EnsurePolicy puts anything into a policy.
PolicyWrite(c) ==
    \/ policy'[c] \in {policy[c], Disown(policy[c]), NoPolicy}
    \/ /\ At("ensurePolicy") /\ job.c = c /\ obj' = obj /\ remote' = remote
       /\ job.mem.clientID # None /\ policy'[c].id = job.mem.clientID

\* When a resource goes, what it owned is left to the garbage collector.
Disowned(c) ==
    (obj[c].state # "absent" /\ obj'[c].state = "absent") =>
        secret'[c].state # "owned" /\ policy'[c].state # "owned"

\* What is disowned is owned no more.
LEMMA DisownTakes ==
    /\ \A p \in Policy : Disown(p).state # "owned"
    /\ \A s \in Secret : Disown(s).state # "owned"
  BY DEF Disown, Policy, Secret

\* Drop moves them so.
LEMMA DropMoves ==
    ASSUME TypeOK, NEW d \in Clients, Drop(d), NEW c \in Clients
    PROVE  SecretMove(c) /\ PolicyWrite(c) /\ Disowned(c)
<1>1. SecretMove(c) /\ PolicyWrite(c)
  BY DropKeeps DEF SecretMove, PolicyWrite
<1>2. /\ obj \in [Clients -> CR] /\ secret \in [Clients -> Secret]
      /\ policy \in [Clients -> Policy]
  BY StateTypes
<1>3. CASE c = d
  <2>1. secret'[c] = Disown(secret[c]) /\ policy'[c] = Disown(policy[c])
    BY <1>2, <1>3 DEF Drop
  <2>2. QED
    BY <1>1, <1>2, <2>1, DisownTakes DEF Disowned
<1>4. CASE c # d
  <2>1. obj' = [obj EXCEPT ![d] = NoCR(d)]
    BY DEF Drop
  <2>2. obj'[c] = obj[c]
    BY <1>2, <1>4, <2>1
  <2>3. QED
    BY <1>1, <2>2 DEF Disowned
<1>5. QED
  BY <1>1, <1>3, <1>4

\* Every step moves them so.
LEMMA LeftMoves ==
    ASSUME TypeOK, JobInv, Next, NEW c \in Clients
    PROVE  SecretMove(c) /\ PolicyWrite(c) /\ Disowned(c)
<1>0. /\ obj \in [Clients -> CR] /\ secret \in [Clients -> Secret]
      /\ policy \in [Clients -> Policy]
  BY StateTypes
<1>1. CASE secret' = secret /\ policy' = policy /\ obj' = obj
  BY <1>1 DEF SecretMove, PolicyWrite, Disowned
<1>2. CASE StoreSecret
  <2>1. job \in Job /\ job.mem \in CR /\ job.c \in Clients
    BY <1>2, BusyJob DEF StoreSecret, At
  <2>2. CASE job' = [job EXCEPT !.pc = "ensurePolicy", !.mem.credName = TRUE]
    <3>1. job'.pc = "ensurePolicy"
      BY <2>1, <2>2 DEF Job, CR
    <3>2. PICK st : secret' = [secret EXCEPT ![job.c] =
                        [state |-> st, id |-> job.id, key |-> job.key]]
                      \/ secret' = secret
      BY <1>2 DEF StoreSecret
    <3>3. SecretMove(c)
      BY <1>0, <1>2, <2>1, <3>1, <3>2 DEF StoreSecret, SecretMove
    <3>4. QED
      BY <1>2, <3>3 DEF StoreSecret, PolicyWrite, Disowned
  <2>3. QED
    BY <1>1, <1>2, <2>2 DEF StoreSecret
<1>3. CASE EnsurePolicy
  <2>1. job.c \in Clients
    BY <1>3, BusyJob DEF EnsurePolicy, At
  <2>2. obj' = obj /\ secret' = secret /\ remote' = remote /\ At("ensurePolicy")
    BY <1>3 DEF EnsurePolicy
  <2>3. CASE policy' = policy
    BY <1>1, <2>2, <2>3
  <2>4. CASE policy' = [policy EXCEPT ![job.c] = NoPolicy]
    BY <1>0, <2>1, <2>2, <2>4 DEF SecretMove, PolicyWrite, Disowned
  <2>5. CASE PolicyReady
    <3>1. PICK st : \/ policy' = policy
                    \/ policy' = [policy EXCEPT ![job.c] = NoPolicy]
                    \/ policy' = [policy EXCEPT ![job.c] =
                                    [state |-> st, id |-> job.mem.clientID]]
      BY <1>3 DEF EnsurePolicy
    <3>2. PolicyWrite(c)
      BY <1>0, <2>1, <2>2, <2>5, <3>1 DEF PolicyWrite, PolicyReady
    <3>3. QED
      BY <2>2, <3>2 DEF SecretMove, Disowned
  <2>6. QED
    BY <1>3, <2>3, <2>4, <2>5 DEF EnsurePolicy
<1>4. CASE RemoveFinalizer
  <2>1. job.c \in Clients
    BY <1>4, BusyJob DEF RemoveFinalizer, At
  <2>2. QED
    BY <1>1, <1>4, <2>1, DropMoves DEF RemoveFinalizer
<1>5. ASSUME NEW d \in Clients, RequestDelete(d)
      PROVE  SecretMove(c) /\ PolicyWrite(c) /\ Disowned(c)
  <2>1. CASE obj' = [obj EXCEPT ![d].state = "deleting"] /\ UNCHANGED <<secret, policy>>
    BY <1>0, <2>1 DEF SecretMove, PolicyWrite, Disowned, CR
  <2>2. QED
    BY <1>5, <2>1, DropMoves DEF RequestDelete
<1>6. ASSUME NEW d \in Clients, DeleteSecret(d) \/ CollectSecret(d)
      PROVE  SecretMove(c) /\ PolicyWrite(c) /\ Disowned(c)
  BY <1>0, <1>6 DEF DeleteSecret, CollectSecret, SecretMove, PolicyWrite, Disowned
<1>7. ASSUME NEW d \in Clients, CollectPolicy(d)
      PROVE  SecretMove(c) /\ PolicyWrite(c) /\ Disowned(c)
  BY <1>0, <1>7 DEF CollectPolicy, SecretMove, PolicyWrite, Disowned
<1>8. CASE /\ UNCHANGED <<secret, policy>>
           /\ obj[c].state # "absent" => obj'[c].state # "absent"
  BY <1>8 DEF SecretMove, PolicyWrite, Disowned
<1>9. CASE AddFinalizer
  BY <1>0, <1>8, <1>9 DEF AddFinalizer, CR
<1>10. CASE Finish
  <2>0. job.c \in Clients /\ obj[job.c] \in CR
    BY <1>0, <1>10, BusyJob DEF Finish, At
  <2>1. \/ obj' = obj
        \/ obj' = [obj EXCEPT ![job.c] =
                     [obj[job.c] EXCEPT !.clientID = job.id,
                                        !.credName = job.mem.credName,
                                        !.policyName = job.mem.policyName,
                                        !.ready = TRUE, !.observed = TRUE]]
    BY <1>10 DEF Finish
  <2>2. obj'[c].state = obj[c].state
    <3>1. CASE job.c = c
      BY <1>0, <2>0, <2>1, <3>1, ZenonT(60) DEF CR
    <3>2. CASE job.c # c
      BY <1>0, <2>0, <2>1, <3>2
    <3>3. QED
      BY <3>1, <3>2
  <2>3. QED
    BY <1>8, <1>10, <2>2 DEF Finish
<1>11. CASE WriteErrorStatus
  <2>1. job.c \in Clients /\ job.mem \in CR /\ job.mem.state = job.base.state
    BY <1>11, BusyJob DEF WriteErrorStatus, At, JobInv
  <2>2. \/ obj' = obj
        \/ /\ obj' = [obj EXCEPT ![job.c] =
                        [job.mem EXCEPT !.ready = FALSE, !.observed = TRUE]]
           /\ job.base = obj[job.c]
    BY <1>11 DEF WriteErrorStatus, Current
  <2>3. obj'[c].state = obj[c].state
    <3>1. [job.mem EXCEPT !.ready = FALSE, !.observed = TRUE].state = job.mem.state
      BY <2>1 DEF CR
    <3>2. CASE job.c = c
      BY <1>0, <2>1, <2>2, <3>1, <3>2
    <3>3. CASE job.c # c
      BY <1>0, <2>1, <2>2, <3>3
    <3>4. QED
      BY <3>2, <3>3
  <2>4. QED
    BY <1>8, <1>11, <2>3 DEF WriteErrorStatus
<1>12. ASSUME NEW d \in Clients, NEW s \in Specs[d], CreateCR(d, s) \/ EditSpec(d, s)
       PROVE  SecretMove(c) /\ PolicyWrite(c) /\ Disowned(c)
  BY <1>0, <1>8, <1>12 DEF CreateCR, EditSpec, NewCR, CR
<1>13. QED
  BY <1>1, <1>2, <1>3, <1>4, <1>5, <1>6, <1>7, <1>9, <1>10, <1>11, <1>12 DEF Next, Worker, Environment,
     Begin, Cluster, CacheSync, SecretSync, CallFails, Crash,
     DeleteRemote, ResolveGroups, Resolve, Create, Update, EnsureSecret, Generate,
     ChangeGroup, FlipInstance, FlipRoute,
     kube
-------------------------------------------------------------------------------
(* The credentials. *)

\* A stored key is for the resource's own client, and the copy of the Secret that
\* makes the worker rotate has no key.
CredentialsInv ==
    /\ \A c \in Clients : secret[c].key # None => Named(c, secret[c].id)
    /\ At("generate") => job.secret.key = None

\* Only Generate changes the secret of a client that PocketID knows.
LEMMA KeyWrites ==
    ASSUME TypeOK, Next, NEW i \in Ids, remote[i].state # "unused"
    PROVE  remote'[i].key = remote[i].key \/ (Generate /\ job.id = i)
<1>1. remote \in [Ids -> Remote]
  BY StateTypes
<1>2. CASE remote' = remote
  BY <1>2
<1>3. ASSUME NEW j \in Ids, Create(j)
      PROVE  remote'[i].key = remote[i].key
  BY <1>1, <1>3 DEF Create
<1>4. CASE DeleteRemote
  BY <1>1, <1>4 DEF DeleteRemote, Remote
<1>5. CASE Update
  <2>1. \/ remote' = remote
        \/ remote' = [remote EXCEPT ![job.id] =
                        [remote[job.id] EXCEPT !.name = job.mem.spec.name,
                                               !.conf = job.mem.spec.conf,
                                               !.groups = job.groups]]
    BY <1>5 DEF Update
  <2>2. CASE job.id = i
    BY <1>1, <2>1, <2>2 DEF Remote
  <2>3. CASE job.id # i
    BY <1>1, <2>1, <2>3
  <2>4. QED
    BY <2>2, <2>3
<1>6. CASE Generate /\ job.id # i
  BY <1>1, <1>6 DEF Generate
<1>7. QED
  BY <1>2, <1>3, <1>4, <1>5, <1>6 DEF Next, Worker, Environment, Begin, Cluster, CacheSync,
     SecretSync, CollectSecret, CollectPolicy, CallFails, Crash, AddFinalizer,
     RemoveFinalizer, ResolveGroups, Resolve, EnsureSecret, StoreSecret, EnsurePolicy,
     Finish, WriteErrorStatus, CreateCR, EditSpec, RequestDelete, DeleteSecret,
     ChangeGroup, FlipInstance, FlipRoute

\* How the key a Secret holds changes.
KeyMove(c) ==
    \/ secret'[c].key = None
    \/ secret'[c].id = secret[c].id /\ secret'[c].key = secret[c].key
    \/ /\ At("storeSecret") /\ job.c = c /\ remote' = remote
       /\ job.id \in Ids /\ Named(c, job.id)
       /\ secret'[c].id = job.id /\ secret'[c].key = remote[job.id].key

\* Every step moves every key so.
LEMMA KeyMoves ==
    ASSUME AllInv, WorkAll, Next, NEW c \in Clients
    PROVE  KeyMove(c)
<1>1. /\ TypeOK /\ JobInv /\ NamesInv /\ secret[c] \in Secret
  BY StateTypes DEF AllInv, CoreInv, FinalizerInv, OwnershipInv
<1>2. CASE secret'[c] = NoSecret
  BY <1>2 DEF NoSecret, KeyMove
<1>3. CASE /\ At("storeSecret") /\ job.c = c /\ remote' = remote
           /\ secret'[c].id = job.id /\ secret'[c].key = job.key
  BY <1>1, <1>3, BusyJob DEF At, WorkAll, WorkInv, KeyInv, NamesInv, Resolved, KeyMove
<1>4. QED
  BY <1>1, <1>2, <1>3, LeftMoves, DisownKeeps DEF SecretMove, KeyMove

\* The worker comes to rotate a key only from EnsureSecret, or waits there.
LEMMA ToGenerate ==
    ASSUME TypeOK, Next, job'.pc = "generate"
    PROVE  job.pc # "idle" /\ (job' = job \/ EnsureSecret)
<1>1. job'.pc \in AfterGroups
  BY DEF AfterGroups, Resolved
<1>2. job.pc # "idle"
  BY <1>1, Asides DEF Aside, ResolveGroups, Resolve, Create, Update, EnsureSecret,
     Generate, StoreSecret, EnsurePolicy, At
<1>3. job \in Job /\ job.mem \in CR
  BY <1>2, BusyJob
<1>4. /\ ~Done /\ ~Goto("errorStatus") /\ ~Goto("create") /\ ~Goto("ensureSecret")
      /\ ~Goto("ensurePolicy") /\ ~Goto("finish")
  BY <1>3 DEF Done, Idle, Goto, Job
<1>5. ~ResolveGroups /\ ~Resolve /\ ~(\E i \in Ids : Create(i)) /\ ~Update
  <2>1. ~ResolveGroups /\ ~Update
    BY <1>3, <1>4 DEF ResolveGroups, Update, Job
  <2>2. ~Resolve
    BY <1>3, <1>4 DEF Resolve, Job
  <2>3. ~(\E i \in Ids : Create(i))
    BY <1>3, <1>4 DEF Create, Job
  <2>4. QED
    BY <2>1, <2>2, <2>3
<1>6. ~Generate /\ ~StoreSecret /\ ~EnsurePolicy
  <2>1. ~Generate
    BY <1>3, <1>4 DEF Generate, Job
  <2>2. ~StoreSecret
    BY <1>3, <1>4 DEF StoreSecret, Job
  <2>3. ~EnsurePolicy
    BY <1>3, <1>4 DEF EnsurePolicy, Job
  <2>4. QED
    BY <2>1, <2>2, <2>3
<1>7. QED
  BY <1>1, <1>2, <1>5, <1>6, Asides DEF Aside

\* Every step preserves CredentialsInv.
LEMMA CredentialsStep ==
    ASSUME AllInv, WorkAll, CredentialsInv, NamesDisjoint, Next
    PROVE  CredentialsInv'
<1>0. TypeOK /\ secret \in [Clients -> Secret]
  BY StateTypes DEF AllInv, CoreInv
<1>1. ASSUME NEW c \in Clients, secret'[c].key # None
      PROVE  NamedNext(c, secret'[c].id)
  <2>1. KeyMove(c)
    BY KeyMoves
  <2>2. CASE secret'[c].id = secret[c].id /\ secret'[c].key = secret[c].key
    <3>1. secret[c].id \in Ids \cup {None} /\ Named(c, secret[c].id)
      BY <1>0, <1>1, <2>2 DEF CredentialsInv, Secret
    <3>2. QED
      BY <2>2, <3>1, NamedStep
  <2>3. CASE Named(c, job.id) /\ job.id \in Ids /\ secret'[c].id = job.id
    BY <2>3, NamedStep
  <2>4. QED
    BY <1>1, <2>1, <2>2, <2>3 DEF KeyMove
<1>2. ASSUME job'.pc = "generate"
      PROVE  job'.secret.key = None
  <2>1. job.pc # "idle" /\ (job' = job \/ EnsureSecret)
    BY <1>0, <1>2, ToGenerate
  <2>2. CASE job' = job
    BY <1>2, <2>2 DEF CredentialsInv, At
  <2>3. CASE EnsureSecret
    <3>1. job \in Job
      BY <1>0, <2>1, BusyJob
    <3>2. /\ job' = [job EXCEPT !.pc = "generate", !.secret = SeenSecret(job.c)]
          /\ SeenSecret(job.c).key = None
      BY <1>2, <2>3, <3>1 DEF EnsureSecret, Goto, Job
    <3>3. QED
      BY <3>1, <3>2 DEF Job
  <2>4. QED
    BY <2>1, <2>2, <2>3
<1>3. QED
  BY <1>1, <1>2 DEF CredentialsInv, Named, NamedNext, At

\* A key that PocketID accepts stays so, but for a rotation decided on another copy
\* of the Secret than the stored one.
LEMMA AcceptedStep ==
    ASSUME AllInv, WorkAll, CredentialsInv, NamesDisjoint, Next, NEW c \in Clients,
           KeyRefused(c)', ~KeyRefused(c)
    PROVE  At("generate") /\ job.c = c /\ job.secret # secret[c]
<1>0. /\ TypeOK /\ JobInv /\ NamesInv
  BY DEF AllInv, CoreInv, FinalizerInv, OwnershipInv
<1>1. /\ secret'[c].key # None /\ secret'[c].id \in Ids
      /\ remote'[secret'[c].id].state = "live"
      /\ secret'[c].key # remote'[secret'[c].id].key
  BY DEF KeyRefused, Live
<1>2. secret'[c].id = secret[c].id /\ secret'[c].key = secret[c].key
  BY <1>1, KeyMoves DEF KeyMove
<1> DEFINE i == secret[c].id
<1>3. i \in Ids /\ Named(c, i) /\ secret[c].key # None
  BY <1>1, <1>2 DEF CredentialsInv
<1>4. remote[i].state = "live"
  BY <1>1, <1>2, <1>3, StillLive
<1>5. secret[c].key = remote[i].key
  BY <1>3, <1>4 DEF KeyRefused, Live
<1>6. Generate /\ job.id = i
  BY <1>0, <1>1, <1>2, <1>3, <1>4, <1>5, KeyWrites
<1>7. job.c \in Clients /\ Named(job.c, job.id) /\ At("generate")
  BY <1>0, <1>6, BusyJob DEF Generate, At, NamesInv
<1>8. job.c = c
  BY <1>3, <1>6, <1>7, OneOwner
<1>9. QED
  BY <1>3, <1>7, <1>8 DEF CredentialsInv

\* Credentials in use stop working in one way only, if no two resources share a
\* name: their key is rotated on a copy of their own Secret that is behind.  Neither
\* a lost answer of the rotation, nor a crash before the write, nor the loss of the
\* Secret leaves other credentials there.
THEOREM CredentialsAreKept == Spec => CredentialsKept
<1>1. Init => CredentialsInv
  <2>1. SUFFICES ASSUME Init
                 PROVE  CredentialsInv
    OBVIOUS
  <2>2. \A c \in Clients : secret[c].key = None
    BY <2>1 DEF Init, InitialSecret, NoSecret
  <2>3. QED
    BY <2>1, <2>2 DEF Init, Idle, CredentialsInv, At
<1>2. NamesDisjoint /\ AllInv /\ WorkAll /\ CredentialsInv /\ [Next]_vars
         => CredentialsInv'
  <2>1. CASE UNCHANGED vars
    BY <2>1 DEF vars, CredentialsInv, Named, At
  <2>2. QED
    BY <2>1, CredentialsStep
<1>3. CASE NamesDisjoint
  <2>1. AllInv /\ WorkAll /\ CredentialsInv /\ [Next]_vars =>
          [NamesDisjoint =>
             \A c \in Clients :
                 KeyRefused(c)' =>
                   \/ KeyRefused(c)
                   \/ At("generate") /\ job.c = c /\ job.secret # secret[c]]_vars
    BY <1>3, AcceptedStep
  <2>2. QED
    BY <1>1, <1>2, <1>3, <2>1, Ownership, Work, PTL DEF Spec, CredentialsKept
<1>4. CASE ~NamesDisjoint
  <2>1. [Next]_vars =>
          [NamesDisjoint =>
             \A c \in Clients :
                 KeyRefused(c)' =>
                   \/ KeyRefused(c)
                   \/ At("generate") /\ job.c = c /\ job.secret # secret[c]]_vars
    BY <1>4
  <2>2. QED
    BY <2>1, PTL DEF Spec, CredentialsKept
<1>5. QED
  BY <1>3, <1>4
-------------------------------------------------------------------------------
(* One client of a name, as long as no spec.name changes, PocketID starts  *)
(* with one and a page of the listing holds all.                           *)

\* PocketID starts with no two clients of one name.
ExistingDistinct ==
    \A i, j \in DOMAIN Existing : Existing[i] = Existing[j] => i = j

\* However many clients there are, the list call answers all of them.
OnePage == IsFiniteSet(Ids) /\ Cardinality(Ids) <= PageSize

\* A name that no resource is ever given besides another one.
StableName(n) == \A c \in Clients : n \in NamesOf(c) => NameFixed(c)

\* No two clients in PocketID have one name, if that name is stable.
Distinct ==
    \A i, j \in Live :
        (remote[i].name = remote[j].name /\ StableName(remote[i].name)) => i = j

\* A client is about to be made only while there is none of its name: between the
\* listing and the creation nobody else makes one.
LookupInv ==
    At("create") => \A i \in Live : remote[i].name # job.mem.spec.name

\* Distinct is inductive only with LookupInv.
UniqueInv == Distinct /\ LookupInv

\* A client in PocketID takes no stable name that it did not have.
LEMMA NameStays ==
    ASSUME AllInv, Next, NEW i \in Ids, i \in Live, i \in Live',
           StableName(remote'[i].name)
    PROVE  remote'[i].name = remote[i].name
<1>1. RemoteMove(i) /\ remote[i].state = "live"
  BY RemoteMoves DEF AllInv, CoreInv, Live
<1>2. CASE At("update") /\ job.id = i /\ remote'[i].name = job.mem.spec.name
  <2>1. Named(job.c, i) /\ job.c \in Clients /\ job.mem.spec.name \in NamesOf(job.c)
    BY <1>2, JobName DEF At, AllInv, OwnershipInv, NamesInv
  <2>2. remote[i].name \in NamesOf(job.c) /\ NameFixed(job.c)
    BY <1>2, <2>1, NoneAssumption DEF Named, StableName
  <2>3. QED
    BY <1>2, <2>1, <2>2 DEF NameFixed, NamesOf
<1>3. QED
  BY <1>1, <1>2 DEF RemoteMove

\* Only Create adds one, of the name that was looked up.
LEMMA NewClient ==
    ASSUME AllInv, Next, NEW i \in Ids, i \notin Live, i \in Live'
    PROVE  /\ At("create") /\ remote'[i].name = job.mem.spec.name
           /\ \A j \in Ids \ {i} : remote'[j] = remote[j]
<1>1. RemoteMove(i) /\ remote[i].state # "live" /\ remote'[i].state = "live"
  BY RemoteMoves DEF AllInv, CoreInv, Live
<1>2. TypeOK /\ remote \in [Ids -> Remote]
  BY StateTypes DEF AllInv, CoreInv
<1>3. ~Update
  BY <1>1 DEF Update, AllInv, OwnershipInv, ActingInv, At, Resolved, RemoteMove
<1>4. PICK k \in Ids : Create(k)
  BY <1>1, <1>2, <1>3, RemoteWrites DEF Live
<1>5. k = i
  BY <1>1, <1>2, <1>4 DEF Create
<1>6. QED
  BY <1>2, <1>4, <1>5 DEF Create

\* Every step preserves Distinct.
LEMMA DistinctStep ==
    ASSUME AllInv, UniqueInv, Next
    PROVE  Distinct'
<1>1. SUFFICES ASSUME NEW i \in Ids, NEW j \in Ids, i \in Live', j \in Live',
                      remote'[i].name = remote'[j].name, StableName(remote'[i].name)
               PROVE  i = j
  BY DEF Distinct, Live, StableName
<1>2. CASE i \in Live /\ j \in Live
  BY <1>1, <1>2, NameStays DEF UniqueInv, Distinct
<1>3. ASSUME NEW a \in Ids, NEW b \in Ids, a \notin Live, a \in Live', b \in Live',
             remote'[a].name = remote'[b].name, a # b
      PROVE  FALSE
  <2>1. /\ At("create") /\ remote'[a].name = job.mem.spec.name
        /\ remote'[b] = remote[b]
    BY <1>3, NewClient
  <2>2. b \in Live /\ remote[b].name = job.mem.spec.name
    BY <1>3, <2>1 DEF Live
  <2>3. QED
    BY <2>1, <2>2 DEF UniqueInv, LookupInv
<1>4. QED
  BY <1>1, <1>2, <1>3

\* One page is all there is.
LEMMA PageIsLive ==
    ASSUME OnePage, NEW page \in Pages
    PROVE  page = Live
<1>1. Live \in SUBSET Ids
  BY DEF Live
<1>2. /\ IsFiniteSet(Live) /\ Cardinality(Live) <= Cardinality(Ids)
      /\ Cardinality(Live) \in Nat /\ Cardinality(Ids) \in Nat
  BY <1>1, FS_Subset, FS_CardinalityType DEF OnePage
<1>3. Cardinality(Live) <= PageSize
  BY <1>2, BoundsAssumption DEF OnePage
<1>4. QED
  BY <1>3 DEF Pages

\* The worker comes to create only from Resolve, or stays there while others move.
LEMMA ToCreate ==
    ASSUME TypeOK, Next, job'.pc = "create"
    PROVE  remote' = remote /\ job.pc # "idle" /\ (Resolve \/ job' = job)
<1>1. job'.pc \in AfterGroups
  BY DEF AfterGroups
<1>2. job.pc # "idle"
  BY <1>1, Asides DEF Aside, ResolveGroups, Resolve, Create, Update, EnsureSecret,
     Generate, StoreSecret, EnsurePolicy, At
<1>3. job \in Job /\ job.mem \in CR
  BY <1>2, BusyJob
<1>4. /\ ~Done /\ ~Goto("errorStatus") /\ ~Goto("ensureSecret")
      /\ ~Goto("ensurePolicy") /\ ~Goto("finish")
  BY <1>3 DEF Done, Idle, Goto, Job
<1>5. ~ResolveGroups /\ ~Update /\ ~(\E i \in Ids : Create(i))
  BY <1>3, <1>4 DEF ResolveGroups, Update, Create, Job
<1>6. ~EnsureSecret /\ ~Generate
  <2>1. ~EnsureSecret
    <3>1. EnsureSecret => \E t : job' = [job EXCEPT !.pc = "generate", !.secret = t]
      BY <1>4 DEF EnsureSecret
    <3>2. QED
      BY <1>3, <3>1 DEF Job
  <2>2. ~Generate
    BY <1>3, <1>4 DEF Generate, Job
  <2>3. QED
    BY <2>1, <2>2
<1>7. ~StoreSecret /\ ~EnsurePolicy
  BY <1>3, <1>4 DEF StoreSecret, EnsurePolicy, Job
<1>8. QED
  BY <1>1, <1>2, <1>5, <1>6, <1>7, Asides DEF Aside, Resolve

\* Every step preserves LookupInv.
LEMMA LookupStep ==
    ASSUME AllInv, OnePage, UniqueInv, Next
    PROVE  LookupInv'
<1>1. SUFFICES ASSUME job'.pc = "create"
               PROVE  \A i \in Live' : remote'[i].name # job'.mem.spec.name
  BY DEF LookupInv, At
<1>2. remote' = remote /\ Live' = Live /\ (Resolve \/ job' = job)
  BY <1>1, ToCreate DEF AllInv, CoreInv, Live
<1>3. CASE job' = job
  BY <1>1, <1>2, <1>3 DEF UniqueInv, LookupInv, At
<1>4. CASE Resolve
  <2>1. job \in Job /\ job.pc # "idle"
    BY <1>4, BusyJob DEF AllInv, CoreInv, Resolve, At
  <2>2. /\ job.mem.clientID = None
        /\ job' = [job EXCEPT !.pc = "create"]
        /\ \E page \in Pages :
             {i \in page : remote[i].name = job.mem.spec.name} = {}
    BY <1>1, <1>4, <2>1 DEF Resolve, Goto, Job
  <2>3. {i \in Live : remote[i].name = job.mem.spec.name} = {}
    BY <2>2, PageIsLive
  <2>4. job'.mem = job.mem
    BY <2>1, <2>2 DEF Job
  <2>5. QED
    BY <1>2, <2>3, <2>4
<1>5. QED
  BY <1>2, <1>3, <1>4

\* The invariant holds initially.
LEMMA UniqueInit == ExistingDistinct /\ Init => UniqueInv
<1>1. SUFFICES ASSUME ExistingDistinct, Init
               PROVE  UniqueInv
  OBVIOUS
<1>2. \A i \in Live : i \in DOMAIN Existing /\ remote[i].name = Existing[i]
  BY <1>1 DEF Init, Live, InitialRemote
<1>3. ~At("create")
  BY <1>1 DEF Init, Idle, At
<1>4. QED
  BY <1>1, <1>2, <1>3 DEF ExistingDistinct, UniqueInv, Distinct, LookupInv

\* The invariant holds in every reachable state.
LEMMA Uniqueness ==
    (ExistingDistinct /\ OnePage /\ (NamesDisjoint \/ NamesFixed))
        => (Spec => [](AllInv /\ UniqueInv))
<1>1. SUFFICES ASSUME ExistingDistinct, OnePage, NamesDisjoint \/ NamesFixed
               PROVE  Spec => [](AllInv /\ UniqueInv)
  OBVIOUS
<1>2. AllInv /\ UniqueInv /\ [Next]_vars => UniqueInv'
  <2>1. CASE UNCHANGED vars
    BY <2>1 DEF vars, UniqueInv, Distinct, StableName, LookupInv, Live, At
  <2>2. CASE Next
    BY <1>1, <2>2, DistinctStep, LookupStep DEF UniqueInv
  <2>3. QED
    BY <2>1, <2>2
<1>3. Init => UniqueInv
  BY <1>1, UniqueInit
<1>4. Spec => []AllInv
  BY <1>1, Ownership
<1>5. QED
  BY <1>2, <1>3, <1>4, PTL DEF Spec

\* Retries after lost answers, conflicts and crashes never make a second client of a
\* name, if no spec.name changes, PocketID starts with one client of a name and one
\* page of the listing holds every client.
THEOREM ClientPerNameIsOne ==
    (NamesFixed /\ ExistingDistinct /\ OnePage) => (Spec => []OneClientPerName)
<1>1. SUFFICES ASSUME NamesFixed, ExistingDistinct, OnePage
               PROVE  Spec => []OneClientPerName
  OBVIOUS
<1>2. UniqueInv => OneClientPerName
  BY <1>1 DEF UniqueInv, Distinct, StableName, NamesFixed, OneClientPerName
<1>3. QED
  BY <1>1, <1>2, Uniqueness, PTL

\* Two clients in PocketID that one resource knows by a fixed name are one.
LEMMA SameClient ==
    ASSUME NamesDisjoint, UniqueInv, NEW c \in Clients, NameFixed(c),
           NEW i \in Live, NEW j \in Live, Named(c, i), Named(c, j)
    PROVE  i = j
<1>1. remote[i].name \in NamesOf(c) /\ remote[j].name \in NamesOf(c)
  BY NoneAssumption DEF Named, Live
<1>2. remote[i].name = remote[j].name
  BY <1>1 DEF NameFixed, NamesOf
<1>3. StableName(remote[i].name)
  BY <1>1 DEF StableName, NamesDisjoint
<1>4. QED
  BY <1>2, <1>3 DEF UniqueInv, Distinct

\* A step that replaces no recorded id of a live resource.
LEMMA IdStep ==
    ASSUME AllInv, UniqueInv, NamesDisjoint, NamesFixed, Next, NEW c \in Clients,
           Fresh(c), obj'[c].state # "absent"
    PROVE  obj'[c].clientID = obj[c].clientID
<1>0. /\ TypeOK /\ NamesInv /\ RecordsInv /\ ActingInv /\ JobInv /\ NameFixed(c)
      /\ obj[c].clientID \in Live /\ Named(c, obj[c].clientID)
      /\ obj[c].state = "live" /\ Held(obj[c])
  BY IdTypes DEF AllInv, CoreInv, OwnershipInv, FinalizerInv, RecordedLive, NamesInv,
     RecordsInv, Fresh, Live, NamesFixed
<1>1. Held(obj'[c])
  BY <1>0, ObjMoves DEF ObjMove, Unchanged, Held, LiveHeld
<1>2. CASE At("finish") /\ job.c = c /\ obj'[c].clientID = job.id
  <2>1. job.id \in Live /\ Named(c, job.id)
    BY <1>0, <1>2, BusyJob DEF At, Resolved, ActingInv, NamesInv, Live
  <2>2. QED
    BY <1>0, <1>2, <2>1, SameClient
<1>3. CASE /\ At("errorStatus") /\ job.c = c /\ Current
           /\ obj'[c].clientID = job.mem.clientID
  <2>1. CASE job.mem.clientID = job.base.clientID
    BY <1>3, <2>1 DEF Current
  <2>2. CASE job.mem.clientID # job.base.clientID
    <3>1. job.mem.clientID \in Live /\ Named(c, job.mem.clientID)
      BY <1>0, <1>3, <2>2, IdTypes DEF At, ActingInv, NamesInv, Live
    <3>2. QED
      BY <1>0, <1>3, <3>1, SameClient
  <2>3. QED
    BY <2>1, <2>2
<1>4. QED
  BY <1>1, <1>2, <1>3, RecordMoves DEF RecordMove, AllInv

\* The client a resource records is not replaced by another while the resource lives,
\* whatever copies, lost answers and crashes the controller works with, if in
\* addition no two resources share a name.
THEOREM ClientIdIsStable ==
    (NamesDisjoint /\ NamesFixed /\ ExistingDistinct /\ OnePage) => (Spec => IdStable)
<1>1. SUFFICES ASSUME NamesDisjoint, NamesFixed, ExistingDistinct, OnePage
               PROVE  Spec => IdStable
  OBVIOUS
<1>2. AllInv /\ UniqueInv /\ [Next]_vars =>
        [\A c \in Clients :
           (Fresh(c) /\ obj'[c].state # "absent")
              => obj'[c].clientID = obj[c].clientID]_vars
  BY <1>1, IdStep
<1>3. Spec => [](AllInv /\ UniqueInv)
  BY <1>1, Uniqueness
<1>4. QED
  BY <1>2, <1>3, PTL DEF Spec, IdStable
-------------------------------------------------------------------------------
(* The Secret and the policy name the client that the resource records.    *)

\* An object that belongs to resource c names a client in use that c knows.
NamesClient(c, o) ==
    o.state = "owned" =>
        /\ Held(obj[c])
        /\ obj[c].state = "live" => o.id \in Live /\ Named(c, o.id)

\* Both do.
OwnedInv == \A c \in Clients : NamesClient(c, secret[c]) /\ NamesClient(c, policy[c])

\* As long as a resource is in use no step takes a client away that it knows.
LEMMA KeptLive ==
    ASSUME AllInv, NamesDisjoint, Next, NEW c \in Clients, LiveHeld(obj[c]),
           NEW i \in Live, Named(c, i)
    PROVE  i \in Live'
<1>1. i \in Ids /\ remote[i].state = "live" /\ TypeOK /\ NamesInv /\ JobInv
  BY DEF Live, AllInv, CoreInv, OwnershipInv, FinalizerInv
<1>2. ~(At("deleteRemote") /\ job.base.clientID = i)
  <2>1. SUFFICES ASSUME At("deleteRemote"), job.base.clientID = i
                 PROVE  FALSE
    OBVIOUS
  <2>2. job.c \in Clients /\ Named(job.c, i)
    BY <1>1, <2>1, IdTypes DEF At, NamesInv
  <2>3. job.c = c
    BY <1>1, <2>2, OneOwner
  <2>4. QED
    BY <1>1, <2>1, <2>3 DEF At, JobInv
<1>3. QED
  BY <1>1, <1>2, StaysLive DEF Live

\* What a step leaves as it is, or disowns, still names a client that c knows.
LEMMA OwnedStays ==
    ASSUME AllInv, NamesDisjoint, Next, NEW c \in Clients, NEW o, NamesClient(c, o),
           o.state = "owned", obj'[c].state # "absent"
    PROVE  /\ Held(obj'[c])
           /\ obj'[c].state = "live" => o.id \in Live' /\ NamedNext(c, o.id)
<1>1. /\ Held(obj[c]) /\ ObjMove(c)
      /\ obj[c].state = "live" => o.id \in Live /\ Named(c, o.id)
  BY ObjMoves DEF NamesClient, AllInv, CoreInv, FinalizerInv
<1>2. Held(obj'[c]) /\ (obj'[c].state = "live" => obj[c].state = "live")
  BY <1>1 DEF ObjMove, Unchanged, Held, LiveHeld
<1>3. ASSUME obj'[c].state = "live"
      PROVE  o.id \in Live' /\ NamedNext(c, o.id)
  <2>1. o.id \in Live /\ Named(c, o.id) /\ LiveHeld(obj[c]) /\ o.id \in Ids
    BY <1>1, <1>2, <1>3 DEF LiveHeld, Held, Live
  <2>2. QED
    BY <2>1, KeptLive, NamedStep
<1>4. QED
  BY <1>2, <1>3

\* What the worker writes names the client it acts on.
LEMMA OwnedWritten ==
    ASSUME AllInv, WorkAll, NamesDisjoint, job.pc \in {"storeSecret", "ensurePolicy"},
           NEW i, i = job.id \/ (i = job.mem.clientID /\ i # None)
    PROVE  i \in Live /\ Named(job.c, i) /\ Held(obj[job.c])
<1>1. i = job.id
  BY DEF WorkAll, WorkInv, EarnedInv, Resolved
<1>2. i \in Live
  BY <1>1 DEF WorkAll, WorkInv, EarnedInv, Resolved
<1>3. Named(job.c, i)
  BY <1>1 DEF AllInv, OwnershipInv, NamesInv
<1>4. Held(obj[job.c])
  BY DEF AllInv, CoreInv, FinalizerInv, JobInv, AfterFinalizer
<1>5. QED
  BY <1>2, <1>3, <1>4

\* Every step preserves OwnedInv.
LEMMA OwnedStep ==
    ASSUME AllInv, WorkAll, OwnedInv, NamesDisjoint, Next
    PROVE  OwnedInv'
<1>1. SUFFICES ASSUME NEW c \in Clients, NEW o,
                      o \in {secret'[c], policy'[c]}, o.state = "owned"
               PROVE  /\ Held(obj'[c])
                      /\ obj'[c].state = "live" => o.id \in Live' /\ NamedNext(c, o.id)
  BY DEF OwnedInv, NamesClient, Held, Live, Named, NamedNext
<1>2. /\ SecretMove(c) /\ PolicyWrite(c) /\ Disowned(c)
      /\ secret[c] \in Secret /\ policy[c] \in Policy
  BY LeftMoves, StateTypes DEF AllInv, CoreInv, FinalizerInv
<1>3. CASE o \in {secret[c], policy[c]}
  <2>1. NamesClient(c, o)
    BY <1>3 DEF OwnedInv
  <2>2. obj'[c].state # "absent"
    BY <1>1, <1>2, <2>1 DEF Disowned, NamesClient, Held
  <2>3. QED
    BY <1>1, <2>1, <2>2, OwnedStays
<1>4. CASE /\ job.pc \in {"storeSecret", "ensurePolicy"} /\ job.c = c
           /\ obj' = obj /\ remote' = remote
           /\ o.id = job.id \/ (o.id = job.mem.clientID /\ o.id # None)
  <2>1. o.id \in Live /\ Named(c, o.id) /\ Held(obj[c])
    BY <1>4, OwnedWritten
  <2>2. QED
    BY <1>4, <2>1 DEF Held, Live, Named, NamedNext
<1>5. o \notin {Disown(secret[c]), Disown(policy[c]), NoSecret, NoPolicy}
  BY <1>1, <1>2, DisownTakes DEF NoSecret, NoPolicy
<1>6. QED
  BY <1>1, <1>2, <1>3, <1>4, <1>5 DEF SecretMove, PolicyWrite, At

\* The policy that guards a route and the Secret name the client that the resource
\* records, unless users rename it: neither a crash before the id is recorded, nor a
\* lost answer, nor what an earlier resource of the name left makes them disagree.
THEOREM NamesAgree ==
    (NamesDisjoint /\ ExistingDistinct /\ OnePage) => (Spec => []NamesRecorded)
<1>1. SUFFICES ASSUME NamesDisjoint, ExistingDistinct, OnePage
               PROVE  Spec => []NamesRecorded
  OBVIOUS
<1>2. Init => OwnedInv
  BY DEF Init, InitialSecret, NoSecret, NoPolicy, OwnedInv, NamesClient
<1>3. AllInv /\ WorkAll /\ OwnedInv /\ [Next]_vars => OwnedInv'
  <2>1. CASE UNCHANGED vars
    BY <2>1 DEF vars, OwnedInv, NamesClient, Held, Live, Named
  <2>2. QED
    BY <1>1, <2>1, OwnedStep
<1>4. AllInv /\ UniqueInv /\ OwnedInv => NamesRecorded
  <2>1. SUFFICES ASSUME AllInv, UniqueInv, OwnedInv, NEW c \in Clients, NameFixed(c),
                        Fresh(c), NEW o \in {secret[c], policy[c]}, o.state = "owned"
                 PROVE  o.id = obj[c].clientID
    BY DEF NamesRecorded
  <2>2. obj[c].clientID \in Live /\ Named(c, obj[c].clientID)
    BY <1>1, <2>1, IdTypes DEF AllInv, CoreInv, OwnershipInv, RecordedLive, NamesInv,
       Fresh, Live
  <2>3. o.id \in Live /\ Named(c, o.id)
    BY <2>1 DEF OwnedInv, NamesClient, Fresh
  <2>4. QED
    BY <1>1, <2>1, <2>2, <2>3, SameClient
<1>5. QED
  BY <1>1, <1>2, <1>3, <1>4, Work, Uniqueness, PTL DEF Spec
===============================================================================
