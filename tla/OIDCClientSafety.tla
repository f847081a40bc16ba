--------------------------- MODULE OIDCClientSafety ---------------------------
(***************************************************************************)
(* The types and the finalizer protocol of the PocketIDOIDCClient          *)
(* controller, for every set of resources, specs, ids and groups, every    *)
(* lag of the caches and every number of faults and edits.                 *)
(***************************************************************************)
EXTENDS OIDCClientProps, TLAPS

USE NoneAssumption, SpecsAssumption, ExistingAssumption,
    InitialValuesAssumption, BoundsAssumption
-------------------------------------------------------------------------------
(* Types. *)

\* The values the definitions build have the types TypeOK gives them.
LEMMA NewCRType == \A c \in Clients : \A s \in Specs[c] : NewCR(s) \in CR
  BY DEF NewCR, CR

\* The values that stand for nothing have their types.
LEMMA NoCRType == \A c \in Clients : NoCR(c) \in CR
<1>1. SUFFICES ASSUME NEW c \in Clients
               PROVE  NoCR(c) \in CR
  OBVIOUS
<1>2. Specs[c] # {}
  OBVIOUS
<1>3. (CHOOSE s \in Specs[c] : TRUE) \in Specs[c]
  BY <1>2
<1>4. QED
  BY <1>3, NewCRType DEF NoCR, NewCR, CR

\* No Secret is a value of Secret.
LEMMA NoSecretType == NoSecret \in Secret
  BY DEF NoSecret, Secret

\* No SecurityPolicy is a value of Policy.
LEMMA NoPolicyType == NoPolicy \in Policy
  BY DEF NoPolicy, Policy

\* A Secret that lost its owner is still one.
LEMMA DisownType ==
    /\ \A s \in Secret : Disown(s) \in Secret
    /\ \A p \in Policy : Disown(p) \in Policy
  BY DEF Disown, Secret, Policy

\* The clients that PocketID starts with have their type.
LEMMA InitialRemoteType == \A i \in Ids : InitialRemote(i) \in Remote
  BY DEF InitialRemote, Remote

\* The parts of TypeOK that updates start from.
LEMMA StateTypes ==
    ASSUME TypeOK
    PROVE  /\ obj \in [Clients -> CR] /\ cache \in [Clients -> CR]
           /\ remote \in [Ids -> Remote]
           /\ secret \in [Clients -> Secret] /\ policy \in [Clients -> Policy]
  BY DEF TypeOK

\* Field updates of one element keep the type of the whole.
LEMMA RemoteDeleted ==
    ASSUME NEW r \in [Ids -> Remote], NEW i
    PROVE  [r EXCEPT ![i].state = "deleted"] \in [Ids -> Remote]
  BY ZenonT(60) DEF Remote

\* Update writes a client of PocketID.
LEMMA RemoteUpdate ==
    ASSUME NEW q \in Remote, NEW n \in Names, NEW x \in Confs,
           NEW gs \in SUBSET GroupIds
    PROVE  [q EXCEPT !.name = n, !.conf = x, !.groups = gs] \in Remote
  BY DEF Remote

\* Setting the finalizer of a resource leaves a resource.
LEMMA FinalizerUpdate ==
    ASSUME NEW o \in [Clients -> CR], NEW c \in Clients
    PROVE  [o EXCEPT ![c].finalizer = TRUE] \in [Clients -> CR]
  BY ZenonT(60) DEF CR

\* So does editing its spec.
LEMMA SpecUpdate ==
    ASSUME NEW o \in CR, NEW s \in ClientSpec
    PROVE  [o EXCEPT !.spec = s, !.observed = FALSE] \in CR
  BY DEF CR

\* So does requesting its deletion.
LEMMA DeletingUpdate ==
    ASSUME NEW o \in [Clients -> CR], NEW c \in Clients
    PROVE  [o EXCEPT ![c].state = "deleting"] \in [Clients -> CR]
  BY DEF CR

\* A busy worker's job has all its fields.
LEMMA BusyJob ==
    ASSUME TypeOK, job.pc # "idle"
    PROVE  /\ job \in Job
           /\ job.c \in Clients /\ job.base \in CR /\ job.mem \in CR
           /\ job.groups \in SUBSET GroupIds /\ job.secret \in Secret
           /\ job.key \in Keys \cup {None} /\ job.id \in Ids \cup {None}
           /\ job.pc \in Resolved => job.id \in Ids
<1>1. job \in Job
  BY DEF TypeOK, JobOK, Idle
<1>2. QED
  BY <1>1 DEF Job, TypeOK, JobOK

\* Going to another step, to the end, or to the error report keeps the job's type.
LEMMA GotoType ==
    ASSUME job \in Job, NEW pc \in Busy, Goto(pc),
           pc \in Resolved => job.id \in Ids
    PROVE  JobOK'
  BY DEF Goto, Job, JobOK, Idle

\* An ended job is well typed.
LEMMA DoneType == Done => JobOK'
  BY DEF Done, JobOK, Idle, Resolved

\* The job that writes an error status may have no id.
LEMMA ErrorIsBusy == "errorStatus" \in Busy /\ "errorStatus" \notin Resolved
  BY DEF Busy, Resolved

\* Faults are counted within the bound.
LEMMA FaultType == TypeOK /\ Fault => faults' \in 0..MaxFaults
  BY DEF TypeOK, Fault

\* The initial states are well typed.
LEMMA TypeInit == Init => TypeOK
  BY NoCRType, NoSecretType, NoPolicyType, InitialRemoteType
  DEF Init, TypeOK, JobOK, Resolved, InitialSecret, Secret, Idle

\* Reading a resource or its Secret, from the cache or not, gives a typed value.
LEMMA SeenType ==
    ASSUME TypeOK, NEW c \in Clients
    PROVE  SeenClient(c) \in CR /\ SeenSecret(c) \in Secret
  BY DEF TypeOK, SeenClient, SeenSecret

\* Each step preserves the types.
LEMMA TypeBegin ==
    ASSUME TypeOK, NEW c \in Clients, Begin(c)
    PROVE  TypeOK'
<1>1. PICK pc \in {"errorStatus", "deleteRemote", "removeFinalizer",
                   "addFinalizer", "groups"} : Start(c, pc)
  BY DEF Begin
<1>2. pc \in Busy /\ pc \notin Resolved
  BY DEF Busy, AfterFinalizer, Resolved
<1>3. JobOK'
  BY <1>1, <1>2, SeenType, NoSecretType DEF Start, Job, JobOK
<1>4. QED
  BY <1>3 DEF Begin, TypeOK, kube, others

\* The steps on the finalizer keep the types.
LEMMA TypeFinalizer == TypeOK /\ (AddFinalizer \/ RemoveFinalizer) => TypeOK'
<1>1. ASSUME TypeOK, AddFinalizer
      PROVE  TypeOK'
  <2>1. job \in Job /\ job.c \in Clients
    BY <1>1, BusyJob DEF AddFinalizer, At
  <2>2. obj' \in [Clients -> CR]
    BY <1>1, <2>1, StateTypes, FinalizerUpdate DEF AddFinalizer
  <2>3. JobOK'
    <3>1. CASE Current
      <4>1. job' = [job EXCEPT !.pc = "groups", !.base.finalizer = TRUE,
                               !.mem.finalizer = TRUE]
        BY <1>1, <3>1 DEF AddFinalizer
      <4>2. "groups" \in Busy /\ "groups" \notin Resolved
        BY DEF Busy, AfterFinalizer, Resolved
      <4>3. job' \in Job /\ job'.pc = "groups"
        BY <2>1, <4>1, <4>2 DEF Job, CR
      <4>4. QED
        BY <4>2, <4>3 DEF JobOK
    <3>2. CASE ~Current
      BY <1>1, <3>2, DoneType DEF AddFinalizer
    <3>3. QED
      BY <3>1, <3>2
  <2>4. QED
    BY <1>1, <2>2, <2>3 DEF AddFinalizer, TypeOK, others
<1>2. ASSUME TypeOK, RemoveFinalizer
      PROVE  TypeOK'
  <2>1. job.c \in Clients
    BY <1>2, BusyJob DEF RemoveFinalizer, At
  <2>2. /\ obj' \in [Clients -> CR]
        /\ secret' \in [Clients -> Secret]
        /\ policy' \in [Clients -> Policy]
    BY <1>2, <2>1, NoCRType, DisownType DEF RemoveFinalizer, Drop, TypeOK
  <2>3. QED
    BY <1>2, <2>2, DoneType DEF RemoveFinalizer, TypeOK, others
<1>3. QED
  BY <1>1, <1>2

\* The calls to PocketID keep the types.
LEMMA TypeRemote ==
    TypeOK /\ (DeleteRemote \/ (\E i \in Ids : Create(i)) \/ Update \/ Generate)
        => TypeOK'
<1>1. ASSUME TypeOK, DeleteRemote
      PROVE  TypeOK'
  <2>1. job \in Job
    BY <1>1, BusyJob DEF DeleteRemote, At
  <2>2. remote' \in [Ids -> Remote]
    BY <1>1, StateTypes, RemoteDeleted DEF DeleteRemote
  <2>3. "removeFinalizer" \in Busy /\ "removeFinalizer" \notin Resolved
    BY DEF Busy, Resolved
  <2>4. JobOK'
    BY <1>1, <2>1, <2>3, GotoType, ErrorIsBusy DEF DeleteRemote
  <2>5. QED
    BY <1>1, <2>2, <2>4, FaultType DEF DeleteRemote, TypeOK, kube, others
<1>2. ASSUME TypeOK, NEW i \in Ids, Create(i)
      PROVE  TypeOK'
  <2>1. /\ job \in Job /\ job.mem \in CR /\ job.groups \in SUBSET GroupIds
    BY <1>2, BusyJob DEF Create, At
  <2>2. remote' \in [Ids -> Remote]
    BY <1>2, <2>1 DEF Create, TypeOK, Remote, CR, ClientSpec
  <2>3. JobOK'
    <3>1. CASE job' = [job EXCEPT !.pc = "ensureSecret", !.id = i,
                                  !.mem.clientID = i]
      BY <2>1, <3>1 DEF JobOK, Job, Busy, AfterFinalizer, CR
    <3>2. CASE Goto("errorStatus")
      BY <2>1, <3>2, GotoType, ErrorIsBusy
    <3>3. QED
      BY <1>2, <3>1, <3>2 DEF Create
  <2>4. QED
    BY <1>2, <2>2, <2>3, FaultType DEF Create, TypeOK, kube, others
<1>3. ASSUME TypeOK, Update
      PROVE  TypeOK'
  <2>1. /\ job \in Job /\ job.mem \in CR /\ job.groups \in SUBSET GroupIds
        /\ job.id \in Ids
    BY <1>3, BusyJob DEF Update, At, Resolved
  <2>2. remote' \in [Ids -> Remote]
    <3>1. job.mem.spec.name \in Names /\ job.mem.spec.conf \in Confs
      BY <2>1 DEF CR, ClientSpec
    <3>2. remote[job.id] \in Remote
      BY <1>3, <2>1, StateTypes
    <3>3. [remote[job.id] EXCEPT !.name = job.mem.spec.name,
                                 !.conf = job.mem.spec.conf,
                                 !.groups = job.groups] \in Remote
      BY <2>1, <3>1, <3>2, RemoteUpdate
    <3>4. QED
      BY <1>3, <2>1, <3>3, StateTypes DEF Update
  <2>3. "ensureSecret" \in Busy
    BY DEF Busy, AfterFinalizer
  <2>4. JobOK'
    BY <1>3, <2>1, <2>3, GotoType, ErrorIsBusy DEF Update
  <2>5. QED
    BY <1>3, <2>2, <2>4, FaultType DEF Update, TypeOK, kube, others
<1>4. ASSUME TypeOK, Generate
      PROVE  TypeOK'
  <2>1. job \in Job /\ job.id \in Ids
    BY <1>4, BusyJob DEF Generate, At, Resolved
  <2>2. PICK k \in Keys :
          /\ remote' = [remote EXCEPT ![job.id].key = k]
          /\ \/ job' = [job EXCEPT !.pc = "storeSecret", !.key = k]
                  /\ UNCHANGED faults
             \/ Done /\ Fault
    BY <1>4 DEF Generate
  <2>3. remote' \in [Ids -> Remote]
    BY <1>4, <2>1, <2>2, StateTypes, SMTT(30) DEF Remote
  <2>4. JobOK'
    BY <2>1, <2>2, DoneType, ZenonT(60) DEF JobOK, Job, Busy, AfterFinalizer
  <2>5. QED
    BY <1>4, <2>2, <2>3, <2>4, FaultType DEF Generate, TypeOK, kube, others
<1>5. QED
  BY <1>1, <1>2, <1>3, <1>4
\* The steps that look for groups and for the client keep the types.
LEMMA TypeResolve == TypeOK /\ (ResolveGroups \/ Resolve) => TypeOK'
<1>1. ASSUME TypeOK, ResolveGroups
      PROVE  TypeOK'
  <2>1. job \in Job /\ job.mem \in CR
    BY <1>1, BusyJob DEF ResolveGroups, At
  <2>2. {gid[g] : g \in job.mem.spec.refs} \subseteq GroupIds \cup {None}
    <3>1. job.mem.spec.refs \subseteq Groups
      BY <2>1 DEF CR, ClientSpec
    <3>2. QED
      BY <1>1, <3>1 DEF TypeOK
  <2>3. JobOK'
    <3>1. CASE Goto("errorStatus")
      BY <2>1, <3>1, GotoType, ErrorIsBusy
    <3>2. CASE ~Goto("errorStatus")
      <4>1. PICK ids \in SUBSET GroupIds :
              job' = [job EXCEPT !.pc = "resolve", !.groups = ids]
        BY <1>1, <2>2, <3>2 DEF ResolveGroups
      <4>2. QED
        BY <2>1, <4>1 DEF JobOK, Job, Busy, AfterFinalizer, Resolved
    <3>3. QED
      BY <3>1, <3>2
  <2>4. QED
    BY <1>1, <2>3 DEF ResolveGroups, TypeOK, kube, others
<1>2. ASSUME TypeOK, Resolve
      PROVE  TypeOK'
  <2>1. job \in Job
    BY <1>2, BusyJob DEF Resolve, At
  <2>2. \/ Goto("errorStatus") \/ Goto("create")
        \/ \E i \in Ids : job' = [job EXCEPT !.pc = "update", !.id = i]
    BY <1>2 DEF Resolve, Live, Pages
  <2>3. "create" \in Busy /\ "create" \notin Resolved
    BY DEF Busy, AfterFinalizer, Resolved
  <2>4. ASSUME NEW i \in Ids, job' = [job EXCEPT !.pc = "update", !.id = i]
        PROVE  JobOK'
    BY <2>1, <2>4 DEF JobOK, Job, Busy, AfterFinalizer
  <2>5. JobOK'
    BY <2>1, <2>2, <2>3, <2>4, GotoType, ErrorIsBusy
  <2>6. QED
    BY <1>2, <2>5 DEF Resolve, TypeOK, kube, others
<1>3. QED
  BY <1>1, <1>2

\* The steps on the credentials Secret keep the types.
LEMMA TypeSecret == TypeOK /\ (EnsureSecret \/ StoreSecret) => TypeOK'
<1>1. ASSUME TypeOK, EnsureSecret
      PROVE  TypeOK'
  <2>1. job \in Job /\ job.c \in Clients /\ job.id \in Ids
    BY <1>1, BusyJob DEF EnsureSecret, At, Resolved
  <2>2. "ensurePolicy" \in Busy
    BY DEF Busy, AfterFinalizer
  <2>3. SeenSecret(job.c) \in Secret
    BY <1>1, <2>1, SeenType
  <2>4. ASSUME job' = [job EXCEPT !.pc = "generate",
                                  !.secret = SeenSecret(job.c)]
        PROVE  JobOK'
    BY <2>1, <2>3, <2>4 DEF JobOK, Job, Busy, AfterFinalizer
  <2>5. JobOK'
    BY <1>1, <2>1, <2>2, <2>4, GotoType DEF EnsureSecret
  <2>6. QED
    BY <1>1, <2>5 DEF EnsureSecret, TypeOK, kube, others
<1>2. ASSUME TypeOK, StoreSecret
      PROVE  TypeOK'
  <2>1. /\ job \in Job /\ job.c \in Clients /\ job.id \in Ids
        /\ job.key \in Keys \cup {None} /\ job.mem \in CR
    BY <1>2, BusyJob DEF StoreSecret, At, Resolved
  <2>2. ASSUME job' = [job EXCEPT !.pc = "ensurePolicy", !.mem.credName = TRUE]
        PROVE  JobOK'
    BY <2>1, <2>2, ZenonT(60) DEF JobOK, Job, Busy, AfterFinalizer, CR
  <2>3. JobOK'
    BY <1>2, <2>2, DoneType DEF StoreSecret
  <2>4. secret' \in [Clients -> Secret]
    <3>1. secret[job.c] \in Secret
      BY <1>2, <2>1, StateTypes
    <3>2. [state |-> IF secret[job.c].state = "none" THEN "owned"
                                                     ELSE secret[job.c].state,
           id |-> job.id, key |-> job.key] \in Secret
      BY <2>1, <3>1 DEF Secret
    <3>3. QED
      BY <1>2, <2>1, <3>2, StateTypes DEF StoreSecret
  <2>5. QED
    BY <1>2, <2>3, <2>4 DEF StoreSecret, TypeOK, others
<1>3. QED
  BY <1>1, <1>2

\* The step on the SecurityPolicy keeps the types.
LEMMA TypePolicy == TypeOK /\ EnsurePolicy => TypeOK'
<1>1. SUFFICES ASSUME TypeOK, EnsurePolicy
               PROVE  TypeOK'
  OBVIOUS
<1>2. /\ job \in Job /\ job.c \in Clients /\ job.id \in Ids /\ job.mem \in CR
  BY <1>1, BusyJob DEF EnsurePolicy, At, Resolved
<1>3. "finish" \in Busy
  BY DEF Busy, AfterFinalizer
<1>4. ASSUME NEW b \in BOOLEAN,
             job' = [job EXCEPT !.pc = "finish", !.mem.policyName = b]
      PROVE  JobOK'
  BY <1>2, <1>4, ZenonT(60) DEF JobOK, Job, Busy, AfterFinalizer, CR
<1>5. JobOK'
  BY <1>1, <1>2, <1>3, <1>4, GotoType, ErrorIsBusy DEF EnsurePolicy
<1>6. policy' \in [Clients -> Policy]
  <2>1. policy[job.c] \in Policy
    BY <1>1, <1>2, StateTypes
  <2>2. [state |-> IF policy[job.c].state = "none" THEN "owned"
                                                   ELSE policy[job.c].state,
         id |-> job.mem.clientID] \in Policy
    BY <1>2, <2>1 DEF Policy, CR
  <2>3. QED
    BY <1>1, <1>2, <2>2, StateTypes, NoPolicyType DEF EnsurePolicy
<1>7. faults' \in 0..MaxFaults
  <2>1. faults \in 0..MaxFaults
    BY <1>1 DEF TypeOK
  <2>2. QED
    BY <1>1, <2>1, FaultType DEF EnsurePolicy
<1>8. QED
  BY <1>1, <1>5, <1>6, <1>7 DEF EnsurePolicy, TypeOK, others

\* The status updates keep the types.
LEMMA TypeReport == TypeOK /\ (Finish \/ WriteErrorStatus) => TypeOK'
<1>1. ASSUME TypeOK, Finish
      PROVE  TypeOK'
  <2>1. /\ job.c \in Clients /\ job.id \in Ids /\ job.mem \in CR
    BY <1>1, BusyJob DEF Finish, At, Resolved
  <2>2. SeenClient(job.c) \in CR
    BY <1>1, <2>1, SeenType
  <2>3. [SeenClient(job.c) EXCEPT !.clientID = job.id,
                                  !.credName = job.mem.credName,
                                  !.policyName = job.mem.policyName,
                                  !.ready = TRUE, !.observed = TRUE] \in CR
    BY <2>1, <2>2 DEF CR
  <2>4. obj' \in [Clients -> CR]
    BY <1>1, <2>1, <2>3, StateTypes DEF Finish
  <2>5. QED
    BY <1>1, <2>4, DoneType DEF Finish, TypeOK, others
<1>2. ASSUME TypeOK, WriteErrorStatus
      PROVE  TypeOK'
  <2>1. job.c \in Clients /\ job.mem \in CR
    BY <1>2, BusyJob DEF WriteErrorStatus, At
  <2>2. [job.mem EXCEPT !.ready = FALSE, !.observed = TRUE] \in CR
    BY <2>1 DEF CR
  <2>3. obj' \in [Clients -> CR]
    BY <1>2, <2>1, <2>2, StateTypes DEF WriteErrorStatus
  <2>4. QED
    BY <1>2, <2>3, DoneType DEF WriteErrorStatus, TypeOK, others
<1>3. QED
  BY <1>1, <1>2

\* Failed calls and crashes keep the types.
LEMMA TypeFaults == TypeOK /\ (CallFails \/ Crash) => TypeOK'
<1>1. ASSUME TypeOK, CallFails
      PROVE  TypeOK'
  <2>1. job.pc # "idle" \/ Done
    BY <1>1 DEF CallFails, At
  <2>2. JobOK'
    BY <1>1, <2>1, BusyJob, GotoType, ErrorIsBusy, DoneType DEF CallFails
  <2>3. QED
    BY <1>1, <2>2, FaultType DEF CallFails, TypeOK, kube, others
<1>2. ASSUME TypeOK, Crash
      PROVE  TypeOK'
  BY <1>2, FaultType, DoneType DEF Crash, TypeOK, others
<1>3. QED
  BY <1>1, <1>2

\* The caches and the garbage collector keep the types.
LEMMA TypeCluster ==
    ASSUME TypeOK, NEW c \in Clients, Cluster(c)
    PROVE  TypeOK'
  BY NoSecretType, NoPolicyType DEF Cluster, CacheSync, SecretSync, CollectSecret,
     CollectPolicy, TypeOK, JobOK, others

\* What users and other controllers do keeps the types.
LEMMA TypeEnvironment == TypeOK /\ Environment => TypeOK'
<1>1. SUFFICES ASSUME TypeOK, Environment
               PROVE  TypeOK'
  OBVIOUS
<1>2. ASSUME NEW c \in Clients, NEW s \in Specs[c], CreateCR(c, s)
      PROVE  TypeOK'
  BY <1>1, <1>2, NewCRType DEF CreateCR, Edit, TypeOK, JobOK
<1>3. ASSUME NEW c \in Clients, NEW s \in Specs[c], EditSpec(c, s)
      PROVE  TypeOK'
  <2>1. s \in ClientSpec
    OBVIOUS
  <2>2. obj' \in [Clients -> CR]
    <3>1. obj[c] \in CR
      BY <1>1, StateTypes
    <3>2. [obj[c] EXCEPT !.spec = s, !.observed = FALSE] \in CR
      BY <2>1, <3>1, SpecUpdate
    <3>3. QED
      BY <1>1, <1>3, <3>2, StateTypes DEF EditSpec
  <2>3. QED
    BY <1>1, <1>3, <2>2 DEF EditSpec, Edit, TypeOK, JobOK
<1>4. ASSUME NEW c \in Clients, RequestDelete(c)
      PROVE  TypeOK'
  <2>1. /\ obj' \in [Clients -> CR]
        /\ secret' \in [Clients -> Secret]
        /\ policy' \in [Clients -> Policy]
    <3>1. CASE /\ obj' = [obj EXCEPT ![c].state = "deleting"]
               /\ UNCHANGED <<secret, policy>>
      BY <1>1, <3>1, StateTypes, DeletingUpdate
    <3>2. CASE Drop(c)
      BY <1>1, <3>2, StateTypes, NoCRType, DisownType DEF Drop
    <3>3. QED
      BY <1>4, <3>1, <3>2 DEF RequestDelete
  <2>2. QED
    BY <1>1, <1>4, <2>1 DEF RequestDelete, Edit, TypeOK, JobOK
<1>5. ASSUME NEW c \in Clients, DeleteSecret(c)
      PROVE  TypeOK'
  BY <1>1, <1>5, NoSecretType DEF DeleteSecret, Edit, TypeOK, JobOK
<1>6. ASSUME NEW g \in Groups, NEW x \in GroupIds \cup {None}, ChangeGroup(g, x)
      PROVE  TypeOK'
  BY <1>1, <1>6 DEF ChangeGroup, Edit, TypeOK, JobOK, kube
<1>7. CASE FlipInstance \/ FlipRoute
  <2>1. instanceOK' \in BOOLEAN /\ routeOK' \in BOOLEAN
    BY <1>1, <1>7, Zenon DEF FlipInstance, FlipRoute, TypeOK
  <2>2. edits' \in 0..MaxEdits
    BY <1>1, <1>7 DEF FlipInstance, FlipRoute, Edit, TypeOK
  <2>3. QED
    BY <1>1, <1>7, <2>1, <2>2 DEF FlipInstance, FlipRoute, TypeOK, JobOK, kube
<1>8. QED
  BY <1>1, <1>2, <1>3, <1>4, <1>5, <1>6, <1>7 DEF Environment

\* Every step keeps the types.
LEMMA TypeStep == TypeOK /\ [Next]_vars => TypeOK'
<1>1. CASE UNCHANGED vars
  BY <1>1 DEF TypeOK, JobOK, vars
<1>2. QED
  BY <1>1, TypeBegin, TypeFinalizer, TypeRemote, TypeResolve, TypeSecret,
     TypePolicy, TypeReport, TypeFaults, TypeCluster, TypeEnvironment
  DEF Next, Worker

\* The state always has the types TypeOK gives it, and a step that acts on a
\* client of PocketID knows which one.
THEOREM TypeCorrect == Spec => []TypeOK
  BY TypeInit, TypeStep, PTL DEF Spec
-------------------------------------------------------------------------------
(* What a step can do to a resource, to the copy seen of it and to the job. *)

\* A resource that does not exist is not live.
LEMMA NoCRAbsent ==
    ASSUME NEW c \in Clients
    PROVE  NoCR(c).state = "absent" /\ ~NoCR(c).finalizer
  BY DEF NoCR, NewCR

\* The step leaves the state and the finalizer alone.
Unchanged(c) ==
    obj'[c].state = obj[c].state /\ obj'[c].finalizer = obj[c].finalizer

\* The state and the finalizer of a resource change in five ways only.
ObjMove(c) ==
    \/ Unchanged(c)
    \/ /\ obj[c].state = "absent"
       /\ obj'[c].state = "live" /\ ~obj'[c].finalizer
    \/ LiveHeld(obj[c]) /\ obj'[c].state = "deleting" /\ obj'[c].finalizer
    \/ obj[c].state = "live" /\ ~obj[c].finalizer /\ obj'[c].state = "absent"
    \/ /\ At("addFinalizer") /\ job.c = c /\ Current
       /\ obj'[c].state = obj[c].state /\ obj'[c].finalizer
    \/ /\ At("removeFinalizer") /\ job.c = c /\ Current
       /\ obj'[c].state = "absent" /\ job'.pc = "idle"

\* Every step of the worker moves every resource in those ways.
LEMMA WorkerMoves ==
    ASSUME TypeOK, JobInv, Worker, NEW c \in Clients
    PROVE  ObjMove(c)
<1>1. /\ job.c \in Clients /\ obj \in [Clients -> CR] /\ job.pc # "idle"
  BY BusyJob, StateTypes DEF Worker, AddFinalizer, DeleteRemote, RemoveFinalizer,
     ResolveGroups, Resolve, Create, Update, EnsureSecret, Generate, StoreSecret,
     EnsurePolicy, Finish, WriteErrorStatus, At
<1>2. CASE AddFinalizer
  BY <1>1, <1>2 DEF AddFinalizer, Done, ObjMove, Unchanged, CR
<1>3. CASE RemoveFinalizer
  BY <1>1, <1>3, NoCRAbsent DEF RemoveFinalizer, Drop, Done, Idle, ObjMove,
     Unchanged
<1>4. CASE Finish
  <2>1. CASE obj' = obj
    BY <2>1 DEF ObjMove, Unchanged
  <2>2. CASE obj' # obj
    <3>1. obj' = [obj EXCEPT ![job.c] =
                    [obj[job.c] EXCEPT !.clientID = job.id,
                                       !.credName = job.mem.credName,
                                       !.policyName = job.mem.policyName,
                                       !.ready = TRUE, !.observed = TRUE]]
      BY <1>4, <2>2 DEF Finish
    <3>2. obj[job.c] \in CR
      BY <1>1
    <3>3. QED
      BY <1>1, <3>1, <3>2 DEF ObjMove, Unchanged, CR
  <2>3. QED
    BY <2>1, <2>2
<1>5. CASE WriteErrorStatus
  <2>1. CASE Current
    <3>1. obj' = [obj EXCEPT ![job.c] =
                    [job.mem EXCEPT !.ready = FALSE, !.observed = TRUE]]
      BY <1>5, <2>1 DEF WriteErrorStatus
    <3>2. /\ job.mem \in CR /\ job.mem.state = obj[job.c].state
          /\ job.mem.finalizer = obj[job.c].finalizer
      BY <1>1, <2>1, BusyJob DEF Current, JobInv
    <3>3. QED
      BY <1>1, <3>1, <3>2 DEF ObjMove, Unchanged, CR
  <2>2. CASE ~Current
    BY <1>5, <2>2 DEF WriteErrorStatus, ObjMove, Unchanged
  <2>3. QED
    BY <2>1, <2>2
<1>6. CASE obj' = obj
  BY <1>6 DEF ObjMove, Unchanged
<1>7. QED
  BY <1>2, <1>3, <1>4, <1>5, <1>6 DEF Worker, DeleteRemote, ResolveGroups, Resolve,
     Create, Update, EnsureSecret, Generate, StoreSecret, EnsurePolicy, kube

\* Every step moves every resource so.
LEMMA ObjMoves ==
    ASSUME TypeOK, JobInv, Next, NEW c \in Clients
    PROVE  ObjMove(c)
<1>1. obj \in [Clients -> CR]
  BY StateTypes
<1>2. ASSUME NEW d \in Clients, NEW s \in Specs[d], CreateCR(d, s)
      PROVE  ObjMove(c)
  BY <1>1, <1>2 DEF CreateCR, NewCR, ObjMove, Unchanged
<1>3. ASSUME NEW d \in Clients, NEW s \in Specs[d], EditSpec(d, s)
      PROVE  ObjMove(c)
  BY <1>1, <1>3 DEF EditSpec, ObjMove, Unchanged, CR
<1>4. ASSUME NEW d \in Clients, RequestDelete(d)
      PROVE  ObjMove(c)
  BY <1>1, <1>4, NoCRAbsent DEF RequestDelete, Drop, ObjMove, Unchanged, LiveHeld, CR
<1>5. CASE obj' = obj
  BY <1>5 DEF ObjMove, Unchanged
<1>6. QED
  BY <1>2, <1>3, <1>4, <1>5, WorkerMoves DEF Next, Environment, Begin, Cluster,
     CacheSync, SecretSync, CollectSecret, CollectPolicy, CallFails, Crash,
     DeleteSecret, ChangeGroup, FlipInstance, FlipRoute, kube

\* A copy is only ever replaced by what is stored.
LEMMA SeenMoves ==
    ASSUME TypeOK, Next, NEW c \in Clients
    PROVE  SeenClient(c)' = SeenClient(c) \/ SeenClient(c)' = obj'[c]
<1>1. cache' = cache \/ cache' = obj' \/ \E d \in Clients : CacheSync(d)
  BY DEF Next, Environment, Begin, Cluster, SecretSync, CollectSecret,
     CollectPolicy, CallFails, Crash, Worker, AddFinalizer, DeleteRemote,
     RemoveFinalizer, ResolveGroups, Resolve, Create, Update, EnsureSecret,
     Generate, StoreSecret, EnsurePolicy, Finish, WriteErrorStatus, CreateCR,
     EditSpec, RequestDelete, DeleteSecret, ChangeGroup, FlipInstance, FlipRoute,
     kube
<1>2. ASSUME NEW d \in Clients, CacheSync(d)
      PROVE  cache'[c] = cache[c] \/ cache'[c] = obj'[c]
  BY <1>2, StateTypes DEF CacheSync
<1>3. QED
  BY <1>1, <1>2 DEF SeenClient

\* A job starts with the copy seen, and keeps it until AddFinalizer.
JobStart ==
    /\ job.pc = "idle"
    /\ UNCHANGED <<obj, cache>>
    /\ \E c \in Clients :
         /\ job'.c = c /\ job'.base = SeenClient(c) /\ job'.mem = SeenClient(c)
         /\ SeenClient(c).state # "absent"
         /\ \/ job'.pc = "errorStatus"
            \/ /\ job'.pc \in {"deleteRemote", "removeFinalizer"}
               /\ SeenClient(c).state = "deleting"
            \/ /\ job'.pc = "addFinalizer"
               /\ SeenClient(c).state = "live"
            \/ job'.pc = "groups" /\ LiveHeld(SeenClient(c))

\* AddFinalizer succeeded.
JobFinalizer ==
    /\ At("addFinalizer") /\ Current
    /\ obj' = [obj EXCEPT ![job.c].finalizer = TRUE] /\ UNCHANGED cache
    /\ job' = [job EXCEPT !.pc = "groups", !.base.finalizer = TRUE,
                          !.mem.finalizer = TRUE]

\* The job keeps its copy of the resource, as far as the invariant sees.
SameCopy ==
    /\ job'.c = job.c /\ job'.base = job.base
    /\ job'.mem.state = job.mem.state /\ job'.mem.spec = job.mem.spec
    /\ job'.mem.finalizer = job.mem.finalizer

\* The job goes on past the finalizer, or calls PocketID to delete.
JobOn ==
    /\ job.pc # "idle"
    /\ SameCopy
    /\ \/ job'.pc = job.pc
       \/ job'.pc = "errorStatus"
       \/ job.pc \in AfterFinalizer /\ job'.pc \in AfterFinalizer
       \/ job.pc = "deleteRemote" /\ job'.pc = "removeFinalizer"

\* How the job changes.
JobMove == job'.pc = "idle" \/ JobStart \/ JobFinalizer \/ JobOn

\* Goto keeps the copy.
LEMMA JobGoesOn ==
    ASSUME TypeOK, NEW pc \in Busy, job.pc # "idle", Goto(pc)
    PROVE  SameCopy /\ job'.pc = pc
  BY BusyJob DEF Goto, SameCopy, Job

\* Every step of the worker moves the job in those ways.
LEMMA JobMovesWorker ==
    ASSUME TypeOK, Worker
    PROVE  JobMove
<1>1. /\ job \in Job /\ job.mem \in CR /\ job.pc # "idle"
  BY BusyJob DEF Worker, AddFinalizer, DeleteRemote, RemoveFinalizer,
     ResolveGroups, Resolve, Create, Update, EnsureSecret, Generate, StoreSecret,
     EnsurePolicy, Finish, WriteErrorStatus, At
<1>2. CASE Done
  BY <1>2 DEF Done, Idle, JobMove
<1>3. ASSUME Goto("errorStatus")
      PROVE  JobMove
  BY <1>1, <1>3, JobGoesOn DEF JobMove, JobOn, Busy
<1>4. ASSUME NEW pc \in AfterFinalizer, Goto(pc), job.pc \in AfterFinalizer
      PROVE  JobMove
  BY <1>1, <1>4, JobGoesOn DEF JobMove, JobOn, Busy
<1>5. CASE AddFinalizer
  BY <1>2, <1>5 DEF AddFinalizer, JobMove, JobFinalizer
<1>6. CASE DeleteRemote
  <2>1. CASE Goto("removeFinalizer")
    BY <1>1, <1>6, <2>1, JobGoesOn DEF DeleteRemote, JobMove, JobOn, Busy, At
  <2>2. QED
    BY <1>3, <1>6, <2>1 DEF DeleteRemote
<1>7. CASE RemoveFinalizer \/ Finish \/ WriteErrorStatus
  BY <1>2, <1>7 DEF RemoveFinalizer, Finish, WriteErrorStatus
<1>8. CASE ResolveGroups
  BY <1>1, <1>3, <1>8 DEF ResolveGroups, At, JobMove, JobOn, SameCopy,
     AfterFinalizer, Job
<1>9. CASE Resolve
  <2>1. ASSUME NEW i, job' = [job EXCEPT !.pc = "update", !.id = i]
        PROVE  JobMove
    BY <1>1, <1>9, <2>1 DEF Resolve, At, JobMove, JobOn, SameCopy, AfterFinalizer,
       Job
  <2>2. CASE Goto("create")
    BY <1>4, <1>9, <2>2 DEF Resolve, At, AfterFinalizer
  <2>3. QED
    BY <1>3, <1>9, <2>1, <2>2 DEF Resolve
<1>10. ASSUME NEW i \in Ids, Create(i)
       PROVE  JobMove
  <2>1. CASE job' = [job EXCEPT !.pc = "ensureSecret", !.id = i, !.mem.clientID = i]
    BY <1>1, <1>10, <2>1 DEF Create, At, JobMove, JobOn, SameCopy, AfterFinalizer,
       Job, CR
  <2>2. QED
    BY <1>3, <1>10, <2>1 DEF Create
<1>11. CASE Update
  <2>1. CASE Goto("ensureSecret")
    BY <1>4, <1>11, <2>1 DEF Update, At, AfterFinalizer
  <2>2. QED
    BY <1>3, <1>11, <2>1 DEF Update
<1>12. CASE EnsureSecret
  <2>1. CASE Goto("ensurePolicy")
    BY <1>4, <1>12, <2>1 DEF EnsureSecret, At, AfterFinalizer
  <2>2. CASE job' = [job EXCEPT !.pc = "generate", !.secret = SeenSecret(job.c)]
    BY <1>1, <1>12, <2>2 DEF EnsureSecret, At, JobMove, JobOn, SameCopy,
       AfterFinalizer, Job
  <2>3. QED
    BY <1>12, <2>1, <2>2 DEF EnsureSecret
<1>13. CASE Generate
  <2>1. ASSUME NEW k, job' = [job EXCEPT !.pc = "storeSecret", !.key = k]
        PROVE  JobMove
    BY <1>1, <1>13, <2>1 DEF Generate, At, JobMove, JobOn, SameCopy,
       AfterFinalizer, Job
  <2>2. QED
    BY <1>2, <1>13, <2>1 DEF Generate
<1>14. CASE StoreSecret
  <2>1. CASE job' = [job EXCEPT !.pc = "ensurePolicy", !.mem.credName = TRUE]
    BY <1>1, <1>14, <2>1 DEF StoreSecret, At, JobMove, JobOn, SameCopy,
       AfterFinalizer, Job, CR
  <2>2. QED
    BY <1>2, <1>14, <2>1 DEF StoreSecret
<1>15. CASE EnsurePolicy
  <2>1. ASSUME NEW b, job' = [job EXCEPT !.pc = "finish", !.mem.policyName = b]
        PROVE  JobMove
    BY <1>1, <1>15, <2>1 DEF EnsurePolicy, At, JobMove, JobOn, SameCopy,
       AfterFinalizer, Job, CR
  <2>2. CASE Goto("finish")
    BY <1>4, <1>15, <2>2 DEF EnsurePolicy, At, AfterFinalizer
  <2>3. QED
    BY <1>3, <1>15, <2>1, <2>2 DEF EnsurePolicy
<1>16. QED
  BY <1>5, <1>6, <1>7, <1>8, <1>9, <1>10, <1>11, <1>12, <1>13, <1>14, <1>15
  DEF Worker

\* Every step moves the job so.
LEMMA JobMoves ==
    ASSUME TypeOK, Next
    PROVE  JobMove
<1>1. ASSUME NEW c \in Clients, Begin(c)
      PROVE  JobMove
  <2>1. /\ job.pc = "idle" /\ UNCHANGED <<obj, cache>>
        /\ SeenClient(c).state # "absent"
    BY <1>1 DEF Begin, Idle, kube
  <2>2. \E pc \in Busy :
          /\ Start(c, pc)
          /\ \/ pc = "errorStatus"
             \/ /\ pc \in {"deleteRemote", "removeFinalizer"}
                /\ SeenClient(c).state = "deleting"
             \/ pc = "addFinalizer" /\ SeenClient(c).state = "live"
             \/ pc = "groups" /\ LiveHeld(SeenClient(c))
    BY <1>1 DEF Begin, Busy, AfterFinalizer, LiveHeld
  <2>3. QED
    BY <2>1, <2>2 DEF Start, JobMove, JobStart
<1>2. CASE CallFails
  <2>1. CASE Done
    BY <2>1 DEF Done, Idle, JobMove
  <2>2. CASE Goto("errorStatus") /\ job.pc # "idle"
    BY <2>2, JobGoesOn DEF JobMove, JobOn, Busy
  <2>3. QED
    BY <1>2, <2>1, <2>2 DEF CallFails, At
<1>3. CASE Crash
  BY <1>3 DEF Crash, Done, Idle, JobMove
<1>4. CASE job' = job
  BY <1>4 DEF JobMove, JobOn, SameCopy
<1>5. QED
  BY <1>1, <1>2, <1>3, <1>4, JobMovesWorker DEF Next, Environment, Cluster,
     CacheSync, SecretSync, CollectSecret, CollectPolicy, CreateCR, EditSpec,
     RequestDelete, DeleteSecret, ChangeGroup, FlipInstance, FlipRoute
-------------------------------------------------------------------------------
(* The finalizer. *)

\* The invariant holds initially.
LEMMA FinalizerInit == Init => FinalizerInv
  BY NoCRAbsent DEF Init, FinalizerInv, CopiesInv, JobInv, Idle, SeenClient,
     LiveHeld, Held

\* Every step preserves what copies say of the finalizer.
LEMMA CopiesStep ==
    ASSUME TypeOK, FinalizerInv, Next
    PROVE  CopiesInv'
<1>1. SUFFICES ASSUME NEW c \in Clients
               PROVE  /\ LiveHeld(SeenClient(c)') => Held(obj'[c])
                      /\ SeenClient(c)'.state = "deleting" => ~LiveHeld(obj'[c])
  BY DEF CopiesInv, SeenClient, LiveHeld, Held
<1>2. ObjMove(c) /\ obj[c] \in CR /\ obj'[c] \in CR
  BY ObjMoves, TypeStep, StateTypes DEF FinalizerInv, TypeOK
<1>3. CASE SeenClient(c)' = obj'[c]
  BY <1>3 DEF LiveHeld, Held
<1>4. CASE SeenClient(c)' = SeenClient(c)
  <2>1. /\ LiveHeld(SeenClient(c)) => Held(obj[c])
        /\ SeenClient(c).state = "deleting" => ~LiveHeld(obj[c])
    BY DEF FinalizerInv, CopiesInv
  <2>2. At("removeFinalizer") /\ job.c = c => ~LiveHeld(SeenClient(c))
    BY DEF FinalizerInv, JobInv, At
  <2>3. At("addFinalizer") /\ job.c = c /\ Current
          => obj[c].state = "live" /\ SeenClient(c).state # "deleting"
    BY DEF FinalizerInv, JobInv, At, Current
  <2>4. QED
    BY <1>2, <1>4, <2>1, <2>2, <2>3 DEF ObjMove, Unchanged, LiveHeld, Held
<1>5. QED
  BY <1>3, <1>4, SeenMoves

\* Every step preserves JobInv.
LEMMA JobStep ==
    ASSUME TypeOK, FinalizerInv, Next
    PROVE  JobInv'
<1>1. CASE job'.pc = "idle"
  BY <1>1 DEF JobInv
<1>2. CASE JobStart
  <2>1. PICK c \in Clients :
          /\ job'.c = c /\ job'.base = SeenClient(c) /\ job'.mem = SeenClient(c)
          /\ SeenClient(c).state # "absent"
          /\ \/ job'.pc = "errorStatus"
             \/ /\ job'.pc \in {"deleteRemote", "removeFinalizer"}
                /\ SeenClient(c).state = "deleting"
             \/ /\ job'.pc = "addFinalizer"
                /\ SeenClient(c).state = "live"
             \/ job'.pc = "groups" /\ LiveHeld(SeenClient(c))
    BY <1>2 DEF JobStart
  <2>2. obj' = obj /\ SeenClient(c)' = SeenClient(c)
    BY <1>2 DEF JobStart, SeenClient
  <2>3. /\ LiveHeld(SeenClient(c)) => Held(obj[c])
        /\ SeenClient(c).state = "deleting" => ~LiveHeld(obj[c])
    BY DEF FinalizerInv, CopiesInv
  <2>4. /\ job'.pc \in AfterFinalizer => job'.pc = "groups"
    BY <2>1 DEF AfterFinalizer
  <2>5. QED
    BY <2>1, <2>2, <2>3, <2>4 DEF JobInv, LiveHeld, SeenClient
<1>3. CASE JobFinalizer
  <2>1. job \in Job /\ job.c \in Clients /\ job.base \in CR /\ job.mem \in CR
    BY <1>3, BusyJob DEF JobFinalizer, At
  <2>2. /\ job'.pc = "groups" /\ job'.c = job.c
        /\ job'.base = [job.base EXCEPT !.finalizer = TRUE]
        /\ job'.mem = [job.mem EXCEPT !.finalizer = TRUE]
    BY <1>3, <2>1 DEF JobFinalizer, Job
  <2>3. /\ job.base.state = "live" /\ job.mem.state = "live"
        /\ job.mem.spec = job.base.spec
    BY <1>3 DEF JobFinalizer, FinalizerInv, JobInv, At
  <2>4. obj'[job.c].state = "live" /\ obj'[job.c].finalizer
    BY <1>3, <2>1, <2>3, StateTypes DEF JobFinalizer, Current, CR
  <2>5. QED
    BY <2>1, <2>2, <2>3, <2>4 DEF JobInv, LiveHeld, Held, CR
<1>4. CASE JobOn /\ job'.pc # "idle"
  <2>1. job.c \in Clients /\ job'.c = job.c /\ job'.base = job.base
    BY <1>4, BusyJob DEF JobOn, SameCopy
  <2>2. ObjMove(job.c) /\ obj[job.c] \in CR /\ obj'[job.c] \in CR
    BY <2>1, ObjMoves, TypeStep, StateTypes DEF FinalizerInv, TypeOK
  <2>3. \/ SeenClient(job.c)' = SeenClient(job.c)
        \/ SeenClient(job.c)' = obj'[job.c]
    BY <2>1, SeenMoves
  <2>4. /\ LiveHeld(job.base) => Held(obj[job.c])
        /\ job.base.state = "deleting" =>
              ~LiveHeld(obj[job.c]) /\ ~LiveHeld(SeenClient(job.c))
        /\ job.pc = "addFinalizer" =>
              /\ job.base.state = "live"
              /\ SeenClient(job.c).state = "deleting" => obj[job.c].state = "deleting"
        /\ job.pc \in AfterFinalizer => LiveHeld(job.base)
        /\ job.pc \in {"deleteRemote", "removeFinalizer"} =>
              job.base.state = "deleting"
    BY <1>4 DEF FinalizerInv, JobInv, JobOn
  <2>5. LiveHeld(job.base) => Held(obj'[job.c])
    BY <1>4, <2>2, <2>4 DEF ObjMove, Unchanged, LiveHeld, Held, At
  <2>6. job.base.state = "deleting" =>
           ~LiveHeld(obj'[job.c]) /\ ~LiveHeld(SeenClient(job.c)')
    BY <2>2, <2>3, <2>4 DEF ObjMove, Unchanged, LiveHeld, At
  <2>7. job.pc = "addFinalizer" =>
           (SeenClient(job.c)'.state = "deleting" => obj'[job.c].state = "deleting")
    BY <2>2, <2>3, <2>4 DEF ObjMove, Unchanged, LiveHeld, At, Current
  <2>8. /\ job'.pc \in AfterFinalizer => job.pc \in AfterFinalizer
        /\ job'.pc = "addFinalizer" => job.pc = "addFinalizer"
        /\ job'.pc \in {"deleteRemote", "removeFinalizer"}
              => job.pc \in {"deleteRemote", "removeFinalizer"}
    BY <1>4 DEF JobOn, AfterFinalizer
  <2>9. /\ job'.base.state # "absent"
         /\ job'.mem.state = job'.base.state
         /\ job'.mem.finalizer = job'.base.finalizer
         /\ job'.mem.spec = job'.base.spec
    BY <1>4 DEF JobOn, SameCopy, FinalizerInv, JobInv
  <2>10. QED
    BY <2>1, <2>4, <2>5, <2>6, <2>7, <2>8, <2>9 DEF JobInv, SeenClient, LiveHeld,
       Held
<1>5. QED
  BY <1>1, <1>2, <1>3, <1>4, JobMoves DEF JobMove

\* The invariant is inductive.
LEMMA FinalizerStep == TypeOK /\ FinalizerInv /\ [Next]_vars => FinalizerInv'
<1>1. CASE UNCHANGED vars
  BY <1>1 DEF vars, FinalizerInv, CopiesInv, JobInv, SeenClient, LiveHeld, Held
<1>2. QED
  BY <1>1, CopiesStep, JobStep DEF FinalizerInv

\* The strengthening of FinalizerHeld is an invariant.
THEOREM FinalizerProtocol == Spec => []FinalizerInv
<1>1. Spec => [](TypeOK /\ FinalizerInv)
  BY TypeInit, TypeStep, FinalizerInit, FinalizerStep, PTL DEF Spec
<1>2. QED
  BY <1>1, PTL

\* However the cache lags and whatever fails, the worker acts on PocketID only for
\* a resource that exists and holds the finalizer.
THEOREM FinalizerIsHeld == Spec => []FinalizerHeld
<1>1. FinalizerInv => FinalizerHeld
  <2>1. "idle" \notin AfterFinalizer
    BY DEF AfterFinalizer
  <2>2. QED
    BY <2>1 DEF FinalizerInv, JobInv, FinalizerHeld, LiveHeld, Held
<1>2. QED
  BY <1>1, FinalizerProtocol, PTL
===============================================================================
