------------------------------ MODULE UserSafety ------------------------------
(***************************************************************************)
(* Types, memberships and the finalizer of the PocketIDUser controller,    *)
(* for every set of resources, specs, groups and ids, every page size and  *)
(* every number of faults and edits.                                       *)
(***************************************************************************)
EXTENDS UserProps, TLAPS

USE UserNoneAssumption, UserSpecsAssumption, UserExistingAssumption,
    UserBoundsAssumption
-------------------------------------------------------------------------------
(* Types. *)

\* The steps by what they can rely on.
Resolved       == {"update", "groups", "setGroups", "token", "storeLink", "finish"}
AfterFinalizer == {"resolve", "create"} \cup Resolved
Busy           == {"addFinalizer", "deleteRemote", "removeFinalizer", "errorStatus"}
                    \cup AfterFinalizer

\* What TypeOK says of the job.
JobOK == job \in {Idle} \cup Job /\ (job.pc \in Resolved => job.id \in Ids)

\* A resource that users declare is one.
LEMMA NewCRType == \A u \in Users : \A s \in Specs[u] : NewCR(s) \in CR
  BY DEF NewCR, CR

\* A resource that does not exist has a spec all the same, and records nothing.
LEMMA NoCRFields ==
    ASSUME NEW u \in Users
    PROVE  /\ NoCR(u) \in CR /\ NoCR(u).spec \in Specs[u]
           /\ NoCR(u).userID = None /\ ~NoCR(u).link
           /\ NoCR(u).state = "absent" /\ ~NoCR(u).finalizer
<1>1. Specs[u] # {}
  OBVIOUS
<1>2. (CHOOSE s \in Specs[u] : TRUE) \in Specs[u]
  BY <1>1
<1>3. QED
  BY <1>2, NewCRType DEF NoCR, NewCR, CR

\* A Secret that lost its owner, or that was deleted, has its type.
LEMMA SecretTypes ==
    /\ NoSecret \in Secret
    /\ \A x \in Secret : Disown(x) \in Secret
  BY DEF NoSecret, Secret, Disown

\* Dropping a resource keeps types, and changes no other resource.
LEMMA DropTypes ==
    ASSUME obj \in [Users -> CR], secret \in [Users -> Secret],
           NEW u \in Users, Drop(u)
    PROVE  /\ obj' = [obj EXCEPT ![u] = NoCR(u)]
           /\ obj' \in [Users -> CR] /\ secret' \in [Users -> Secret]
  BY NoCRFields, SecretTypes DEF Drop

\* The parts of TypeOK that updates start from.
LEMMA StateTypes ==
    ASSUME TypeOK
    PROVE  /\ obj \in [Users -> CR] /\ cache \in [Users -> CR]
           /\ remote \in [Ids -> Remote] /\ secret \in [Users -> Secret]
           /\ gid \in [Groups -> GroupIds \cup {None}]
           /\ groupState \in [GroupIds -> {"unused", "live", "deleted"}]
  BY DEF TypeOK

\* A busy worker's job has all its fields.
LEMMA BusyJob ==
    ASSUME TypeOK, job.pc # "idle"
    PROVE  /\ job \in Job /\ job.c \in Users /\ job.base \in CR /\ job.mem \in CR
           /\ job.id \in Ids \cup {None} /\ job.secret \in Secret
           /\ job.has \subseteq GroupIds /\ job.want \subseteq GroupIds
           /\ job.link \in BOOLEAN
           /\ job.pc \in Resolved => job.id \in Ids
<1>1. job \in Job
  BY DEF TypeOK, Idle
<1>2. QED
  BY <1>1 DEF Job, TypeOK, Resolved

\* A worker that takes a step is busy.
LEMMA WorkerBusy ==
    ASSUME TypeOK, Worker
    PROVE  job.pc # "idle" /\ job.pc \in Busy
  BY DEF Worker, AddFinalizer, DeleteRemote, RemoveFinalizer, Resolve, Create, Update,
     SyncGroups, SetGroups, CreateToken, StoreLink, Finish, WriteErrorStatus, At, Busy,
     AfterFinalizer, Resolved

\* Going to another step keeps the job's type.
LEMMA GotoType ==
    ASSUME job \in Job, NEW pc \in Busy, Goto(pc), pc \in Resolved => job.id \in Ids
    PROVE  JobOK'
  BY DEF Goto, Job, JobOK, Busy, AfterFinalizer, Resolved

\* An ended job is well typed.
LEMMA DoneType == Done => JobOK'
  BY DEF Done, JobOK, Idle, Resolved

\* An error report needs no id.
LEMMA ErrorIsBusy == "errorStatus" \in Busy /\ "errorStatus" \notin Resolved
  BY DEF Busy, Resolved

\* Faults and edits are counted within their bounds.
LEMMA CountTypes ==
    /\ TypeOK /\ (Fault \/ UNCHANGED faults) => faults' \in 0..MaxFaults
    /\ TypeOK /\ (Edit \/ UNCHANGED edits) => edits' \in 0..MaxEdits
  BY DEF TypeOK, Fault, Edit

\* The initial states are well typed.
LEMMA TypeInit == Init => TypeOK
  BY NoCRFields DEF Init, TypeOK, Idle, InitialRemote, Remote, InitialSecret, NoSecret,
     Secret

\* A step that leaves the state well typed, part by part.
LEMMA TypeAgain ==
    ASSUME TypeOK, obj' \in [Users -> CR], cache' \in [Users -> CR],
           remote' \in [Ids -> Remote], secret' \in [Users -> Secret],
           gid' \in [Groups -> GroupIds \cup {None}],
           groupState' \in [GroupIds -> {"unused", "live", "deleted"}],
           instanceOK' \in BOOLEAN, JobOK',
           faults' \in 0..MaxFaults, edits' \in 0..MaxEdits
    PROVE  TypeOK'
  BY DEF TypeOK, JobOK, Resolved

\* The steps of the worker up to its first call and the reports keep the types.
LEMMA TypeWrites ==
    ASSUME TypeOK, AddFinalizer \/ RemoveFinalizer \/ Finish \/ WriteErrorStatus
    PROVE  TypeOK'
<1>1. /\ job.pc # "idle" /\ job \in Job /\ job.c \in Users /\ job.base \in CR
      /\ job.mem \in CR /\ (job.pc \in Resolved => job.id \in Ids)
      /\ obj \in [Users -> CR] /\ secret \in [Users -> Secret] /\ obj[job.c] \in CR
  BY WorkerBusy, BusyJob, StateTypes DEF Worker
<1>2. UNCHANGED <<cache, remote, faults, gid, groupState, instanceOK, edits>>
  BY DEF AddFinalizer, RemoveFinalizer, Finish, WriteErrorStatus, outside
<1>3. /\ cache' \in [Users -> CR] /\ remote' \in [Ids -> Remote]
      /\ gid' \in [Groups -> GroupIds \cup {None}]
      /\ groupState' \in [GroupIds -> {"unused", "live", "deleted"}]
      /\ instanceOK' \in BOOLEAN /\ faults' \in 0..MaxFaults /\ edits' \in 0..MaxEdits
  BY <1>2 DEF TypeOK
<1>4. CASE AddFinalizer
  <2>1. obj' \in [Users -> CR]
    <3>1. [obj EXCEPT ![job.c].finalizer = TRUE] \in [Users -> CR]
      BY <1>1 DEF CR
    <3>2. QED
      BY <1>1, <1>4, <3>1 DEF AddFinalizer
  <2>2. JobOK'
    <3>1. CASE job' = [job EXCEPT !.pc = "resolve", !.base.finalizer = TRUE,
                                  !.mem.finalizer = TRUE]
      BY <1>1, <3>1 DEF JobOK, Job, CR, Resolved
    <3>2. QED
      BY <1>4, <3>1, DoneType DEF AddFinalizer
  <2>3. secret' = secret
    BY <1>4 DEF AddFinalizer
  <2>4. QED
    BY <1>1, <1>3, <2>1, <2>2, <2>3, TypeAgain
<1>5. CASE RemoveFinalizer
  <2>1. obj' \in [Users -> CR] /\ secret' \in [Users -> Secret]
    BY <1>1, <1>5, DropTypes DEF RemoveFinalizer
  <2>2. JobOK'
    BY <1>5, DoneType DEF RemoveFinalizer
  <2>3. QED
    BY <1>3, <2>1, <2>2, TypeAgain
<1>6. CASE Finish
  <2>1. job.id \in Ids
    BY <1>1, <1>6 DEF Finish, At, Resolved
  <2>2. [obj[job.c] EXCEPT !.userID = job.id, !.link = obj[job.c].link \/ job.link,
                           !.ready = TRUE, !.observed = TRUE] \in CR
    BY <1>1, <2>1 DEF CR
  <2>3. obj' \in [Users -> CR]
    <3>1. CASE obj' = [obj EXCEPT ![job.c] =
                         [obj[job.c] EXCEPT !.userID = job.id,
                                            !.link = obj[job.c].link \/ job.link,
                                            !.ready = TRUE, !.observed = TRUE]]
      BY <1>1, <2>2, <3>1
    <3>2. QED
      BY <1>1, <1>6, <3>1 DEF Finish
  <2>4. JobOK' /\ secret' = secret
    BY <1>6, DoneType DEF Finish
  <2>5. QED
    BY <1>1, <1>3, <2>3, <2>4, TypeAgain
<1>7. CASE WriteErrorStatus
  <2>1. [job.mem EXCEPT !.ready = FALSE, !.observed = TRUE] \in CR
    BY <1>1 DEF CR
  <2>2. obj' \in [Users -> CR]
    BY <1>1, <1>7, <2>1 DEF WriteErrorStatus
  <2>3. JobOK' /\ secret' = secret
    BY <1>7, DoneType DEF WriteErrorStatus
  <2>4. QED
    BY <1>1, <1>3, <2>2, <2>3, TypeAgain
<1>8. QED
  BY <1>4, <1>5, <1>6, <1>7

\* The calls to PocketID for the user keep the types.
LEMMA TypeCalls ==
    ASSUME TypeOK, DeleteRemote \/ Resolve \/ (\E i \in Ids : Create(i)) \/ Update
    PROVE  TypeOK'
<1>1. /\ job.pc # "idle" /\ job \in Job /\ job.c \in Users /\ job.base \in CR
      /\ job.mem \in CR /\ (job.pc \in Resolved => job.id \in Ids)
      /\ remote \in [Ids -> Remote]
  BY WorkerBusy, BusyJob, StateTypes DEF Worker
<1>2. /\ UNCHANGED <<obj, cache, secret, gid, groupState, instanceOK, edits>>
      /\ Fault \/ UNCHANGED faults
  BY DEF DeleteRemote, Resolve, Create, Update, outside, kube
<1>3. /\ obj' \in [Users -> CR] /\ cache' \in [Users -> CR]
      /\ secret' \in [Users -> Secret]
      /\ gid' \in [Groups -> GroupIds \cup {None}]
      /\ groupState' \in [GroupIds -> {"unused", "live", "deleted"}]
      /\ instanceOK' \in BOOLEAN /\ faults' \in 0..MaxFaults /\ edits' \in 0..MaxEdits
  BY <1>2, CountTypes DEF TypeOK
<1>4. Goto("errorStatus") => JobOK'
  BY <1>1, GotoType, ErrorIsBusy
<1>5. CASE DeleteRemote
  <2>1. remote' \in [Ids -> Remote]
    BY <1>1, <1>5, ZenonT(60) DEF DeleteRemote, Remote
  <2>2. JobOK'
    BY <1>1, <1>4, <1>5, GotoType DEF DeleteRemote, Busy, Resolved
  <2>3. QED
    BY <1>3, <2>1, <2>2, TypeAgain
<1>6. CASE Resolve
  <2>1. ASSUME NEW i \in Ids, NEW pc \in {"update", "groups"},
               job' = [job EXCEPT !.pc = pc, !.id = i, !.has = remote[i].groups]
        PROVE  JobOK'
    <3>1. remote[i].groups \subseteq GroupIds
      BY <1>1 DEF Remote
    <3>2. QED
      BY <1>1, <2>1, <3>1 DEF JobOK, Job
  <2>2. Goto("create") => JobOK'
    BY <1>1, GotoType DEF Busy, AfterFinalizer, Resolved
  <2>3. JobOK' /\ remote' = remote
    BY <1>4, <1>6, <2>1, <2>2 DEF Resolve, Live, Pages
  <2>4. QED
    BY <1>1, <1>3, <2>3, TypeAgain
<1>7. ASSUME NEW i \in Ids, Create(i)
      PROVE  TypeOK'
  <2>1. job.mem.spec.name \in Names /\ job.mem.spec.profile \in Profiles
    BY <1>1 DEF CR, UserSpec
  <2>2. remote' \in [Ids -> Remote]
    BY <1>1, <1>7, <2>1 DEF Create, Remote
  <2>3. JobOK'
    <3>1. CASE job' = [job EXCEPT !.pc = "groups", !.id = i, !.mem.userID = i]
      BY <1>1, <3>1 DEF JobOK, Job, CR
    <3>2. QED
      BY <1>4, <1>7, <3>1 DEF Create
  <2>4. QED
    BY <1>3, <2>2, <2>3, TypeAgain
<1>8. CASE Update
  <2>1. /\ job.mem.spec.name \in Names /\ job.mem.spec.profile \in Profiles
        /\ job.id \in Ids /\ remote[job.id] \in Remote
    BY <1>1, <1>8 DEF CR, UserSpec, Update, At, Resolved
  <2>2. remote' \in [Ids -> Remote]
    <3>1. [remote[job.id] EXCEPT !.name = job.mem.spec.name,
                                 !.profile = job.mem.spec.profile] \in Remote
      BY <2>1 DEF Remote
    <3>2. QED
      BY <1>1, <1>8, <2>1, <3>1 DEF Update
  <2>3. CASE job' = [job EXCEPT !.pc = "groups", !.has = remote[job.id].groups]
    <3>1. remote[job.id].groups \subseteq GroupIds
      BY <2>1 DEF Remote
    <3>2. JobOK'
      BY <1>1, <2>1, <2>3, <3>1 DEF JobOK, Job
    <3>3. QED
      BY <1>3, <2>2, <3>2, TypeAgain
  <2>4. CASE Goto("groups")
    <3>1. JobOK'
      BY <1>1, <2>1, <2>4, GotoType DEF Busy, AfterFinalizer, Resolved
    <3>2. QED
      BY <1>3, <2>2, <3>1, TypeAgain
  <2>5. CASE Goto("errorStatus")
    BY <1>3, <1>4, <2>2, <2>5, TypeAgain
  <2>6. QED
    BY <1>8, <2>3, <2>4, <2>5 DEF Update
<1>9. QED
  BY <1>5, <1>6, <1>7, <1>8

\* The ids that group references resolve to are ids of groups.
LEMMA WantType ==
    ASSUME TypeOK, job.pc # "idle"
    PROVE  {gid[g] : g \in job.mem.spec.refs} \ {None} \subseteq GroupIds
<1>1. job.mem.spec.refs \subseteq Groups
  BY BusyJob DEF CR, UserSpec
<1>2. QED
  BY <1>1, StateTypes

\* The steps on memberships and on the onboarding link keep the types.
LEMMA TypeMembers ==
    ASSUME TypeOK, SyncGroups \/ SetGroups \/ CreateToken \/ StoreLink
    PROVE  TypeOK'
<1>1. /\ job.pc # "idle" /\ job \in Job /\ job.c \in Users /\ job.mem \in CR
      /\ job.id \in Ids /\ job.want \subseteq GroupIds
      /\ remote \in [Ids -> Remote] /\ secret \in [Users -> Secret]
      /\ secret[job.c] \in Secret /\ remote[job.id] \in Remote
  <2>1. job.pc # "idle" /\ job.pc \in Resolved
    BY DEF SyncGroups, SetGroups, CreateToken, StoreLink, At, Resolved
  <2>2. QED
    BY <2>1, BusyJob, StateTypes
<1>2. /\ UNCHANGED <<obj, cache, gid, groupState, instanceOK, edits>>
      /\ Fault \/ UNCHANGED faults
  BY DEF SyncGroups, SetGroups, CreateToken, StoreLink, outside, kube
<1>3. /\ obj' \in [Users -> CR] /\ cache' \in [Users -> CR]
      /\ gid' \in [Groups -> GroupIds \cup {None}]
      /\ groupState' \in [GroupIds -> {"unused", "live", "deleted"}]
      /\ instanceOK' \in BOOLEAN /\ faults' \in 0..MaxFaults /\ edits' \in 0..MaxEdits
  BY <1>2, CountTypes DEF TypeOK
<1>4. CASE SyncGroups
  <2>1. PICK want \in SUBSET GroupIds, pc \in {"token", "setGroups"} :
          job' = [job EXCEPT !.pc = pc, !.has = {}, !.want = want]
    BY <1>1, <1>4, WantType DEF SyncGroups
  <2>2. JobOK'
    BY <1>1, <2>1 DEF JobOK, Job
  <2>3. UNCHANGED <<remote, secret>>
    BY <1>4 DEF SyncGroups, kube
  <2>4. QED
    BY <1>1, <1>3, <2>2, <2>3, TypeAgain
<1>5. CASE SetGroups
  <2>1. remote' \in [Ids -> Remote]
    BY <1>1, <1>5 DEF SetGroups, Remote
  <2>2. JobOK'
    BY <1>1, <1>5, GotoType, ErrorIsBusy DEF SetGroups, Busy, AfterFinalizer, Resolved
  <2>3. secret' = secret
    BY <1>5 DEF SetGroups, kube
  <2>4. QED
    BY <1>1, <1>3, <2>1, <2>2, <2>3, TypeAgain
<1>6. CASE CreateToken
  <2>1. job.mem.link \in BOOLEAN
    BY <1>1, Zenon DEF CR
  <2>2. JobOK'
    <3>1. CASE job' = [job EXCEPT !.pc = "finish", !.link = job.mem.link]
      BY <1>1, <2>1, <3>1 DEF JobOK, Job
    <3>2. CASE job' = [job EXCEPT !.pc = "storeLink", !.secret = secret[job.c]]
      BY <1>1, <3>2 DEF JobOK, Job
    <3>3. QED
      BY <1>6, <3>1, <3>2 DEF CreateToken
  <2>3. UNCHANGED <<remote, secret>>
    BY <1>6 DEF CreateToken, kube
  <2>4. QED
    BY <1>1, <1>3, <2>2, <2>3, TypeAgain
<1>7. CASE StoreLink
  <2>1. [state |-> IF secret[job.c].state = "none" THEN "owned"
                                                   ELSE secret[job.c].state,
         user |-> job.id] \in Secret
    BY <1>1 DEF Secret
  <2>2. secret' \in [Users -> Secret]
    BY <1>1, <1>7, <2>1 DEF StoreLink
  <2>3. \/ job' = [job EXCEPT !.pc = "finish", !.link = TRUE, !.secret = NoSecret]
        \/ job' = [job EXCEPT !.pc = "finish", !.secret = NoSecret]
    BY <1>7 DEF StoreLink
  <2>4. JobOK'
    BY <1>1, <2>3, SecretTypes, ZenonT(60) DEF JobOK, Job
  <2>5. remote' = remote
    BY <1>7 DEF StoreLink
  <2>6. QED
    BY <1>1, <1>3, <2>2, <2>4, <2>5, TypeAgain
<1>8. QED
  BY <1>4, <1>5, <1>6, <1>7

\* The other controllers keep the types.
LEMMA TypeGroupwork ==
    ASSUME TypeOK, Groupwork
    PROVE  TypeOK'
<1>1. /\ UNCHANGED <<obj, cache, secret, instanceOK, job, faults>> /\ Edit
  BY DEF Groupwork, MakeGroup, DeleteGroup, ShowGroup, kube
<1>2. /\ obj' \in [Users -> CR] /\ cache' \in [Users -> CR]
      /\ secret' \in [Users -> Secret] /\ instanceOK' \in BOOLEAN /\ JobOK'
      /\ faults' \in 0..MaxFaults /\ edits' \in 0..MaxEdits
  BY <1>1, CountTypes DEF TypeOK, JobOK, Resolved
<1>3. /\ remote \in [Ids -> Remote] /\ gid \in [Groups -> GroupIds \cup {None}]
      /\ groupState \in [GroupIds -> {"unused", "live", "deleted"}]
  BY StateTypes
<1>4. ASSUME NEW p \in GroupIds, MakeGroup(p) \/ DeleteGroup(p)
      PROVE  TypeOK'
  <2>1. [i \in Ids |-> [remote[i] EXCEPT !.groups = remote[i].groups \ {p}]]
           \in [Ids -> Remote]
    BY <1>3 DEF Remote
  <2>2. remote' \in [Ids -> Remote]
    BY <1>3, <1>4, <2>1 DEF MakeGroup, DeleteGroup
  <2>3. groupState' \in [GroupIds -> {"unused", "live", "deleted"}] /\ gid' = gid
    BY <1>3, <1>4 DEF MakeGroup, DeleteGroup
  <2>4. QED
    BY <1>2, <1>3, <2>2, <2>3, TypeAgain
<1>5. ASSUME NEW g \in Groups, NEW x \in GroupIds \cup {None}, ShowGroup(g, x)
      PROVE  TypeOK'
  BY <1>2, <1>3, <1>5, TypeAgain DEF ShowGroup
<1>6. QED
  BY <1>4, <1>5 DEF Groupwork

\* So does everything else.
LEMMA TypeStep == TypeOK /\ [Next]_vars => TypeOK'
<1>1. SUFFICES ASSUME TypeOK, [Next]_vars
               PROVE  TypeOK'
  OBVIOUS
<1>2. /\ JobOK /\ obj \in [Users -> CR] /\ cache \in [Users -> CR]
      /\ remote \in [Ids -> Remote] /\ secret \in [Users -> Secret]
      /\ gid \in [Groups -> GroupIds \cup {None}]
      /\ groupState \in [GroupIds -> {"unused", "live", "deleted"}]
      /\ instanceOK \in BOOLEAN
  BY <1>1 DEF TypeOK, JobOK, Resolved
<1>3. UNCHANGED job => JobOK'
  BY <1>2 DEF JobOK
<1>4. CASE UNCHANGED vars
  BY <1>1, <1>4 DEF vars, TypeOK
<1>5. ASSUME NEW u \in Users, Begin(u)
      PROVE  TypeOK'
  <2>1. \E pc \in Busy \ Resolved : Start(u, pc)
    BY <1>5 DEF Begin, Busy, AfterFinalizer, Resolved
  <2>2. cache[u] \in CR
    BY <1>2
  <2>3. JobOK'
    BY <2>1, <2>2, SecretTypes DEF Start, JobOK, Job, Busy, AfterFinalizer, Resolved
  <2>4. QED
    BY <1>1, <1>2, <1>5, <2>3, CountTypes, TypeAgain DEF Begin, kube, outside
<1>6. ASSUME NEW u \in Users, CacheSync(u) \/ CollectSecret(u)
      PROVE  TypeOK'
  BY <1>1, <1>2, <1>3, <1>6, CountTypes, SecretTypes, TypeAgain
  DEF CacheSync, CollectSecret, outside
<1>7. CASE CallFails
  <2>1. job.pc # "idle" /\ Goto("errorStatus") => JobOK'
    BY <1>1, BusyJob, GotoType, ErrorIsBusy
  <2>2. job.pc # "idle" /\ job.pc \in Resolved /\ Goto("finish") => JobOK'
    BY <1>1, BusyJob, GotoType DEF Busy, AfterFinalizer, Resolved
  <2>3. JobOK'
    BY <1>7, <2>1, <2>2, DoneType DEF CallFails, At, Resolved
  <2>4. QED
    BY <1>1, <1>2, <1>7, <2>3, CountTypes, TypeAgain DEF CallFails, kube, outside
<1>8. CASE Crash
  BY <1>1, <1>2, <1>8, CountTypes, DoneType, TypeAgain DEF Crash, outside
<1>9. ASSUME NEW u \in Users, NEW s \in Specs[u], CreateCR(u, s)
      PROVE  TypeOK'
  BY <1>1, <1>2, <1>3, <1>9, NewCRType, CountTypes, TypeAgain DEF CreateCR
<1>10. ASSUME NEW u \in Users, NEW s \in Specs[u], EditSpec(u, s)
       PROVE  TypeOK'
  <2>1. obj[u] \in CR /\ s \in UserSpec
    BY <1>2
  <2>2. [obj[u] EXCEPT !.spec = s, !.observed = FALSE] \in CR
    BY <2>1 DEF CR
  <2>3. QED
    BY <1>1, <1>2, <1>3, <1>10, <2>2, CountTypes, TypeAgain DEF EditSpec
<1>11. ASSUME NEW u \in Users, RequestDelete(u)
       PROVE  TypeOK'
  <2>1. [obj EXCEPT ![u].state = "deleting"] \in [Users -> CR]
    BY <1>2, SMTT(30) DEF CR
  <2>2. obj' \in [Users -> CR] /\ secret' \in [Users -> Secret]
    BY <1>2, <1>11, <2>1, DropTypes DEF RequestDelete
  <2>3. QED
    BY <1>1, <1>2, <1>3, <1>11, <2>2, CountTypes, TypeAgain DEF RequestDelete
<1>12. ASSUME NEW u \in Users, DeleteSecret(u)
       PROVE  TypeOK'
  BY <1>1, <1>2, <1>3, <1>12, CountTypes, SecretTypes, TypeAgain DEF DeleteSecret
<1>13. CASE FlipInstance
  <2>1. instanceOK' \in BOOLEAN
    BY <1>13, Zenon DEF FlipInstance
  <2>2. QED
    BY <1>1, <1>2, <1>3, <1>13, <2>1, CountTypes, TypeAgain DEF FlipInstance, kube
<1>14. QED
  BY <1>1, <1>4, <1>5, <1>6, <1>7, <1>8, <1>9, <1>10, <1>11, <1>12, <1>13,
     TypeWrites, TypeCalls, TypeMembers, TypeGroupwork
  DEF Next, Environment, Cluster, Worker

\* The state always has the types TypeOK gives it, and a step that acts on a user of
\* PocketID knows which one.
THEOREM UserTypeCorrect == Spec => []TypeOK
  BY TypeInit, TypeStep, PTL DEF Spec
-------------------------------------------------------------------------------
(* The finalizer.  Only the worker adds and removes it, so a copy that shows a *)
(* deletion, however old, excludes a finalizer added since.                    *)

Held(o)     == o.state # "absent" /\ o.finalizer
LiveHeld(o) == o.state = "live" /\ o.finalizer

\* What the cached copies say of the stored resources.
CopiesInv ==
    \A u \in Users :
        /\ LiveHeld(cache[u]) => Held(obj[u])
        /\ cache[u].state = "deleting" => ~LiveHeld(obj[u])

\* What the copy the worker started from says.
JobInv ==
    job.pc # "idle" =>
        /\ LiveHeld(job.base) => Held(obj[job.c])
        /\ job.base.state = "deleting" =>
              ~LiveHeld(obj[job.c]) /\ ~LiveHeld(cache[job.c])
        /\ job.pc = "addFinalizer" =>
              /\ job.base.state = "live"
              /\ cache[job.c].state = "deleting" => obj[job.c].state = "deleting"
        /\ job.pc \in AfterFinalizer => LiveHeld(job.base)
        /\ job.pc \in {"deleteRemote", "removeFinalizer"} =>
              job.base.state = "deleting"
        /\ job.base.state # "absent"
        /\ job.mem.state = job.base.state /\ job.mem.finalizer = job.base.finalizer
        /\ job.mem.spec = job.base.spec

FinalizerInv == CopiesInv /\ JobInv

\* The step leaves the state and the finalizer alone.
Unchanged(u) ==
    obj'[u].state = obj[u].state /\ obj'[u].finalizer = obj[u].finalizer

\* The state and the finalizer of a resource change in five ways only.
ObjMove(u) ==
    \/ Unchanged(u)
    \/ /\ obj[u].state = "absent"
       /\ obj'[u].state = "live" /\ ~obj'[u].finalizer
    \/ LiveHeld(obj[u]) /\ obj'[u].state = "deleting" /\ obj'[u].finalizer
    \/ obj[u].state = "live" /\ ~obj[u].finalizer /\ obj'[u].state = "absent"
    \/ /\ At("addFinalizer") /\ job.c = u /\ Current
       /\ obj'[u].state = obj[u].state /\ obj'[u].finalizer
    \/ /\ At("removeFinalizer") /\ job.c = u /\ Current
       /\ obj'[u].state = "absent" /\ job'.pc = "idle"

\* Every step of the worker moves every resource in those ways.
LEMMA WorkerMoves ==
    ASSUME TypeOK, JobInv, Worker, NEW u \in Users
    PROVE  ObjMove(u)
<1>1. /\ job.c \in Users /\ obj \in [Users -> CR] /\ job.pc # "idle"
      /\ obj[job.c] \in CR /\ job.mem \in CR
  BY WorkerBusy, BusyJob, StateTypes
<1>2. CASE obj' = obj
  BY <1>2 DEF ObjMove, Unchanged
<1>3. CASE AddFinalizer
  BY <1>1, <1>3 DEF AddFinalizer, Done, ObjMove, Unchanged, CR
<1>4. CASE RemoveFinalizer
  BY <1>1, <1>4, NoCRFields DEF RemoveFinalizer, Drop, Done, Idle, ObjMove, Unchanged
<1>5. CASE Finish /\ obj' # obj
  <2>1. obj' = [obj EXCEPT ![job.c] =
                  [obj[job.c] EXCEPT !.userID = job.id,
                                     !.link = obj[job.c].link \/ job.link,
                                     !.ready = TRUE, !.observed = TRUE]]
    BY <1>5 DEF Finish
  <2>2. QED
    BY <1>1, <2>1 DEF ObjMove, Unchanged, CR
<1>6. CASE WriteErrorStatus /\ obj' # obj
  <2>1. Current /\ obj' = [obj EXCEPT ![job.c] =
                             [job.mem EXCEPT !.ready = FALSE, !.observed = TRUE]]
    BY <1>6 DEF WriteErrorStatus
  <2>2. /\ job.mem.state = obj[job.c].state /\ job.mem.spec = obj[job.c].spec
        /\ job.mem.finalizer = obj[job.c].finalizer
    BY <1>1, <2>1 DEF Current, JobInv
  <2>3. QED
    BY <1>1, <2>1, <2>2 DEF ObjMove, Unchanged, CR
<1>7. QED
  BY <1>2, <1>3, <1>4, <1>5, <1>6 DEF Worker, DeleteRemote, Resolve, Create, Update,
     SyncGroups, SetGroups, CreateToken, StoreLink, kube

\* Every step moves every resource so.
LEMMA ObjMoves ==
    ASSUME TypeOK, JobInv, Next, NEW u \in Users
    PROVE  ObjMove(u)
<1>1. obj \in [Users -> CR] /\ obj[u] \in CR
  BY StateTypes
<1>2. ASSUME NEW d \in Users, NEW s \in Specs[d], CreateCR(d, s)
      PROVE  ObjMove(u)
  BY <1>1, <1>2 DEF CreateCR, NewCR, ObjMove, Unchanged
<1>3. ASSUME NEW d \in Users, NEW s \in Specs[d], EditSpec(d, s)
      PROVE  ObjMove(u)
  BY <1>1, <1>3 DEF EditSpec, ObjMove, Unchanged, CR
<1>4. ASSUME NEW d \in Users, RequestDelete(d)
      PROVE  ObjMove(u)
  BY <1>1, <1>4, NoCRFields DEF RequestDelete, Drop, ObjMove, Unchanged, LiveHeld,
     CR
<1>5. CASE obj' = obj
  BY <1>5 DEF ObjMove, Unchanged
<1>6. QED
  BY <1>2, <1>3, <1>4, <1>5, WorkerMoves DEF Next, Environment, Begin, Cluster,
     CacheSync, CollectSecret, CallFails, Crash, FlipInstance, DeleteSecret, Groupwork,
     MakeGroup, DeleteGroup, ShowGroup, kube

\* A copy is only ever replaced by what is stored.
LEMMA CacheMoves ==
    ASSUME TypeOK, Next, NEW u \in Users
    PROVE  cache'[u] = cache[u] \/ cache'[u] = obj'[u]
<1>1. cache' = cache \/ cache' = obj' \/ \E d \in Users : CacheSync(d)
  BY DEF Next, Environment, Begin, CallFails, Crash, Worker, AddFinalizer,
     DeleteRemote, RemoveFinalizer, Resolve, Create, Update, SyncGroups, SetGroups,
     CreateToken, StoreLink, Finish, WriteErrorStatus, CreateCR, EditSpec,
     RequestDelete, FlipInstance, DeleteSecret, Cluster, CollectSecret, Groupwork,
     MakeGroup, DeleteGroup, ShowGroup, kube
<1>2. ASSUME NEW d \in Users, CacheSync(d)
      PROVE  cache'[u] = cache[u] \/ cache'[u] = obj'[u]
  BY <1>2, StateTypes DEF CacheSync
<1>3. QED
  BY <1>1, <1>2

\* A job starts with the copy seen, and keeps it until AddFinalizer.
JobStart ==
    /\ job.pc = "idle"
    /\ UNCHANGED <<obj, cache, remote>>
    /\ \E u \in Users :
         /\ job'.c = u /\ job'.base = cache[u] /\ job'.mem = cache[u]
         /\ job'.id = None
         /\ cache[u].state # "absent"
         /\ \/ job'.pc = "errorStatus"
            \/ /\ job'.pc = "deleteRemote" /\ cache[u].userID # None
               /\ cache[u].state = "deleting"
            \/ /\ job'.pc = "removeFinalizer" /\ cache[u].userID = None
               /\ cache[u].state = "deleting"
            \/ job'.pc = "addFinalizer" /\ cache[u].state = "live"
            \/ job'.pc = "resolve" /\ LiveHeld(cache[u])

\* AddFinalizer succeeded.
JobFinalizer ==
    /\ At("addFinalizer") /\ Current
    /\ obj' = [obj EXCEPT ![job.c].finalizer = TRUE] /\ UNCHANGED cache
    /\ job' = [job EXCEPT !.pc = "resolve", !.base.finalizer = TRUE,
                          !.mem.finalizer = TRUE]

\* The job keeps its copy of the resource, as far as the invariant sees.
SameCopy ==
    /\ job'.c = job.c /\ job'.base = job.base
    /\ job'.mem.state = job.mem.state /\ job'.mem.spec = job.mem.spec
    /\ job'.mem.finalizer = job.mem.finalizer

\* The job goes on past the finalizer, or calls PocketID to delete.
JobOn ==
    /\ job.pc # "idle"
    /\ SameCopy
    /\ \/ job'.pc = job.pc
       \/ job'.pc = "errorStatus"
       \/ job.pc \in AfterFinalizer /\ job'.pc \in AfterFinalizer
       \/ job.pc = "deleteRemote" /\ job'.pc = "removeFinalizer"

\* How the job changes.
JobMove == job'.pc = "idle" \/ JobStart \/ JobFinalizer \/ JobOn

\* Goto keeps the copy.
LEMMA JobGoesOn ==
    ASSUME TypeOK, NEW pc \in Busy, job.pc # "idle", Goto(pc)
    PROVE  SameCopy /\ job'.pc = pc
  BY BusyJob DEF Goto, SameCopy, Job

\* Every step of the worker moves the job in those ways.
LEMMA JobMovesWorker ==
    ASSUME TypeOK, Worker
    PROVE  JobMove
<1>1. /\ job \in Job /\ job.mem \in CR /\ job.pc # "idle"
  BY WorkerBusy, BusyJob
<1>2. CASE Done
  BY <1>2 DEF Done, Idle, JobMove
<1>3. ASSUME Goto("errorStatus")
      PROVE  JobMove
  BY <1>1, <1>3, JobGoesOn DEF JobMove, JobOn, Busy
<1>4. ASSUME NEW pc \in AfterFinalizer, Goto(pc), job.pc \in AfterFinalizer
      PROVE  JobMove
  <2>1. pc \in Busy
    BY DEF Busy
  <2>2. SameCopy /\ job'.pc = pc
    BY <1>1, <1>4, <2>1, JobGoesOn
  <2>3. QED
    BY <1>1, <1>4, <2>2 DEF JobMove, JobOn
<1>5. CASE AddFinalizer
  BY <1>2, <1>5 DEF AddFinalizer, JobMove, JobFinalizer
<1>6. CASE DeleteRemote
  <2>1. CASE Goto("removeFinalizer")
    BY <1>1, <1>6, <2>1, JobGoesOn DEF DeleteRemote, JobMove, JobOn, Busy, At
  <2>2. QED
    BY <1>3, <1>6, <2>1 DEF DeleteRemote
<1>7. CASE RemoveFinalizer \/ Finish \/ WriteErrorStatus
  BY <1>2, <1>7 DEF RemoveFinalizer, Finish, WriteErrorStatus
<1>8. CASE Resolve
  <2>1. ASSUME NEW i, NEW has, NEW pc \in {"update", "groups"},
               job' = [job EXCEPT !.pc = pc, !.id = i, !.has = has]
        PROVE  JobMove
    BY <1>1, <1>8, <2>1 DEF Resolve, At, JobMove, JobOn, SameCopy, AfterFinalizer,
       Resolved, Job
  <2>2. CASE Goto("create")
    BY <1>4, <1>8, <2>2 DEF Resolve, At, AfterFinalizer
  <2>3. QED
    BY <1>3, <1>8, <2>1, <2>2 DEF Resolve
<1>9. ASSUME NEW i \in Ids, Create(i)
      PROVE  JobMove
  <2>1. CASE job' = [job EXCEPT !.pc = "groups", !.id = i, !.mem.userID = i]
    BY <1>1, <1>9, <2>1 DEF Create, At, JobMove, JobOn, SameCopy, AfterFinalizer,
       Resolved, Job, CR
  <2>2. QED
    BY <1>3, <1>9, <2>1 DEF Create
<1>10. CASE Update
  <2>1. CASE Goto("groups")
    BY <1>4, <1>10, <2>1 DEF Update, At, AfterFinalizer, Resolved
  <2>2. CASE job' = [job EXCEPT !.pc = "groups", !.has = remote[job.id].groups]
    BY <1>1, <1>10, <2>2 DEF Update, At, JobMove, JobOn, SameCopy, AfterFinalizer,
       Resolved, Job
  <2>3. QED
    BY <1>3, <1>10, <2>1, <2>2 DEF Update
<1>11. CASE SyncGroups
  <2>1. PICK want \in SUBSET GroupIds, pc \in {"token", "setGroups"} :
          job' = [job EXCEPT !.pc = pc, !.has = {}, !.want = want]
    BY <1>1, <1>11, WantType DEF SyncGroups
  <2>2. QED
    BY <1>1, <1>11, <2>1 DEF SyncGroups, At, JobMove, JobOn, SameCopy, AfterFinalizer,
       Resolved, Job
<1>12. CASE SetGroups
  <2>1. CASE Goto("token")
    BY <1>4, <1>12, <2>1 DEF SetGroups, At, AfterFinalizer, Resolved
  <2>2. QED
    BY <1>3, <1>12, <2>1 DEF SetGroups
<1>13. CASE CreateToken
  <2>1. \/ job' = [job EXCEPT !.pc = "finish", !.link = job.mem.link]
        \/ job' = [job EXCEPT !.pc = "storeLink", !.secret = secret[job.c]]
    BY <1>13 DEF CreateToken
  <2>2. QED
    BY <1>1, <1>13, <2>1 DEF CreateToken, At, JobMove, JobOn, SameCopy, AfterFinalizer,
       Resolved, Job
<1>14. CASE StoreLink
  <2>1. \/ job' = [job EXCEPT !.pc = "finish", !.link = TRUE, !.secret = NoSecret]
        \/ job' = [job EXCEPT !.pc = "finish", !.secret = NoSecret]
    BY <1>14 DEF StoreLink
  <2>2. QED
    BY <1>1, <1>14, <2>1, ZenonT(60) DEF StoreLink, At, JobMove, JobOn, SameCopy, AfterFinalizer,
       Resolved, Job
<1>15. QED
  BY <1>5, <1>6, <1>7, <1>8, <1>9, <1>10, <1>11, <1>12, <1>13, <1>14 DEF Worker

\* Every step moves the job so.
LEMMA JobMoves ==
    ASSUME TypeOK, Next
    PROVE  JobMove
<1>1. ASSUME NEW u \in Users, Begin(u)
      PROVE  JobMove
  <2>1. /\ job.pc = "idle" /\ UNCHANGED <<obj, cache, remote>>
        /\ cache[u].state # "absent"
    BY <1>1 DEF Begin, Idle, kube
  <2>2. \E pc \in Busy :
          /\ Start(u, pc)
          /\ \/ pc = "errorStatus"
             \/ /\ pc = "deleteRemote" /\ cache[u].userID # None
                /\ cache[u].state = "deleting"
             \/ /\ pc = "removeFinalizer" /\ cache[u].userID = None
                /\ cache[u].state = "deleting"
             \/ pc = "addFinalizer" /\ cache[u].state = "live"
             \/ pc = "resolve" /\ LiveHeld(cache[u])
    BY <1>1 DEF Begin, Busy, AfterFinalizer, LiveHeld
  <2>3. QED
    BY <2>1, <2>2 DEF Start, JobMove, JobStart
<1>2. CASE CallFails
  <2>1. CASE Done
    BY <2>1 DEF Done, Idle, JobMove
  <2>2. CASE Goto("errorStatus") /\ job.pc # "idle"
    BY <2>2, JobGoesOn DEF JobMove, JobOn, Busy
  <2>3. CASE Goto("finish") /\ job.pc \in {"token", "storeLink"}
    BY <2>3, JobGoesOn DEF JobMove, JobOn, Busy, AfterFinalizer, Resolved
  <2>4. QED
    BY <1>2, <2>1, <2>2, <2>3 DEF CallFails, At
<1>3. CASE Crash
  BY <1>3 DEF Crash, Done, Idle, JobMove
<1>4. CASE job' = job
  BY <1>4 DEF JobMove, JobOn, SameCopy
<1>5. QED
  BY <1>1, <1>2, <1>3, <1>4, JobMovesWorker DEF Next, Environment, Cluster,
     CacheSync, CollectSecret, CreateCR, EditSpec, RequestDelete, FlipInstance,
     DeleteSecret, Groupwork, MakeGroup, DeleteGroup, ShowGroup

-------------------------------------------------------------------------------
(* The invariant is inductive. *)

\* It holds initially.
LEMMA FinalizerInit == Init => FinalizerInv
  BY NoCRFields DEF Init, FinalizerInv, CopiesInv, JobInv, Idle,
     LiveHeld, Held

\* Every step preserves what copies say of the finalizer.
LEMMA CopiesStep ==
    ASSUME TypeOK, FinalizerInv, Next
    PROVE  CopiesInv'
<1>1. SUFFICES ASSUME NEW u \in Users
               PROVE  /\ LiveHeld(cache'[u]) => Held(obj'[u])
                      /\ cache'[u].state = "deleting" => ~LiveHeld(obj'[u])
  BY DEF CopiesInv, LiveHeld, Held
<1>2. ObjMove(u) /\ obj[u] \in CR /\ obj'[u] \in CR
  BY ObjMoves, TypeStep, StateTypes DEF FinalizerInv, TypeOK
<1>3. CASE cache'[u] = obj'[u]
  BY <1>3 DEF LiveHeld, Held
<1>4. CASE cache'[u] = cache[u]
  <2>1. /\ LiveHeld(cache[u]) => Held(obj[u])
        /\ cache[u].state = "deleting" => ~LiveHeld(obj[u])
    BY DEF FinalizerInv, CopiesInv
  <2>2. At("removeFinalizer") /\ job.c = u => ~LiveHeld(cache[u])
    BY DEF FinalizerInv, JobInv, At
  <2>3. At("addFinalizer") /\ job.c = u /\ Current
          => obj[u].state = "live" /\ cache[u].state # "deleting"
    BY DEF FinalizerInv, JobInv, At, Current
  <2>4. QED
    BY <1>2, <1>4, <2>1, <2>2, <2>3 DEF ObjMove, Unchanged, LiveHeld, Held
<1>5. QED
  BY <1>3, <1>4, CacheMoves

\* Every step preserves JobInv.
LEMMA JobStep ==
    ASSUME TypeOK, FinalizerInv, Next
    PROVE  JobInv'
<1>1. CASE job'.pc = "idle"
  BY <1>1 DEF JobInv
<1>2. CASE JobStart
  <2>1. PICK u \in Users :
          /\ job'.c = u /\ job'.base = cache[u] /\ job'.mem = cache[u]
          /\ cache[u].state # "absent"
          /\ \/ job'.pc = "errorStatus"
             \/ /\ job'.pc \in {"deleteRemote", "removeFinalizer"}
                /\ cache[u].state = "deleting"
             \/ /\ job'.pc = "addFinalizer"
                /\ cache[u].state = "live"
             \/ job'.pc = "resolve" /\ LiveHeld(cache[u])
    BY <1>2 DEF JobStart
  <2>2. obj' = obj /\ cache'[u] = cache[u]
    BY <1>2 DEF JobStart
  <2>3. /\ LiveHeld(cache[u]) => Held(obj[u])
        /\ cache[u].state = "deleting" => ~LiveHeld(obj[u])
    BY DEF FinalizerInv, CopiesInv
  <2>4. /\ job'.pc \in AfterFinalizer => job'.pc = "resolve"
    BY <2>1 DEF AfterFinalizer, Resolved
  <2>5. QED
    BY <2>1, <2>2, <2>3, <2>4 DEF JobInv, LiveHeld
<1>3. CASE JobFinalizer
  <2>1. job \in Job /\ job.c \in Users /\ job.base \in CR /\ job.mem \in CR
    BY <1>3, BusyJob DEF JobFinalizer, At
  <2>2. /\ job'.pc = "resolve" /\ job'.c = job.c
        /\ job'.base = [job.base EXCEPT !.finalizer = TRUE]
        /\ job'.mem = [job.mem EXCEPT !.finalizer = TRUE]
    BY <1>3, <2>1 DEF JobFinalizer, Job
  <2>3. /\ job.base.state = "live" /\ job.mem.state = "live"
        /\ job.mem.spec = job.base.spec
    BY <1>3 DEF JobFinalizer, FinalizerInv, JobInv, At
  <2>4. obj'[job.c].state = "live" /\ obj'[job.c].finalizer
    BY <1>3, <2>1, <2>3, StateTypes DEF JobFinalizer, Current, CR
  <2>5. QED
    BY <2>1, <2>2, <2>3, <2>4 DEF JobInv, LiveHeld, Held, CR
<1>4. CASE JobOn /\ job'.pc # "idle"
  <2>1. job.c \in Users /\ job'.c = job.c /\ job'.base = job.base
    BY <1>4, BusyJob DEF JobOn, SameCopy
  <2>2. ObjMove(job.c) /\ obj[job.c] \in CR /\ obj'[job.c] \in CR
    BY <2>1, ObjMoves, TypeStep, StateTypes DEF FinalizerInv, TypeOK
  <2>3. \/ cache'[job.c] = cache[job.c]
        \/ cache'[job.c] = obj'[job.c]
    BY <2>1, CacheMoves
  <2>4. /\ LiveHeld(job.base) => Held(obj[job.c])
        /\ job.base.state = "deleting" =>
              ~LiveHeld(obj[job.c]) /\ ~LiveHeld(cache[job.c])
        /\ job.pc = "addFinalizer" =>
              /\ job.base.state = "live"
              /\ cache[job.c].state = "deleting" => obj[job.c].state = "deleting"
        /\ job.pc \in AfterFinalizer => LiveHeld(job.base)
        /\ job.pc \in {"deleteRemote", "removeFinalizer"} =>
              job.base.state = "deleting"
    BY <1>4 DEF FinalizerInv, JobInv, JobOn
  <2>5. LiveHeld(job.base) => Held(obj'[job.c])
    BY <1>4, <2>2, <2>4 DEF ObjMove, Unchanged, LiveHeld, Held, At
  <2>6. job.base.state = "deleting" =>
           ~LiveHeld(obj'[job.c]) /\ ~LiveHeld(cache'[job.c])
    BY <2>2, <2>3, <2>4 DEF ObjMove, Unchanged, LiveHeld, At
  <2>7. job.pc = "addFinalizer" =>
           (cache'[job.c].state = "deleting" => obj'[job.c].state = "deleting")
    BY <2>2, <2>3, <2>4 DEF ObjMove, Unchanged, LiveHeld, At, Current
  <2>8. /\ job'.pc \in AfterFinalizer => job.pc \in AfterFinalizer
        /\ job'.pc = "addFinalizer" => job.pc = "addFinalizer"
        /\ job'.pc \in {"deleteRemote", "removeFinalizer"}
              => job.pc \in {"deleteRemote", "removeFinalizer"}
    BY <1>4 DEF JobOn, AfterFinalizer, Resolved
  <2>9. /\ job'.base.state # "absent"
         /\ job'.mem.state = job'.base.state
         /\ job'.mem.finalizer = job'.base.finalizer
         /\ job'.mem.spec = job'.base.spec
    BY <1>4 DEF JobOn, SameCopy, FinalizerInv, JobInv
  <2>10. QED
    BY <2>1, <2>4, <2>5, <2>6, <2>7, <2>8, <2>9 DEF JobInv, LiveHeld,
       Held
<1>5. QED
  BY <1>1, <1>2, <1>3, <1>4, JobMoves DEF JobMove

\* The invariant is inductive.
LEMMA FinalizerStep == TypeOK /\ FinalizerInv /\ [Next]_vars => FinalizerInv'
<1>1. CASE UNCHANGED vars
  BY <1>1 DEF vars, FinalizerInv, CopiesInv, JobInv, LiveHeld, Held
<1>2. QED
  BY <1>1, CopiesStep, JobStep DEF FinalizerInv

\* The invariant holds in every reachable state.
LEMMA FinalizerInvariant == Spec => [](TypeOK /\ FinalizerInv)
  BY TypeInit, TypeStep, FinalizerInit, FinalizerStep, PTL DEF Spec
-------------------------------------------------------------------------------
(* Memberships.  The comparison of syncGroupMemberships uses an answer that the *)
(* deletion of groups makes stale: PocketID never holds a deleted group, so that *)
(* answer and the ids resolved count up to the groups that still exist.         *)

\* Groups that PocketID made at some time: a set of them gains no live group later.
Made(P) == \A p \in P : groupState[p] # "unused"

\* PocketID's users are only in groups it has, and resources only show groups it made.
GroupsInv ==
    /\ \A i \in Ids : remote[i].groups \subseteq LiveGroups
    /\ \A g \in Groups : gid[g] # None => groupState[gid[g]] # "unused"

\* What the worker knows of memberships, at each of its steps.
MembersInv ==
    job.pc # "idle" =>
        /\ Made(job.has) /\ Made(job.want)
        /\ job.pc \in {"addFinalizer", "resolve", "create"} => job.has = {}
        /\ job.pc \in {"update", "groups"} =>
              remote[job.id].groups = job.has \cap LiveGroups
        /\ job.pc \in {"token", "storeLink", "finish"} =>
              remote[job.id].groups = job.want \cap LiveGroups

\* Nothing but Goto("errorStatus") is asked of the memberships, and they are kept.
LEMMA MembersOnError ==
    ASSUME MembersInv, job \in Job, job.pc # "idle", groupState' = groupState,
           Goto("errorStatus")
    PROVE  MembersInv'
<1>1. job'.pc = "errorStatus" /\ job'.has = job.has /\ job'.want = job.want
  BY DEF Goto, Job
<1>2. QED
  BY <1>1 DEF MembersInv, Made

\* An idle worker knows nothing.
LEMMA MembersOnDone == Done => MembersInv'
  BY DEF Done, Idle, MembersInv

\* A step that leaves the worker, the memberships and the groups alone.
LEMMA MembersSame ==
    ASSUME GroupsInv, MembersInv,
           UNCHANGED <<gid, groupState, remote, job>>
    PROVE  GroupsInv' /\ MembersInv'
  BY DEF GroupsInv, MembersInv, Made, LiveGroups

\* A step that changes no membership keeps GroupsInv.
LEMMA GroupsSame ==
    ASSUME GroupsInv, UNCHANGED <<gid, groupState>>,
           \A i \in Ids : remote'[i].groups = remote[i].groups
    PROVE  GroupsInv' /\ LiveGroups' = LiveGroups
  BY DEF GroupsInv, LiveGroups

\* The calls to PocketID that Resolve and its successors make keep both.
LEMMA MembersCalls ==
    ASSUME TypeOK, GroupsInv, MembersInv,
           DeleteRemote \/ Resolve \/ (\E i \in Ids : Create(i)) \/ Update
    PROVE  GroupsInv' /\ MembersInv'
<1>1. /\ job.pc # "idle" /\ job \in Job /\ job.mem \in CR
      /\ (job.pc \in Resolved => job.id \in Ids)
      /\ remote \in [Ids -> Remote]
  BY WorkerBusy, BusyJob, StateTypes DEF Worker
<1>2. UNCHANGED <<gid, groupState>>
  BY DEF DeleteRemote, Resolve, Create, Update, outside
<1>3. Goto("errorStatus") => MembersInv'
  BY <1>1, <1>2, MembersOnError
<1>4. CASE DeleteRemote
  <2>1. \A i \in Ids : remote'[i].groups = remote[i].groups
    BY <1>1, <1>4 DEF DeleteRemote, Remote
  <2>2. GroupsInv' /\ LiveGroups' = LiveGroups
    BY <1>2, <2>1, GroupsSame
  <2>3. MembersInv'
    <3>1. CASE Goto("removeFinalizer")
      <4>1. /\ job'.pc = "removeFinalizer"
            /\ job'.has = job.has /\ job'.want = job.want
        BY <1>1, <3>1 DEF Goto, Job
      <4>2. QED
        BY <1>1, <1>2, <4>1 DEF MembersInv, Made
    <3>2. QED
      BY <1>3, <1>4, <3>1 DEF DeleteRemote
  <2>4. QED
    BY <2>2, <2>3
<1>5. CASE Resolve
  <2>1. remote' = remote /\ job.pc = "resolve" /\ job.has = {}
    BY <1>1, <1>5 DEF Resolve, At, MembersInv
  <2>2. GroupsInv' /\ LiveGroups' = LiveGroups
    BY <1>2, <2>1, GroupsSame
  <2>3. ASSUME NEW i \in Ids, NEW pc \in {"update", "groups"},
               job' = [job EXCEPT !.pc = pc, !.id = i, !.has = remote[i].groups]
        PROVE  MembersInv'
    <3>1. /\ job'.pc = pc /\ job'.id = i /\ job'.has = remote[i].groups
          /\ job'.want = job.want
      BY <1>1, <2>3 DEF Job
    <3>2. remote[i].groups \subseteq LiveGroups
      BY <2>3 DEF GroupsInv
    <3>3. Made(remote[i].groups) /\ remote[i].groups = remote[i].groups \cap LiveGroups
      BY <3>2 DEF LiveGroups, Made
    <3>4. QED
      BY <1>1, <1>2, <2>1, <2>2, <3>1, <3>3 DEF MembersInv, Made
  <2>4. CASE Goto("create")
    <3>1. /\ job'.pc = "create" /\ job'.has = job.has /\ job'.want = job.want
      BY <1>1, <2>4 DEF Goto, Job
    <3>2. MembersInv'
      BY <1>1, <1>2, <2>1, <3>1 DEF MembersInv, Made
    <3>3. QED
      BY <2>2, <3>2
  <2>5. QED
    BY <1>3, <1>5, <2>2, <2>3, <2>4 DEF Resolve, Live, Pages
<1>6. ASSUME NEW i \in Ids, Create(i)
      PROVE  GroupsInv' /\ MembersInv'
  <2>1. /\ remote'[i].groups = {} /\ job.pc = "create" /\ job.has = {}
        /\ \A j \in Ids \ {i} : remote'[j] = remote[j]
    BY <1>1, <1>6 DEF Create, At, MembersInv
  <2>2. GroupsInv'
    BY <1>2, <2>1 DEF GroupsInv, LiveGroups
  <2>3. MembersInv'
    <3>1. CASE job' = [job EXCEPT !.pc = "groups", !.id = i, !.mem.userID = i]
      <4>1. /\ job'.pc = "groups" /\ job'.id = i /\ job'.has = {}
            /\ job'.want = job.want
        BY <1>1, <2>1, <3>1 DEF Job
      <4>2. QED
        BY <1>1, <1>2, <2>1, <4>1 DEF MembersInv, Made
    <3>2. QED
      BY <1>3, <1>6, <3>1 DEF Create
  <2>4. QED
    BY <2>2, <2>3
<1>7. CASE Update
  <2>1. /\ job.id \in Ids /\ job.pc = "update"
        /\ remote[job.id].groups = job.has \cap LiveGroups
    BY <1>1, <1>7 DEF Update, At, Resolved, MembersInv
  <2>2. \A i \in Ids : remote'[i].groups = remote[i].groups
    <3>1. CASE remote' = [remote EXCEPT ![job.id] =
                            [remote[job.id] EXCEPT !.name = job.mem.spec.name,
                                                   !.profile = job.mem.spec.profile]]
      <4>1. remote'[job.id].groups = remote[job.id].groups
        BY <1>1, <2>1, <3>1 DEF Remote
      <4>2. \A i \in Ids \ {job.id} : remote'[i] = remote[i]
        BY <1>1, <3>1
      <4>3. QED
        BY <4>1, <4>2
    <3>2. QED
      BY <1>7, <3>1 DEF Update
  <2>3. GroupsInv' /\ LiveGroups' = LiveGroups
    BY <1>2, <2>2, GroupsSame
  <2>4. CASE job' = [job EXCEPT !.pc = "groups", !.has = remote[job.id].groups]
    <3>1. /\ job'.pc = "groups" /\ job'.id = job.id /\ job'.want = job.want
          /\ job'.has = remote[job.id].groups
      BY <1>1, <2>4 DEF Job
    <3>2. remote[job.id].groups \subseteq LiveGroups
      BY <2>1
    <3>3. Made(remote[job.id].groups)
      BY <3>2 DEF Made, LiveGroups
    <3>4. MembersInv'
      BY <1>1, <1>2, <2>1, <2>2, <2>3, <3>1, <3>2, <3>3 DEF MembersInv, Made
    <3>5. QED
      BY <2>3, <3>4
  <2>5. CASE Goto("groups")
    <3>1. /\ job'.pc = "groups" /\ job'.id = job.id /\ job'.want = job.want
          /\ job'.has = job.has
      BY <1>1, <2>5 DEF Goto, Job
    <3>2. MembersInv'
      BY <1>1, <1>2, <2>1, <2>2, <2>3, <3>1 DEF MembersInv, Made
    <3>3. QED
      BY <2>3, <3>2
  <2>6. QED
    BY <1>3, <1>7, <2>3, <2>4, <2>5 DEF Update
<1>8. QED
  BY <1>4, <1>5, <1>6, <1>7

\* So do the steps on memberships and on the onboarding link.
LEMMA MembersSync ==
    ASSUME TypeOK, GroupsInv, MembersInv,
           SyncGroups \/ SetGroups \/ CreateToken \/ StoreLink
    PROVE  GroupsInv' /\ MembersInv'
<1>1. /\ job.pc # "idle" /\ job \in Job /\ job.id \in Ids
      /\ remote \in [Ids -> Remote] /\ Made(job.has) /\ Made(job.want)
  <2>1. job.pc # "idle" /\ job.pc \in Resolved
    BY DEF SyncGroups, SetGroups, CreateToken, StoreLink, At, Resolved
  <2>2. QED
    BY <2>1, BusyJob, StateTypes DEF MembersInv
<1>2. UNCHANGED <<gid, groupState>>
  BY DEF SyncGroups, SetGroups, CreateToken, StoreLink, outside
<1>3. CASE SyncGroups
  <2>1. PICK want \in SUBSET GroupIds :
          /\ want = {gid[g] : g \in job.mem.spec.refs} \ {None}
          /\ job' = [job EXCEPT !.pc = IF want = job.has THEN "token"
                                                         ELSE "setGroups",
                                !.has = {}, !.want = want]
    BY <1>1, <1>3, WantType DEF SyncGroups
  <2>2. Made(want)
    <3>1. job.mem.spec.refs \subseteq Groups
      BY <1>1, BusyJob DEF CR, UserSpec
    <3>2. QED
      BY <2>1, <3>1 DEF Made, GroupsInv
  <2>3. /\ job'.pc = (IF want = job.has THEN "token" ELSE "setGroups")
        /\ job'.has = {} /\ job'.want = want /\ job'.id = job.id
    BY <1>1, <2>1 DEF Job
  <2>4. remote' = remote /\ remote[job.id].groups = job.has \cap LiveGroups
    BY <1>1, <1>3 DEF SyncGroups, At, MembersInv
  <2>5. GroupsInv' /\ LiveGroups' = LiveGroups
    BY <1>2, <2>4, GroupsSame
  <2>6. MembersInv'
    BY <1>1, <1>2, <2>2, <2>3, <2>4, <2>5 DEF MembersInv, Made
  <2>7. QED
    BY <2>5, <2>6
<1>4. CASE SetGroups
  <2>1. /\ remote'[job.id].groups = job.want \cap LiveGroups
        /\ \A i \in Ids \ {job.id} : remote'[i] = remote[i]
    BY <1>1, <1>4 DEF SetGroups, Remote
  <2>2. LiveGroups' = LiveGroups
    BY <1>2 DEF LiveGroups
  <2>3. GroupsInv'
    BY <1>2, <2>1, <2>2 DEF GroupsInv
  <2>4. CASE Goto("token")
    <3>1. /\ job'.pc = "token" /\ job'.id = job.id
          /\ job'.has = job.has /\ job'.want = job.want
      BY <1>1, <2>4 DEF Goto, Job
    <3>2. MembersInv'
      BY <1>1, <1>2, <2>1, <2>2, <3>1 DEF MembersInv, Made
    <3>3. QED
      BY <2>3, <3>2
  <2>5. CASE Goto("errorStatus")
    BY <1>1, <1>2, <2>3, <2>5, MembersOnError
  <2>6. QED
    BY <1>4, <2>4, <2>5 DEF SetGroups
<1>5. CASE CreateToken \/ StoreLink
  <2>1. /\ remote' = remote /\ job.pc \in {"token", "storeLink"}
        /\ remote[job.id].groups = job.want \cap LiveGroups
    BY <1>1, <1>5 DEF CreateToken, StoreLink, At, MembersInv
  <2>2. GroupsInv' /\ LiveGroups' = LiveGroups
    BY <1>2, <2>1, GroupsSame
  <2>3. /\ job'.pc \in {"storeLink", "finish"} /\ job'.id = job.id
        /\ job'.has = job.has /\ job'.want = job.want
    BY <1>1, <1>5, ZenonT(60) DEF CreateToken, StoreLink, Job
  <2>4. MembersInv'
    BY <1>1, <1>2, <2>1, <2>2, <2>3 DEF MembersInv, Made
  <2>5. QED
    BY <2>2, <2>4
<1>6. QED
  BY <1>3, <1>4, <1>5

\* So does the work of the group controller.
LEMMA MembersGroupwork ==
    ASSUME TypeOK, GroupsInv, MembersInv, Groupwork
    PROVE  GroupsInv' /\ MembersInv'
<1>1. /\ job' = job /\ groupState \in [GroupIds -> {"unused", "live", "deleted"}]
      /\ gid \in [Groups -> GroupIds \cup {None}] /\ remote \in [Ids -> Remote]
      /\ (job.pc \in Resolved => job.id \in Ids)
      /\ (job.pc # "idle" => job.has \subseteq GroupIds /\ job.want \subseteq GroupIds)
  BY BusyJob, StateTypes DEF Groupwork, MakeGroup, DeleteGroup, ShowGroup, TypeOK,
     Resolved
<1>2. ASSUME NEW p \in GroupIds, MakeGroup(p)
      PROVE  GroupsInv' /\ MembersInv'
  <2>1. /\ groupState[p] = "unused" /\ UNCHANGED <<gid, remote>>
        /\ groupState' = [groupState EXCEPT ![p] = "live"]
    BY <1>2 DEF MakeGroup
  <2>2. LiveGroups' = LiveGroups \cup {p}
    BY <1>1, <2>1 DEF LiveGroups
  <2>3. \A P \in SUBSET GroupIds :
           Made(P) => P \cap LiveGroups' = P \cap LiveGroups /\ Made(P)'
    BY <1>1, <2>1, <2>2 DEF Made
  <2>4. GroupsInv'
    BY <1>1, <2>1, <2>2 DEF GroupsInv
  <2>5. MembersInv'
    BY <1>1, <2>1, <2>3 DEF MembersInv, Made
  <2>6. QED
    BY <2>4, <2>5
<1>3. ASSUME NEW p \in GroupIds, DeleteGroup(p)
      PROVE  GroupsInv' /\ MembersInv'
  <2>1. /\ gid' = gid /\ groupState' = [groupState EXCEPT ![p] = "deleted"]
        /\ \A i \in Ids : remote'[i].groups = remote[i].groups \ {p}
    BY <1>1, <1>3 DEF DeleteGroup, Remote
  <2>2. LiveGroups' = LiveGroups \ {p}
    BY <1>1, <2>1 DEF LiveGroups
  <2>3. \A P \in SUBSET GroupIds : Made(P) => Made(P)'
    BY <1>1, <2>1 DEF Made
  <2>4. GroupsInv'
    BY <1>1, <2>1, <2>2 DEF GroupsInv
  <2>5. MembersInv'
    BY <1>1, <2>1, <2>2, <2>3 DEF MembersInv, Made, Resolved
  <2>6. QED
    BY <2>4, <2>5
<1>4. ASSUME NEW g \in Groups, NEW x \in GroupIds \cup {None}, ShowGroup(g, x)
      PROVE  GroupsInv' /\ MembersInv'
  <2>1. /\ UNCHANGED <<groupState, remote>> /\ gid' = [gid EXCEPT ![g] = x]
        /\ x # None => groupState[x] # "unused"
    BY <1>4 DEF ShowGroup
  <2>2. GroupsInv'
    BY <1>1, <2>1 DEF GroupsInv, LiveGroups
  <2>3. MembersInv'
    BY <1>1, <2>1 DEF MembersInv, Made, LiveGroups
  <2>4. QED
    BY <2>2, <2>3
<1>5. QED
  BY <1>2, <1>3, <1>4 DEF Groupwork

\* So does everything else.
LEMMA MembersStep ==
    TypeOK /\ GroupsInv /\ MembersInv /\ [Next]_vars => GroupsInv' /\ MembersInv'
<1>1. SUFFICES ASSUME TypeOK, GroupsInv, MembersInv, [Next]_vars
               PROVE  GroupsInv' /\ MembersInv'
  OBVIOUS
<1>2. CASE UNCHANGED <<gid, groupState, remote, job>>
  BY <1>1, <1>2, MembersSame
<1>3. ASSUME UNCHANGED <<gid, groupState, remote>>, MembersInv'
      PROVE  GroupsInv' /\ MembersInv'
  BY <1>1, <1>3, GroupsSame
<1>4. ASSUME NEW u \in Users, Begin(u)
      PROVE  GroupsInv' /\ MembersInv'
  <2>1. /\ UNCHANGED <<gid, groupState, remote>>
        /\ \E pc \in Busy \ Resolved : Start(u, pc)
    BY <1>4 DEF Begin, outside, Busy, AfterFinalizer, Resolved
  <2>2. MembersInv'
    BY <2>1 DEF Start, MembersInv, Made, Resolved
  <2>3. QED
    BY <1>3, <2>1, <2>2
<1>5. CASE AddFinalizer
  <2>1. UNCHANGED <<gid, groupState, remote>> /\ job.pc # "idle" /\ job.has = {}
    BY <1>1, <1>5 DEF AddFinalizer, outside, At, MembersInv
  <2>2. CASE job' = [job EXCEPT !.pc = "resolve", !.base.finalizer = TRUE,
                                !.mem.finalizer = TRUE]
    <3>1. job'.pc = "resolve" /\ job'.has = job.has /\ job'.want = job.want
      BY <1>1, <2>1, <2>2, BusyJob DEF Job
    <3>2. MembersInv'
      BY <1>1, <2>1, <3>1 DEF MembersInv, Made
    <3>3. QED
      BY <1>3, <2>1, <3>2
  <2>3. QED
    BY <1>3, <1>5, <2>1, <2>2, MembersOnDone DEF AddFinalizer
<1>6. CASE RemoveFinalizer \/ Finish \/ WriteErrorStatus \/ Crash
  <2>1. UNCHANGED <<gid, groupState, remote>> /\ Done
    BY <1>6 DEF RemoveFinalizer, Finish, WriteErrorStatus, Crash, outside
  <2>2. QED
    BY <1>3, <2>1, MembersOnDone
<1>7. CASE CallFails
  <2>1. UNCHANGED <<gid, groupState, remote>>
    BY <1>7 DEF CallFails, outside
  <2>2. CASE job.pc # "idle" /\ Goto("errorStatus")
    BY <1>1, <1>3, <2>1, <2>2, BusyJob, MembersOnError
  <2>3. CASE job.pc \in {"token", "storeLink"} /\ Goto("finish")
    <3>1. /\ job'.pc = "finish" /\ job'.id = job.id
          /\ job'.has = job.has /\ job'.want = job.want
      BY <1>1, <2>3, BusyJob DEF Goto, Job
    <3>2. LiveGroups' = LiveGroups
      BY <2>1 DEF LiveGroups
    <3>3. MembersInv'
      BY <1>1, <2>1, <2>3, <3>1, <3>2 DEF MembersInv, Made
    <3>4. QED
      BY <1>3, <2>1, <3>3
  <2>4. CASE Done
    BY <1>3, <2>1, <2>4, MembersOnDone
  <2>5. QED
    BY <1>7, <2>2, <2>3, <2>4 DEF CallFails, At
<1>8. QED
  BY <1>1, <1>2, <1>4, <1>5, <1>6, <1>7, MembersCalls, MembersSync, MembersGroupwork
  DEF Next, Worker, Environment, Cluster, CacheSync, CollectSecret, CreateCR, EditSpec,
      RequestDelete, DeleteSecret, FlipInstance, outside, vars

\* Whatever happens to the groups between PocketID's answer, the resolution of the
\* references and the call that sets them, a reconciliation goes on to the link and
\* to its status with the user in exactly those groups resolved that still exist.
THEOREM MembershipsAreAsRead == Spec => []MembershipsAsRead
<1>1. Init => GroupsInv /\ MembersInv
  BY DEF Init, GroupsInv, MembersInv, InitialRemote, Idle
<1>2. MembersInv => MembershipsAsRead
  BY DEF MembersInv, MembershipsAsRead
<1>3. QED
  BY <1>1, <1>2, TypeInit, TypeStep, MembersStep, PTL DEF Spec
===============================================================================
