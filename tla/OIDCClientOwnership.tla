------------------------- MODULE OIDCClientOwnership -------------------------
(***************************************************************************)
(* Every client of PocketID that the PocketIDOIDCClient controller makes   *)
(* or adopts belongs to one resource: the controller implements Lifecycle  *)
(* and a live resource never records a deleted client, for every instance  *)
(* in which no two resources are given the same spec.name.                 *)
(***************************************************************************)
EXTENDS OIDCClientSafety
-------------------------------------------------------------------------------
(* The invariant. *)

\* Specs are those users gave to the resource, in every copy.
SpecsInv ==
    /\ \A c \in Clients :
         obj[c].spec \in Specs[c] /\ SeenClient(c).spec \in Specs[c]
    /\ job.pc # "idle" => job.base.spec \in Specs[job.c]

\* An id that c knows of was given by PocketID to a client of one of c's names.
Named(c, i) ==
    i # None => remote[i].state # "unused" /\ remote[i].name \in NamesOf(c)

\* Every id that a resource, a copy of it or its job holds is Named.
NamesInv ==
    /\ \A c \in Clients :
         Named(c, obj[c].clientID) /\ Named(c, SeenClient(c).clientID)
    /\ job.pc # "idle" =>
         /\ Named(job.c, job.base.clientID) /\ Named(job.c, job.mem.clientID)
         /\ Named(job.c, job.id)

\* Without finalizer nothing is recorded.
RecordsInv == \A c \in Clients : ~Held(obj[c]) => obj[c].clientID = None

\* A copy of a deletion that is over names a client that is gone.
DeletionsInv ==
    /\ \A c \in Clients :
         LET o == SeenClient(c) IN
         (o.state = "deleting" /\ o.clientID # None
            /\ remote[o.clientID].state = "live") => obj[c].state = "deleting"
    /\ (job.pc # "idle" /\ job.base.state = "deleting") =>
         /\ (job.base.clientID # None /\ remote[job.base.clientID].state = "live")
               => obj[job.c].state = "deleting"
         /\ Current => SeenClient(job.c) = job.base
         /\ job.pc = "deleteRemote" => job.base.clientID # None
         /\ (job.pc = "removeFinalizer" /\ job.base.clientID # None)
               => remote[job.base.clientID].state = "deleted"

\* The client the worker acts on exists, and so does one that it is about to
\* record for the first time.
ActingInv ==
    job.pc # "idle" =>
        /\ job.pc \in Resolved => remote[job.id].state = "live"
        /\ job.mem.clientID # job.base.clientID =>
              /\ LiveHeld(job.base) /\ job.mem.clientID # None
              /\ remote[job.mem.clientID].state = "live"

\* What holds whatever names the resources are given.
CoreInv == TypeOK /\ FinalizerInv /\ SpecsInv

\* The parts of the invariant that depend on the names, with the property they
\* are for.
OwnershipInv ==
    NamesInv /\ RecordsInv /\ DeletionsInv /\ ActingInv /\ RecordedLive

\* All that the inductive step may assume.
AllInv == CoreInv /\ OwnershipInv
-------------------------------------------------------------------------------
(* What a step can do to the ids that resources, copies and the job hold. *)

\* What the worker makes of the client with id i.
RemoteMove(i) ==
    \/ remote'[i].state = remote[i].state /\ remote'[i].name = remote[i].name
    \/ /\ At("create") /\ remote[i].state = "unused"
       /\ remote'[i].state = "live" /\ remote'[i].name = job.mem.spec.name
    \/ /\ At("update") /\ job.id = i
       /\ remote'[i].state = remote[i].state
       /\ remote'[i].name = job.mem.spec.name
    \/ /\ At("deleteRemote") /\ job.base.clientID = i
       /\ remote'[i].state = "deleted" /\ remote'[i].name = remote[i].name

\* Every step moves every client of PocketID in those ways.
LEMMA RemoteMoves ==
    ASSUME TypeOK, Next, NEW i \in Ids
    PROVE  RemoteMove(i)
<1>1. remote \in [Ids -> Remote] /\ remote[i] \in Remote
  BY StateTypes
<1>2. CASE DeleteRemote
  BY <1>1, <1>2 DEF DeleteRemote, RemoteMove, Remote
<1>3. ASSUME NEW j \in Ids, Create(j)
      PROVE  RemoteMove(i)
  BY <1>1, <1>3 DEF Create, RemoteMove
<1>4. CASE remote' = remote
  BY <1>4 DEF RemoteMove
<1>5. CASE Update
  <2>1. CASE remote' = [remote EXCEPT ![job.id] =
                          [remote[job.id] EXCEPT !.name = job.mem.spec.name,
                                                 !.conf = job.mem.spec.conf,
                                                 !.groups = job.groups]]
    <3>1. CASE job.id = i
      BY <1>1, <1>5, <2>1, <3>1 DEF Update, RemoteMove, Remote
    <3>2. CASE job.id # i
      BY <1>1, <2>1, <3>2 DEF RemoteMove
    <3>3. QED
      BY <3>1, <3>2
  <2>2. QED
    BY <1>4, <1>5, <2>1 DEF Update
<1>6. CASE Generate
  <2>1. PICK k \in Keys : remote' = [remote EXCEPT ![job.id].key = k]
    BY <1>6 DEF Generate
  <2>2. QED
    BY <1>1, <2>1 DEF RemoteMove, Remote
<1>7. QED
  BY <1>2, <1>3, <1>4, <1>5, <1>6 DEF Next, Worker, Environment, Begin, Cluster,
     CacheSync, SecretSync, CollectSecret, CollectPolicy, CallFails, Crash,
     AddFinalizer, RemoveFinalizer, ResolveGroups, Resolve, EnsureSecret,
     StoreSecret, EnsurePolicy, Finish, WriteErrorStatus, CreateCR, EditSpec,
     RequestDelete, DeleteSecret, ChangeGroup, FlipInstance, FlipRoute

\* How the id a resource records changes.
RecordMove(c) ==
    /\ obj'[c].spec \in Specs[c]
    /\ \/ /\ obj'[c].clientID = obj[c].clientID
          /\ Held(obj[c]) => Held(obj'[c])
       \/ obj'[c].clientID = None /\ ~Held(obj'[c])
       \/ /\ At("finish") /\ job.c = c /\ job'.pc = "idle"
          /\ obj'[c].clientID = job.id /\ Unchanged(c)
       \/ /\ At("errorStatus") /\ job.c = c /\ job'.pc = "idle" /\ Current
          /\ obj'[c].clientID = job.mem.clientID /\ Unchanged(c)

\* A resource that does not exist records no id.
LEMMA NoCRSpec ==
    ASSUME NEW c \in Clients
    PROVE  NoCR(c).spec \in Specs[c] /\ NoCR(c).clientID = None
<1>1. (CHOOSE s \in Specs[c] : TRUE) \in Specs[c]
  <2>1. Specs[c] # {}
    BY SpecsAssumption
  <2>2. QED
    BY <2>1
<1>2. QED
  BY <1>1 DEF NoCR, NewCR

\* Every step moves every recorded id in those ways.
LEMMA RecordMoves ==
    ASSUME CoreInv, Next, NEW c \in Clients
    PROVE  RecordMove(c)
<1>1. /\ TypeOK /\ obj \in [Clients -> CR] /\ obj[c] \in CR
      /\ obj[c].spec \in Specs[c]
  BY StateTypes DEF CoreInv, SpecsInv
<1>2. CASE obj' = obj
  BY <1>1, <1>2 DEF RecordMove
<1>3. CASE AddFinalizer
  <2>1. CASE obj' = [obj EXCEPT ![job.c].finalizer = TRUE]
    BY <1>1, <2>1 DEF RecordMove, CR, Held
  <2>2. QED
    BY <1>2, <1>3, <2>1 DEF AddFinalizer
<1>4. CASE RemoveFinalizer
  <2>1. job.c \in Clients
    BY <1>1, <1>4, BusyJob DEF RemoveFinalizer, At
  <2>2. CASE Drop(job.c)
    BY <1>1, <2>1, <2>2, NoCRSpec, NoCRAbsent DEF Drop, RecordMove, Held
  <2>3. QED
    BY <1>2, <1>4, <2>2 DEF RemoveFinalizer
<1>5. CASE Finish
  <2>1. CASE obj' # obj
    <3>1. obj' = [obj EXCEPT ![job.c] =
                    [obj[job.c] EXCEPT !.clientID = job.id,
                                       !.credName = job.mem.credName,
                                       !.policyName = job.mem.policyName,
                                       !.ready = TRUE, !.observed = TRUE]]
      BY <1>5, <2>1 DEF Finish
    <3>2. At("finish") /\ job.c \in Clients /\ job'.pc = "idle"
      BY <1>1, <1>5, BusyJob DEF Finish, At, Done, Idle
    <3>3. CASE job.c = c
      BY <1>1, <3>1, <3>2, <3>3 DEF RecordMove, CR, Unchanged
    <3>4. CASE job.c # c
      BY <1>1, <3>1, <3>4 DEF RecordMove
    <3>5. QED
      BY <3>3, <3>4
  <2>2. QED
    BY <1>2, <2>1
<1>6. CASE WriteErrorStatus
  <2>1. /\ At("errorStatus") /\ job.c \in Clients /\ job'.pc = "idle"
        /\ job.mem \in CR /\ job.mem.spec = job.base.spec
        /\ job.mem.state = job.base.state
        /\ job.mem.finalizer = job.base.finalizer
        /\ job.base.spec \in Specs[job.c]
    BY <1>1, <1>6, BusyJob DEF WriteErrorStatus, At, Done, Idle, CoreInv,
       FinalizerInv, JobInv, SpecsInv
  <2>2. CASE Current
    <3>1. obj' = [obj EXCEPT ![job.c] =
                    [job.mem EXCEPT !.ready = FALSE, !.observed = TRUE]]
      BY <1>6, <2>2 DEF WriteErrorStatus
    <3>2. CASE job.c = c
      BY <1>1, <2>1, <2>2, <3>1, <3>2 DEF RecordMove, CR, Current, Unchanged
    <3>3. CASE job.c # c
      BY <1>1, <3>1, <3>3 DEF RecordMove
    <3>4. QED
      BY <3>2, <3>3
  <2>3. QED
    BY <1>2, <1>6, <2>2 DEF WriteErrorStatus
<1>7. ASSUME NEW d \in Clients, NEW s \in Specs[d], CreateCR(d, s)
      PROVE  RecordMove(c)
  BY <1>1, <1>7 DEF CreateCR, NewCR, RecordMove, Held
<1>8. ASSUME NEW d \in Clients, NEW s \in Specs[d], EditSpec(d, s)
      PROVE  RecordMove(c)
  BY <1>1, <1>8 DEF EditSpec, RecordMove, Held, CR
<1>9. ASSUME NEW d \in Clients, RequestDelete(d)
      PROVE  RecordMove(c)
  <2>1. CASE Drop(d)
    BY <1>1, <2>1, NoCRSpec, NoCRAbsent DEF Drop, RecordMove, Held
  <2>2. CASE obj' = [obj EXCEPT ![d].state = "deleting"]
    BY <1>1, <2>2 DEF RecordMove, Held, CR
  <2>3. QED
    BY <1>9, <2>1, <2>2 DEF RequestDelete
<1>10. QED
  BY <1>2, <1>3, <1>4, <1>5, <1>6, <1>7, <1>8, <1>9 DEF Next, Worker, Environment,
     Begin, Cluster, CacheSync, SecretSync, CollectSecret, CollectPolicy,
     CallFails, Crash, DeleteRemote, ResolveGroups, Resolve, Create, Update,
     EnsureSecret, Generate, StoreSecret, EnsurePolicy, DeleteSecret, ChangeGroup,
     FlipInstance, FlipRoute, kube

\* How the ids the job holds change while it goes on.
IdsStay ==
    /\ job'.id = job.id /\ job'.mem.clientID = job.mem.clientID
    /\ job'.pc \in Resolved => job.pc \in Resolved
    /\ job'.pc = "deleteRemote" => job.pc = "deleteRemote"
    /\ job'.pc = "removeFinalizer" =>
          \/ job.pc = "removeFinalizer"
          \/ /\ At("deleteRemote")
             /\ job.base.clientID # None
                   => remote'[job.base.clientID].state = "deleted"

\* Resolve found the id: recorded or looked up.
IdFound ==
    /\ At("resolve") /\ job'.pc = "update" /\ remote' = remote
    /\ job'.mem.clientID = job.mem.clientID
    /\ job'.id \in Live
    /\ \/ job'.id = job.mem.clientID
       \/ remote[job'.id].name = job.mem.spec.name

\* Create got the id from PocketID.
IdCreated ==
    /\ At("create") /\ job'.pc = "ensureSecret"
    /\ \E i \in Ids : /\ remote'[i].state = "live"
                      /\ remote'[i].name = job.mem.spec.name
                      /\ job'.id = i /\ job'.mem.clientID = i

\* Begin knows no more than the copy in the cache.
IdStart ==
    /\ job.pc = "idle" /\ remote' = remote
    /\ job'.id = None
    /\ job'.pc \notin Resolved
    /\ job'.pc = "deleteRemote" => job'.base.clientID # None
    /\ job'.pc = "removeFinalizer" => job'.base.clientID = None

\* How the ids that the job holds change.
IdsMove == \/ job'.pc = "idle"
           \/ IdStart
           \/ job.pc # "idle" /\ (IdsStay \/ IdFound \/ IdCreated)

\* Going to another call keeps the ids.
LEMMA IdsOnGoto ==
    ASSUME TypeOK, job.pc # "idle", NEW pc \in Busy, Goto(pc),
           pc \notin {"deleteRemote", "removeFinalizer"},
           pc \in Resolved => job.pc \in Resolved
    PROVE  IdsMove
  BY BusyJob DEF Goto, IdsMove, IdsStay, Job

\* Every step of the worker moves the ids of the job in those ways.
LEMMA IdsMovesWorker ==
    ASSUME TypeOK, Worker
    PROVE  IdsMove
<1>1. /\ job \in Job /\ job.mem \in CR /\ job.base \in CR /\ job.pc # "idle"
  BY BusyJob DEF Worker, AddFinalizer, DeleteRemote, RemoveFinalizer,
     ResolveGroups, Resolve, Create, Update, EnsureSecret, Generate, StoreSecret,
     EnsurePolicy, Finish, WriteErrorStatus, At
<1>2. CASE Done
  BY <1>2 DEF Done, Idle, IdsMove
<1>3. ASSUME Goto("errorStatus")
      PROVE  IdsMove
  BY <1>1, <1>3, IdsOnGoto DEF Busy, Resolved
<1>4. ASSUME NEW pc \in Resolved, Goto(pc), job.pc \in Resolved
      PROVE  IdsMove
  BY <1>1, <1>4, IdsOnGoto DEF Busy, AfterFinalizer, Resolved
<1>5. CASE AddFinalizer
  <2>1. CASE job' = [job EXCEPT !.pc = "groups", !.base.finalizer = TRUE,
                                !.mem.finalizer = TRUE]
    BY <1>1, <2>1 DEF IdsMove, IdsStay, Job, CR, Resolved
  <2>2. QED
    BY <1>2, <1>5, <2>1 DEF AddFinalizer
<1>6. CASE DeleteRemote
  <2>1. CASE Goto("removeFinalizer")
    <3>1. job.base.clientID # None
             => remote'[job.base.clientID].state = "deleted"
      BY <1>1, <1>6, StateTypes DEF DeleteRemote, CR, Remote
    <3>2. QED
      BY <1>1, <1>6, <2>1, <3>1 DEF DeleteRemote, Goto, IdsMove, IdsStay, Job,
         Resolved
  <2>2. QED
    BY <1>3, <1>6, <2>1 DEF DeleteRemote
<1>7. CASE RemoveFinalizer \/ Finish \/ WriteErrorStatus
  BY <1>2, <1>7 DEF RemoveFinalizer, Finish, WriteErrorStatus
<1>8. CASE ResolveGroups
  <2>1. ASSUME NEW ids, job' = [job EXCEPT !.pc = "resolve", !.groups = ids]
        PROVE  IdsMove
    BY <1>1, <2>1 DEF IdsMove, IdsStay, Job, Resolved
  <2>2. QED
    BY <1>3, <1>8, <2>1 DEF ResolveGroups
<1>9. CASE Resolve
  <2>1. At("resolve") /\ remote' = remote
    BY <1>9 DEF Resolve
  <2>2. ASSUME NEW i \in Live, job' = [job EXCEPT !.pc = "update", !.id = i],
               i = job.mem.clientID \/ remote[i].name = job.mem.spec.name
        PROVE  IdsMove
    BY <1>1, <2>1, <2>2 DEF IdsMove, IdFound, Job
  <2>3. CASE Goto("create")
    BY <1>1, <2>3, IdsOnGoto DEF Busy, AfterFinalizer, Resolved
  <2>4. CASE job.mem.clientID # None
    BY <1>3, <1>9, <2>2, <2>4 DEF Resolve
  <2>5. CASE job.mem.clientID = None
    <3>1. PICK page \in Pages :
            LET named == {i \in page : remote[i].name = job.mem.spec.name} IN
            \/ \E i \in named : job' = [job EXCEPT !.pc = "update", !.id = i]
            \/ named = {} /\ Goto("create")
      BY <1>9, <2>5 DEF Resolve
    <3>2. page \subseteq Live
      BY DEF Pages
    <3>3. QED
      BY <2>2, <2>3, <3>1, <3>2
  <2>6. QED
    BY <2>4, <2>5
<1>10. ASSUME NEW i \in Ids, Create(i)
       PROVE  IdsMove
  <2>1. CASE job' = [job EXCEPT !.pc = "ensureSecret", !.id = i, !.mem.clientID = i]
    <3>1. /\ job'.pc = "ensureSecret" /\ job'.id = i /\ job'.mem.clientID = i
      BY <1>1, <2>1 DEF Job, CR
    <3>2. /\ remote'[i].state = "live" /\ remote'[i].name = job.mem.spec.name
      BY <1>10, StateTypes DEF Create
    <3>3. At("create")
      BY <1>10 DEF Create
    <3>4. QED
      BY <1>1, <3>1, <3>2, <3>3 DEF IdsMove, IdCreated
  <2>2. QED
    BY <1>3, <1>10, <2>1 DEF Create
<1>11. CASE Update
  BY <1>3, <1>4, <1>11 DEF Update, At, Resolved
<1>12. CASE EnsureSecret
  <2>1. CASE job' = [job EXCEPT !.pc = "generate", !.secret = SeenSecret(job.c)]
    BY <1>1, <1>12, <2>1 DEF EnsureSecret, At, IdsMove, IdsStay, Job, Resolved
  <2>2. QED
    BY <1>4, <1>12, <2>1 DEF EnsureSecret, At, Resolved
<1>13. CASE Generate
  <2>1. ASSUME NEW k, job' = [job EXCEPT !.pc = "storeSecret", !.key = k]
        PROVE  IdsMove
    BY <1>1, <1>13, <2>1 DEF Generate, At, IdsMove, IdsStay, Job, Resolved
  <2>2. QED
    BY <1>2, <1>13, <2>1 DEF Generate
<1>14. CASE StoreSecret
  <2>1. CASE job' = [job EXCEPT !.pc = "ensurePolicy", !.mem.credName = TRUE]
    BY <1>1, <1>14, <2>1 DEF StoreSecret, At, IdsMove, IdsStay, Job, CR, Resolved
  <2>2. QED
    BY <1>2, <1>14, <2>1 DEF StoreSecret
<1>15. CASE EnsurePolicy
  <2>1. ASSUME NEW b, job' = [job EXCEPT !.pc = "finish", !.mem.policyName = b]
        PROVE  IdsMove
    BY <1>1, <1>15, <2>1 DEF EnsurePolicy, At, IdsMove, IdsStay, Job, CR, Resolved
  <2>2. QED
    BY <1>3, <1>4, <1>15, <2>1 DEF EnsurePolicy, At, Resolved
<1>16. QED
  BY <1>5, <1>6, <1>7, <1>8, <1>9, <1>10, <1>11, <1>12, <1>13, <1>14, <1>15
  DEF Worker

\* Every step moves them so.
LEMMA IdsMoves ==
    ASSUME TypeOK, Next
    PROVE  IdsMove
<1>1. ASSUME NEW c \in Clients, Begin(c)
      PROVE  IdsMove
  <2>1. job.pc = "idle" /\ remote' = remote
    BY <1>1 DEF Begin, Idle
  <2>2. \E pc \in {"errorStatus", "deleteRemote", "removeFinalizer",
                   "addFinalizer", "groups"} :
          /\ Start(c, pc)
          /\ pc = "deleteRemote" => SeenClient(c).clientID # None
          /\ pc = "removeFinalizer" => SeenClient(c).clientID = None
    BY <1>1 DEF Begin
  <2>3. QED
    BY <2>1, <2>2 DEF Start, IdsMove, IdStart, Resolved
<1>2. CASE CallFails
  <2>1. CASE Done
    BY <2>1 DEF Done, Idle, IdsMove
  <2>2. CASE Goto("errorStatus") /\ job.pc # "idle"
    BY <2>2, IdsOnGoto DEF Busy, Resolved
  <2>3. QED
    BY <1>2, <2>1, <2>2 DEF CallFails, At
<1>3. CASE Crash
  BY <1>3 DEF Crash, Done, Idle, IdsMove
<1>4. CASE job' = job
  BY <1>4 DEF IdsMove, IdsStay
<1>5. QED
  BY <1>1, <1>2, <1>3, <1>4, IdsMovesWorker DEF Next, Environment, Cluster,
     CacheSync, SecretSync, CollectSecret, CollectPolicy, CreateCR, EditSpec,
     RequestDelete, DeleteSecret, ChangeGroup, FlipInstance, FlipRoute

\* A job that goes on keeps its resource and the copy it started from, but for
\* the finalizer.
LEMMA JobKeeps ==
    ASSUME CoreInv, Next, job.pc # "idle", job'.pc # "idle"
    PROVE  /\ job.c \in Clients /\ job'.c = job.c
           /\ job'.base.clientID = job.base.clientID
           /\ job'.base.spec = job.base.spec /\ job'.base.state = job.base.state
           /\ job'.mem.spec = job.mem.spec
           /\ LiveHeld(job.base) => LiveHeld(job'.base)
           /\ job'.base = job.base \/ job.base.state = "live"
           /\ IdsStay \/ IdFound \/ IdCreated
<1>1. TypeOK /\ job \in Job /\ job.c \in Clients /\ job.base \in CR /\ job.mem \in CR
  BY BusyJob DEF CoreInv
<1>2. IdsStay \/ IdFound \/ IdCreated
  BY <1>1, IdsMoves DEF IdsMove, IdStart
<1>3. CASE JobFinalizer
  <2>1. /\ job'.c = job.c
        /\ job'.base = [job.base EXCEPT !.finalizer = TRUE]
        /\ job'.mem = [job.mem EXCEPT !.finalizer = TRUE]
    BY <1>1, <1>3 DEF JobFinalizer, Job
  <2>2. job.base.state = "live"
    BY <1>3 DEF JobFinalizer, CoreInv, FinalizerInv, JobInv, At
  <2>3. QED
    BY <1>1, <1>2, <2>1, <2>2 DEF LiveHeld, CR
<1>4. CASE JobOn
  BY <1>1, <1>2, <1>4 DEF JobOn, SameCopy
<1>5. QED
  BY <1>1, <1>3, <1>4, JobMoves DEF JobMove, JobStart

\* An idle worker starts from the copy in the cache, and writes nothing.
LEMMA JobStarts ==
    ASSUME CoreInv, Next, job.pc = "idle", job'.pc # "idle"
    PROVE  /\ UNCHANGED <<obj, remote>> /\ IdStart
           /\ \E c \in Clients : /\ job'.c = c /\ SeenClient(c)' = SeenClient(c)
                                 /\ job'.base = SeenClient(c)
                                 /\ job'.mem = SeenClient(c)
<1>1. JobStart
  BY JobMoves DEF CoreInv, JobMove, JobFinalizer, JobOn, At
<1>2. IdStart
  BY IdsMoves DEF CoreInv, IdsMove
<1>3. QED
  BY <1>1, <1>2 DEF JobStart, IdStart, SeenClient

\* A deletion in progress changes only through the worker's own last write.
LEMMA DeletionStays ==
    ASSUME CoreInv, Next, job.pc # "idle", job'.pc # "idle",
           obj'[job.c].state = "deleting", ~LiveHeld(obj[job.c])
    PROVE  obj'[job.c] = obj[job.c]
<1>1. job.c \in Clients /\ obj \in [Clients -> CR] /\ obj[job.c] \in CR
  BY BusyJob, StateTypes DEF CoreInv
<1>2. CASE AddFinalizer
  <2>1. CASE Current
    <3>1. obj[job.c].state = "live"
      BY <1>2, <2>1 DEF AddFinalizer, Current, CoreInv, FinalizerInv, JobInv, At
    <3>2. obj' = [obj EXCEPT ![job.c].finalizer = TRUE]
      BY <1>2, <2>1 DEF AddFinalizer
    <3>3. QED
      BY <1>1, <3>1, <3>2 DEF CR
  <2>2. QED
    BY <1>2, <2>1 DEF AddFinalizer
<1>3. CASE RemoveFinalizer \/ Finish \/ WriteErrorStatus
  BY <1>3 DEF RemoveFinalizer, Finish, WriteErrorStatus, Done, Idle
<1>4. ASSUME NEW d \in Clients, NEW s \in Specs[d], CreateCR(d, s)
      PROVE  obj'[job.c] = obj[job.c]
  BY <1>1, <1>4 DEF CreateCR, NewCR
<1>5. ASSUME NEW d \in Clients, NEW s \in Specs[d], EditSpec(d, s)
      PROVE  obj'[job.c] = obj[job.c]
  BY <1>1, <1>5 DEF EditSpec, CR
<1>6. ASSUME NEW d \in Clients, RequestDelete(d)
      PROVE  obj'[job.c] = obj[job.c]
  BY <1>1, <1>6, NoCRAbsent DEF RequestDelete, Drop, LiveHeld
<1>7. QED
  BY <1>2, <1>3, <1>4, <1>5, <1>6 DEF Next, Worker, Environment, Begin, Cluster,
     CacheSync, SecretSync, CollectSecret, CollectPolicy, CallFails, Crash,
     DeleteRemote, ResolveGroups, Resolve, Create, Update, EnsureSecret, Generate,
     StoreSecret, EnsurePolicy, DeleteSecret, ChangeGroup, FlipInstance, FlipRoute,
     kube
-------------------------------------------------------------------------------
(* Each part of the invariant is preserved. *)

\* The name the worker acts for is one of its resource's.
LEMMA JobName ==
    ASSUME CoreInv, job.pc # "idle"
    PROVE  job.c \in Clients /\ job.mem.spec.name \in NamesOf(job.c)
  BY BusyJob DEF CoreInv, FinalizerInv, JobInv, SpecsInv, NamesOf

\* Two resources never know the same client.
LEMMA OneOwner ==
    ASSUME NamesDisjoint, NEW c \in Clients, NEW d \in Clients, NEW i \in Ids,
           Named(c, i), Named(d, i)
    PROVE  c = d
  BY NoneAssumption DEF Named, NamesDisjoint

\* Named in the next state.
NamedNext(c, i) ==
    i # None => remote'[i].state # "unused" /\ remote'[i].name \in NamesOf(c)

\* An id stays Named: PocketID never forgets one, and Update keeps its name.
LEMMA NamedStep ==
    ASSUME AllInv, NamesDisjoint \/ NamesFixed, Next,
           NEW c \in Clients, NEW i \in Ids \cup {None}, Named(c, i)
    PROVE  NamedNext(c, i)
<1>1. CASE i = None
  BY <1>1 DEF NamedNext
<1>2. CASE i \in Ids /\ i # None
  <2>1. RemoteMove(i)
    BY <1>2, RemoteMoves DEF AllInv, CoreInv
  <2>2. remote[i].state # "unused" /\ remote[i].name \in NamesOf(c)
    BY <1>2 DEF Named
  <2>3. CASE At("update") /\ job.id = i /\ remote'[i].state = remote[i].state
               /\ remote'[i].name = job.mem.spec.name
    <3>1. job.c \in Clients /\ job.mem.spec.name \in NamesOf(job.c)
      BY <2>3, JobName DEF AllInv, At
    <3>2. Named(job.c, i)
      BY <2>3 DEF AllInv, CoreInv, OwnershipInv, NamesInv, At
    <3>3. CASE NamesDisjoint
      <4>1. c = job.c
        BY <1>2, <3>1, <3>2, <3>3, OneOwner
      <4>2. QED
        BY <2>2, <2>3, <3>1, <4>1 DEF NamedNext
    <3>4. CASE NamesFixed
      <4>1. remote[i].name = job.mem.spec.name
        BY <1>2, <3>1, <3>2, <3>4 DEF Named, NamesFixed, NameFixed, NamesOf
      <4>2. QED
        BY <2>2, <2>3, <4>1 DEF NamedNext
    <3>5. QED
      BY <3>3, <3>4
  <2>4. QED
    BY <2>1, <2>2, <2>3 DEF RemoteMove, NamedNext
<1>3. QED
  BY <1>1, <1>2

\* Every step preserves SpecsInv.
LEMMA SpecsStep ==
    ASSUME CoreInv, Next
    PROVE  SpecsInv'
<1>1. ASSUME NEW c \in Clients
      PROVE  obj'[c].spec \in Specs[c] /\ SeenClient(c)'.spec \in Specs[c]
  <2>1. obj'[c].spec \in Specs[c]
    BY RecordMoves DEF RecordMove
  <2>2. SeenClient(c).spec \in Specs[c]
    BY DEF CoreInv, SpecsInv
  <2>3. SeenClient(c)' = SeenClient(c) \/ SeenClient(c)' = obj'[c]
    BY SeenMoves DEF CoreInv
  <2>4. QED
    BY <2>1, <2>2, <2>3
<1>2. ASSUME job'.pc # "idle"
      PROVE  job'.base.spec \in Specs[job'.c]
  <2>1. CASE job.pc = "idle"
    BY <1>2, <2>1, JobStarts DEF CoreInv, SpecsInv
  <2>2. CASE job.pc # "idle"
    BY <1>2, <2>2, JobKeeps DEF CoreInv, SpecsInv
  <2>3. QED
    BY <2>1, <2>2
<1>3. QED
  BY <1>1, <1>2 DEF SpecsInv, SeenClient

\* CoreInv holds initially.
LEMMA CoreInit == Init => CoreInv
<1>1. Init => SpecsInv
  BY NoCRSpec DEF Init, Idle, SeenClient, SpecsInv
<1>2. QED
  BY <1>1, TypeInit, FinalizerInit DEF CoreInv

\* CoreInv is inductive.
LEMMA CoreStep == CoreInv /\ [Next]_vars => CoreInv'
<1>1. CASE UNCHANGED vars
  BY <1>1, TypeStep, FinalizerStep DEF vars, CoreInv, SpecsInv, SeenClient
<1>2. CASE Next
  BY <1>2, TypeStep, FinalizerStep, SpecsStep DEF CoreInv
<1>3. QED
  BY <1>1, <1>2

\* The ids held are ids or None.
LEMMA IdTypes ==
    ASSUME TypeOK
    PROVE  /\ \A c \in Clients : /\ obj[c].clientID \in Ids \cup {None}
                                 /\ SeenClient(c).clientID \in Ids \cup {None}
           /\ job.pc # "idle" =>
                /\ job.c \in Clients
                /\ job.base.clientID \in Ids \cup {None}
                /\ job.mem.clientID \in Ids \cup {None}
                /\ job.id \in Ids \cup {None}
<1>1. ASSUME NEW c \in Clients
      PROVE  /\ obj[c].clientID \in Ids \cup {None}
             /\ SeenClient(c).clientID \in Ids \cup {None}
  BY StateTypes, SeenType DEF CR
<1>2. ASSUME job.pc # "idle"
      PROVE  /\ job.c \in Clients
             /\ job.base.clientID \in Ids \cup {None}
             /\ job.mem.clientID \in Ids \cup {None}
             /\ job.id \in Ids \cup {None}
  BY <1>2, BusyJob DEF CR
<1>3. QED
  BY <1>1, <1>2

\* Every step preserves NamesInv.
LEMMA NamesStep ==
    ASSUME AllInv, NamesDisjoint \/ NamesFixed, Next
    PROVE  NamesInv'
<1>0. TypeOK /\ NamesInv
  BY DEF AllInv, CoreInv, OwnershipInv
<1>1. ASSUME NEW c \in Clients
      PROVE  NamedNext(c, obj'[c].clientID) /\ NamedNext(c, SeenClient(c)'.clientID)
  <2>1. /\ NamedNext(c, obj[c].clientID) /\ NamedNext(c, SeenClient(c).clientID)
    BY <1>0, IdTypes, NamedStep DEF NamesInv
  <2>2. (job.pc # "idle" /\ job.c = c) =>
           NamedNext(c, job.id) /\ NamedNext(c, job.mem.clientID)
    BY <1>0, IdTypes, NamedStep DEF NamesInv
  <2>3. NamedNext(c, obj'[c].clientID)
    BY <2>1, <2>2, RecordMoves DEF AllInv, RecordMove, At, NamedNext
  <2>4. SeenClient(c)' = SeenClient(c) \/ SeenClient(c)' = obj'[c]
    BY <1>0, SeenMoves
  <2>5. QED
    BY <2>1, <2>3, <2>4
<1>2. ASSUME job'.pc # "idle"
      PROVE  /\ NamedNext(job'.c, job'.base.clientID)
             /\ NamedNext(job'.c, job'.mem.clientID)
             /\ NamedNext(job'.c, job'.id)
  <2>1. CASE job.pc = "idle"
    <3>1. PICK c \in Clients : /\ job'.c = c /\ job'.base = SeenClient(c)
                               /\ job'.mem = SeenClient(c)
      BY <1>2, <2>1, JobStarts DEF AllInv
    <3>2. NamedNext(c, SeenClient(c).clientID)
      BY <1>0, IdTypes, NamedStep DEF NamesInv
    <3>3. job'.id = None
      BY <1>2, <2>1, JobStarts DEF AllInv, IdStart
    <3>4. QED
      BY <3>1, <3>2, <3>3 DEF NamedNext
  <2>2. CASE job.pc # "idle"
    <3>1. /\ NamedNext(job.c, job.base.clientID)
          /\ NamedNext(job.c, job.mem.clientID) /\ NamedNext(job.c, job.id)
      BY <1>0, <2>2, IdTypes, NamedStep DEF NamesInv
    <3>2. job.mem.spec.name \in NamesOf(job.c)
      BY <2>2, JobName DEF AllInv
    <3>3. /\ job'.c = job.c /\ job'.base.clientID = job.base.clientID
          /\ IdsStay \/ IdFound \/ IdCreated
      BY <1>2, <2>2, JobKeeps DEF AllInv
    <3>4. CASE IdsStay
      BY <3>1, <3>3, <3>4 DEF IdsStay
    <3>5. CASE IdFound
      BY <3>1, <3>2, <3>3, <3>5 DEF IdFound, NamedNext, Live
    <3>6. CASE IdCreated
      BY <3>1, <3>2, <3>3, <3>6 DEF IdCreated, NamedNext
    <3>7. QED
      BY <3>3, <3>4, <3>5, <3>6
  <2>3. QED
    BY <2>1, <2>2
<1>3. QED
  BY <1>1, <1>2 DEF NamesInv, NamedNext, Named, SeenClient

\* Every step preserves RecordsInv.
LEMMA RecordsStep ==
    ASSUME AllInv, Next
    PROVE  RecordsInv'
<1>1. SUFFICES ASSUME NEW c \in Clients, ~Held(obj'[c])
               PROVE  obj'[c].clientID = None
  BY DEF RecordsInv, Held
<1>2. ~Held(obj[c]) => obj[c].clientID = None
  BY DEF AllInv, CoreInv, OwnershipInv, RecordsInv
<1>3. CASE At("finish") /\ job.c = c /\ Unchanged(c)
  BY <1>1, <1>3 DEF At, AfterFinalizer, AllInv, CoreInv, FinalizerInv, JobInv, LiveHeld, Held,
     Unchanged
<1>4. CASE /\ At("errorStatus") /\ job.c = c /\ Current /\ Unchanged(c)
           /\ obj'[c].clientID = job.mem.clientID
  <2>1. job.mem.clientID # job.base.clientID => LiveHeld(job.base)
    BY <1>4 DEF At, AllInv, CoreInv, OwnershipInv, ActingInv
  <2>2. QED
    BY <1>1, <1>2, <1>4, <2>1 DEF Current, LiveHeld, Held, Unchanged
<1>5. QED
  BY <1>1, <1>2, <1>3, <1>4, RecordMoves DEF AllInv, RecordMove

\* What is live after a step that made nothing of it was live before.
LEMMA StillLive ==
    ASSUME AllInv, Next, NEW c \in Clients, NEW i \in Ids,
           Named(c, i), remote'[i].state = "live"
    PROVE  remote[i].state = "live"
  BY RemoteMoves, NoneAssumption DEF AllInv, CoreInv, RemoteMove, Named

\* A deleted client of PocketID never comes back.
LEMMA StillDeleted ==
    ASSUME AllInv, Next, NEW i \in Ids, remote[i].state = "deleted"
    PROVE  remote'[i].state = "deleted"
  BY RemoteMoves DEF AllInv, CoreInv, RemoteMove

\* Only a deletion takes a client away, and only the one its copy names.
LEMMA StaysLive ==
    ASSUME AllInv, Next, NEW i \in Ids, remote[i].state = "live",
           ~(At("deleteRemote") /\ job.base.clientID = i)
    PROVE  remote'[i].state = "live"
  BY RemoteMoves DEF AllInv, CoreInv, RemoteMove

\* Every step preserves DeletionsInv.
LEMMA DeletionsStep ==
    ASSUME AllInv, Next
    PROVE  DeletionsInv'
<1>0. TypeOK /\ NamesInv /\ DeletionsInv /\ JobInv
  BY DEF AllInv, CoreInv, OwnershipInv, FinalizerInv
<1>1. ASSUME NEW c \in Clients, SeenClient(c)'.state = "deleting",
             SeenClient(c)'.clientID # None,
             remote'[SeenClient(c)'.clientID].state = "live"
      PROVE  obj'[c].state = "deleting"
  <2>1. CASE SeenClient(c)' = obj'[c]
    BY <1>1, <2>1
  <2>2. CASE SeenClient(c)' = SeenClient(c)
    <3>1. /\ SeenClient(c).clientID \in Ids /\ Named(c, SeenClient(c).clientID)
      BY <1>0, <1>1, <2>2, IdTypes DEF NamesInv
    <3>2. remote[SeenClient(c).clientID].state = "live"
      BY <1>1, <2>2, <3>1, StillLive
    <3>3. obj[c].state = "deleting"
      BY <1>0, <1>1, <2>2, <3>2 DEF DeletionsInv
    <3>4. ~(At("removeFinalizer") /\ job.c = c /\ Current)
      <4>1. SUFFICES ASSUME At("removeFinalizer"), job.c = c, Current
                     PROVE  FALSE
        OBVIOUS
      <4>2. job.base.state = "deleting" /\ SeenClient(c) = job.base
        BY <1>0, <4>1 DEF At, JobInv, DeletionsInv
      <4>3. remote[job.base.clientID].state = "deleted"
        BY <1>0, <1>1, <2>2, <4>1, <4>2 DEF At, DeletionsInv
      <4>4. QED
        BY <3>2, <4>2, <4>3
    <3>5. QED
      BY <1>0, <3>3, <3>4, ObjMoves DEF ObjMove, Unchanged, LiveHeld
  <2>3. QED
    BY <1>0, <2>1, <2>2, SeenMoves
<1>2. ASSUME job'.pc # "idle", job'.base.state = "deleting"
      PROVE  /\ (job'.base.clientID # None
                   /\ remote'[job'.base.clientID].state = "live")
                     => obj'[job'.c].state = "deleting"
             /\ job'.base = obj'[job'.c] => SeenClient(job.c)' = job'.base
             /\ job'.pc = "deleteRemote" => job'.base.clientID # None
             /\ (job'.pc = "removeFinalizer" /\ job'.base.clientID # None)
                   => remote'[job'.base.clientID].state = "deleted"
  <2>1. CASE job.pc = "idle"
    <3>1. PICK c \in Clients : /\ job'.c = c /\ SeenClient(c)' = SeenClient(c)
                               /\ job'.base = SeenClient(c)
      BY <1>2, <2>1, JobStarts DEF AllInv
    <3>2. UNCHANGED <<obj, remote>> /\ IdStart
      BY <1>2, <2>1, JobStarts DEF AllInv
    <3>3. QED
      BY <1>0, <1>2, <3>1, <3>2 DEF DeletionsInv, IdStart
  <2>2. CASE job.pc # "idle"
    <3>1. /\ job.c \in Clients /\ job'.c = job.c /\ job'.base = job.base
          /\ IdsStay \/ IdFound \/ IdCreated
      BY <1>2, <2>2, JobKeeps DEF AllInv
    <3>2. /\ job.base.state = "deleting" /\ ~LiveHeld(obj[job.c])
          /\ job.base.clientID \in Ids \cup {None}
          /\ Named(job.c, job.base.clientID)
      BY <1>0, <1>2, <2>2, <3>1, IdTypes DEF JobInv, NamesInv
    <3>3. ASSUME job.base.clientID # None,
                 remote'[job.base.clientID].state = "live"
          PROVE  obj'[job.c].state = "deleting"
      <4>1. remote[job.base.clientID].state = "live"
        BY <3>1, <3>2, <3>3, StillLive
      <4>2. obj[job.c].state = "deleting"
        BY <1>0, <2>2, <3>2, <3>3, <4>1 DEF DeletionsInv
      <4>3. ObjMove(job.c)
        BY <1>0, <3>1, ObjMoves
      <4>4. QED
        BY <1>2, <4>2, <4>3 DEF ObjMove, Unchanged, LiveHeld
    <3>4. ASSUME job.base = obj'[job.c]
          PROVE  SeenClient(job.c)' = job.base
      <4>1. obj'[job.c] = obj[job.c]
        BY <1>2, <2>2, <3>2, <3>4, DeletionStays DEF AllInv
      <4>2. SeenClient(job.c) = job.base
        BY <1>0, <2>2, <3>2, <3>4, <4>1 DEF DeletionsInv, Current
      <4>3. SeenClient(job.c)' = SeenClient(job.c) \/ SeenClient(job.c)' = obj'[job.c]
        BY <1>0, <3>1, SeenMoves DEF SeenClient
      <4>4. QED
        BY <3>4, <4>2, <4>3
    <3>5. job'.pc = "deleteRemote" => job.base.clientID # None
      BY <1>0, <2>2, <3>1, <3>2 DEF IdsStay, IdFound, IdCreated, DeletionsInv
    <3>6. ASSUME job'.pc = "removeFinalizer", job.base.clientID # None
          PROVE  remote'[job.base.clientID].state = "deleted"
      <4>1. CASE job.pc = "removeFinalizer"
        BY <1>0, <2>2, <3>2, <3>6, <4>1, StillDeleted DEF DeletionsInv
      <4>2. QED
        BY <3>1, <3>6, <4>1 DEF IdsStay, IdFound, IdCreated
    <3>7. QED
      BY <3>1, <3>3, <3>4, <3>5, <3>6
  <2>3. QED
    BY <2>1, <2>2
<1>3. QED
  BY <1>1, <1>2 DEF DeletionsInv, Current, SeenClient

\* Every step preserves ActingInv.
LEMMA ActingStep ==
    ASSUME AllInv, Next
    PROVE  ActingInv'
<1>0. TypeOK /\ ActingInv /\ JobInv
  BY DEF AllInv, CoreInv, OwnershipInv, FinalizerInv
<1>1. SUFFICES ASSUME job'.pc # "idle"
               PROVE  /\ job'.pc \in Resolved => remote'[job'.id].state = "live"
                      /\ job'.mem.clientID # job'.base.clientID =>
                            /\ LiveHeld(job'.base) /\ job'.mem.clientID # None
                            /\ remote'[job'.mem.clientID].state = "live"
  BY DEF ActingInv, LiveHeld
<1>2. CASE job.pc = "idle"
  <2>1. IdStart /\ job'.base = job'.mem
    BY <1>1, <1>2, JobStarts DEF AllInv
  <2>2. QED
    BY <2>1 DEF IdStart
<1>3. CASE job.pc # "idle"
  <2>1. /\ job'.base.clientID = job.base.clientID
        /\ LiveHeld(job.base) => LiveHeld(job'.base)
        /\ IdsStay \/ IdFound \/ IdCreated
    BY <1>1, <1>3, JobKeeps DEF AllInv
  <2>2. At("deleteRemote") => ~LiveHeld(job.base)
    BY <1>0, <1>3 DEF JobInv, LiveHeld, At
  <2>3. ASSUME job.mem.clientID # job.base.clientID
        PROVE  /\ LiveHeld(job'.base) /\ job.mem.clientID # None
               /\ remote'[job.mem.clientID].state = "live"
    <3>1. /\ LiveHeld(job.base) /\ job.mem.clientID # None
          /\ remote[job.mem.clientID].state = "live"
      BY <1>0, <1>3, <2>3 DEF ActingInv
    <3>2. job.mem.clientID \in Ids
      BY <1>0, <1>3, <3>1, IdTypes
    <3>3. QED
      BY <2>1, <2>2, <3>1, <3>2, StaysLive
  <2>4. CASE IdsStay
    <3>1. job'.pc \in Resolved => remote'[job.id].state = "live"
      <4>1. SUFFICES ASSUME job'.pc \in Resolved
                     PROVE  remote'[job.id].state = "live"
        OBVIOUS
      <4>2. job.pc \in Resolved /\ job.id \in Ids /\ remote[job.id].state = "live"
        BY <1>0, <1>3, <2>4, <4>1, BusyJob DEF IdsStay, ActingInv
      <4>3. ~At("deleteRemote")
        BY <4>2 DEF At, Resolved
      <4>4. QED
        BY <4>2, <4>3, StaysLive
    <3>2. QED
      BY <2>1, <2>3, <2>4, <3>1 DEF IdsStay
  <2>5. CASE IdFound
    BY <2>1, <2>3, <2>5 DEF IdFound, Live
  <2>6. CASE IdCreated
    <3>1. LiveHeld(job.base)
      BY <1>0, <2>6 DEF IdCreated, At, JobInv, AfterFinalizer
    <3>2. QED
      BY <2>1, <2>6, <3>1, NoneAssumption DEF IdCreated
  <2>7. QED
    BY <2>1, <2>4, <2>5, <2>6
<1>4. QED
  BY <1>2, <1>3

\* Every step preserves RecordedLive, if no two resources share a name.
LEMMA RecordedStep ==
    ASSUME AllInv, NamesDisjoint, Next
    PROVE  RecordedLive'
<1>0. /\ TypeOK /\ NamesInv /\ RecordsInv /\ ActingInv /\ JobInv
      /\ \A c \in Clients : Fresh(c) => remote[obj[c].clientID].state = "live"
  BY DEF AllInv, CoreInv, OwnershipInv, FinalizerInv, RecordedLive
<1>1. SUFFICES ASSUME NEW c \in Clients, obj'[c].state = "live",
                      obj'[c].clientID # None
               PROVE  remote'[obj'[c].clientID].state = "live"
  BY DEF RecordedLive, Fresh
<1>2. ASSUME obj'[c].clientID = obj[c].clientID, Held(obj[c]), obj[c].state = "live"
      PROVE  remote'[obj'[c].clientID].state = "live"
  <2>1. /\ obj[c].clientID \in Ids /\ Named(c, obj[c].clientID)
        /\ remote[obj[c].clientID].state = "live"
    BY <1>0, <1>1, <1>2, IdTypes DEF NamesInv, Fresh
  <2>2. ~(At("deleteRemote") /\ job.base.clientID = obj[c].clientID)
    <3>1. SUFFICES ASSUME At("deleteRemote"), job.base.clientID = obj[c].clientID
                   PROVE  FALSE
      OBVIOUS
    <3>2. job.c \in Clients /\ Named(job.c, obj[c].clientID)
      BY <1>0, <3>1, IdTypes DEF At, NamesInv
    <3>3. job.c = c
      BY <2>1, <3>2, OneOwner
    <3>4. ~LiveHeld(obj[c])
      BY <1>0, <3>1, <3>3 DEF At, JobInv
    <3>5. QED
      BY <1>2, <3>4 DEF LiveHeld, Held
  <2>3. QED
    BY <1>2, <2>1, <2>2, StaysLive
<1>3. CASE obj'[c].clientID = obj[c].clientID /\ (Held(obj[c]) => Held(obj'[c]))
  <2>1. Held(obj[c])
    BY <1>0, <1>1, <1>3 DEF RecordsInv
  <2>2. obj[c].state = "live"
    BY <1>0, <1>1, <2>1, ObjMoves DEF ObjMove, Unchanged, Held
  <2>3. QED
    BY <1>2, <1>3, <2>1, <2>2
<1>4. CASE At("finish") /\ job.c = c /\ obj'[c].clientID = job.id
  <2>1. job.id \in Ids /\ remote[job.id].state = "live" /\ ~At("deleteRemote")
    BY <1>0, <1>4, BusyJob DEF At, Resolved, ActingInv
  <2>2. QED
    BY <1>4, <2>1, StaysLive
<1>5. CASE /\ At("errorStatus") /\ job.c = c /\ Current /\ Unchanged(c)
           /\ obj'[c].clientID = job.mem.clientID
  <2>1. job.mem.clientID \in Ids /\ ~At("deleteRemote")
    BY <1>0, <1>1, <1>5, IdTypes DEF At
  <2>2. remote[job.mem.clientID].state = "live"
    BY <1>0, <1>1, <1>5 DEF At, ActingInv, Current, Unchanged, Fresh
  <2>3. QED
    BY <1>5, <2>1, <2>2, StaysLive
<1>6. QED
  BY <1>1, <1>3, <1>4, <1>5, RecordMoves DEF AllInv, RecordMove, Held
-------------------------------------------------------------------------------
(* The theorems. *)

\* The invariant holds initially.
LEMMA OwnershipInit == Init => OwnershipInv
<1>1. SUFFICES ASSUME Init
               PROVE  OwnershipInv
  OBVIOUS
<1>2. /\ job.pc = "idle"
      /\ \A c \in Clients : obj[c] = NoCR(c) /\ SeenClient(c) = NoCR(c)
  BY <1>1 DEF Init, Idle, SeenClient
<1>3. NamesInv /\ RecordsInv
  BY <1>2, NoCRSpec DEF NamesInv, Named, RecordsInv
<1>4. DeletionsInv /\ ActingInv /\ RecordedLive
  BY <1>2, NoCRSpec, NoCRAbsent DEF DeletionsInv, ActingInv, RecordedLive, Fresh
<1>5. QED
  BY <1>3, <1>4 DEF OwnershipInv

\* The invariant is inductive.
LEMMA AllStep ==
    AllInv /\ (NamesDisjoint \/ NamesFixed) /\ [Next]_vars => AllInv'
<1>1. SUFFICES ASSUME AllInv, NamesDisjoint \/ NamesFixed, [Next]_vars
               PROVE  AllInv'
  OBVIOUS
<1>2. CoreInv'
  BY <1>1, CoreStep DEF AllInv
<1>3. CASE UNCHANGED vars
  BY <1>1, <1>2, <1>3 DEF vars, AllInv, OwnershipInv, NamesInv, Named,
     RecordsInv, DeletionsInv, ActingInv, RecordedLive, Fresh, SeenClient, Current,
     LiveHeld, Held
<1>4. CASE Next
  <2>1. RecordedLive'
    <3>1. CASE NamesDisjoint
      BY <1>1, <1>4, <3>1, RecordedStep
    <3>2. CASE ~NamesDisjoint
      BY <3>2 DEF RecordedLive
    <3>3. QED
      BY <3>1, <3>2
  <2>2. QED
    BY <1>1, <1>2, <1>4, <2>1, NamesStep, RecordsStep, DeletionsStep, ActingStep
    DEF AllInv, OwnershipInv
<1>5. QED
  BY <1>1, <1>3, <1>4

\* The invariant holds in every reachable state, if names are disjoint or fixed.
LEMMA Ownership == (NamesDisjoint \/ NamesFixed) => (Spec => []AllInv)
<1>1. Init => AllInv
  BY CoreInit, OwnershipInit DEF AllInv
<1>2. SUFFICES ASSUME NamesDisjoint \/ NamesFixed
               PROVE  Spec => []AllInv
  OBVIOUS
<1>3. AllInv /\ [Next]_vars => AllInv'
  BY <1>2, AllStep
<1>4. QED
  BY <1>1, <1>3, PTL DEF Spec

\* A resource in use never records a client that the controller has deleted, however
\* stale the copies it acts on: not its own, not another resource's, and not that
\* of an earlier resource of the same name.
THEOREM RecordedIsLive == Spec => []RecordedLive
<1>1. CASE NamesDisjoint
  <2>1. AllInv => RecordedLive
    BY DEF AllInv, CoreInv, OwnershipInv
  <2>2. QED
    BY <1>1, <2>1, Ownership, PTL
<1>2. CASE ~NamesDisjoint
  <2>1. TypeOK => RecordedLive
    BY <1>2 DEF RecordedLive
  <2>2. QED
    BY <2>1, TypeCorrect, PTL
<1>3. QED
  BY <1>1, <1>2
-------------------------------------------------------------------------------
(* The controller implements Lifecycle. *)

AbsPhase    == [c \in Clients |-> Phase(obj[c])]
\* The id a resource records.
AbsRecorded == [c \in Clients |-> obj[c].clientID]
AbsObject   == [i \in Ids |-> remote[i].state]

\* Initial states map to initial states.
LEMMA AbstractInit == Init => Abstract!Init
<1>1. SUFFICES ASSUME Init
               PROVE  Abstract!Init
  OBVIOUS
<1>2. AbsPhase = [c \in Clients |-> "absent"]
  BY <1>1, NoCRAbsent DEF Init, AbsPhase, Phase
<1>3. AbsRecorded = [c \in Clients |-> None]
  BY <1>1, NoCRSpec DEF Init, AbsRecorded
<1>4. AbsObject \in [Ids -> {"unused", "live"}]
  BY <1>1 DEF Init, AbsObject, InitialRemote
<1>5. QED
  BY <1>2, <1>3, <1>4 DEF Abstract!Init, AbsPhase, AbsRecorded, AbsObject

\* The three variables of Lifecycle.
AbsVars == <<AbsPhase, AbsRecorded, AbsObject>>

\* A step changes one resource at most, and one client at most.
LEMMA OneResource ==
    ASSUME NEW c \in Clients, \A d \in Clients \ {c} : obj'[d] = obj[d]
    PROVE  /\ AbsPhase' = [AbsPhase EXCEPT ![c] = Phase(obj'[c])]
           /\ AbsRecorded' = [AbsRecorded EXCEPT ![c] = obj'[c].clientID]
  BY DEF AbsPhase, AbsRecorded, Phase

\* What leaves state, finalizer and recorded ids alone is not seen.
LEMMA SameResources ==
    ASSUME \A d \in Clients : Unchanged(d) /\ obj'[d].clientID = obj[d].clientID
    PROVE  AbsPhase' = AbsPhase /\ AbsRecorded' = AbsRecorded
  BY DEF AbsPhase, AbsRecorded, Phase, Unchanged

\* A step that moves one client of PocketID.
LEMMA OneObject ==
    ASSUME NEW i \in Ids, \A j \in Ids \ {i} : remote'[j].state = remote[j].state
    PROVE  AbsObject' = [AbsObject EXCEPT ![i] = remote'[i].state]
  BY DEF AbsObject

\* A step that moves none.
LEMMA SameObjects ==
    ASSUME \A j \in Ids : remote'[j].state = remote[j].state
    PROVE  AbsObject' = AbsObject
  BY DEF AbsObject

\* The five ways the worker and users move a resource through its phases.
LEMMA AbsDeclare ==
    ASSUME NEW c \in Clients, \A d \in Clients \ {c} : obj'[d] = obj[d],
           remote' = remote,
           obj[c].state = "absent", obj[c].clientID = None,
           obj'[c].state = "live", ~obj'[c].finalizer, obj'[c].clientID = None
    PROVE  Abstract!Next
<1>1. AbsPhase[c] = "absent" /\ Phase(obj'[c]) = "declared"
  BY DEF AbsPhase, Phase
<1>2. AbsPhase' = [AbsPhase EXCEPT ![c] = "declared"] /\ AbsRecorded' = AbsRecorded
  BY <1>1, OneResource DEF AbsRecorded
<1>3. Abstract!Declare(c)
  BY <1>1, <1>2, SameObjects DEF Abstract!Declare, Abstract!Become, AbsPhase,
     AbsRecorded, AbsObject
<1>4. QED
  BY <1>3 DEF Abstract!Next

\* AddFinalizer.
LEMMA AbsManage ==
    ASSUME NEW c \in Clients, \A d \in Clients \ {c} : obj'[d] = obj[d],
           remote' = remote,
           obj[c].state = "live", ~obj[c].finalizer,
           obj'[c].state = "live", obj'[c].finalizer,
           obj'[c].clientID = obj[c].clientID
    PROVE  Abstract!Next
<1>1. AbsPhase[c] = "declared" /\ Phase(obj'[c]) = "managed"
  BY DEF AbsPhase, Phase
<1>2. AbsPhase' = [AbsPhase EXCEPT ![c] = "managed"] /\ AbsRecorded' = AbsRecorded
  BY <1>1, OneResource DEF AbsRecorded
<1>3. Abstract!Manage(c)
  BY <1>1, <1>2, SameObjects DEF Abstract!Manage, Abstract!Become, AbsPhase,
     AbsRecorded, AbsObject
<1>4. QED
  BY <1>3 DEF Abstract!Next

\* A delete request without finalizer.
LEMMA AbsWithdraw ==
    ASSUME NEW c \in Clients, \A d \in Clients \ {c} : obj'[d] = obj[d],
           remote' = remote,
           obj[c].state = "live", ~obj[c].finalizer, obj[c].clientID = None,
           obj'[c].state = "absent", obj'[c].clientID = None
    PROVE  Abstract!Next
<1>1. /\ AbsPhase[c] = "declared" /\ Phase(obj'[c]) = "absent"
      /\ AbsRecorded[c] = None
  BY DEF AbsPhase, AbsRecorded, Phase
<1>2. AbsPhase' = [AbsPhase EXCEPT ![c] = "absent"] /\ AbsRecorded' = AbsRecorded
  BY <1>1, OneResource, ZenonT(60) DEF AbsRecorded
<1>3. Abstract!Withdraw(c)
  BY <1>1, <1>2, SameObjects DEF Abstract!Withdraw, Abstract!Become, AbsPhase,
     AbsRecorded, AbsObject
<1>4. QED
  BY <1>3 DEF Abstract!Next

\* A delete request with the finalizer.
LEMMA AbsRequestDelete ==
    ASSUME NEW c \in Clients, \A d \in Clients \ {c} : obj'[d] = obj[d],
           remote' = remote,
           obj[c].state = "live", obj[c].finalizer, obj'[c].state = "deleting",
           obj'[c].clientID = obj[c].clientID
    PROVE  Abstract!Next
<1>1. AbsPhase[c] = "managed" /\ Phase(obj'[c]) = "deleting"
  BY DEF AbsPhase, Phase
<1>2. AbsPhase' = [AbsPhase EXCEPT ![c] = "deleting"] /\ AbsRecorded' = AbsRecorded
  BY <1>1, OneResource DEF AbsRecorded
<1>3. Abstract!RequestDelete(c)
  BY <1>1, <1>2, SameObjects DEF Abstract!RequestDelete, Abstract!Become, AbsPhase,
     AbsRecorded, AbsObject
<1>4. QED
  BY <1>3 DEF Abstract!Next

\* RemoveFinalizer.
LEMMA AbsRemove ==
    ASSUME NEW c \in Clients, \A d \in Clients \ {c} : obj'[d] = obj[d],
           remote' = remote, obj[c].state = "deleting",
           obj[c].clientID # None => /\ obj[c].clientID \in Ids
                                     /\ remote[obj[c].clientID].state = "deleted",
           obj'[c].state = "absent", obj'[c].clientID = None
    PROVE  Abstract!Next
<1>1. /\ AbsPhase[c] = "deleting" /\ Phase(obj'[c]) = "absent"
      /\ AbsRecorded[c] # None => AbsObject[AbsRecorded[c]] = "deleted"
  BY DEF AbsPhase, AbsRecorded, AbsObject, Phase
<1>2. /\ AbsPhase' = [AbsPhase EXCEPT ![c] = "absent"]
      /\ AbsRecorded' = [AbsRecorded EXCEPT ![c] = None]
  BY <1>1, OneResource
<1>3. Abstract!Remove(c)
  BY <1>1, <1>2, SameObjects DEF Abstract!Remove, AbsPhase, AbsRecorded, AbsObject
<1>4. QED
  BY <1>3 DEF Abstract!Next

\* A live resource with its finalizer is "managed".
LEMMA ManagedResources ==
    ASSUME TypeOK, NEW c \in Clients, Held(obj[c])
    PROVE  c \in Abstract!Managed
<1>1. obj[c] \in CR
  BY StateTypes
<1>2. Phase(obj[c]) \in {"managed", "deleting"}
  BY <1>1 DEF Held, Phase, CR
<1>3. QED
  BY <1>2 DEF Abstract!Managed

\* The status update of Finish and of WriteErrorStatus.
LEMMA AbsRecord ==
    ASSUME TypeOK, NEW c \in Clients, \A d \in Clients \ {c} : obj'[d] = obj[d],
           remote' = remote, NEW i \in Ids, remote[i].state = "live",
           Held(obj[c]), Unchanged(c), obj'[c].clientID = i
    PROVE  Abstract!Next
<1>1. AbsPhase' = AbsPhase
  <2>1. Phase(obj'[c]) = Phase(obj[c])
    BY DEF Unchanged, Phase
  <2>2. AbsPhase' = [AbsPhase EXCEPT ![c] = Phase(obj'[c])]
    BY OneResource
  <2>3. QED
    BY <2>1, <2>2 DEF AbsPhase
<1>2. AbsRecorded' = [AbsRecorded EXCEPT ![c] = i]
  BY OneResource
<1>3. Abstract!Record(c, i)
  BY <1>1, <1>2, SameObjects, ManagedResources DEF Abstract!Record, AbsPhase,
     AbsRecorded, AbsObject
<1>4. QED
  BY <1>3 DEF Abstract!Next

\* Create.
LEMMA AbsProvision ==
    ASSUME TypeOK, obj' = obj, NEW c \in Clients, Held(obj[c]), NEW i \in Ids,
           \A j \in Ids \ {i} : remote'[j].state = remote[j].state,
           remote[i].state = "unused", remote'[i].state = "live"
    PROVE  Abstract!Next
<1>1. AbsPhase' = AbsPhase /\ AbsRecorded' = AbsRecorded
  BY DEF AbsPhase, AbsRecorded, Phase
<1>2. AbsObject' = [AbsObject EXCEPT ![i] = "live"]
  BY OneObject
<1>3. Abstract!Provision(i)
  BY <1>1, <1>2, ManagedResources DEF Abstract!Provision, AbsPhase, AbsRecorded,
     AbsObject
<1>4. QED
  BY <1>3 DEF Abstract!Next

\* DeleteRemote.
LEMMA AbsDeprovision ==
    ASSUME TypeOK, obj' = obj, NEW c \in Clients, obj[c].state = "deleting",
           NEW i \in Ids,
           \A d \in Clients : LiveHeld(obj[d]) => obj[d].clientID # i,
           \A j \in Ids \ {i} : remote'[j].state = remote[j].state,
           remote[i].state = "live", remote'[i].state = "deleted"
    PROVE  Abstract!Next
<1>1. AbsPhase' = AbsPhase /\ AbsRecorded' = AbsRecorded
  BY DEF AbsPhase, AbsRecorded, Phase
<1>2. AbsObject' = [AbsObject EXCEPT ![i] = "deleted"]
  BY OneObject
<1>3. /\ \A d \in Clients : Phase(obj[d]) = "managed" => obj[d].clientID # i
      /\ Phase(obj[c]) = "deleting"
  <2>1. \A d \in Clients : obj[d].state \in {"absent", "live", "deleting"}
    BY StateTypes DEF CR
  <2>2. QED
    BY <2>1 DEF LiveHeld, Phase
<1>4. Abstract!Deprovision(i)
  BY <1>1, <1>2, <1>3 DEF Abstract!Deprovision, AbsPhase, AbsRecorded, AbsObject
<1>5. QED
  BY <1>4 DEF Abstract!Next

\* Every step of the controller is a step of the abstract one, or stutters.
LEMMA AbstractWorker ==
    ASSUME AllInv, NamesDisjoint, Worker
    PROVE  Abstract!Next \/ UNCHANGED AbsVars
<1>0. /\ TypeOK /\ NamesInv /\ RecordsInv /\ DeletionsInv /\ ActingInv /\ JobInv
      /\ obj \in [Clients -> CR] /\ remote \in [Ids -> Remote]
  BY StateTypes DEF AllInv, CoreInv, OwnershipInv, FinalizerInv
<1>1. /\ job \in Job /\ job.c \in Clients /\ job.base \in CR /\ job.mem \in CR
      /\ job.pc # "idle" /\ obj[job.c] \in CR
  BY <1>0, BusyJob DEF Worker, AddFinalizer, DeleteRemote, RemoveFinalizer,
     ResolveGroups, Resolve, Create, Update, EnsureSecret, Generate, StoreSecret,
     EnsurePolicy, Finish, WriteErrorStatus, At
<1>2. CASE obj' = obj /\ \A i \in Ids : remote'[i].state = remote[i].state
  BY <1>2, SameResources, SameObjects DEF Unchanged, AbsVars
<1>3. CASE AddFinalizer
  <2>1. CASE Current
    <3>1. /\ obj' = [obj EXCEPT ![job.c].finalizer = TRUE] /\ remote' = remote
          /\ obj[job.c].state = "live"
      BY <1>0, <1>1, <1>3, <2>1 DEF AddFinalizer, At, Current, JobInv
    <3>2. /\ \A d \in Clients \ {job.c} : obj'[d] = obj[d]
          /\ obj'[job.c].state = "live" /\ obj'[job.c].finalizer
          /\ obj'[job.c].clientID = obj[job.c].clientID
      BY <1>0, <1>1, <3>1 DEF CR
    <3>3. CASE obj[job.c].finalizer
      <4>1. Unchanged(job.c)
        BY <3>1, <3>2, <3>3, Zenon DEF Unchanged
      <4>2. \A d \in Clients : Unchanged(d) /\ obj'[d].clientID = obj[d].clientID
        BY <3>2, <4>1, Zenon DEF Unchanged
      <4>3. QED
        BY <3>1, <4>2, SameResources, SameObjects DEF AbsVars
    <3>4. CASE ~obj[job.c].finalizer
      BY <1>1, <3>1, <3>2, <3>4, AbsManage
    <3>5. QED
      BY <3>3, <3>4
  <2>2. QED
    BY <1>2, <1>3, <2>1 DEF AddFinalizer
<1>4. CASE DeleteRemote
  <2>1. /\ job.base.state = "deleting" /\ job.base.clientID \in Ids
        /\ Named(job.c, job.base.clientID) /\ ~LiveHeld(obj[job.c])
    BY <1>0, <1>1, <1>4, IdTypes DEF DeleteRemote, At, JobInv, DeletionsInv, NamesInv
  <2>2. /\ obj' = obj
        /\ remote' = [remote EXCEPT ![job.base.clientID].state = "deleted"]
    BY <1>4 DEF DeleteRemote, kube
  <2>3. /\ remote'[job.base.clientID].state = "deleted"
        /\ \A j \in Ids \ {job.base.clientID} : remote'[j].state = remote[j].state
    BY <1>0, <2>1, <2>2 DEF Remote
  <2>4. CASE remote[job.base.clientID].state = "deleted"
    BY <1>2, <2>2, <2>3, <2>4
  <2>5. CASE remote[job.base.clientID].state = "live"
    <3>1. obj[job.c].state = "deleting"
      BY <1>0, <1>1, <2>1, <2>5, NoneAssumption DEF DeletionsInv
    <3>2. \A d \in Clients : LiveHeld(obj[d]) => obj[d].clientID # job.base.clientID
      BY <1>0, <1>1, <2>1, OneOwner DEF NamesInv
    <3>3. QED
      BY <1>0, <1>1, <2>1, <2>2, <2>3, <2>5, <3>1, <3>2, AbsDeprovision
  <2>6. remote[job.base.clientID].state \in {"live", "deleted"}
    BY <1>0, <2>1, NoneAssumption DEF Named, Remote
  <2>7. QED
    BY <2>4, <2>5, <2>6
<1>5. CASE RemoveFinalizer
  <2>1. CASE Current
    <3>1. /\ Drop(job.c) /\ remote' = remote /\ obj[job.c] = job.base
          /\ obj[job.c].state = "deleting"
      BY <1>0, <1>1, <1>5, <2>1 DEF RemoveFinalizer, At, Current, JobInv
    <3>2. /\ \A d \in Clients \ {job.c} : obj'[d] = obj[d]
          /\ obj'[job.c].state = "absent" /\ obj'[job.c].clientID = None
      BY <1>0, <1>1, <3>1, NoCRAbsent, NoCRSpec DEF Drop
    <3>3. obj[job.c].clientID # None =>
             /\ obj[job.c].clientID \in Ids
             /\ remote[obj[job.c].clientID].state = "deleted"
      BY <1>0, <1>1, <1>5, <3>1, IdTypes DEF RemoveFinalizer, At, DeletionsInv
    <3>4. QED
      BY <1>1, <3>1, <3>2, <3>3, AbsRemove
  <2>2. QED
    BY <1>2, <1>5, <2>1 DEF RemoveFinalizer
<1>6. ASSUME NEW i \in Ids, Create(i)
      PROVE  Abstract!Next \/ UNCHANGED AbsVars
  <2>1. /\ obj' = obj /\ remote[i].state = "unused" /\ remote'[i].state = "live"
        /\ \A j \in Ids \ {i} : remote'[j].state = remote[j].state
    BY <1>0, <1>6 DEF Create, kube
  <2>2. Held(obj[job.c])
    BY <1>0, <1>1, <1>6 DEF Create, At, JobInv, AfterFinalizer
  <2>3. QED
    BY <1>0, <1>1, <2>1, <2>2, AbsProvision
<1>7. CASE Update
  <2>1. CASE remote' = [remote EXCEPT ![job.id] =
                          [remote[job.id] EXCEPT !.name = job.mem.spec.name,
                                                 !.conf = job.mem.spec.conf,
                                                 !.groups = job.groups]]
    <3>1. job.id \in Ids /\ remote[job.id] \in Remote
      BY <1>0, <1>7, BusyJob DEF Update, At, Resolved
    <3>2. \A i \in Ids : remote'[i].state = remote[i].state
      BY <1>0, <2>1, <3>1 DEF Remote
    <3>3. QED
      BY <1>2, <1>7, <3>2 DEF Update, kube
  <2>2. QED
    BY <1>2, <1>7, <2>1 DEF Update, kube
<1>8. CASE Generate
  <2>1. PICK k \in Keys : remote' = [remote EXCEPT ![job.id].key = k]
    BY <1>8 DEF Generate
  <2>2. \A i \in Ids : remote'[i].state = remote[i].state
    BY <1>0, <2>1 DEF Remote
  <2>3. QED
    BY <1>2, <1>8, <2>2 DEF Generate, kube
<1>9. CASE Finish
  <2>1. CASE obj' # obj
    <3>1. obj' = [obj EXCEPT ![job.c] =
                    [obj[job.c] EXCEPT !.clientID = job.id,
                                       !.credName = job.mem.credName,
                                       !.policyName = job.mem.policyName,
                                       !.ready = TRUE, !.observed = TRUE]]
      BY <1>9, <2>1 DEF Finish
    <3>2. /\ \A d \in Clients \ {job.c} : obj'[d] = obj[d]
          /\ Unchanged(job.c) /\ obj'[job.c].clientID = job.id
      BY <1>0, <1>1, <3>1 DEF CR, Unchanged
    <3>3. /\ remote' = remote /\ job.id \in Ids
          /\ remote[job.id].state = "live" /\ Held(obj[job.c])
      BY <1>0, <1>1, <1>9, BusyJob DEF Finish, At, Resolved, AfterFinalizer,
         ActingInv, JobInv
    <3>4. QED
      BY <1>0, <1>1, <3>2, <3>3, AbsRecord
  <2>2. QED
    BY <1>2, <1>9, <2>1 DEF Finish
<1>10. CASE WriteErrorStatus
  <2>1. CASE Current
    <3>1. obj' = [obj EXCEPT ![job.c] =
                    [job.mem EXCEPT !.ready = FALSE, !.observed = TRUE]]
      BY <1>10, <2>1 DEF WriteErrorStatus
    <3>2. /\ \A d \in Clients \ {job.c} : obj'[d] = obj[d]
          /\ Unchanged(job.c) /\ obj'[job.c].clientID = job.mem.clientID
          /\ obj[job.c] = job.base /\ remote' = remote
      BY <1>0, <1>1, <1>10, <2>1, <3>1 DEF WriteErrorStatus, CR, Unchanged, Current,
         JobInv
    <3>3. CASE job.mem.clientID = job.base.clientID
      BY <3>2, <3>3, SameResources, SameObjects DEF Unchanged, AbsVars
    <3>4. CASE job.mem.clientID # job.base.clientID
      <4>1. /\ job.mem.clientID \in Ids /\ remote[job.mem.clientID].state = "live"
            /\ Held(obj[job.c])
        BY <1>0, <1>1, <3>2, <3>4, IdTypes DEF ActingInv, LiveHeld, Held
      <4>2. QED
        BY <1>0, <1>1, <3>2, <4>1, AbsRecord
    <3>5. QED
      BY <3>3, <3>4
  <2>2. QED
    BY <1>2, <1>10, <2>1 DEF WriteErrorStatus
<1>11. QED
  BY <1>2, <1>3, <1>4, <1>5, <1>6, <1>7, <1>8, <1>9, <1>10 DEF Worker,
     ResolveGroups, Resolve, EnsureSecret, StoreSecret, EnsurePolicy, kube

\* Every step of the model is a step of Lifecycle, or stutters.
LEMMA AbstractStep ==
    ASSUME AllInv, NamesDisjoint, Next
    PROVE  Abstract!Next \/ UNCHANGED AbsVars
<1>0. TypeOK /\ RecordsInv /\ obj \in [Clients -> CR]
  BY StateTypes DEF AllInv, CoreInv, OwnershipInv
<1>1. CASE obj' = obj /\ remote' = remote
  BY <1>1, SameResources, SameObjects DEF Unchanged, AbsVars
<1>2. ASSUME NEW c \in Clients, NEW s \in Specs[c], CreateCR(c, s)
      PROVE  Abstract!Next
  <2>1. /\ obj[c].state = "absent" /\ obj' = [obj EXCEPT ![c] = NewCR(s)]
        /\ remote' = remote
    BY <1>2 DEF CreateCR
  <2>2. obj[c].clientID = None
    BY <1>0, <2>1 DEF RecordsInv, Held
  <2>3. /\ obj'[c].state = "live" /\ ~obj'[c].finalizer /\ obj'[c].clientID = None
        /\ \A d \in Clients \ {c} : obj'[d] = obj[d]
    BY <1>0, <2>1 DEF NewCR
  <2>4. QED
    BY <2>1, <2>2, <2>3, AbsDeclare
<1>3. ASSUME NEW c \in Clients, NEW s \in Specs[c], EditSpec(c, s)
      PROVE  UNCHANGED AbsVars
  <2>1. /\ obj' = [obj EXCEPT ![c] = [obj[c] EXCEPT !.spec = s, !.observed = FALSE]]
        /\ remote' = remote
    BY <1>3 DEF EditSpec
  <2>2. \A d \in Clients : Unchanged(d) /\ obj'[d].clientID = obj[d].clientID
    BY <1>0, <2>1 DEF Unchanged, CR
  <2>3. QED
    BY <2>1, <2>2, SameResources, SameObjects DEF AbsVars
<1>4. ASSUME NEW c \in Clients, RequestDelete(c)
      PROVE  Abstract!Next
  <2>1. obj[c].state = "live" /\ remote' = remote
    BY <1>4 DEF RequestDelete
  <2>2. CASE obj[c].finalizer
    <3>1. obj' = [obj EXCEPT ![c].state = "deleting"]
      BY <1>4, <2>2 DEF RequestDelete
    <3>2. /\ obj'[c].state = "deleting" /\ obj'[c].clientID = obj[c].clientID
          /\ \A d \in Clients \ {c} : obj'[d] = obj[d]
      BY <1>0, <3>1 DEF CR
    <3>3. QED
      BY <2>1, <2>2, <3>2, AbsRequestDelete
  <2>3. CASE ~obj[c].finalizer
    <3>1. Drop(c)
      BY <1>4, <2>3 DEF RequestDelete
    <3>2. /\ obj'[c].state = "absent" /\ obj'[c].clientID = None
          /\ \A d \in Clients \ {c} : obj'[d] = obj[d]
      BY <1>0, <3>1, NoCRAbsent, NoCRSpec DEF Drop
    <3>3. obj[c].clientID = None
      BY <1>0, <2>3 DEF RecordsInv, Held
    <3>4. QED
      BY <2>1, <2>3, <3>2, <3>3, AbsWithdraw
  <2>4. QED
    BY <2>2, <2>3
<1>5. QED
  BY <1>1, <1>2, <1>3, <1>4, AbstractWorker DEF Next, Environment, Begin, Cluster,
     CacheSync, SecretSync, CollectSecret, CollectPolicy, CallFails, Crash,
     DeleteSecret, ChangeGroup, FlipInstance, FlipRoute, kube

\* Seen from users and from PocketID the controller, with its caches, lost answers
\* and crashes, behaves like Lifecycle, if no two resources share a name: a client
\* is deleted only while its resource is, and a resource disappears only when the
\* client it recorded is gone.
THEOREM LifecycleImplemented == NamesDisjoint => (Spec => Implements)
<1>1. SUFFICES ASSUME NamesDisjoint
               PROVE  Spec => Implements
  OBVIOUS
<1>2. AllInv /\ [Next]_vars => [Abstract!Next]_(Abstract!vars)
  <2>1. SUFFICES ASSUME AllInv, [Next]_vars
                 PROVE  Abstract!Next \/ UNCHANGED Abstract!vars
    OBVIOUS
  <2>2. CASE UNCHANGED vars
    BY <2>2 DEF vars, Abstract!vars, Phase
  <2>3. CASE Next
    BY <1>1, <2>1, <2>3, AbstractStep DEF AbsVars, AbsPhase, AbsRecorded, AbsObject,
       Abstract!vars
  <2>4. QED
    BY <2>1, <2>2, <2>3
<1>3. Spec => []AllInv
  BY <1>1, Ownership
<1>4. QED
  BY <1>2, <1>3, AbstractInit, PTL DEF Spec, Implements, Abstract!Spec
===============================================================================
