----------------------------- MODULE UserOwnership -----------------------------
(***************************************************************************)
(* Every user of PocketID that the PocketIDUser controller makes or adopts *)
(* belongs to one resource, if no two resources are given the same         *)
(* spec.username: the controller implements Lifecycle, for every such      *)
(* instance.  Retries make no second user of a name, and a stored link     *)
(* logs in the recorded user, while usernames do not change.               *)
(***************************************************************************)
EXTENDS UserSafety, FiniteSetTheorems
-------------------------------------------------------------------------------
(* The invariant. *)

\* Specs are those users gave to the resource, in every copy.
SpecsInv ==
    /\ \A u \in Users :
         obj[u].spec \in Specs[u] /\ cache[u].spec \in Specs[u]
    /\ job.pc # "idle" => job.base.spec \in Specs[job.c]

\* An id that u knows of was given by PocketID to a user of one of u's names.
Named(u, i) ==
    i # None => remote[i].state # "unused" /\ remote[i].name \in NamesOf(u)

\* Every id that a resource, a copy of it or its job holds is Named.
NamesInv ==
    /\ \A u \in Users :
         Named(u, obj[u].userID) /\ Named(u, cache[u].userID)
    /\ job.pc # "idle" =>
         /\ Named(job.c, job.base.userID) /\ Named(job.c, job.mem.userID)
         /\ Named(job.c, job.id)

\* Without finalizer nothing is recorded.
RecordsInv == \A u \in Users : ~Held(obj[u]) => obj[u].userID = None

\* A copy of a deletion that is over names a user that is gone.
DeletionsInv ==
    /\ \A u \in Users :
         LET o == cache[u] IN
         (o.state = "deleting" /\ o.userID # None
            /\ remote[o.userID].state = "live") => obj[u].state = "deleting"
    /\ (job.pc # "idle" /\ job.base.state = "deleting") =>
         /\ (job.base.userID # None /\ remote[job.base.userID].state = "live")
               => obj[job.c].state = "deleting"
         /\ Current => cache[job.c] = job.base
         /\ job.pc = "deleteRemote" => job.base.userID # None
         /\ (job.pc = "removeFinalizer" /\ job.base.userID # None)
               => remote[job.base.userID].state = "deleted"

\* The user the worker acts on exists, and so does one that it is about to
\* record for the first time.
ActingInv ==
    job.pc # "idle" =>
        /\ job.pc \in Resolved => remote[job.id].state = "live"
        /\ job.mem.userID # job.base.userID =>
              /\ LiveHeld(job.base) /\ job.mem.userID # None
              /\ remote[job.mem.userID].state = "live"

\* A live resource never records a user that was deleted, if no two resources share
\* a name.
RecordedLive ==
    NamesDisjoint =>
        \A u \in Users : Fresh(u) => obj[u].userID \in Live

\* The parts of the invariant, with the one they are for.
OwnershipInv == /\ SpecsInv /\ NamesInv /\ RecordsInv /\ DeletionsInv
                /\ ActingInv /\ RecordedLive

\* All that the inductive step may assume.
AllInv == TypeOK /\ FinalizerInv /\ OwnershipInv
-------------------------------------------------------------------------------
(* What a step can do to the ids that resources, copies and the job hold. *)

\* What a step makes of the user with id i.
RemoteMove(i) ==
    \/ remote'[i].state = remote[i].state /\ remote'[i].name = remote[i].name
    \/ /\ At("create") /\ remote[i].state = "unused"
       /\ remote'[i].state = "live" /\ remote'[i].name = job.mem.spec.name
    \/ /\ At("update") /\ job.id = i
       /\ remote'[i].state = remote[i].state
       /\ remote'[i].name = job.mem.spec.name
    \/ /\ At("deleteRemote") /\ job.base.userID = i
       /\ remote'[i].state = "deleted" /\ remote'[i].name = remote[i].name

\* Every step moves every user of PocketID in those ways.
LEMMA RemoteMoves ==
    ASSUME TypeOK, Next, NEW i \in Ids
    PROVE  RemoteMove(i)
<1>1. remote \in [Ids -> Remote] /\ remote[i] \in Remote
  BY StateTypes
<1>2. CASE DeleteRemote
  BY <1>1, <1>2 DEF DeleteRemote, RemoteMove, Remote
<1>3. ASSUME NEW j \in Ids, Create(j)
      PROVE  RemoteMove(i)
  BY <1>1, <1>3 DEF Create, RemoteMove
<1>4. CASE remote' = remote
  BY <1>4 DEF RemoteMove
<1>5. CASE Update
  <2>1. CASE remote' = [remote EXCEPT ![job.id] =
                          [remote[job.id] EXCEPT !.name = job.mem.spec.name,
                                                 !.profile = job.mem.spec.profile]]
    <3>1. CASE job.id = i
      BY <1>1, <1>5, <2>1, <3>1 DEF Update, RemoteMove, Remote
    <3>2. CASE job.id # i
      BY <1>1, <2>1, <3>2 DEF RemoteMove
    <3>3. QED
      BY <3>1, <3>2
  <2>2. QED
    BY <1>4, <1>5, <2>1 DEF Update
<1>6. CASE SetGroups
  BY <1>1, <1>6 DEF SetGroups, RemoteMove, Remote
<1>7. ASSUME NEW p \in GroupIds, DeleteGroup(p)
      PROVE  RemoteMove(i)
  BY <1>1, <1>7 DEF DeleteGroup, RemoteMove, Remote
<1>8. QED
  BY <1>2, <1>3, <1>4, <1>5, <1>6, <1>7 DEF Next, Worker, Environment, Begin, Cluster,
     CacheSync, CollectSecret, CallFails, Crash, AddFinalizer, RemoveFinalizer, Resolve,
     SyncGroups, CreateToken, StoreLink, Finish, WriteErrorStatus, CreateCR, EditSpec,
     RequestDelete, DeleteSecret, FlipInstance, Groupwork, MakeGroup, ShowGroup

\* How the id and the mark of the link that a resource records change.
RecordMove(u) ==
    /\ obj'[u].spec \in Specs[u]
    /\ \/ /\ obj'[u].userID = obj[u].userID /\ obj'[u].link = obj[u].link
          /\ Held(obj[u]) => Held(obj'[u])
       \/ obj'[u].userID = None /\ ~obj'[u].link /\ ~Held(obj'[u])
       \/ /\ At("finish") /\ job.c = u /\ job'.pc = "idle" /\ secret' = secret
          /\ obj'[u].userID = job.id /\ Unchanged(u)
          /\ obj'[u].link = (obj[u].link \/ job.link)
       \/ /\ At("errorStatus") /\ job.c = u /\ job'.pc = "idle" /\ Current
          /\ obj'[u].userID = job.mem.userID /\ Unchanged(u) /\ secret' = secret
          /\ obj'[u].link = job.mem.link

\* Every step moves every recorded id in those ways.
LEMMA RecordMoves ==
    ASSUME AllInv, Next, NEW u \in Users
    PROVE  RecordMove(u)
<1>1. /\ TypeOK /\ obj \in [Users -> CR] /\ obj[u] \in CR
      /\ obj[u].spec \in Specs[u]
  BY StateTypes DEF AllInv, OwnershipInv, SpecsInv
<1>2. CASE obj' = obj
  BY <1>1, <1>2 DEF RecordMove
<1>3. CASE AddFinalizer
  <2>1. CASE obj' = [obj EXCEPT ![job.c].finalizer = TRUE]
    BY <1>1, <2>1 DEF RecordMove, CR, Held
  <2>2. QED
    BY <1>2, <1>3, <2>1 DEF AddFinalizer
<1>4. CASE RemoveFinalizer
  <2>1. job.c \in Users
    BY <1>1, <1>4, BusyJob DEF RemoveFinalizer, At
  <2>2. CASE obj' = [obj EXCEPT ![job.c] = NoCR(job.c)]
    BY <1>1, <2>1, <2>2, NoCRFields DEF RecordMove, Held
  <2>3. QED
    BY <1>2, <1>4, <2>2 DEF RemoveFinalizer, Drop
<1>5. CASE Finish
  <2>1. CASE obj' # obj
    <3>1. obj' = [obj EXCEPT ![job.c] =
                    [obj[job.c] EXCEPT !.userID = job.id,
                                       !.link = obj[job.c].link \/ job.link,
                                       !.ready = TRUE, !.observed = TRUE]]
      BY <1>5, <2>1 DEF Finish
    <3>2. /\ At("finish") /\ job.c \in Users /\ job'.pc = "idle"
          /\ secret' = secret
      BY <1>1, <1>5, BusyJob DEF Finish, At, Done, Idle
    <3>3. CASE job.c = u
      BY <1>1, <3>1, <3>2, <3>3 DEF RecordMove, CR, Unchanged
    <3>4. CASE job.c # u
      BY <1>1, <3>1, <3>4 DEF RecordMove
    <3>5. QED
      BY <3>3, <3>4
  <2>2. QED
    BY <1>2, <2>1
<1>6. CASE WriteErrorStatus
  <2>1. /\ At("errorStatus") /\ job.c \in Users /\ job'.pc = "idle"
        /\ secret' = secret /\ job.mem \in CR /\ job.mem.spec = job.base.spec
        /\ job.mem.state = job.base.state
        /\ job.mem.finalizer = job.base.finalizer
        /\ job.base.spec \in Specs[job.c]
    BY <1>1, <1>6, BusyJob DEF WriteErrorStatus, At, Done, Idle, AllInv,
       FinalizerInv, JobInv, OwnershipInv, SpecsInv
  <2>2. CASE Current
    <3>1. obj' = [obj EXCEPT ![job.c] =
                    [job.mem EXCEPT !.ready = FALSE, !.observed = TRUE]]
      BY <1>6, <2>2 DEF WriteErrorStatus
    <3>2. CASE job.c = u
      BY <1>1, <2>1, <2>2, <3>1, <3>2 DEF RecordMove, CR, Current, Unchanged
    <3>3. CASE job.c # u
      BY <1>1, <3>1, <3>3 DEF RecordMove
    <3>4. QED
      BY <3>2, <3>3
  <2>3. QED
    BY <1>2, <1>6, <2>2 DEF WriteErrorStatus
<1>7. ASSUME NEW d \in Users, NEW s \in Specs[d], CreateCR(d, s)
      PROVE  RecordMove(u)
  BY <1>1, <1>7 DEF CreateCR, NewCR, RecordMove, Held
<1>8. ASSUME NEW d \in Users, NEW s \in Specs[d], EditSpec(d, s)
      PROVE  RecordMove(u)
  BY <1>1, <1>8 DEF EditSpec, RecordMove, Held, CR
<1>9. ASSUME NEW d \in Users, RequestDelete(d)
      PROVE  RecordMove(u)
  <2>1. CASE obj' = [obj EXCEPT ![d] = NoCR(d)]
    BY <1>1, <2>1, NoCRFields DEF RecordMove, Held
  <2>2. CASE obj' = [obj EXCEPT ![d].state = "deleting"]
    BY <1>1, <2>2 DEF RecordMove, Held, CR
  <2>3. QED
    BY <1>9, <2>1, <2>2 DEF RequestDelete, Drop
<1>10. QED
  BY <1>2, <1>3, <1>4, <1>5, <1>6, <1>7, <1>8, <1>9 DEF Next, Worker, Environment,
     Begin, Cluster, CacheSync, CollectSecret, CallFails, Crash, DeleteRemote, Resolve,
     Create, Update, SyncGroups, SetGroups, CreateToken, StoreLink, FlipInstance,
     DeleteSecret, Groupwork, MakeGroup, DeleteGroup, ShowGroup, kube

\* How the ids the job holds change while it goes on.
IdsStay ==
    /\ job'.id = job.id /\ job'.mem.userID = job.mem.userID
    /\ job'.pc \in Resolved => job.pc \in Resolved
    /\ job'.pc = "deleteRemote" => job.pc = "deleteRemote"
    /\ job'.pc = "removeFinalizer" =>
          \/ job.pc = "removeFinalizer"
          \/ /\ At("deleteRemote")
             /\ job.base.userID # None
                   => remote'[job.base.userID].state = "deleted"

\* Resolve found the id: recorded or looked up.
IdFound ==
    /\ At("resolve") /\ job'.pc \in {"update", "groups"} /\ remote' = remote
    /\ job'.mem.userID = job.mem.userID
    /\ job'.id \in Live
    /\ \/ job'.id = job.mem.userID
       \/ remote[job'.id].name = job.mem.spec.name

\* Create got the id from PocketID.
IdCreated ==
    /\ At("create") /\ job'.pc = "groups"
    /\ \E i \in Ids : /\ remote'[i].state = "live"
                      /\ remote'[i].name = job.mem.spec.name
                      /\ job'.id = i /\ job'.mem.userID = i

\* Begin knows no more than the copy in the cache.
IdStart ==
    /\ job.pc = "idle" /\ remote' = remote
    /\ job'.id = None
    /\ job'.pc \notin Resolved
    /\ job'.pc = "deleteRemote" => job'.base.userID # None
    /\ job'.pc = "removeFinalizer" => job'.base.userID = None

\* How the ids that the job holds change.
IdsMove == \/ job'.pc = "idle"
           \/ IdStart
           \/ job.pc # "idle" /\ (IdsStay \/ IdFound \/ IdCreated)

\* Going to another call keeps the ids.
LEMMA IdsOnGoto ==
    ASSUME TypeOK, job.pc # "idle", NEW pc \in Busy, Goto(pc),
           pc \notin {"deleteRemote", "removeFinalizer"},
           pc \in Resolved => job.pc \in Resolved
    PROVE  IdsMove
  BY BusyJob DEF Goto, IdsMove, IdsStay, Job

\* Every step of the worker moves the ids of the job in those ways.
LEMMA IdsMovesWorker ==
    ASSUME TypeOK, Worker
    PROVE  IdsMove
<1>1. /\ job \in Job /\ job.mem \in CR /\ job.base \in CR /\ job.pc # "idle"
  BY WorkerBusy, BusyJob
<1>2. CASE Done
  BY <1>2 DEF Done, Idle, IdsMove
<1>3. ASSUME Goto("errorStatus")
      PROVE  IdsMove
  BY <1>1, <1>3, IdsOnGoto DEF Busy, Resolved
<1>4. ASSUME NEW pc \in Resolved, Goto(pc), job.pc \in Resolved
      PROVE  IdsMove
  BY <1>1, <1>4, IdsOnGoto DEF Busy, AfterFinalizer, Resolved
<1>5. CASE AddFinalizer
  <2>1. CASE job' = [job EXCEPT !.pc = "resolve", !.base.finalizer = TRUE,
                                !.mem.finalizer = TRUE]
    BY <1>1, <2>1 DEF IdsMove, IdsStay, Job, CR, Resolved
  <2>2. QED
    BY <1>2, <1>5, <2>1 DEF AddFinalizer
<1>6. CASE DeleteRemote
  <2>1. CASE Goto("removeFinalizer")
    <3>1. job.base.userID # None
             => remote'[job.base.userID].state = "deleted"
      BY <1>1, <1>6, StateTypes DEF DeleteRemote, CR, Remote
    <3>2. QED
      BY <1>1, <1>6, <2>1, <3>1 DEF DeleteRemote, Goto, IdsMove, IdsStay, Job,
         Resolved
  <2>2. QED
    BY <1>3, <1>6, <2>1 DEF DeleteRemote
<1>7. CASE RemoveFinalizer \/ Finish \/ WriteErrorStatus
  BY <1>2, <1>7 DEF RemoveFinalizer, Finish, WriteErrorStatus
<1>8. CASE Resolve
  <2>1. At("resolve") /\ remote' = remote
    BY <1>8 DEF Resolve
  <2>2. ASSUME NEW i \in Live, NEW pc \in {"update", "groups"},
               job' = [job EXCEPT !.pc = pc, !.id = i, !.has = remote[i].groups],
               i = job.mem.userID \/ remote[i].name = job.mem.spec.name
        PROVE  IdsMove
    BY <1>1, <2>1, <2>2 DEF IdsMove, IdFound, Job
  <2>3. CASE Goto("create")
    BY <1>1, <2>3, IdsOnGoto DEF Busy, AfterFinalizer, Resolved
  <2>4. CASE job.mem.userID # None
    BY <1>3, <1>8, <2>2, <2>4 DEF Resolve
  <2>5. CASE job.mem.userID = None
    <3>1. PICK page \in Pages :
            LET named == {i \in page : remote[i].name = job.mem.spec.name} IN
            \/ \E i \in named : job' = [job EXCEPT !.pc = "update", !.id = i,
                                                   !.has = remote[i].groups]
            \/ named = {} /\ Goto("create")
      BY <1>8, <2>5 DEF Resolve
    <3>2. page \subseteq Live
      BY DEF Pages
    <3>3. QED
      BY <2>2, <2>3, <3>1, <3>2
  <2>6. QED
    BY <2>4, <2>5
<1>9. ASSUME NEW i \in Ids, Create(i)
       PROVE  IdsMove
  <2>1. CASE job' = [job EXCEPT !.pc = "groups", !.id = i, !.mem.userID = i]
    <3>1. /\ job'.pc = "groups" /\ job'.id = i /\ job'.mem.userID = i
      BY <1>1, <2>1 DEF Job, CR
    <3>2. /\ remote'[i].state = "live" /\ remote'[i].name = job.mem.spec.name
      BY <1>9, StateTypes DEF Create
    <3>3. At("create")
      BY <1>9 DEF Create
    <3>4. QED
      BY <1>1, <3>1, <3>2, <3>3 DEF IdsMove, IdCreated
  <2>2. QED
    BY <1>3, <1>9, <2>1 DEF Create
<1>10. CASE Update
  <2>1. CASE job' = [job EXCEPT !.pc = "groups", !.has = remote[job.id].groups]
    BY <1>1, <1>10, <2>1 DEF Update, At, IdsMove, IdsStay, Job, Resolved
  <2>2. QED
    BY <1>3, <1>4, <1>10, <2>1 DEF Update, At, Resolved
<1>11. CASE SyncGroups
  <2>1. PICK want \in SUBSET GroupIds, pc \in {"token", "setGroups"} :
          job' = [job EXCEPT !.pc = pc, !.has = {}, !.want = want]
    BY <1>1, <1>11, WantType DEF SyncGroups
  <2>2. QED
    BY <1>1, <1>11, <2>1 DEF SyncGroups, At, IdsMove, IdsStay, Job, Resolved
<1>12. CASE SetGroups
  BY <1>3, <1>4, <1>12 DEF SetGroups, At, Resolved
<1>13. CASE CreateToken \/ StoreLink
  <2>1. /\ job'.pc \in {"storeLink", "finish"}
        /\ job'.id = job.id /\ job'.mem = job.mem
    BY <1>1, <1>13 DEF CreateToken, StoreLink, Job
  <2>2. job.pc \in {"token", "storeLink"}
    BY <1>13 DEF CreateToken, StoreLink, At
  <2>3. QED
    BY <2>1, <2>2 DEF IdsMove, IdsStay, Resolved
<1>14. QED
  BY <1>5, <1>6, <1>7, <1>8, <1>9, <1>10, <1>11, <1>12, <1>13 DEF Worker

\* Every step moves them so.
LEMMA IdsMoves ==
    ASSUME TypeOK, Next
    PROVE  IdsMove
<1>1. ASSUME NEW u \in Users, Begin(u)
      PROVE  IdsMove
  <2>1. job.pc = "idle" /\ remote' = remote
    BY <1>1 DEF Begin, Idle
  <2>2. \E pc \in {"errorStatus", "deleteRemote", "removeFinalizer",
                   "addFinalizer", "resolve"} :
          /\ Start(u, pc)
          /\ pc = "deleteRemote" => cache[u].userID # None
          /\ pc = "removeFinalizer" => cache[u].userID = None
    BY <1>1 DEF Begin
  <2>3. QED
    BY <2>1, <2>2 DEF Start, IdsMove, IdStart, Resolved
<1>2. CASE CallFails
  <2>1. CASE Done
    BY <2>1 DEF Done, Idle, IdsMove
  <2>2. CASE Goto("errorStatus") /\ job.pc # "idle"
    BY <2>2, IdsOnGoto DEF Busy, Resolved
  <2>3. CASE Goto("finish") /\ job.pc \in {"token", "storeLink"}
    BY <2>3, IdsOnGoto DEF Busy, AfterFinalizer, Resolved
  <2>4. QED
    BY <1>2, <2>1, <2>2, <2>3 DEF CallFails, At
<1>3. CASE Crash
  BY <1>3 DEF Crash, Done, Idle, IdsMove
<1>4. CASE job' = job
  BY <1>4 DEF IdsMove, IdsStay
<1>5. QED
  BY <1>1, <1>2, <1>3, <1>4, IdsMovesWorker DEF Next, Environment, Cluster, CacheSync,
     CollectSecret, CreateCR, EditSpec, RequestDelete, FlipInstance, DeleteSecret,
     Groupwork, MakeGroup, DeleteGroup, ShowGroup

\* A job that goes on keeps its resource and the copy it started from, but for
\* the finalizer.
LEMMA JobKeeps ==
    ASSUME AllInv, Next, job.pc # "idle", job'.pc # "idle"
    PROVE  /\ job.c \in Users /\ job'.c = job.c
           /\ job'.base.userID = job.base.userID
           /\ job'.base.spec = job.base.spec /\ job'.base.state = job.base.state
           /\ job'.mem.spec = job.mem.spec
           /\ LiveHeld(job.base) => LiveHeld(job'.base)
           /\ job'.base = job.base \/ job.base.state = "live"
           /\ IdsStay \/ IdFound \/ IdCreated
<1>1. TypeOK /\ job \in Job /\ job.c \in Users /\ job.base \in CR /\ job.mem \in CR
  BY BusyJob DEF AllInv
<1>2. IdsStay \/ IdFound \/ IdCreated
  BY <1>1, IdsMoves DEF IdsMove, IdStart
<1>3. CASE JobFinalizer
  <2>1. /\ job'.c = job.c
        /\ job'.base = [job.base EXCEPT !.finalizer = TRUE]
        /\ job'.mem = [job.mem EXCEPT !.finalizer = TRUE]
    BY <1>1, <1>3 DEF JobFinalizer, Job
  <2>2. job.base.state = "live"
    BY <1>3 DEF JobFinalizer, AllInv, FinalizerInv, JobInv, At
  <2>3. QED
    BY <1>1, <1>2, <2>1, <2>2 DEF LiveHeld, CR
<1>4. CASE JobOn
  BY <1>1, <1>2, <1>4 DEF JobOn, SameCopy
<1>5. QED
  BY <1>1, <1>3, <1>4, JobMoves DEF JobMove, JobStart

\* An idle worker starts from the copy in the cache, and writes nothing.
LEMMA JobStarts ==
    ASSUME AllInv, Next, job.pc = "idle", job'.pc # "idle"
    PROVE  /\ UNCHANGED <<obj, remote>> /\ IdStart
           /\ \E u \in Users : /\ job'.c = u /\ cache'[u] = cache[u]
                                 /\ job'.base = cache[u]
                                 /\ job'.mem = cache[u]
<1>1. JobStart
  BY JobMoves DEF AllInv, JobMove, JobFinalizer, JobOn, At
<1>2. IdStart
  BY IdsMoves DEF AllInv, IdsMove
<1>3. QED
  BY <1>1, <1>2 DEF JobStart, IdStart

\* A deletion in progress changes only through the worker's own last write.
LEMMA DeletionStays ==
    ASSUME AllInv, Next, job.pc # "idle", job'.pc # "idle",
           obj'[job.c].state = "deleting", ~LiveHeld(obj[job.c])
    PROVE  obj'[job.c] = obj[job.c]
<1>1. job.c \in Users /\ obj \in [Users -> CR] /\ obj[job.c] \in CR
  BY BusyJob, StateTypes DEF AllInv
<1>2. CASE AddFinalizer
  <2>1. CASE Current
    <3>1. obj[job.c].state = "live"
      BY <1>2, <2>1 DEF AddFinalizer, Current, AllInv, FinalizerInv, JobInv, At
    <3>2. obj' = [obj EXCEPT ![job.c].finalizer = TRUE]
      BY <1>2, <2>1 DEF AddFinalizer
    <3>3. QED
      BY <1>1, <3>1, <3>2 DEF CR
  <2>2. QED
    BY <1>2, <2>1 DEF AddFinalizer
<1>3. CASE RemoveFinalizer \/ Finish \/ WriteErrorStatus
  BY <1>3 DEF RemoveFinalizer, Finish, WriteErrorStatus, Done, Idle
<1>4. ASSUME NEW d \in Users, NEW s \in Specs[d], CreateCR(d, s)
      PROVE  obj'[job.c] = obj[job.c]
  BY <1>1, <1>4 DEF CreateCR, NewCR
<1>5. ASSUME NEW d \in Users, NEW s \in Specs[d], EditSpec(d, s)
      PROVE  obj'[job.c] = obj[job.c]
  BY <1>1, <1>5 DEF EditSpec, CR
<1>6. ASSUME NEW d \in Users, RequestDelete(d)
      PROVE  obj'[job.c] = obj[job.c]
  BY <1>1, <1>6, NoCRFields DEF RequestDelete, Drop, LiveHeld
<1>7. QED
  BY <1>2, <1>3, <1>4, <1>5, <1>6 DEF Next, Worker, Environment, Begin, Cluster,
     CacheSync, CollectSecret, CallFails, Crash, DeleteRemote, Resolve, Create, Update,
     SyncGroups, SetGroups, CreateToken, StoreLink, FlipInstance, DeleteSecret,
     Groupwork, MakeGroup, DeleteGroup, ShowGroup, kube
-------------------------------------------------------------------------------
(* Each part of the invariant is preserved. *)

\* The name the worker acts for is one of its resource's.
LEMMA JobName ==
    ASSUME AllInv, job.pc # "idle"
    PROVE  job.c \in Users /\ job.mem.spec.name \in NamesOf(job.c)
  BY BusyJob DEF AllInv, FinalizerInv, JobInv, OwnershipInv, SpecsInv, NamesOf

\* Two resources never know the same user.
LEMMA OneOwner ==
    ASSUME NamesDisjoint, NEW u \in Users, NEW d \in Users, NEW i \in Ids,
           Named(u, i), Named(d, i)
    PROVE  u = d
  BY UserNoneAssumption DEF Named, NamesDisjoint

\* Named in the next state.
NamedNext(u, i) ==
    i # None => remote'[i].state # "unused" /\ remote'[i].name \in NamesOf(u)

\* An id stays Named: PocketID never forgets one, and Update keeps its name.
LEMMA NamedStep ==
    ASSUME AllInv, NamesDisjoint \/ NamesFixed, Next,
           NEW u \in Users, NEW i \in Ids \cup {None}, Named(u, i)
    PROVE  NamedNext(u, i)
<1>1. CASE i = None
  BY <1>1 DEF NamedNext
<1>2. CASE i \in Ids /\ i # None
  <2>1. RemoteMove(i)
    BY <1>2, RemoteMoves DEF AllInv
  <2>2. remote[i].state # "unused" /\ remote[i].name \in NamesOf(u)
    BY <1>2 DEF Named
  <2>3. CASE At("update") /\ job.id = i /\ remote'[i].state = remote[i].state
               /\ remote'[i].name = job.mem.spec.name
    <3>1. job.c \in Users /\ job.mem.spec.name \in NamesOf(job.c)
      BY <2>3, JobName DEF At
    <3>2. Named(job.c, i)
      BY <2>3 DEF AllInv, OwnershipInv, NamesInv, At
    <3>3. CASE NamesDisjoint
      <4>1. u = job.c
        BY <1>2, <3>1, <3>2, <3>3, OneOwner
      <4>2. QED
        BY <2>2, <2>3, <3>1, <4>1 DEF NamedNext
    <3>4. CASE NamesFixed
      <4>1. remote[i].name = job.mem.spec.name
        BY <1>2, <3>1, <3>2, <3>4 DEF Named, NamesFixed, NamesOf
      <4>2. QED
        BY <2>2, <2>3, <4>1 DEF NamedNext
    <3>5. QED
      BY <3>3, <3>4
  <2>4. QED
    BY <2>1, <2>2, <2>3 DEF RemoteMove, NamedNext
<1>3. QED
  BY <1>1, <1>2

\* Every step preserves SpecsInv.
LEMMA SpecsStep ==
    ASSUME AllInv, Next
    PROVE  SpecsInv'
<1>1. ASSUME NEW u \in Users
      PROVE  obj'[u].spec \in Specs[u] /\ cache'[u].spec \in Specs[u]
  <2>1. obj'[u].spec \in Specs[u]
    BY RecordMoves DEF RecordMove
  <2>2. cache[u].spec \in Specs[u]
    BY DEF AllInv, OwnershipInv, SpecsInv
  <2>3. cache'[u] = cache[u] \/ cache'[u] = obj'[u]
    BY CacheMoves DEF AllInv
  <2>4. QED
    BY <2>1, <2>2, <2>3
<1>2. ASSUME job'.pc # "idle"
      PROVE  job'.base.spec \in Specs[job'.c]
  <2>1. CASE job.pc = "idle"
    BY <1>2, <2>1, JobStarts DEF AllInv, OwnershipInv, SpecsInv
  <2>2. CASE job.pc # "idle"
    BY <1>2, <2>2, JobKeeps DEF AllInv, OwnershipInv, SpecsInv
  <2>3. QED
    BY <2>1, <2>2
<1>3. QED
  BY <1>1, <1>2 DEF SpecsInv

\* The ids held are ids or None.
LEMMA IdTypes ==
    ASSUME TypeOK
    PROVE  /\ \A u \in Users : /\ obj[u].userID \in Ids \cup {None}
                                 /\ cache[u].userID \in Ids \cup {None}
           /\ job.pc # "idle" =>
                /\ job.c \in Users
                /\ job.base.userID \in Ids \cup {None}
                /\ job.mem.userID \in Ids \cup {None}
                /\ job.id \in Ids \cup {None}
<1>1. ASSUME NEW u \in Users
      PROVE  /\ obj[u].userID \in Ids \cup {None}
             /\ cache[u].userID \in Ids \cup {None}
  BY StateTypes DEF CR
<1>2. ASSUME job.pc # "idle"
      PROVE  /\ job.c \in Users
             /\ job.base.userID \in Ids \cup {None}
             /\ job.mem.userID \in Ids \cup {None}
             /\ job.id \in Ids \cup {None}
  BY <1>2, BusyJob DEF CR
<1>3. QED
  BY <1>1, <1>2

\* Every step preserves NamesInv.
LEMMA NamesStep ==
    ASSUME AllInv, NamesDisjoint \/ NamesFixed, Next
    PROVE  NamesInv'
<1>0. TypeOK /\ NamesInv
  BY DEF AllInv, OwnershipInv
<1>1. ASSUME NEW u \in Users
      PROVE  NamedNext(u, obj'[u].userID) /\ NamedNext(u, cache'[u].userID)
  <2>1. /\ NamedNext(u, obj[u].userID) /\ NamedNext(u, cache[u].userID)
    BY <1>0, IdTypes, NamedStep DEF NamesInv
  <2>2. (job.pc # "idle" /\ job.c = u) =>
           NamedNext(u, job.id) /\ NamedNext(u, job.mem.userID)
    BY <1>0, IdTypes, NamedStep DEF NamesInv
  <2>3. NamedNext(u, obj'[u].userID)
    BY <2>1, <2>2, RecordMoves DEF RecordMove, At, NamedNext
  <2>4. cache'[u] = cache[u] \/ cache'[u] = obj'[u]
    BY <1>0, CacheMoves
  <2>5. QED
    BY <2>1, <2>3, <2>4
<1>2. ASSUME job'.pc # "idle"
      PROVE  /\ NamedNext(job'.c, job'.base.userID)
             /\ NamedNext(job'.c, job'.mem.userID)
             /\ NamedNext(job'.c, job'.id)
  <2>1. CASE job.pc = "idle"
    <3>1. PICK u \in Users : /\ job'.c = u /\ job'.base = cache[u]
                               /\ job'.mem = cache[u]
      BY <1>2, <2>1, JobStarts
    <3>2. NamedNext(u, cache[u].userID)
      BY <1>0, IdTypes, NamedStep DEF NamesInv
    <3>3. job'.id = None
      BY <1>2, <2>1, JobStarts DEF IdStart
    <3>4. QED
      BY <3>1, <3>2, <3>3 DEF NamedNext
  <2>2. CASE job.pc # "idle"
    <3>1. /\ NamedNext(job.c, job.base.userID)
          /\ NamedNext(job.c, job.mem.userID) /\ NamedNext(job.c, job.id)
      BY <1>0, <2>2, IdTypes, NamedStep DEF NamesInv
    <3>2. job.mem.spec.name \in NamesOf(job.c)
      BY <2>2, JobName
    <3>3. /\ job'.c = job.c /\ job'.base.userID = job.base.userID
          /\ IdsStay \/ IdFound \/ IdCreated
      BY <1>2, <2>2, JobKeeps
    <3>4. CASE IdsStay
      BY <3>1, <3>3, <3>4 DEF IdsStay
    <3>5. CASE IdFound
      BY <3>1, <3>2, <3>3, <3>5 DEF IdFound, NamedNext, Live
    <3>6. CASE IdCreated
      BY <3>1, <3>2, <3>3, <3>6 DEF IdCreated, NamedNext
    <3>7. QED
      BY <3>3, <3>4, <3>5, <3>6
  <2>3. QED
    BY <2>1, <2>2
<1>3. QED
  BY <1>1, <1>2 DEF NamesInv, NamedNext, Named

\* Every step preserves RecordsInv.
LEMMA RecordsStep ==
    ASSUME AllInv, Next
    PROVE  RecordsInv'
<1>1. SUFFICES ASSUME NEW u \in Users, ~Held(obj'[u])
               PROVE  obj'[u].userID = None
  BY DEF RecordsInv, Held
<1>2. ~Held(obj[u]) => obj[u].userID = None
  BY DEF AllInv, OwnershipInv, RecordsInv
<1>3. CASE At("finish") /\ job.c = u /\ Unchanged(u)
  BY <1>1, <1>3 DEF At, AfterFinalizer, Resolved, AllInv, FinalizerInv, JobInv,
     LiveHeld, Held, Unchanged
<1>4. CASE /\ At("errorStatus") /\ job.c = u /\ Current /\ Unchanged(u)
           /\ obj'[u].userID = job.mem.userID
  <2>1. job.mem.userID # job.base.userID => LiveHeld(job.base)
    BY <1>4 DEF At, AllInv, OwnershipInv, ActingInv
  <2>2. QED
    BY <1>1, <1>2, <1>4, <2>1 DEF Current, LiveHeld, Held, Unchanged
<1>5. QED
  BY <1>1, <1>2, <1>3, <1>4, RecordMoves DEF RecordMove

\* What is live after a step that made nothing of it was live before.
LEMMA StillLive ==
    ASSUME AllInv, Next, NEW u \in Users, NEW i \in Ids,
           Named(u, i), remote'[i].state = "live"
    PROVE  remote[i].state = "live"
  BY RemoteMoves, UserNoneAssumption DEF AllInv, RemoteMove, Named

\* A deleted user of PocketID never comes back.
LEMMA StillDeleted ==
    ASSUME AllInv, Next, NEW i \in Ids, remote[i].state = "deleted"
    PROVE  remote'[i].state = "deleted"
  BY RemoteMoves DEF AllInv, RemoteMove

\* Only a deletion takes a user away, and only the one its copy names.
LEMMA StaysLive ==
    ASSUME AllInv, Next, NEW i \in Ids, remote[i].state = "live",
           ~(At("deleteRemote") /\ job.base.userID = i)
    PROVE  remote'[i].state = "live"
  BY RemoteMoves DEF AllInv, RemoteMove

\* Every step preserves DeletionsInv.
LEMMA DeletionsStep ==
    ASSUME AllInv, Next
    PROVE  DeletionsInv'
<1>0. TypeOK /\ NamesInv /\ DeletionsInv /\ JobInv
  BY DEF AllInv, OwnershipInv, FinalizerInv
<1>1. ASSUME NEW u \in Users, cache'[u].state = "deleting",
             cache'[u].userID # None,
             remote'[cache'[u].userID].state = "live"
      PROVE  obj'[u].state = "deleting"
  <2>1. CASE cache'[u] = obj'[u]
    BY <1>1, <2>1
  <2>2. CASE cache'[u] = cache[u]
    <3>1. /\ cache[u].userID \in Ids /\ Named(u, cache[u].userID)
      BY <1>0, <1>1, <2>2, IdTypes DEF NamesInv
    <3>2. remote[cache[u].userID].state = "live"
      BY <1>1, <2>2, <3>1, StillLive
    <3>3. obj[u].state = "deleting"
      BY <1>0, <1>1, <2>2, <3>2 DEF DeletionsInv
    <3>4. ~(At("removeFinalizer") /\ job.c = u /\ Current)
      <4>1. SUFFICES ASSUME At("removeFinalizer"), job.c = u, Current
                     PROVE  FALSE
        OBVIOUS
      <4>2. job.base.state = "deleting" /\ cache[u] = job.base
        BY <1>0, <4>1 DEF At, JobInv, DeletionsInv
      <4>3. remote[job.base.userID].state = "deleted"
        BY <1>0, <1>1, <2>2, <4>1, <4>2 DEF At, DeletionsInv
      <4>4. QED
        BY <3>2, <4>2, <4>3
    <3>5. QED
      BY <1>0, <3>3, <3>4, ObjMoves DEF ObjMove, Unchanged, LiveHeld
  <2>3. QED
    BY <1>0, <2>1, <2>2, CacheMoves
<1>2. ASSUME job'.pc # "idle", job'.base.state = "deleting"
      PROVE  /\ (job'.base.userID # None
                   /\ remote'[job'.base.userID].state = "live")
                     => obj'[job'.c].state = "deleting"
             /\ job'.base = obj'[job'.c] => cache'[job'.c] = job'.base
             /\ job'.pc = "deleteRemote" => job'.base.userID # None
             /\ (job'.pc = "removeFinalizer" /\ job'.base.userID # None)
                   => remote'[job'.base.userID].state = "deleted"
  <2>1. CASE job.pc = "idle"
    <3>1. PICK u \in Users : /\ job'.c = u /\ cache'[u] = cache[u]
                               /\ job'.base = cache[u]
      BY <1>2, <2>1, JobStarts
    <3>2. UNCHANGED <<obj, remote>> /\ IdStart
      BY <1>2, <2>1, JobStarts
    <3>3. QED
      BY <1>0, <1>2, <3>1, <3>2 DEF DeletionsInv, IdStart
  <2>2. CASE job.pc # "idle"
    <3>1. /\ job.c \in Users /\ job'.c = job.c /\ job'.base = job.base
          /\ IdsStay \/ IdFound \/ IdCreated
      BY <1>2, <2>2, JobKeeps
    <3>2. /\ job.base.state = "deleting" /\ ~LiveHeld(obj[job.c])
          /\ job.base.userID \in Ids \cup {None}
          /\ Named(job.c, job.base.userID)
      BY <1>0, <1>2, <2>2, <3>1, IdTypes DEF JobInv, NamesInv
    <3>3. ASSUME job.base.userID # None,
                 remote'[job.base.userID].state = "live"
          PROVE  obj'[job.c].state = "deleting"
      <4>1. remote[job.base.userID].state = "live"
        BY <3>1, <3>2, <3>3, StillLive
      <4>2. obj[job.c].state = "deleting"
        BY <1>0, <2>2, <3>2, <3>3, <4>1 DEF DeletionsInv
      <4>3. ObjMove(job.c)
        BY <1>0, <3>1, ObjMoves
      <4>4. QED
        BY <1>2, <4>2, <4>3 DEF ObjMove, Unchanged, LiveHeld
    <3>4. ASSUME job.base = obj'[job.c]
          PROVE  cache'[job.c] = job.base
      <4>1. obj'[job.c] = obj[job.c]
        BY <1>2, <2>2, <3>2, <3>4, DeletionStays
      <4>2. cache[job.c] = job.base
        BY <1>0, <2>2, <3>2, <3>4, <4>1 DEF DeletionsInv, Current
      <4>3. cache'[job.c] = cache[job.c] \/ cache'[job.c] = obj'[job.c]
        BY <1>0, <3>1, CacheMoves
      <4>4. QED
        BY <3>4, <4>2, <4>3
    <3>5. job'.pc = "deleteRemote" => job.base.userID # None
      BY <1>0, <2>2, <3>1, <3>2 DEF IdsStay, IdFound, IdCreated, DeletionsInv
    <3>6. ASSUME job'.pc = "removeFinalizer", job.base.userID # None
          PROVE  remote'[job.base.userID].state = "deleted"
      <4>1. CASE job.pc = "removeFinalizer"
        BY <1>0, <2>2, <3>2, <3>6, <4>1, StillDeleted DEF DeletionsInv
      <4>2. QED
        BY <3>1, <3>6, <4>1 DEF IdsStay, IdFound, IdCreated
    <3>7. QED
      BY <3>1, <3>3, <3>4, <3>5, <3>6
  <2>3. QED
    BY <2>1, <2>2
<1>3. QED
  BY <1>1, <1>2 DEF DeletionsInv, Current

\* Every step preserves ActingInv.
LEMMA ActingStep ==
    ASSUME AllInv, Next
    PROVE  ActingInv'
<1>0. TypeOK /\ ActingInv /\ JobInv
  BY DEF AllInv, OwnershipInv, FinalizerInv
<1>1. SUFFICES ASSUME job'.pc # "idle"
               PROVE  /\ job'.pc \in Resolved => remote'[job'.id].state = "live"
                      /\ job'.mem.userID # job'.base.userID =>
                            /\ LiveHeld(job'.base) /\ job'.mem.userID # None
                            /\ remote'[job'.mem.userID].state = "live"
  BY DEF ActingInv, LiveHeld
<1>2. CASE job.pc = "idle"
  <2>1. IdStart /\ job'.base = job'.mem
    BY <1>1, <1>2, JobStarts
  <2>2. QED
    BY <2>1 DEF IdStart
<1>3. CASE job.pc # "idle"
  <2>1. /\ job'.base.userID = job.base.userID
        /\ LiveHeld(job.base) => LiveHeld(job'.base)
        /\ IdsStay \/ IdFound \/ IdCreated
    BY <1>1, <1>3, JobKeeps
  <2>2. At("deleteRemote") => ~LiveHeld(job.base)
    BY <1>0, <1>3 DEF JobInv, LiveHeld, At
  <2>3. ASSUME job.mem.userID # job.base.userID
        PROVE  /\ LiveHeld(job'.base) /\ job.mem.userID # None
               /\ remote'[job.mem.userID].state = "live"
    <3>1. /\ LiveHeld(job.base) /\ job.mem.userID # None
          /\ remote[job.mem.userID].state = "live"
      BY <1>0, <1>3, <2>3 DEF ActingInv
    <3>2. job.mem.userID \in Ids
      BY <1>0, <1>3, <3>1, IdTypes
    <3>3. QED
      BY <2>1, <2>2, <3>1, <3>2, StaysLive
  <2>4. CASE IdsStay
    <3>1. job'.pc \in Resolved => remote'[job.id].state = "live"
      <4>1. SUFFICES ASSUME job'.pc \in Resolved
                     PROVE  remote'[job.id].state = "live"
        OBVIOUS
      <4>2. job.pc \in Resolved /\ job.id \in Ids /\ remote[job.id].state = "live"
        BY <1>0, <1>3, <2>4, <4>1, BusyJob DEF IdsStay, ActingInv
      <4>3. ~At("deleteRemote")
        BY <4>2 DEF At, Resolved
      <4>4. QED
        BY <4>2, <4>3, StaysLive
    <3>2. QED
      BY <2>1, <2>3, <2>4, <3>1 DEF IdsStay
  <2>5. CASE IdFound
    BY <2>1, <2>3, <2>5 DEF IdFound, Live
  <2>6. CASE IdCreated
    <3>1. LiveHeld(job.base)
      BY <1>0, <2>6 DEF IdCreated, At, JobInv, AfterFinalizer
    <3>2. QED
      BY <2>1, <2>6, <3>1, UserNoneAssumption DEF IdCreated
  <2>7. QED
    BY <2>1, <2>4, <2>5, <2>6
<1>4. QED
  BY <1>2, <1>3

\* Every step preserves RecordedLive, if no two resources share a name.
LEMMA RecordedStep ==
    ASSUME AllInv, NamesDisjoint, Next
    PROVE  RecordedLive'
<1>0. /\ TypeOK /\ NamesInv /\ RecordsInv /\ ActingInv /\ JobInv
      /\ \A u \in Users : Fresh(u) => remote[obj[u].userID].state = "live"
  BY DEF AllInv, OwnershipInv, FinalizerInv, RecordedLive, Live
<1>1. SUFFICES ASSUME NEW u \in Users, obj'[u].state = "live",
                      obj'[u].userID # None
               PROVE  remote'[obj'[u].userID].state = "live"
  <2>1. ASSUME NEW u \in Users, obj'[u].userID # None
        PROVE  obj'[u].userID \in Ids
    BY <1>0, <2>1, TypeStep, StateTypes DEF TypeOK, CR
  <2>2. QED
    BY <2>1 DEF RecordedLive, Fresh, Live
<1>2. ASSUME obj'[u].userID = obj[u].userID, Held(obj[u]), obj[u].state = "live"
      PROVE  remote'[obj'[u].userID].state = "live"
  <2>1. /\ obj[u].userID \in Ids /\ Named(u, obj[u].userID)
        /\ remote[obj[u].userID].state = "live"
    BY <1>0, <1>1, <1>2, IdTypes DEF NamesInv, Fresh
  <2>2. ~(At("deleteRemote") /\ job.base.userID = obj[u].userID)
    <3>1. SUFFICES ASSUME At("deleteRemote"), job.base.userID = obj[u].userID
                   PROVE  FALSE
      OBVIOUS
    <3>2. job.c \in Users /\ Named(job.c, obj[u].userID)
      BY <1>0, <3>1, IdTypes DEF At, NamesInv
    <3>3. job.c = u
      BY <2>1, <3>2, OneOwner
    <3>4. ~LiveHeld(obj[u])
      BY <1>0, <3>1, <3>3 DEF At, JobInv
    <3>5. QED
      BY <1>2, <3>4 DEF LiveHeld, Held
  <2>3. QED
    BY <1>2, <2>1, <2>2, StaysLive
<1>3. CASE obj'[u].userID = obj[u].userID /\ (Held(obj[u]) => Held(obj'[u]))
  <2>1. Held(obj[u])
    BY <1>0, <1>1, <1>3 DEF RecordsInv
  <2>2. obj[u].state = "live"
    BY <1>0, <1>1, <2>1, ObjMoves DEF ObjMove, Unchanged, Held
  <2>3. QED
    BY <1>2, <1>3, <2>1, <2>2
<1>4. CASE At("finish") /\ job.c = u /\ obj'[u].userID = job.id
  <2>1. job.id \in Ids /\ remote[job.id].state = "live" /\ ~At("deleteRemote")
    BY <1>0, <1>4, BusyJob DEF At, Resolved, ActingInv
  <2>2. QED
    BY <1>4, <2>1, StaysLive
<1>5. CASE /\ At("errorStatus") /\ job.c = u /\ Current /\ Unchanged(u)
           /\ obj'[u].userID = job.mem.userID
  <2>1. job.mem.userID \in Ids /\ ~At("deleteRemote")
    BY <1>0, <1>1, <1>5, IdTypes DEF At
  <2>2. remote[job.mem.userID].state = "live"
    BY <1>0, <1>1, <1>5 DEF At, ActingInv, Current, Unchanged, Fresh
  <2>3. QED
    BY <1>5, <2>1, <2>2, StaysLive
<1>6. QED
  BY <1>1, <1>3, <1>4, <1>5, RecordMoves DEF RecordMove, Held
-------------------------------------------------------------------------------
(* The theorems. *)

\* The invariant holds initially.
LEMMA OwnershipInit == Init => OwnershipInv
<1>1. SUFFICES ASSUME Init
               PROVE  OwnershipInv
  OBVIOUS
<1>2. /\ job.pc = "idle"
      /\ \A u \in Users : obj[u] = NoCR(u) /\ cache[u] = NoCR(u)
  BY <1>1 DEF Init, Idle
<1>3. SpecsInv /\ NamesInv /\ RecordsInv
  BY <1>2, NoCRFields DEF SpecsInv, NamesInv, Named, RecordsInv
<1>4. DeletionsInv /\ ActingInv /\ RecordedLive
  BY <1>2, NoCRFields DEF DeletionsInv, ActingInv, RecordedLive, Fresh
<1>5. QED
  BY <1>3, <1>4 DEF OwnershipInv

\* The invariant is inductive.
LEMMA AllStep ==
    AllInv /\ (NamesDisjoint \/ NamesFixed) /\ [Next]_vars => AllInv'
<1>1. SUFFICES ASSUME AllInv, NamesDisjoint \/ NamesFixed, [Next]_vars
               PROVE  AllInv'
  OBVIOUS
<1>2. TypeOK' /\ FinalizerInv'
  BY <1>1, TypeStep, FinalizerStep DEF AllInv
<1>3. CASE UNCHANGED vars
  BY <1>1, <1>2, <1>3 DEF vars, AllInv, OwnershipInv, SpecsInv, NamesInv, Named,
     RecordsInv, DeletionsInv, ActingInv, RecordedLive, Fresh, Live, Current,
     LiveHeld, Held
<1>4. CASE Next
  <2>1. RecordedLive'
    <3>1. CASE NamesDisjoint
      BY <1>1, <1>4, <3>1, RecordedStep
    <3>2. CASE ~NamesDisjoint
      BY <3>2 DEF RecordedLive
    <3>3. QED
      BY <3>1, <3>2
  <2>2. QED
    BY <1>1, <1>2, <1>4, <2>1, SpecsStep, NamesStep, RecordsStep, DeletionsStep,
       ActingStep DEF AllInv, OwnershipInv
<1>5. QED
  BY <1>1, <1>3, <1>4

\* The invariant holds in every reachable state, if names are disjoint or fixed.
LEMMA Ownership == (NamesDisjoint \/ NamesFixed) => (Spec => []AllInv)
<1>1. Init => AllInv
  BY TypeInit, FinalizerInit, OwnershipInit DEF AllInv
<1>2. SUFFICES ASSUME NamesDisjoint \/ NamesFixed
               PROVE  Spec => []AllInv
  OBVIOUS
<1>3. AllInv /\ [Next]_vars => AllInv'
  BY <1>2, AllStep
<1>4. QED
  BY <1>1, <1>3, PTL DEF Spec

\* A resource in use never records a user that the controller has deleted, however
\* stale the copies it acts on: not its own, not another resource's, and not that
\* of an earlier resource of the same name.
THEOREM UserRecordedIsLive == Spec => []RecordedLive
<1>1. CASE NamesDisjoint
  <2>1. AllInv => RecordedLive
    BY DEF AllInv, OwnershipInv
  <2>2. QED
    BY <1>1, <2>1, Ownership, PTL
<1>2. CASE ~NamesDisjoint
  <2>1. TypeOK => RecordedLive
    BY <1>2 DEF RecordedLive
  <2>2. QED
    BY <2>1, UserTypeCorrect, PTL
<1>3. QED
  BY <1>1, <1>2
-------------------------------------------------------------------------------
(* The controller implements Lifecycle. *)

AbsPhase    == [u \in Users |-> Phase(obj[u])]
\* The id a resource records.
AbsRecorded == [u \in Users |-> obj[u].userID]
AbsObject   == [i \in Ids |-> remote[i].state]

\* Initial states map to initial states.
LEMMA AbstractInit == Init => Abstract!Init
<1>1. SUFFICES ASSUME Init
               PROVE  Abstract!Init
  OBVIOUS
<1>2. AbsPhase = [u \in Users |-> "absent"]
  BY <1>1, NoCRFields DEF Init, AbsPhase, Phase
<1>3. AbsRecorded = [u \in Users |-> None]
  BY <1>1, NoCRFields DEF Init, AbsRecorded
<1>4. AbsObject \in [Ids -> {"unused", "live"}]
  BY <1>1 DEF Init, AbsObject, InitialRemote
<1>5. QED
  BY <1>2, <1>3, <1>4 DEF Abstract!Init, AbsPhase, AbsRecorded, AbsObject

\* The three variables of Lifecycle.
AbsVars == <<AbsPhase, AbsRecorded, AbsObject>>

\* A step changes one resource at most, and the state of one user at most.
LEMMA OneResource ==
    ASSUME NEW u \in Users, \A d \in Users \ {u} : obj'[d] = obj[d]
    PROVE  /\ AbsPhase' = [AbsPhase EXCEPT ![u] = Phase(obj'[u])]
           /\ AbsRecorded' = [AbsRecorded EXCEPT ![u] = obj'[u].userID]
  BY DEF AbsPhase, AbsRecorded, Phase

\* What leaves state, finalizer and recorded ids alone is not seen.
LEMMA SameResources ==
    ASSUME \A d \in Users : Unchanged(d) /\ obj'[d].userID = obj[d].userID
    PROVE  AbsPhase' = AbsPhase /\ AbsRecorded' = AbsRecorded
  BY DEF AbsPhase, AbsRecorded, Phase, Unchanged

\* A step that moves one user of PocketID.
LEMMA OneObject ==
    ASSUME NEW i \in Ids, \A j \in Ids \ {i} : remote'[j].state = remote[j].state
    PROVE  AbsObject' = [AbsObject EXCEPT ![i] = remote'[i].state]
  BY DEF AbsObject

\* A step that moves none.
LEMMA SameObjects ==
    ASSUME \A j \in Ids : remote'[j].state = remote[j].state
    PROVE  AbsObject' = AbsObject
  BY DEF AbsObject

\* The five ways the worker and users move a resource through its phases.
LEMMA AbsDeclare ==
    ASSUME NEW u \in Users, \A d \in Users \ {u} : obj'[d] = obj[d],
           remote' = remote,
           obj[u].state = "absent", obj[u].userID = None,
           obj'[u].state = "live", ~obj'[u].finalizer, obj'[u].userID = None
    PROVE  Abstract!Next
<1>1. AbsPhase[u] = "absent" /\ Phase(obj'[u]) = "declared"
  BY DEF AbsPhase, Phase
<1>2. AbsPhase' = [AbsPhase EXCEPT ![u] = "declared"] /\ AbsRecorded' = AbsRecorded
  BY <1>1, OneResource DEF AbsRecorded
<1>3. Abstract!Declare(u)
  BY <1>1, <1>2, SameObjects DEF Abstract!Declare, Abstract!Become, AbsPhase,
     AbsRecorded, AbsObject
<1>4. QED
  BY <1>3 DEF Abstract!Next

\* AddFinalizer.
LEMMA AbsManage ==
    ASSUME NEW u \in Users, \A d \in Users \ {u} : obj'[d] = obj[d],
           remote' = remote,
           obj[u].state = "live", ~obj[u].finalizer,
           obj'[u].state = "live", obj'[u].finalizer,
           obj'[u].userID = obj[u].userID
    PROVE  Abstract!Next
<1>1. AbsPhase[u] = "declared" /\ Phase(obj'[u]) = "managed"
  BY DEF AbsPhase, Phase
<1>2. AbsPhase' = [AbsPhase EXCEPT ![u] = "managed"] /\ AbsRecorded' = AbsRecorded
  BY <1>1, OneResource DEF AbsRecorded
<1>3. Abstract!Manage(u)
  BY <1>1, <1>2, SameObjects DEF Abstract!Manage, Abstract!Become, AbsPhase,
     AbsRecorded, AbsObject
<1>4. QED
  BY <1>3 DEF Abstract!Next

\* A delete request without finalizer.
LEMMA AbsWithdraw ==
    ASSUME NEW u \in Users, \A d \in Users \ {u} : obj'[d] = obj[d],
           remote' = remote,
           obj[u].state = "live", ~obj[u].finalizer, obj[u].userID = None,
           obj'[u].state = "absent", obj'[u].userID = None
    PROVE  Abstract!Next
<1>1. /\ AbsPhase[u] = "declared" /\ Phase(obj'[u]) = "absent"
      /\ AbsRecorded[u] = None
  BY DEF AbsPhase, AbsRecorded, Phase
<1>2. AbsPhase' = [AbsPhase EXCEPT ![u] = "absent"] /\ AbsRecorded' = AbsRecorded
  BY <1>1, OneResource DEF AbsRecorded
<1>3. Abstract!Withdraw(u)
  BY <1>1, <1>2, SameObjects DEF Abstract!Withdraw, Abstract!Become, AbsPhase,
     AbsRecorded, AbsObject
<1>4. QED
  BY <1>3 DEF Abstract!Next

\* A delete request with the finalizer.
LEMMA AbsRequestDelete ==
    ASSUME NEW u \in Users, \A d \in Users \ {u} : obj'[d] = obj[d],
           remote' = remote,
           obj[u].state = "live", obj[u].finalizer, obj'[u].state = "deleting",
           obj'[u].userID = obj[u].userID
    PROVE  Abstract!Next
<1>1. AbsPhase[u] = "managed" /\ Phase(obj'[u]) = "deleting"
  BY DEF AbsPhase, Phase
<1>2. AbsPhase' = [AbsPhase EXCEPT ![u] = "deleting"] /\ AbsRecorded' = AbsRecorded
  BY <1>1, OneResource DEF AbsRecorded
<1>3. Abstract!RequestDelete(u)
  BY <1>1, <1>2, SameObjects DEF Abstract!RequestDelete, Abstract!Become, AbsPhase,
     AbsRecorded, AbsObject
<1>4. QED
  BY <1>3 DEF Abstract!Next

\* RemoveFinalizer.
LEMMA AbsRemove ==
    ASSUME NEW u \in Users, \A d \in Users \ {u} : obj'[d] = obj[d],
           remote' = remote, obj[u].state = "deleting",
           obj[u].userID # None => /\ obj[u].userID \in Ids
                                     /\ remote[obj[u].userID].state = "deleted",
           obj'[u].state = "absent", obj'[u].userID = None
    PROVE  Abstract!Next
<1>1. /\ AbsPhase[u] = "deleting" /\ Phase(obj'[u]) = "absent"
      /\ AbsRecorded[u] # None => AbsObject[AbsRecorded[u]] = "deleted"
  BY DEF AbsPhase, AbsRecorded, AbsObject, Phase
<1>2. /\ AbsPhase' = [AbsPhase EXCEPT ![u] = "absent"]
      /\ AbsRecorded' = [AbsRecorded EXCEPT ![u] = None]
  BY <1>1, OneResource
<1>3. Abstract!Remove(u)
  BY <1>1, <1>2, SameObjects DEF Abstract!Remove, AbsPhase, AbsRecorded, AbsObject
<1>4. QED
  BY <1>3 DEF Abstract!Next

\* A live resource with its finalizer is "managed".
LEMMA ManagedResources ==
    ASSUME TypeOK, NEW u \in Users, Held(obj[u])
    PROVE  u \in Abstract!Managed
<1>1. obj[u] \in CR
  BY StateTypes
<1>2. Phase(obj[u]) \in {"managed", "deleting"}
  BY <1>1 DEF Held, Phase, CR
<1>3. QED
  BY <1>2 DEF Abstract!Managed

\* The status update of Finish and of WriteErrorStatus.
LEMMA AbsRecord ==
    ASSUME TypeOK, NEW u \in Users, \A d \in Users \ {u} : obj'[d] = obj[d],
           remote' = remote, NEW i \in Ids, remote[i].state = "live",
           Held(obj[u]), Unchanged(u), obj'[u].userID = i
    PROVE  Abstract!Next
<1>1. AbsPhase' = AbsPhase
  <2>1. Phase(obj'[u]) = Phase(obj[u])
    BY DEF Unchanged, Phase
  <2>2. AbsPhase' = [AbsPhase EXCEPT ![u] = Phase(obj'[u])]
    BY OneResource
  <2>3. QED
    BY <2>1, <2>2 DEF AbsPhase
<1>2. AbsRecorded' = [AbsRecorded EXCEPT ![u] = i]
  BY OneResource
<1>3. Abstract!Record(u, i)
  BY <1>1, <1>2, SameObjects, ManagedResources DEF Abstract!Record, AbsPhase,
     AbsRecorded, AbsObject
<1>4. QED
  BY <1>3 DEF Abstract!Next

\* Create.
LEMMA AbsProvision ==
    ASSUME TypeOK, obj' = obj, NEW u \in Users, Held(obj[u]), NEW i \in Ids,
           \A j \in Ids \ {i} : remote'[j].state = remote[j].state,
           remote[i].state = "unused", remote'[i].state = "live"
    PROVE  Abstract!Next
<1>1. AbsPhase' = AbsPhase /\ AbsRecorded' = AbsRecorded
  BY DEF AbsPhase, AbsRecorded, Phase
<1>2. AbsObject' = [AbsObject EXCEPT ![i] = "live"]
  BY OneObject
<1>3. Abstract!Provision(i)
  BY <1>1, <1>2, ManagedResources DEF Abstract!Provision, AbsPhase, AbsRecorded,
     AbsObject
<1>4. QED
  BY <1>3 DEF Abstract!Next

\* DeleteRemote.
LEMMA AbsDeprovision ==
    ASSUME TypeOK, obj' = obj, NEW u \in Users, obj[u].state = "deleting",
           NEW i \in Ids,
           \A d \in Users : LiveHeld(obj[d]) => obj[d].userID # i,
           \A j \in Ids \ {i} : remote'[j].state = remote[j].state,
           remote[i].state = "live", remote'[i].state = "deleted"
    PROVE  Abstract!Next
<1>1. AbsPhase' = AbsPhase /\ AbsRecorded' = AbsRecorded
  BY DEF AbsPhase, AbsRecorded, Phase
<1>2. AbsObject' = [AbsObject EXCEPT ![i] = "deleted"]
  BY OneObject
<1>3. /\ \A d \in Users : Phase(obj[d]) = "managed" => obj[d].userID # i
      /\ Phase(obj[u]) = "deleting"
  <2>1. \A d \in Users : obj[d].state \in {"absent", "live", "deleting"}
    BY StateTypes DEF CR
  <2>2. QED
    BY <2>1 DEF LiveHeld, Phase
<1>4. Abstract!Deprovision(i)
  BY <1>1, <1>2, <1>3 DEF Abstract!Deprovision, AbsPhase, AbsRecorded, AbsObject
<1>5. QED
  BY <1>4 DEF Abstract!Next

\* Every step of the controller is a step of the abstract one, or stutters.
LEMMA AbstractWorker ==
    ASSUME AllInv, NamesDisjoint, Worker
    PROVE  Abstract!Next \/ UNCHANGED AbsVars
<1>0. /\ TypeOK /\ NamesInv /\ RecordsInv /\ DeletionsInv /\ ActingInv /\ JobInv
      /\ obj \in [Users -> CR] /\ remote \in [Ids -> Remote]
  BY StateTypes DEF AllInv, OwnershipInv, FinalizerInv
<1>1. /\ job \in Job /\ job.c \in Users /\ job.base \in CR /\ job.mem \in CR
      /\ job.pc # "idle" /\ obj[job.c] \in CR
  BY <1>0, WorkerBusy, BusyJob, StateTypes
<1>2. CASE obj' = obj /\ \A i \in Ids : remote'[i].state = remote[i].state
  BY <1>2, SameResources, SameObjects DEF Unchanged, AbsVars
<1>3. CASE AddFinalizer
  <2>1. CASE Current
    <3>1. /\ obj' = [obj EXCEPT ![job.c].finalizer = TRUE] /\ remote' = remote
          /\ obj[job.c].state = "live"
      BY <1>0, <1>1, <1>3, <2>1 DEF AddFinalizer, At, Current, JobInv
    <3>2. /\ \A d \in Users \ {job.c} : obj'[d] = obj[d]
          /\ obj'[job.c].state = "live" /\ obj'[job.c].finalizer
          /\ obj'[job.c].userID = obj[job.c].userID
      BY <1>0, <1>1, <3>1 DEF CR
    <3>3. CASE obj[job.c].finalizer
      <4>1. Unchanged(job.c)
        BY <3>1, <3>2, <3>3, Zenon DEF Unchanged
      <4>2. \A d \in Users : Unchanged(d) /\ obj'[d].userID = obj[d].userID
        BY <3>2, <4>1, Zenon DEF Unchanged
      <4>3. QED
        BY <3>1, <4>2, SameResources, SameObjects DEF AbsVars
    <3>4. CASE ~obj[job.c].finalizer
      BY <1>1, <3>1, <3>2, <3>4, AbsManage
    <3>5. QED
      BY <3>3, <3>4
  <2>2. QED
    BY <1>2, <1>3, <2>1 DEF AddFinalizer
<1>4. CASE DeleteRemote
  <2>1. /\ job.base.state = "deleting" /\ job.base.userID \in Ids
        /\ Named(job.c, job.base.userID) /\ ~LiveHeld(obj[job.c])
    BY <1>0, <1>1, <1>4, IdTypes DEF DeleteRemote, At, JobInv, DeletionsInv, NamesInv
  <2>2. /\ obj' = obj
        /\ remote' = [remote EXCEPT ![job.base.userID].state = "deleted"]
    BY <1>4 DEF DeleteRemote, kube
  <2>3. /\ remote'[job.base.userID].state = "deleted"
        /\ \A j \in Ids \ {job.base.userID} : remote'[j].state = remote[j].state
    BY <1>0, <2>1, <2>2 DEF Remote
  <2>4. CASE remote[job.base.userID].state = "deleted"
    BY <1>2, <2>2, <2>3, <2>4
  <2>5. CASE remote[job.base.userID].state = "live"
    <3>1. obj[job.c].state = "deleting"
      BY <1>0, <1>1, <2>1, <2>5, UserNoneAssumption DEF DeletionsInv
    <3>2. \A d \in Users : LiveHeld(obj[d]) => obj[d].userID # job.base.userID
      BY <1>0, <1>1, <2>1, OneOwner DEF NamesInv
    <3>3. QED
      BY <1>0, <1>1, <2>1, <2>2, <2>3, <2>5, <3>1, <3>2, AbsDeprovision
  <2>6. remote[job.base.userID].state \in {"live", "deleted"}
    BY <1>0, <2>1, UserNoneAssumption DEF Named, Remote
  <2>7. QED
    BY <2>4, <2>5, <2>6
<1>5. CASE RemoveFinalizer
  <2>1. CASE Current
    <3>1. /\ obj' = [obj EXCEPT ![job.c] = NoCR(job.c)] /\ remote' = remote
          /\ obj[job.c] = job.base
          /\ obj[job.c].state = "deleting"
      BY <1>0, <1>1, <1>5, <2>1 DEF RemoveFinalizer, Drop, At, Current, JobInv
    <3>2. /\ \A d \in Users \ {job.c} : obj'[d] = obj[d]
          /\ obj'[job.c].state = "absent" /\ obj'[job.c].userID = None
      BY <1>0, <1>1, <3>1, NoCRFields
    <3>3. obj[job.c].userID # None =>
             /\ obj[job.c].userID \in Ids
             /\ remote[obj[job.c].userID].state = "deleted"
      BY <1>0, <1>1, <1>5, <3>1, IdTypes DEF RemoveFinalizer, At, DeletionsInv
    <3>4. QED
      BY <1>1, <3>1, <3>2, <3>3, AbsRemove
  <2>2. QED
    BY <1>2, <1>5, <2>1 DEF RemoveFinalizer
<1>6. ASSUME NEW i \in Ids, Create(i)
      PROVE  Abstract!Next \/ UNCHANGED AbsVars
  <2>1. /\ obj' = obj /\ remote[i].state = "unused" /\ remote'[i].state = "live"
        /\ \A j \in Ids \ {i} : remote'[j].state = remote[j].state
    BY <1>0, <1>6 DEF Create, kube
  <2>2. Held(obj[job.c])
    BY <1>0, <1>1, <1>6 DEF Create, At, JobInv, AfterFinalizer
  <2>3. QED
    BY <1>0, <1>1, <2>1, <2>2, AbsProvision
<1>7. CASE Update
  <2>1. CASE remote' = [remote EXCEPT ![job.id] =
                          [remote[job.id] EXCEPT !.name = job.mem.spec.name,
                                                 !.profile = job.mem.spec.profile]]
    <3>1. job.id \in Ids /\ remote[job.id] \in Remote
      BY <1>0, <1>7, BusyJob DEF Update, At, Resolved
    <3>2. \A i \in Ids : remote'[i].state = remote[i].state
      BY <1>0, <2>1, <3>1 DEF Remote
    <3>3. QED
      BY <1>2, <1>7, <3>2 DEF Update, kube
  <2>2. QED
    BY <1>2, <1>7, <2>1 DEF Update, kube
<1>8. CASE Finish
  <2>1. CASE obj' # obj
    <3>1. obj' = [obj EXCEPT ![job.c] =
                    [obj[job.c] EXCEPT !.userID = job.id,
                                       !.link = obj[job.c].link \/ job.link,
                                       !.ready = TRUE, !.observed = TRUE]]
      BY <1>8, <2>1 DEF Finish
    <3>2. /\ \A d \in Users \ {job.c} : obj'[d] = obj[d]
          /\ Unchanged(job.c) /\ obj'[job.c].userID = job.id
      BY <1>0, <1>1, <3>1 DEF CR, Unchanged
    <3>3. /\ remote' = remote /\ job.id \in Ids
          /\ remote[job.id].state = "live" /\ Held(obj[job.c])
      BY <1>0, <1>1, <1>8, BusyJob DEF Finish, At, Resolved, AfterFinalizer,
         ActingInv, JobInv
    <3>4. QED
      BY <1>0, <1>1, <3>2, <3>3, AbsRecord
  <2>2. QED
    BY <1>2, <1>8, <2>1 DEF Finish
<1>9. CASE WriteErrorStatus
  <2>1. CASE Current
    <3>1. obj' = [obj EXCEPT ![job.c] =
                    [job.mem EXCEPT !.ready = FALSE, !.observed = TRUE]]
      BY <1>9, <2>1 DEF WriteErrorStatus
    <3>2. /\ \A d \in Users \ {job.c} : obj'[d] = obj[d]
          /\ Unchanged(job.c) /\ obj'[job.c].userID = job.mem.userID
          /\ obj[job.c] = job.base /\ remote' = remote
      BY <1>0, <1>1, <1>9, <2>1, <3>1 DEF WriteErrorStatus, CR, Unchanged, Current,
         JobInv
    <3>3. CASE job.mem.userID = job.base.userID
      BY <3>2, <3>3, SameResources, SameObjects DEF Unchanged, AbsVars
    <3>4. CASE job.mem.userID # job.base.userID
      <4>1. /\ job.mem.userID \in Ids /\ remote[job.mem.userID].state = "live"
            /\ Held(obj[job.c])
        BY <1>0, <1>1, <3>2, <3>4, IdTypes DEF ActingInv, LiveHeld, Held
      <4>2. QED
        BY <1>0, <1>1, <3>2, <4>1, AbsRecord
    <3>5. QED
      BY <3>3, <3>4
  <2>2. QED
    BY <1>2, <1>9, <2>1 DEF WriteErrorStatus
<1>10. CASE SetGroups
  <2>1. \A i \in Ids : remote'[i].state = remote[i].state
    BY <1>0, <1>10 DEF SetGroups, Remote
  <2>2. QED
    BY <1>2, <1>10, <2>1 DEF SetGroups, kube
<1>11. QED
  BY <1>2, <1>3, <1>4, <1>5, <1>6, <1>7, <1>8, <1>9, <1>10 DEF Worker, Resolve,
     SyncGroups, CreateToken, StoreLink, kube

\* Every step of the model is a step of Lifecycle, or stutters.
LEMMA AbstractStep ==
    ASSUME AllInv, NamesDisjoint, Next
    PROVE  Abstract!Next \/ UNCHANGED AbsVars
<1>0. TypeOK /\ RecordsInv /\ obj \in [Users -> CR]
  BY StateTypes DEF AllInv, OwnershipInv
<1>1. CASE obj' = obj /\ remote' = remote
  BY <1>1, SameResources, SameObjects DEF Unchanged, AbsVars
<1>2. ASSUME NEW u \in Users, NEW s \in Specs[u], CreateCR(u, s)
      PROVE  Abstract!Next
  <2>1. /\ obj[u].state = "absent" /\ obj' = [obj EXCEPT ![u] = NewCR(s)]
        /\ remote' = remote
    BY <1>2 DEF CreateCR
  <2>2. obj[u].userID = None
    BY <1>0, <2>1 DEF RecordsInv, Held
  <2>3. /\ obj'[u].state = "live" /\ ~obj'[u].finalizer /\ obj'[u].userID = None
        /\ \A d \in Users \ {u} : obj'[d] = obj[d]
    BY <1>0, <2>1 DEF NewCR
  <2>4. QED
    BY <2>1, <2>2, <2>3, AbsDeclare
<1>3. ASSUME NEW u \in Users, NEW s \in Specs[u], EditSpec(u, s)
      PROVE  UNCHANGED AbsVars
  <2>1. /\ obj' = [obj EXCEPT ![u] = [obj[u] EXCEPT !.spec = s, !.observed = FALSE]]
        /\ remote' = remote
    BY <1>3 DEF EditSpec
  <2>2. \A d \in Users : Unchanged(d) /\ obj'[d].userID = obj[d].userID
    BY <1>0, <2>1 DEF Unchanged, CR
  <2>3. QED
    BY <2>1, <2>2, SameResources, SameObjects DEF AbsVars
<1>4. ASSUME NEW u \in Users, RequestDelete(u)
      PROVE  Abstract!Next
  <2>1. obj[u].state = "live" /\ remote' = remote
    BY <1>4 DEF RequestDelete
  <2>2. CASE obj[u].finalizer
    <3>1. obj' = [obj EXCEPT ![u].state = "deleting"]
      BY <1>4, <2>2 DEF RequestDelete
    <3>2. /\ obj'[u].state = "deleting" /\ obj'[u].userID = obj[u].userID
          /\ \A d \in Users \ {u} : obj'[d] = obj[d]
      BY <1>0, <3>1 DEF CR
    <3>3. QED
      BY <2>1, <2>2, <3>2, AbsRequestDelete
  <2>3. CASE ~obj[u].finalizer
    <3>1. obj' = [obj EXCEPT ![u] = NoCR(u)]
      BY <1>4, <2>3 DEF RequestDelete, Drop
    <3>2. /\ obj'[u].state = "absent" /\ obj'[u].userID = None
          /\ \A d \in Users \ {u} : obj'[d] = obj[d]
      BY <1>0, <3>1, NoCRFields
    <3>3. obj[u].userID = None
      BY <1>0, <2>3 DEF RecordsInv, Held
    <3>4. QED
      BY <2>1, <2>3, <3>2, <3>3, AbsWithdraw
  <2>4. QED
    BY <2>2, <2>3
<1>5. ASSUME NEW p \in GroupIds, DeleteGroup(p)
      PROVE  UNCHANGED AbsVars
  <2>1. obj' = obj /\ \A i \in Ids : remote'[i].state = remote[i].state
    BY <1>0, <1>5, StateTypes DEF DeleteGroup, Remote, kube
  <2>2. QED
    BY <2>1, SameResources, SameObjects DEF Unchanged, AbsVars
<1>6. QED
  BY <1>1, <1>2, <1>3, <1>4, <1>5, AbstractWorker DEF Next, Environment, Begin, Cluster,
     CacheSync, CollectSecret, CallFails, Crash, FlipInstance, DeleteSecret, Groupwork,
     MakeGroup, ShowGroup, kube

\* Seen from users and from PocketID the controller, with its caches, lost answers
\* and crashes, behaves like Lifecycle, if no two resources share a name: a user
\* is deleted only while its resource is, and a resource disappears only when the
\* user it recorded is gone.
THEOREM UserLifecycleImplemented == NamesDisjoint => (Spec => Implements)
<1>1. SUFFICES ASSUME NamesDisjoint
               PROVE  Spec => Implements
  OBVIOUS
<1>2. AllInv /\ [Next]_vars => [Abstract!Next]_(Abstract!vars)
  <2>1. SUFFICES ASSUME AllInv, [Next]_vars
                 PROVE  Abstract!Next \/ UNCHANGED Abstract!vars
    OBVIOUS
  <2>2. CASE UNCHANGED vars
    BY <2>2 DEF vars, Abstract!vars, Phase
  <2>3. CASE Next
    BY <1>1, <2>1, <2>3, AbstractStep DEF AbsVars, AbsPhase, AbsRecorded, AbsObject,
       Abstract!vars
  <2>4. QED
    BY <2>1, <2>2, <2>3
<1>3. Spec => []AllInv
  BY <1>1, Ownership
<1>4. QED
  BY <1>2, <1>3, AbstractInit, PTL DEF Spec, Implements, Abstract!Spec
-------------------------------------------------------------------------------
(* Uniqueness. *)

\* PocketID starts with no two users of one name.
ExistingDistinct ==
    \A i, j \in DOMAIN Existing : Existing[i] = Existing[j] => i = j

\* However many users there are, the list call answers all of them.
OnePage == IsFiniteSet(Ids) /\ Cardinality(Ids) <= PageSize

\* What uniqueness depends on, beside the code.
UniqueNames == NamesFixed /\ ExistingDistinct /\ OnePage

\* No two users in PocketID have one name.
Distinct == \A i, j \in Live : remote[i].name = remote[j].name => i = j

\* A user is about to be made only while there is none of its name: between the
\* listing and the creation nobody else makes one.
LookupInv ==
    At("create") => \A i \in Live : remote[i].name # job.mem.spec.name

\* Distinct is inductive only with LookupInv.
UniqueInv == Distinct /\ LookupInv

\* The names of the users that stay do not change.
LEMMA NameStays ==
    ASSUME AllInv, NamesFixed, Next, NEW i \in Ids, i \in Live, i \in Live'
    PROVE  remote'[i].name = remote[i].name
<1>1. RemoteMove(i) /\ remote[i].state = "live"
  BY RemoteMoves DEF AllInv, Live
<1>2. CASE At("update") /\ job.id = i /\ remote'[i].name = job.mem.spec.name
  <2>1. Named(job.c, i) /\ job.c \in Users /\ job.mem.spec.name \in NamesOf(job.c)
    BY <1>2, JobName DEF At, AllInv, OwnershipInv, NamesInv
  <2>2. remote[i].name \in NamesOf(job.c)
    BY <2>1, UserNoneAssumption DEF Named
  <2>3. QED
    BY <1>2, <2>1, <2>2 DEF NamesFixed, NamesOf
<1>3. QED
  BY <1>1, <1>2 DEF RemoteMove

\* Only Create adds one, of the name that was looked up.
LEMMA NewUser ==
    ASSUME AllInv, Next, NEW i \in Ids, i \notin Live, i \in Live'
    PROVE  /\ At("create") /\ remote'[i].name = job.mem.spec.name
           /\ \A j \in Ids \ {i} : remote'[j] = remote[j]
           /\ \E k \in Ids : Create(k)
<1>1. RemoteMove(i) /\ remote[i].state # "live" /\ remote'[i].state = "live"
  BY RemoteMoves DEF AllInv, Live
<1>2. At("create") /\ remote'[i].name = job.mem.spec.name /\ remote' # remote
  <2>1. ~(At("update") /\ job.id = i)
    BY <1>1 DEF AllInv, OwnershipInv, ActingInv, At, Resolved
  <2>2. QED
    BY <1>1, <2>1 DEF RemoteMove
<1>3. \E k \in Ids : Create(k)
  <2>1. ~\E p \in GroupIds : DeleteGroup(p)
    BY <1>1, StateTypes DEF AllInv, DeleteGroup, Remote
  <2>2. QED
    BY <1>2, <2>1 DEF Next, Worker, Environment, Begin, Cluster, CacheSync,
       CollectSecret, CallFails, Crash, At, AddFinalizer, DeleteRemote, RemoveFinalizer,
       Resolve, Update, SyncGroups, SetGroups, CreateToken, StoreLink, Finish,
       WriteErrorStatus, CreateCR, EditSpec, RequestDelete, DeleteSecret, FlipInstance,
       Groupwork, MakeGroup, ShowGroup
<1>4. PICK k \in Ids : Create(k)
  BY <1>3
<1>5. remote \in [Ids -> Remote]
  BY StateTypes DEF AllInv
<1>6. k = i
  BY <1>1, <1>4, <1>5 DEF Create
<1>7. QED
  BY <1>2, <1>4, <1>5, <1>6 DEF Create

\* Every step preserves Distinct.
LEMMA DistinctStep ==
    ASSUME AllInv, NamesFixed, UniqueInv, Next
    PROVE  Distinct'
<1>1. SUFFICES ASSUME NEW i \in Ids, NEW j \in Ids, i \in Live', j \in Live',
                      remote'[i].name = remote'[j].name
               PROVE  i = j
  BY DEF Distinct, Live
<1>2. CASE i \in Live /\ j \in Live
  BY <1>1, <1>2, NameStays DEF UniqueInv, Distinct
<1>3. ASSUME NEW a \in Ids, NEW b \in Ids, a \notin Live, a \in Live', b \in Live',
             remote'[a].name = remote'[b].name, a # b
      PROVE  FALSE
  <2>1. /\ At("create") /\ remote'[a].name = job.mem.spec.name
        /\ remote'[b] = remote[b]
    BY <1>3, NewUser
  <2>2. b \in Live /\ remote[b].name = job.mem.spec.name
    BY <1>3, <2>1 DEF Live
  <2>3. QED
    BY <2>1, <2>2 DEF UniqueInv, LookupInv
<1>4. QED
  BY <1>1, <1>2, <1>3

\* One page is all there is.
LEMMA PageIsLive ==
    ASSUME OnePage, NEW page \in Pages
    PROVE  page = Live
<1>1. Live \in SUBSET Ids
  BY DEF Live
<1>2. /\ IsFiniteSet(Live) /\ Cardinality(Live) <= Cardinality(Ids)
      /\ Cardinality(Live) \in Nat /\ Cardinality(Ids) \in Nat
  BY <1>1, FS_Subset, FS_CardinalityType DEF OnePage
<1>3. Cardinality(Live) <= PageSize
  BY <1>2, UserBoundsAssumption DEF OnePage
<1>4. QED
  BY <1>3 DEF Pages

\* The worker comes to create only from Resolve, or stays there while others move.
LEMMA ToCreate ==
    ASSUME TypeOK, Next, job'.pc = "create"
    PROVE  Resolve \/ job' = job
<1>1. ASSUME NEW u \in Users, Begin(u)
      PROVE  FALSE
  <2>1. \E pc \in {"errorStatus", "deleteRemote", "removeFinalizer",
                   "addFinalizer", "resolve"} : Start(u, pc)
    BY <1>1 DEF Begin
  <2>2. QED
    BY <2>1 DEF Start
<1>2. ~Done /\ \A pc \in Busy : (job \in Job /\ Goto(pc)) => pc = "create"
  BY DEF Done, Idle, Goto, Job
<1>3. CASE Worker
  <2>1. job \in Job
    BY <1>3, WorkerBusy, BusyJob
  <2>2. /\ ~Done /\ ~Goto("errorStatus") /\ ~Goto("removeFinalizer")
        /\ ~Goto("groups") /\ ~Goto("token")
    BY <1>2, <2>1 DEF Busy, AfterFinalizer, Resolved
  <2>3. ~AddFinalizer
    BY <2>1, <2>2 DEF AddFinalizer, Job
  <2>4. ~\E i \in Ids : Create(i)
    BY <2>1, <2>2 DEF Create, Job
  <2>5. ~Update
    BY <2>1, <2>2 DEF Update, Job
  <2>6. ~SyncGroups
    BY <2>1, <1>3, WantType, WorkerBusy DEF SyncGroups, Job
  <2>7. ~CreateToken /\ ~StoreLink
    BY <2>1 DEF CreateToken, StoreLink, Job
  <2>8. QED
    BY <1>3, <2>2, <2>3, <2>4, <2>5, <2>6, <2>7 DEF Worker, DeleteRemote,
       RemoveFinalizer, SetGroups, Finish, WriteErrorStatus
<1>4. ~Crash
  BY <1>2 DEF Crash
<1>5. ~CallFails
  <2>1. job.pc # "idle" => ~Goto("errorStatus") /\ ~Goto("finish")
    BY <1>2, BusyJob DEF Busy, AfterFinalizer, Resolved
  <2>2. QED
    BY <1>2, <2>1 DEF CallFails, At
<1>6. QED
  BY <1>1, <1>3, <1>4, <1>5 DEF Next, Environment, Cluster, CacheSync, CollectSecret,
     CreateCR, EditSpec, RequestDelete, DeleteSecret, FlipInstance, Groupwork,
     MakeGroup, DeleteGroup, ShowGroup

\* Every step preserves LookupInv.
LEMMA LookupStep ==
    ASSUME AllInv, OnePage, UniqueInv, Next
    PROVE  LookupInv'
<1>1. SUFFICES ASSUME job'.pc = "create", NEW i \in Ids, remote'[i].state = "live"
               PROVE  remote'[i].name # job'.mem.spec.name
  BY DEF LookupInv, At, Live
<1>2. Resolve \/ job' = job
  BY <1>1, ToCreate DEF AllInv
<1>3. CASE job' = job
  <2>1. RemoteMove(i)
    BY RemoteMoves DEF AllInv
  <2>2. ~\E j \in Ids : Create(j)
    BY <1>1, <1>3, BusyJob DEF AllInv, Create, Goto, Job, At
  <2>3. QED
    <3>1. i \in Live
      BY <1>1, <2>2, NewUser DEF Live
    <3>2. At("create") /\ remote[i].name # job.mem.spec.name
      BY <1>1, <1>3, <3>1 DEF UniqueInv, LookupInv, At
    <3>3. QED
      BY <1>1, <1>3, <2>1, <3>1, <3>2 DEF RemoteMove, At, Live
<1>4. CASE Resolve
  <2>1. job \in Job /\ job.pc # "idle" /\ remote' = remote
    BY <1>4, BusyJob DEF AllInv, Resolve, At
  <2>2. /\ job.mem.userID = None
        /\ job' = [job EXCEPT !.pc = "create"]
        /\ \E page \in Pages :
             {k \in page : remote[k].name = job.mem.spec.name} = {}
    BY <1>1, <1>4, <2>1 DEF Resolve, Goto, Job
  <2>3. {k \in Live : remote[k].name = job.mem.spec.name} = {}
    BY <2>2, PageIsLive
  <2>4. job'.mem = job.mem
    BY <2>1, <2>2 DEF Job
  <2>5. QED
    BY <1>1, <2>1, <2>3, <2>4 DEF Live
<1>5. QED
  BY <1>2, <1>3, <1>4
\* The invariant holds initially.
LEMMA UniqueInit == ExistingDistinct /\ Init => UniqueInv
<1>1. SUFFICES ASSUME ExistingDistinct, Init
               PROVE  UniqueInv
  OBVIOUS
<1>2. \A i \in Live : i \in DOMAIN Existing /\ remote[i].name = Existing[i]
  BY <1>1 DEF Init, Live, InitialRemote
<1>3. ~At("create")
  BY <1>1 DEF Init, Idle, At
<1>4. QED
  BY <1>1, <1>2, <1>3 DEF ExistingDistinct, UniqueInv, Distinct, LookupInv

\* The invariant holds in every reachable state.
LEMMA Uniqueness == UniqueNames => (Spec => [](AllInv /\ UniqueInv))
<1>1. SUFFICES ASSUME UniqueNames
               PROVE  Spec => [](AllInv /\ UniqueInv)
  OBVIOUS
<1>2. AllInv /\ UniqueInv /\ [Next]_vars => UniqueInv'
  <2>1. CASE UNCHANGED vars
    BY <2>1 DEF vars, UniqueInv, Distinct, LookupInv, Live, At
  <2>2. CASE Next
    BY <1>1, <2>2, DistinctStep, LookupStep DEF UniqueNames, UniqueInv
  <2>3. QED
    BY <2>1, <2>2
<1>3. Init => UniqueInv
  BY <1>1, UniqueInit DEF UniqueNames
<1>4. Spec => []AllInv
  BY <1>1, Ownership DEF UniqueNames
<1>5. QED
  BY <1>2, <1>3, <1>4, PTL DEF Spec

\* Retries after lost answers, conflicts and crashes never make a second user of a
\* name, if one page of the listing holds every user and PocketID starts with one
\* of a name.
THEOREM UserPerNameIsOne ==
    (ExistingDistinct /\ OnePage) => (Spec => []OneUserPerName)
<1>1. CASE UniqueNames
  <2>1. UniqueInv => OneUserPerName
    BY DEF UniqueInv, Distinct, OneUserPerName
  <2>2. QED
    BY <1>1, <2>1, Uniqueness, PTL
<1>2. CASE ~NamesFixed
  <2>1. TypeOK => OneUserPerName
    BY <1>2 DEF OneUserPerName
  <2>2. QED
    BY <2>1, UserTypeCorrect, PTL
<1>3. QED
  BY <1>1, <1>2 DEF UniqueNames

\* Two users in PocketID that one resource knows are one.
LEMMA SameUser ==
    ASSUME NamesFixed, UniqueInv, NEW u \in Users, NEW i \in Live, NEW j \in Live,
           Named(u, i), Named(u, j)
    PROVE  i = j
<1>1. remote[i].name \in NamesOf(u) /\ remote[j].name \in NamesOf(u)
  BY UserNoneAssumption DEF Named, Live
<1>2. remote[i].name = remote[j].name
  BY <1>1 DEF NamesFixed, NamesOf
<1>3. QED
  BY <1>2 DEF UniqueInv, Distinct

\* A step that replaces no recorded id of a live resource.
LEMMA IdStep ==
    ASSUME AllInv, UniqueInv, NamesDisjoint, NamesFixed, Next, NEW u \in Users,
           Fresh(u), obj'[u].state # "absent"
    PROVE  obj'[u].userID = obj[u].userID
<1>0. /\ TypeOK /\ NamesInv /\ RecordsInv /\ ActingInv /\ JobInv
      /\ obj[u].userID \in Live /\ Named(u, obj[u].userID)
      /\ obj[u].state = "live" /\ Held(obj[u])
  BY DEF AllInv, OwnershipInv, FinalizerInv, RecordedLive, NamesInv, RecordsInv, Fresh
<1>1. Held(obj'[u])
  BY <1>0, ObjMoves DEF ObjMove, Unchanged, Held, LiveHeld
<1>2. CASE At("finish") /\ job.c = u /\ obj'[u].userID = job.id
  <2>1. job.id \in Live /\ Named(u, job.id)
    BY <1>0, <1>2, BusyJob DEF At, Resolved, ActingInv, NamesInv, Live
  <2>2. QED
    BY <1>0, <1>2, <2>1, SameUser
<1>3. CASE /\ At("errorStatus") /\ job.c = u /\ Current
           /\ obj'[u].userID = job.mem.userID
  <2>1. CASE job.mem.userID = job.base.userID
    BY <1>3, <2>1 DEF Current
  <2>2. CASE job.mem.userID # job.base.userID
    <3>1. job.mem.userID \in Live /\ Named(u, job.mem.userID)
      BY <1>0, <1>3, <2>2, IdTypes DEF At, ActingInv, NamesInv, Live
    <3>2. QED
      BY <1>0, <1>3, <3>1, SameUser
  <2>3. QED
    BY <2>1, <2>2
<1>4. QED
  BY <1>1, <1>2, <1>3, RecordMoves DEF RecordMove

\* An id that the status shows, and an onboarding link may carry, is not replaced.
IdStable ==
    [][\A u \in Users :
          (Fresh(u) /\ obj'[u].state # "absent") => obj'[u].userID = obj[u].userID]_vars

\* The recorded id of a live resource is not replaced, whatever copies, lost answers
\* and crashes the controller works with, while usernames do not change, no two
\* resources share one, and one page of the listing holds every user.
THEOREM UserIdIsStable == (UniqueNames /\ NamesDisjoint) => (Spec => IdStable)
<1>1. SUFFICES ASSUME UniqueNames, NamesDisjoint
               PROVE  Spec => IdStable
  OBVIOUS
<1>2. AllInv /\ UniqueInv /\ [Next]_vars =>
        [\A u \in Users :
           (Fresh(u) /\ obj'[u].state # "absent")
              => obj'[u].userID = obj[u].userID]_vars
  BY <1>1, IdStep DEF UniqueNames
<1>3. Spec => [](AllInv /\ UniqueInv)
  BY <1>1, Uniqueness
<1>4. QED
  BY <1>2, <1>3, PTL DEF Spec, IdStable
-------------------------------------------------------------------------------
(* The onboarding link. *)

\* What the status of u says of the link does not fall behind a copy that shows the
\* finalizer.
LinkCopied(u, o) ==
    (LiveHeld(o) /\ o.link /\ obj[u].state = "live") => obj[u].link

\* LinkOfRecorded is inductive only with what copies, and the job, say of the link.
LinkInv ==
    /\ \A u \in Users : obj[u].link => obj[u].userID # None
    /\ \A u \in Users : LinkCopied(u, cache[u])
    /\ job.pc # "idle" =>
          LinkCopied(job.c, job.base) /\ job.mem.link = job.base.link
    /\ job.pc \notin {"idle", "finish"} => ~job.link
    /\ (At("finish") /\ job.link /\ obj[job.c].state = "live"
          /\ secret[job.c].state # "none") => secret[job.c].user = job.id
    /\ LinkOfRecorded

\* How the job's knowledge of the link changes.
LinkMove ==
    \/ job'.pc = "idle"
    \/ job.pc = "idle" /\ ~job'.link /\ job'.pc # "finish"
    \/ /\ job.pc # "idle"
       /\ job'.mem.link = job.mem.link /\ job'.base.link = job.base.link
       /\ \/ job' = job
          \/ job.pc # "finish" /\ job'.link = job.link
          \/ /\ At("token") /\ job'.pc = "finish" /\ job'.link = job.mem.link
             /\ job'.id = job.id /\ UNCHANGED <<obj, secret>>
          \/ /\ At("storeLink") /\ job'.pc = "finish" /\ job'.id = job.id
             /\ secret'[job.c].user = job.id

\* Every step of the worker moves it in those ways.
LEMMA LinkMovesWorker ==
    ASSUME TypeOK, Worker
    PROVE  LinkMove
<1>1. /\ job \in Job /\ job.mem \in CR /\ job.base \in CR /\ job.pc # "idle"
      /\ job.c \in Users /\ secret \in [Users -> Secret]
  BY WorkerBusy, BusyJob, StateTypes
<1>2. CASE Done
  BY <1>2 DEF Done, Idle, LinkMove
<1>3. ASSUME NEW pc \in Busy, Goto(pc), job.pc # "finish"
      PROVE  LinkMove
  BY <1>1, <1>3 DEF Goto, Job, LinkMove
<1>4. CASE AddFinalizer
  <2>1. CASE job' = [job EXCEPT !.pc = "resolve", !.base.finalizer = TRUE,
                                !.mem.finalizer = TRUE]
    BY <1>1, <1>4, <2>1 DEF AddFinalizer, At, LinkMove, Job, CR
  <2>2. QED
    BY <1>2, <1>4, <2>1 DEF AddFinalizer
<1>5. CASE DeleteRemote
  BY <1>3, <1>5 DEF DeleteRemote, At, Busy
<1>6. CASE RemoveFinalizer \/ Finish \/ WriteErrorStatus
  BY <1>2, <1>6 DEF RemoveFinalizer, Finish, WriteErrorStatus
<1>7. CASE Resolve
  <2>1. ASSUME NEW i, NEW has, NEW pc \in {"update", "groups"},
               job' = [job EXCEPT !.pc = pc, !.id = i, !.has = has]
        PROVE  LinkMove
    BY <1>1, <1>7, <2>1 DEF Resolve, At, LinkMove, Job
  <2>2. QED
    BY <1>3, <1>7, <2>1 DEF Resolve, At, Busy, AfterFinalizer
<1>8. ASSUME NEW i \in Ids, Create(i)
      PROVE  LinkMove
  <2>1. CASE job' = [job EXCEPT !.pc = "groups", !.id = i, !.mem.userID = i]
    BY <1>1, <1>8, <2>1 DEF Create, At, LinkMove, Job, CR
  <2>2. QED
    BY <1>3, <1>8, <2>1 DEF Create, At, Busy
<1>9. CASE Update
  <2>1. CASE job' = [job EXCEPT !.pc = "groups", !.has = remote[job.id].groups]
    BY <1>1, <1>9, <2>1 DEF Update, At, LinkMove, Job
  <2>2. QED
    BY <1>3, <1>9, <2>1 DEF Update, At, Busy, AfterFinalizer, Resolved
<1>10. CASE SyncGroups
  <2>1. PICK want \in SUBSET GroupIds, pc \in {"token", "setGroups"} :
          job' = [job EXCEPT !.pc = pc, !.has = {}, !.want = want]
    BY <1>1, <1>10, WantType DEF SyncGroups
  <2>2. QED
    BY <1>1, <1>10, <2>1 DEF SyncGroups, At, LinkMove, Job
<1>11. CASE SetGroups
  BY <1>3, <1>11 DEF SetGroups, At, Busy, AfterFinalizer, Resolved
<1>12. CASE CreateToken
  <2>1. At("token") /\ UNCHANGED <<obj, secret>>
    BY <1>12 DEF CreateToken, kube
  <2>2. CASE job' = [job EXCEPT !.pc = "finish", !.link = job.mem.link]
    BY <1>1, <2>1, <2>2 DEF LinkMove, Job
  <2>3. CASE job' = [job EXCEPT !.pc = "storeLink", !.secret = secret[job.c]]
    BY <1>1, <2>1, <2>3 DEF At, LinkMove, Job
  <2>4. QED
    BY <1>12, <2>2, <2>3 DEF CreateToken
<1>13. CASE StoreLink
  <2>1. At("storeLink")
    BY <1>13 DEF StoreLink
  <2>2. CASE /\ job' = [job EXCEPT !.pc = "finish", !.link = TRUE,
                                   !.secret = NoSecret]
             /\ secret' = [secret EXCEPT ![job.c] =
                             [state |-> IF secret[job.c].state = "none"
                                        THEN "owned" ELSE secret[job.c].state,
                              user |-> job.id]]
    BY <1>1, <2>1, <2>2 DEF LinkMove, Job
  <2>3. CASE job' = [job EXCEPT !.pc = "finish", !.secret = NoSecret]
    BY <1>1, <2>1, <2>3 DEF At, LinkMove, Job
  <2>4. QED
    BY <1>13, <2>2, <2>3 DEF StoreLink
<1>14. QED
  BY <1>4, <1>5, <1>6, <1>7, <1>8, <1>9, <1>10, <1>11, <1>12, <1>13 DEF Worker

\* Every step moves it so.
LEMMA LinkMoves ==
    ASSUME TypeOK, Next
    PROVE  LinkMove
<1>1. ASSUME NEW u \in Users, Begin(u)
      PROVE  LinkMove
  <2>1. job.pc = "idle" /\ \E pc \in Busy \ Resolved : Start(u, pc)
    BY <1>1 DEF Begin, Idle, Busy, AfterFinalizer, Resolved
  <2>2. QED
    BY <2>1 DEF Start, LinkMove, Resolved
<1>2. CASE CallFails
  <2>1. ASSUME NEW pc \in Busy, Goto(pc), job.pc \notin {"idle", "finish"}
        PROVE  LinkMove
    BY <2>1, BusyJob DEF Goto, Job, LinkMove
  <2>2. CASE Done
    BY <2>2 DEF Done, Idle, LinkMove
  <2>3. QED
    BY <1>2, <2>1, <2>2 DEF CallFails, At, Busy, AfterFinalizer, Resolved
<1>3. CASE Crash
  BY <1>3 DEF Crash, Done, Idle, LinkMove
<1>4. CASE job' = job
  BY <1>4 DEF LinkMove
<1>5. QED
  BY <1>1, <1>2, <1>3, <1>4, LinkMovesWorker DEF Next, Environment, Cluster, CacheSync,
     CollectSecret, CreateCR, EditSpec, RequestDelete, FlipInstance, DeleteSecret,
     Groupwork, MakeGroup, DeleteGroup, ShowGroup

\* What a step does to the Secret of u.
SecretMove(u) ==
    \/ secret'[u].state = "none"
    \/ secret[u].state # "none" /\ secret'[u].user = secret[u].user
    \/ At("storeLink") /\ job.c = u /\ secret'[u].user = job.id /\ obj' = obj

\* Every step moves every Secret in those ways.
LEMMA SecretMoves ==
    ASSUME TypeOK, Next, NEW u \in Users
    PROVE  SecretMove(u)
<1>1. secret \in [Users -> Secret] /\ secret[u] \in Secret
  BY StateTypes
<1>2. CASE secret' = secret
  BY <1>2 DEF SecretMove
<1>3. ASSUME NEW d \in Users, secret' = [secret EXCEPT ![d] = Disown(secret[d])]
      PROVE  SecretMove(u)
  <2>1. CASE d = u
    <3>1. secret'[u] = Disown(secret[u])
      BY <1>1, <1>3, <2>1
    <3>2. QED
      BY <1>1, <3>1 DEF SecretMove, Disown, Secret
  <2>2. CASE d # u
    BY <1>1, <1>3, <2>2 DEF SecretMove
  <2>3. QED
    BY <2>1, <2>2
<1>4. ASSUME NEW d \in Users, secret' = [secret EXCEPT ![d] = NoSecret]
      PROVE  SecretMove(u)
  BY <1>1, <1>4 DEF SecretMove, NoSecret
<1>5. CASE StoreLink
  <2>1. At("storeLink") /\ obj' = obj /\ job.c \in Users
    BY <1>5, BusyJob DEF StoreLink, At
  <2>2. CASE secret' # secret
    <3>1. secret' = [secret EXCEPT ![job.c] =
                       [state |-> IF secret[job.c].state = "none" THEN "owned"
                                  ELSE secret[job.c].state,
                        user |-> job.id]]
      BY <1>5, <2>2 DEF StoreLink
    <3>2. QED
      BY <1>1, <2>1, <3>1 DEF SecretMove
  <2>3. QED
    BY <1>2, <2>2
<1>6. CASE RemoveFinalizer
  <2>1. job.c \in Users
    BY <1>6, BusyJob DEF RemoveFinalizer, At
  <2>2. QED
    BY <1>2, <1>3, <1>6, <2>1 DEF RemoveFinalizer, Drop
<1>7. QED
  BY <1>2, <1>3, <1>4, <1>5, <1>6 DEF Next, Worker, Environment, Begin, Cluster,
     CacheSync, CollectSecret, CallFails, Crash, AddFinalizer, DeleteRemote, Resolve,
     Create, Update, SyncGroups, SetGroups, CreateToken, Finish, WriteErrorStatus,
     CreateCR, EditSpec, RequestDelete, Drop, DeleteSecret, FlipInstance, Groupwork,
     MakeGroup, DeleteGroup, ShowGroup, kube

\* A resource that held its finalizer and is live was live before.
LEMMA WasLive ==
    ASSUME AllInv, Next, NEW u \in Users, Held(obj[u]), obj'[u].state = "live"
    PROVE  obj[u].state = "live"
  BY ObjMoves DEF AllInv, FinalizerInv, ObjMove, Unchanged, Held, LiveHeld

\* The mark of the link stays while the resource holds its finalizer.
LEMMA LinkStays ==
    ASSUME AllInv, LinkInv, Next, NEW u \in Users,
           obj[u].link, Held(obj'[u])
    PROVE  obj'[u].link
<1>1. CASE /\ At("errorStatus") /\ job.c = u /\ Current
           /\ obj'[u].link = job.mem.link
  BY <1>1 DEF At, LinkInv, Current
<1>2. QED
  BY <1>1, RecordMoves DEF RecordMove

\* The worker acts for the user that the live resource records.
LEMMA ActsForRecorded ==
    ASSUME AllInv, UniqueInv, NamesDisjoint, NamesFixed, job.pc \in Resolved,
           Fresh(job.c)
    PROVE  job.id = obj[job.c].userID
<1>1. job.c \in Users /\ job.id \in Live /\ Named(job.c, job.id)
  BY BusyJob DEF Resolved, AllInv, OwnershipInv, ActingInv, NamesInv, Live
<1>2. obj[job.c].userID \in Live /\ Named(job.c, obj[job.c].userID)
  BY <1>1 DEF AllInv, OwnershipInv, RecordedLive, NamesInv
<1>3. QED
  BY <1>1, <1>2, SameUser

\* Copies do not run ahead of the mark of the link.
LEMMA CopiesOfLink ==
    ASSUME AllInv, LinkInv, Next
    PROVE  /\ \A u \in Users : LinkCopied(u, cache[u])'
           /\ job'.pc # "idle" =>
                 LinkCopied(job.c, job.base)' /\ job'.mem.link = job'.base.link
<1>0. TypeOK /\ CopiesInv /\ JobInv /\ CopiesInv' /\ JobInv'
  BY CopiesStep, JobStep DEF AllInv, FinalizerInv
<1>1. ASSUME NEW u \in Users, LiveHeld(cache'[u]), cache'[u].link,
             obj'[u].state = "live"
      PROVE  obj'[u].link
  <2>1. CASE cache'[u] = obj'[u]
    BY <1>1, <2>1
  <2>2. CASE cache'[u] = cache[u]
    <3>1. Held(obj[u]) /\ Held(obj'[u])
      BY <1>0, <1>1, <2>2 DEF CopiesInv
    <3>2. obj[u].link
      BY <1>1, <2>2, <3>1, WasLive DEF LinkInv, LinkCopied
    <3>3. QED
      BY <3>1, <3>2, LinkStays
  <2>3. QED
    BY <1>0, <2>1, <2>2, CacheMoves
<1>2. ASSUME job'.pc # "idle"
      PROVE  job'.mem.link = job'.base.link
  <2>1. CASE job.pc = "idle"
    BY <1>2, <2>1, JobStarts
  <2>2. CASE job.pc # "idle"
    BY <1>0, <1>2, <2>2, LinkMoves DEF LinkMove, LinkInv
  <2>3. QED
    BY <2>1, <2>2
<1>3. ASSUME job'.pc # "idle", LiveHeld(job'.base), job'.base.link,
             obj'[job'.c].state = "live"
      PROVE  obj'[job'.c].link
  <2>1. CASE job.pc = "idle"
    BY <1>3, <2>1, JobStarts DEF LinkInv, LinkCopied
  <2>2. CASE JobFinalizer
    <3>1. /\ job'.c = job.c /\ job.c \in Users /\ job'.base.link = job.base.link
          /\ obj \in [Users -> CR] /\ obj[job.c] \in CR
      BY <1>0, <1>3, <2>2, JobKeeps, BusyJob, StateTypes, LinkMoves
      DEF JobFinalizer, At, LinkMove, AllInv
    <3>2. obj'[job.c].link = obj[job.c].link /\ obj[job.c] = job.base
      BY <2>2, <3>1 DEF JobFinalizer, Current, CR
    <3>3. QED
      BY <1>3, <3>1, <3>2
  <2>3. CASE JobOn
    <3>1. /\ job'.c = job.c /\ job.c \in Users /\ job'.base = job.base
          /\ job.pc # "idle"
      BY <1>0, <2>3, BusyJob DEF JobOn, SameCopy
    <3>2. Held(obj[job.c]) /\ Held(obj'[job.c])
      BY <1>0, <1>3, <3>1 DEF JobInv
    <3>3. obj[job.c].link
      BY <1>3, <3>1, <3>2, WasLive DEF LinkInv, LinkCopied
    <3>4. QED
      BY <3>1, <3>2, <3>3, LinkStays
  <2>4. QED
    BY <1>0, <1>3, <2>1, <2>2, <2>3, JobMoves DEF JobMove, JobStart
<1>4. QED
  BY <1>1, <1>2, <1>3 DEF LinkCopied, LiveHeld

\* A link is only marked together with an id.
LEMMA LinkHasId ==
    ASSUME AllInv, LinkInv, Next, NEW u \in Users, obj'[u].link
    PROVE  obj'[u].userID # None
<1>1. CASE At("finish") /\ job.c = u /\ obj'[u].userID = job.id
  BY <1>1, BusyJob, UserNoneAssumption DEF AllInv, At, Resolved
<1>2. CASE /\ At("errorStatus") /\ job.c = u /\ Current
           /\ obj'[u].userID = job.mem.userID /\ obj'[u].link = job.mem.link
  <2>1. obj[u].link /\ obj[u].userID # None
    BY <1>2 DEF At, LinkInv, Current
  <2>2. QED
    BY <1>2, <2>1 DEF At, Current, AllInv, OwnershipInv, ActingInv
<1>3. QED
  BY <1>1, <1>2, RecordMoves DEF RecordMove, LinkInv

\* What the job is about to report of the link is true of the user it acts for.
LEMMA LinkReported ==
    ASSUME AllInv, LinkInv, UniqueInv, NamesDisjoint, NamesFixed, Next
    PROVE  /\ job'.pc \notin {"idle", "finish"} => ~job'.link
           /\ (job'.pc = "finish" /\ job'.link /\ obj'[job'.c].state = "live"
                 /\ secret'[job'.c].state # "none")
                    => secret'[job'.c].user = job'.id
<1>0. TypeOK /\ JobInv
  BY DEF AllInv, FinalizerInv
<1>1. job'.pc \notin {"idle", "finish"} => ~job'.link
  BY <1>0, LinkMoves DEF LinkMove, LinkInv, At
<1>2. ASSUME job'.pc = "finish", job'.link, obj'[job'.c].state = "live",
             secret'[job'.c].state # "none"
      PROVE  secret'[job'.c].user = job'.id
  <2>1. job.pc # "idle" /\ job'.c = job.c /\ job.c \in Users
    BY <1>0, <1>2, JobKeeps, LinkMoves DEF LinkMove
  <2>2. CASE job' = job
    <3>1. At("finish") /\ Held(obj[job.c])
      BY <1>0, <1>2, <2>1, <2>2 DEF At, JobInv, AfterFinalizer, Resolved
    <3>2. obj[job.c].state = "live"
      BY <1>2, <2>1, <3>1, WasLive
    <3>3. SecretMove(job.c)
      BY <1>0, <2>1, SecretMoves
    <3>4. QED
      BY <1>2, <2>1, <2>2, <3>1, <3>2, <3>3 DEF SecretMove, At, LinkInv
  <2>3. CASE /\ At("token") /\ job'.link = job.mem.link
             /\ job'.id = job.id /\ UNCHANGED <<obj, secret>>
    <3>1. LiveHeld(job.base) /\ job.base.link
      BY <1>0, <1>2, <2>3 DEF At, JobInv, AfterFinalizer, Resolved, LinkInv
    <3>2. obj[job.c].link /\ obj[job.c].state = "live"
      BY <1>2, <2>1, <2>3, <3>1 DEF LinkInv, LinkCopied
    <3>3. Fresh(job.c) /\ secret[job.c].user = obj[job.c].userID
      BY <1>2, <2>1, <2>3, <3>2 DEF LinkInv, LinkOfRecorded, Fresh
    <3>4. job.id = obj[job.c].userID
      BY <2>3, <3>3, ActsForRecorded DEF At, Resolved
    <3>5. QED
      BY <2>1, <2>3, <3>3, <3>4
  <2>4. CASE At("storeLink") /\ job'.id = job.id /\ secret'[job.c].user = job.id
    BY <2>1, <2>4
  <2>5. CASE job.pc # "finish" /\ job'.link = job.link
    BY <1>2, <2>1, <2>5 DEF LinkInv
  <2>6. QED
    BY <1>0, <1>2, <2>1, <2>2, <2>3, <2>4, <2>5, LinkMoves DEF LinkMove
<1>3. QED
  BY <1>1, <1>2

\* Every step preserves LinkOfRecorded.
LEMMA LinkRecordedStep ==
    ASSUME AllInv, LinkInv, UniqueInv, NamesDisjoint, NamesFixed, Next
    PROVE  LinkOfRecorded'
<1>0. TypeOK /\ RecordsInv
  BY DEF AllInv, OwnershipInv
<1>1. SUFFICES ASSUME NEW u \in Users, obj'[u].state = "live",
                      obj'[u].userID # None, obj'[u].link,
                      secret'[u].state # "none"
               PROVE  secret'[u].user = obj'[u].userID
  BY DEF LinkOfRecorded, Fresh
<1>2. CASE /\ obj'[u].userID = obj[u].userID /\ obj'[u].link = obj[u].link
           /\ Held(obj[u]) => Held(obj'[u])
  <2>1. Held(obj[u])
    BY <1>0, <1>1, <1>2 DEF RecordsInv
  <2>2. Fresh(u)
    BY <1>1, <1>2, <2>1, WasLive DEF Fresh
  <2>3. SecretMove(u)
    BY <1>0, SecretMoves
  <2>4. CASE secret[u].state # "none" /\ secret'[u].user = secret[u].user
    BY <1>1, <1>2, <2>2, <2>4 DEF LinkInv, LinkOfRecorded
  <2>5. CASE At("storeLink") /\ job.c = u /\ secret'[u].user = job.id
    <3>1. job.pc \in Resolved
      BY <2>5 DEF At, Resolved
    <3>2. QED
      BY <1>2, <2>2, <2>5, <3>1, ActsForRecorded
  <2>6. QED
    BY <1>1, <2>3, <2>4, <2>5 DEF SecretMove
<1>3. CASE /\ At("finish") /\ job.c = u /\ secret' = secret
           /\ obj'[u].userID = job.id /\ Unchanged(u)
           /\ obj'[u].link = (obj[u].link \/ job.link)
  <2>1. obj[u].state = "live"
    BY <1>1, <1>3 DEF Unchanged
  <2>2. CASE job.link
    BY <1>1, <1>3, <2>1, <2>2 DEF LinkInv
  <2>3. CASE obj[u].link
    <3>1. Fresh(u)
      BY <2>1, <2>3 DEF LinkInv, Fresh
    <3>2. secret[u].user = obj[u].userID
      BY <1>1, <1>3, <2>3, <3>1 DEF LinkInv, LinkOfRecorded
    <3>3. job.pc \in Resolved
      BY <1>3 DEF At, Resolved
    <3>4. job.id = obj[u].userID
      BY <1>3, <3>1, <3>3, ActsForRecorded
    <3>5. QED
      BY <1>3, <3>2, <3>4
  <2>4. QED
    BY <1>1, <1>3, <2>2, <2>3
<1>4. CASE /\ At("errorStatus") /\ job.c = u /\ Current /\ Unchanged(u)
           /\ obj'[u].userID = job.mem.userID /\ secret' = secret
           /\ obj'[u].link = job.mem.link
  <2>1. obj[u].link /\ obj[u].state = "live"
    BY <1>1, <1>4 DEF At, LinkInv, Current, Unchanged
  <2>2. Fresh(u)
    BY <2>1 DEF LinkInv, Fresh
  <2>3. secret[u].user = obj[u].userID
    BY <1>1, <1>4, <2>1, <2>2 DEF LinkInv, LinkOfRecorded
  <2>4. obj'[u].userID = obj[u].userID
    BY <1>1, <2>2, IdStep
  <2>5. QED
    BY <1>4, <2>3, <2>4
<1>5. QED
  BY <1>1, <1>2, <1>3, <1>4, RecordMoves DEF RecordMove

\* The invariant of the link is inductive.
LEMMA LinkStep ==
    ASSUME AllInv, LinkInv, UniqueInv, NamesDisjoint, NamesFixed, [Next]_vars
    PROVE  LinkInv'
<1>1. CASE UNCHANGED vars
  BY <1>1 DEF vars, LinkInv, LinkCopied, LinkOfRecorded, Fresh, At, LiveHeld
<1>2. CASE Next
  BY <1>2, CopiesOfLink, LinkHasId, LinkReported, LinkRecordedStep DEF LinkInv, At
<1>3. QED
  BY <1>1, <1>2

\* A one-time access link recorded as created logs in the user the resource records,
\* whatever statuses were lost on the way, while usernames do not change, no two
\* resources share one, and one page of the listing holds every user.
THEOREM LinkIsOfRecorded ==
    (UniqueNames /\ NamesDisjoint) => (Spec => []LinkOfRecorded)
<1>1. SUFFICES ASSUME UniqueNames, NamesDisjoint
               PROVE  Spec => []LinkOfRecorded
  OBVIOUS
<1>2. Init => LinkInv
  <2>1. SUFFICES ASSUME Init
                 PROVE  LinkInv
    OBVIOUS
  <2>2. /\ job.pc = "idle"
        /\ \A u \in Users : obj[u] = NoCR(u) /\ cache[u] = NoCR(u)
    BY <2>1 DEF Init, Idle
  <2>3. QED
    BY <2>2, NoCRFields DEF LinkInv, LinkCopied, LinkOfRecorded, Fresh, At
<1>3. AllInv /\ UniqueInv /\ LinkInv /\ [Next]_vars => LinkInv'
  BY <1>1, LinkStep DEF UniqueNames
<1>4. LinkInv => LinkOfRecorded
  BY DEF LinkInv
<1>5. Spec => [](AllInv /\ UniqueInv)
  BY <1>1, Uniqueness
<1>6. QED
  BY <1>2, <1>3, <1>4, <1>5, PTL DEF Spec
===============================================================================
