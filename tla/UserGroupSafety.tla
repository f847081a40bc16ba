---------------------------- MODULE UserGroupSafety ----------------------------
(***************************************************************************)
(* Types and the finalizer of the PocketIDUserGroup controller; that, if   *)
(* no two resources share a name, it implements Lifecycle, a live resource *)
(* never records a deleted group, and a status that claims a sync is true  *)
(* or marked a generation made meanwhile; and that its retries make no     *)
(* second group of a name, while names do not change.  All for every set   *)
(* of resources, specs and ids, every page size and every number of faults *)
(* and edits.                                                              *)
(***************************************************************************)
EXTENDS UserGroupProps, FiniteSetTheorems, TLAPS

USE GroupNoneAssumption, GroupSpecsAssumption, GroupExistingAssumption,
    GroupBoundsAssumption
-------------------------------------------------------------------------------
(* Types. *)

\* The steps by what they can rely on.
Resolved       == {"update", "finish"}
AfterFinalizer == {"resolve", "create"} \cup Resolved
Busy           == {"addFinalizer", "deleteRemote", "removeFinalizer", "errorStatus"}
                    \cup AfterFinalizer

\* What TypeOK says of the job.
JobOK == job \in {Idle} \cup Job /\ (job.pc \in Resolved => job.id \in Ids)

\* A resource that users declare is one.
LEMMA NewCRType == \A g \in Groups : \A s \in Specs[g] : NewCR(s) \in CR
  BY DEF NewCR, CR

\* A resource that does not exist has a spec all the same, and records no id.
LEMMA NoCRFields ==
    ASSUME NEW g \in Groups
    PROVE  /\ NoCR(g) \in CR /\ NoCR(g).spec \in Specs[g]
           /\ NoCR(g).groupID = None
           /\ NoCR(g).state = "absent" /\ ~NoCR(g).finalizer
<1>1. Specs[g] # {}
  OBVIOUS
<1>2. (CHOOSE s \in Specs[g] : TRUE) \in Specs[g]
  BY <1>1
<1>3. QED
  BY <1>2, NewCRType DEF NoCR, NewCR, CR

\* The parts of TypeOK that updates start from.
LEMMA StateTypes ==
    ASSUME TypeOK
    PROVE  /\ obj \in [Groups -> CR] /\ cache \in [Groups -> CR]
           /\ remote \in [Ids -> Remote]
  BY DEF TypeOK

\* A busy worker's job has all its fields.
LEMMA BusyJob ==
    ASSUME TypeOK, job.pc # "idle"
    PROVE  /\ job \in Job /\ job.c \in Groups /\ job.base \in CR /\ job.mem \in CR
           /\ job.id \in Ids \cup {None}
           /\ job.pc \in Resolved => job.id \in Ids
<1>1. job \in Job
  BY DEF TypeOK, Idle
<1>2. QED
  BY <1>1 DEF Job, TypeOK, Resolved

\* Going to another step keeps the job's type.
LEMMA GotoType ==
    ASSUME job \in Job, NEW pc \in Busy, Goto(pc), pc \in Resolved => job.id \in Ids
    PROVE  JobOK'
  BY DEF Goto, Job, JobOK, Busy, AfterFinalizer, Resolved

\* An ended job is well typed.
LEMMA DoneType == Done => JobOK'
  BY DEF Done, JobOK, Idle, Resolved

\* An error report needs no id.
LEMMA ErrorIsBusy == "errorStatus" \in Busy /\ "errorStatus" \notin Resolved
  BY DEF Busy, Resolved

\* Faults and edits are counted within their bounds.
LEMMA CountTypes ==
    /\ TypeOK /\ (Fault \/ UNCHANGED faults) => faults' \in 0..MaxFaults
    /\ TypeOK /\ (Edit \/ UNCHANGED edits) => edits' \in 0..MaxEdits
  BY DEF TypeOK, Fault, Edit

\* The initial states are well typed.
LEMMA TypeInit == Init => TypeOK
  BY NoCRFields DEF Init, TypeOK, Idle, InitialRemote, Remote

\* A step that leaves the resources and the ids alone, or puts well typed ones there.
LEMMA TypeAgain ==
    ASSUME TypeOK, obj' \in [Groups -> CR], cache' \in [Groups -> CR],
           remote' \in [Ids -> Remote], instanceOK' \in BOOLEAN, JobOK',
           faults' \in 0..MaxFaults, edits' \in 0..MaxEdits
    PROVE  TypeOK'
  BY DEF TypeOK, JobOK, Resolved

\* The steps of the worker keep the types.
LEMMA TypeWorker == TypeOK /\ Worker => TypeOK'
<1>1. SUFFICES ASSUME TypeOK, Worker
               PROVE  TypeOK'
  OBVIOUS
<1>2. /\ job \in Job /\ job.c \in Groups /\ job.base \in CR /\ job.mem \in CR
      /\ job.pc \in Resolved => job.id \in Ids
      /\ obj \in [Groups -> CR] /\ cache \in [Groups -> CR]
      /\ remote \in [Ids -> Remote] /\ instanceOK \in BOOLEAN
      /\ obj[job.c] \in CR
  <2>1. job.pc # "idle"
    BY <1>1 DEF Worker, AddFinalizer, DeleteRemote, RemoveFinalizer, Resolve, Create,
       Update, Finish, WriteErrorStatus, At
  <2>2. QED
    BY <1>1, <2>1, BusyJob DEF TypeOK
<1>3. /\ cache' = cache /\ instanceOK' = instanceOK /\ edits' = edits
      /\ Fault \/ UNCHANGED faults
  BY <1>1 DEF Worker, AddFinalizer, DeleteRemote, RemoveFinalizer, Resolve, Create,
     Update, Finish, WriteErrorStatus, outside
<1>4. faults' \in 0..MaxFaults /\ edits' \in 0..MaxEdits
  BY <1>1, <1>3, CountTypes
<1>5. CASE Goto("errorStatus") /\ obj' = obj /\ remote' = remote
  BY <1>1, <1>2, <1>3, <1>4, <1>5, GotoType, ErrorIsBusy, TypeAgain
<1>6. CASE AddFinalizer
  <2>1. obj' \in [Groups -> CR]
    <3>1. [obj EXCEPT ![job.c].finalizer = TRUE] \in [Groups -> CR]
      BY <1>2 DEF CR
    <3>2. QED
      BY <1>2, <1>6, <3>1 DEF AddFinalizer
  <2>2. JobOK'
    <3>1. CASE job' = [job EXCEPT !.pc = "resolve", !.base.finalizer = TRUE,
                                  !.mem.finalizer = TRUE]
      BY <1>2, <3>1 DEF JobOK, Job, CR, Resolved
    <3>2. QED
      BY <1>6, <3>1, DoneType DEF AddFinalizer
  <2>3. QED
    BY <1>1, <1>2, <1>3, <1>4, <1>6, <2>1, <2>2, TypeAgain DEF AddFinalizer
<1>7. CASE RemoveFinalizer
  <2>1. obj' \in [Groups -> CR]
    BY <1>2, <1>7, NoCRFields DEF RemoveFinalizer
  <2>2. QED
    BY <1>1, <1>2, <1>3, <1>4, <1>7, <2>1, DoneType, TypeAgain DEF RemoveFinalizer
<1>8. CASE DeleteRemote
  <2>1. remote' \in [Ids -> Remote]
    BY <1>2, <1>8, ZenonT(60) DEF DeleteRemote, Remote
  <2>2. JobOK'
    BY <1>2, <1>8, GotoType, ErrorIsBusy DEF DeleteRemote, Busy, Resolved
  <2>3. QED
    BY <1>1, <1>2, <1>3, <1>4, <1>8, <2>1, <2>2, TypeAgain DEF DeleteRemote
<1>9. CASE Resolve
  <2>1. ASSUME NEW i \in Ids, job' = [job EXCEPT !.pc = "update", !.id = i]
        PROVE  JobOK'
    BY <1>2, <2>1 DEF JobOK, Job
  <2>2. Goto("create") => JobOK'
    BY <1>2, GotoType DEF Busy, AfterFinalizer, Resolved
  <2>3. JobOK'
    BY <1>2, <1>9, <2>1, <2>2, GotoType, ErrorIsBusy DEF Resolve, Live, Pages
  <2>4. QED
    BY <1>1, <1>2, <1>3, <1>4, <1>9, <2>3, TypeAgain DEF Resolve
<1>10. ASSUME NEW i \in Ids, Create(i)
       PROVE  TypeOK'
  <2>1. job.mem.spec.name \in Names /\ job.mem.spec.label \in Labels
    BY <1>2 DEF CR, GroupSpec
  <2>2. remote' \in [Ids -> Remote]
    BY <1>2, <1>10, <2>1 DEF Create, Remote
  <2>3. JobOK'
    <3>1. CASE job' = [job EXCEPT !.pc = "finish", !.id = i, !.mem.groupID = i]
      BY <1>2, <3>1 DEF JobOK, Job, CR
    <3>2. QED
      BY <1>2, <1>10, <3>1, GotoType, ErrorIsBusy DEF Create
  <2>4. QED
    BY <1>1, <1>2, <1>3, <1>4, <1>10, <2>2, <2>3, TypeAgain DEF Create
<1>11. CASE Update
  <2>1. /\ job.mem.spec.name \in Names /\ job.mem.spec.label \in Labels
        /\ job.id \in Ids
    BY <1>2, <1>11 DEF CR, GroupSpec, Update, At, Resolved
  <2>2. remote' \in [Ids -> Remote]
    <3>1. [remote[job.id] EXCEPT !.name = job.mem.spec.name,
                                 !.label = job.mem.spec.label] \in Remote
      BY <1>2, <2>1, ZenonT(60) DEF Remote
    <3>2. QED
      BY <1>2, <1>11, <2>1, <3>1 DEF Update
  <2>3. JobOK'
    BY <1>2, <1>11, <2>1, GotoType, ErrorIsBusy DEF Update, Busy, AfterFinalizer,
       Resolved
  <2>4. QED
    BY <1>1, <1>2, <1>3, <1>4, <1>11, <2>2, <2>3, TypeAgain DEF Update
<1>12. CASE Finish
  <2>1. job.id \in Ids
    BY <1>2, <1>12 DEF Finish, At, Resolved
  <2>2. [obj[job.c] EXCEPT !.groupID = job.id, !.ready = TRUE, !.observed = TRUE] \in CR
    BY <1>2, <2>1 DEF CR
  <2>3. obj' \in [Groups -> CR]
    <3>1. CASE obj' = [obj EXCEPT ![job.c] =
                         [obj[job.c] EXCEPT !.groupID = job.id, !.ready = TRUE,
                                            !.observed = TRUE]]
      BY <1>2, <2>2, <3>1
    <3>2. QED
      BY <1>2, <1>12, <3>1 DEF Finish
  <2>4. QED
    BY <1>1, <1>2, <1>3, <1>4, <1>12, <2>3, DoneType, TypeAgain DEF Finish
<1>13. CASE WriteErrorStatus
  <2>1. [job.mem EXCEPT !.ready = FALSE, !.observed = TRUE] \in CR
    BY <1>2 DEF CR
  <2>2. obj' \in [Groups -> CR]
    BY <1>2, <1>13, <2>1 DEF WriteErrorStatus
  <2>3. QED
    BY <1>1, <1>2, <1>3, <1>4, <1>13, <2>2, DoneType, TypeAgain DEF WriteErrorStatus
<1>14. QED
  BY <1>1, <1>6, <1>7, <1>8, <1>9, <1>10, <1>11, <1>12, <1>13 DEF Worker

\* So does everything else.
LEMMA TypeStep == TypeOK /\ [Next]_vars => TypeOK'
<1>1. SUFFICES ASSUME TypeOK, [Next]_vars
               PROVE  TypeOK'
  OBVIOUS
<1>2. /\ JobOK /\ obj \in [Groups -> CR] /\ cache \in [Groups -> CR]
      /\ remote \in [Ids -> Remote] /\ instanceOK \in BOOLEAN
  BY <1>1 DEF TypeOK, JobOK, Resolved
<1>3. UNCHANGED job => JobOK'
  BY <1>2 DEF JobOK
<1>4. CASE UNCHANGED vars
  BY <1>1, <1>4 DEF vars, TypeOK
<1>5. ASSUME NEW g \in Groups, Begin(g)
      PROVE  TypeOK'
  <2>1. \E pc \in Busy \ Resolved : Start(g, pc)
    BY <1>5 DEF Begin, Busy, AfterFinalizer, Resolved
  <2>2. cache[g] \in CR
    BY <1>2
  <2>3. JobOK'
    BY <2>1, <2>2 DEF Start, JobOK, Job, Busy, AfterFinalizer
  <2>4. QED
    BY <1>1, <1>2, <1>5, <2>3, CountTypes, TypeAgain DEF Begin, outside
<1>6. ASSUME NEW g \in Groups, CacheSync(g)
      PROVE  TypeOK'
  BY <1>1, <1>2, <1>3, <1>6, CountTypes, TypeAgain DEF CacheSync, outside
<1>7. CASE CallFails
  <2>1. job.pc # "idle" /\ Goto("errorStatus") => JobOK'
    BY <1>1, BusyJob, GotoType, ErrorIsBusy
  <2>2. JobOK'
    BY <1>7, <2>1, DoneType DEF CallFails, At
  <2>3. QED
    BY <1>1, <1>2, <1>7, <2>2, CountTypes, TypeAgain DEF CallFails, outside
<1>8. CASE Crash
  BY <1>1, <1>2, <1>8, CountTypes, DoneType, TypeAgain DEF Crash, outside
<1>9. ASSUME NEW g \in Groups, NEW s \in Specs[g], CreateCR(g, s)
      PROVE  TypeOK'
  BY <1>1, <1>2, <1>3, <1>9, NewCRType, CountTypes, TypeAgain DEF CreateCR
<1>10. ASSUME NEW g \in Groups, NEW s \in Specs[g], EditSpec(g, s)
       PROVE  TypeOK'
  <2>1. obj[g] \in CR /\ s \in GroupSpec
    BY <1>2
  <2>2. [obj[g] EXCEPT !.spec = s, !.observed = FALSE] \in CR
    BY <2>1 DEF CR
  <2>3. QED
    BY <1>1, <1>2, <1>3, <1>10, <2>2, CountTypes, TypeAgain DEF EditSpec
<1>11. ASSUME NEW g \in Groups, RequestDelete(g)
       PROVE  TypeOK'
  <2>1. [obj EXCEPT ![g].state = "deleting"] \in [Groups -> CR]
    BY <1>2 DEF CR
  <2>2. obj' \in [Groups -> CR]
    BY <1>2, <1>11, <2>1, NoCRFields DEF RequestDelete
  <2>3. QED
    BY <1>1, <1>2, <1>3, <1>11, <2>2, CountTypes, TypeAgain DEF RequestDelete
<1>12. CASE FlipInstance
  <2>1. instanceOK' \in BOOLEAN
    BY <1>12, Zenon DEF FlipInstance
  <2>2. QED
    BY <1>1, <1>2, <1>3, <1>12, <2>1, CountTypes, TypeAgain DEF FlipInstance
<1>13. QED
  BY <1>1, <1>4, <1>5, <1>6, <1>7, <1>8, <1>9, <1>10, <1>11, <1>12, TypeWorker
  DEF Next, Environment

\* The state always has the types TypeOK gives it, and a step that acts on a group
\* of PocketID knows which one.
THEOREM GroupTypeCorrect == Spec => []TypeOK
  BY TypeInit, TypeStep, PTL DEF Spec
-------------------------------------------------------------------------------
(* The finalizer.  Only the worker adds and removes it, so a copy that shows a *)
(* deletion, however old, excludes a finalizer added since.                    *)

Held(o)     == o.state # "absent" /\ o.finalizer
LiveHeld(o) == o.state = "live" /\ o.finalizer

\* What the cached copies say of the stored resources.
CopiesInv ==
    \A g \in Groups :
        /\ LiveHeld(cache[g]) => Held(obj[g])
        /\ cache[g].state = "deleting" => ~LiveHeld(obj[g])

\* What the copy the worker started from says.
JobInv ==
    job.pc # "idle" =>
        /\ LiveHeld(job.base) => Held(obj[job.c])
        /\ job.base.state = "deleting" =>
              ~LiveHeld(obj[job.c]) /\ ~LiveHeld(cache[job.c])
        /\ job.pc = "addFinalizer" =>
              /\ job.base.state = "live"
              /\ cache[job.c].state = "deleting" => obj[job.c].state = "deleting"
        /\ job.pc \in AfterFinalizer => LiveHeld(job.base)
        /\ job.pc \in {"deleteRemote", "removeFinalizer"} =>
              job.base.state = "deleting"
        /\ job.base.state # "absent"
        /\ job.mem.state = job.base.state /\ job.mem.finalizer = job.base.finalizer
        /\ job.mem.spec = job.base.spec

FinalizerInv == CopiesInv /\ JobInv

\* The step leaves the state and the finalizer alone.
Unchanged(g) ==
    obj'[g].state = obj[g].state /\ obj'[g].finalizer = obj[g].finalizer

\* The state and the finalizer of a resource change in five ways only.
ObjMove(g) ==
    \/ Unchanged(g)
    \/ /\ obj[g].state = "absent"
       /\ obj'[g].state = "live" /\ ~obj'[g].finalizer
    \/ LiveHeld(obj[g]) /\ obj'[g].state = "deleting" /\ obj'[g].finalizer
    \/ obj[g].state = "live" /\ ~obj[g].finalizer /\ obj'[g].state = "absent"
    \/ /\ At("addFinalizer") /\ job.c = g /\ Current
       /\ obj'[g].state = obj[g].state /\ obj'[g].finalizer
    \/ /\ At("removeFinalizer") /\ job.c = g /\ Current
       /\ obj'[g].state = "absent" /\ job'.pc = "idle"

\* Every step of the worker moves every resource in those ways.
LEMMA WorkerMoves ==
    ASSUME TypeOK, JobInv, Worker, NEW g \in Groups
    PROVE  ObjMove(g)
<1>1. /\ job.c \in Groups /\ obj \in [Groups -> CR] /\ job.pc # "idle"
      /\ obj[job.c] \in CR /\ job.mem \in CR
  BY BusyJob, StateTypes DEF Worker, AddFinalizer, DeleteRemote, RemoveFinalizer,
     Resolve, Create, Update, Finish, WriteErrorStatus, At
<1>2. CASE obj' = obj
  BY <1>2 DEF ObjMove, Unchanged
<1>3. CASE AddFinalizer
  BY <1>1, <1>3 DEF AddFinalizer, Done, ObjMove, Unchanged, CR
<1>4. CASE RemoveFinalizer
  BY <1>1, <1>4, NoCRFields DEF RemoveFinalizer, Done, Idle, ObjMove, Unchanged
<1>5. CASE Finish /\ obj' # obj
  <2>1. obj' = [obj EXCEPT ![job.c] =
                  [obj[job.c] EXCEPT !.groupID = job.id, !.ready = TRUE,
                                     !.observed = TRUE]]
    BY <1>5 DEF Finish
  <2>2. QED
    BY <1>1, <2>1 DEF ObjMove, Unchanged, CR
<1>6. CASE WriteErrorStatus /\ obj' # obj
  <2>1. Current /\ obj' = [obj EXCEPT ![job.c] =
                             [job.mem EXCEPT !.ready = FALSE, !.observed = TRUE]]
    BY <1>6 DEF WriteErrorStatus
  <2>2. /\ job.mem.state = obj[job.c].state /\ job.mem.spec = obj[job.c].spec
        /\ job.mem.finalizer = obj[job.c].finalizer
    BY <1>1, <2>1 DEF Current, JobInv
  <2>3. QED
    BY <1>1, <2>1, <2>2 DEF ObjMove, Unchanged, CR
<1>7. QED
  BY <1>2, <1>3, <1>4, <1>5, <1>6 DEF Worker, DeleteRemote, Resolve, Create, Update

\* Every step moves every resource so.
LEMMA ObjMoves ==
    ASSUME TypeOK, JobInv, Next, NEW g \in Groups
    PROVE  ObjMove(g)
<1>1. obj \in [Groups -> CR] /\ obj[g] \in CR
  BY StateTypes
<1>2. ASSUME NEW d \in Groups, NEW s \in Specs[d], CreateCR(d, s)
      PROVE  ObjMove(g)
  BY <1>1, <1>2 DEF CreateCR, NewCR, ObjMove, Unchanged
<1>3. ASSUME NEW d \in Groups, NEW s \in Specs[d], EditSpec(d, s)
      PROVE  ObjMove(g)
  BY <1>1, <1>3 DEF EditSpec, ObjMove, Unchanged, CR
<1>4. ASSUME NEW d \in Groups, RequestDelete(d)
      PROVE  ObjMove(g)
  BY <1>1, <1>4, NoCRFields DEF RequestDelete, ObjMove, Unchanged, LiveHeld, CR
<1>5. CASE obj' = obj
  BY <1>5 DEF ObjMove, Unchanged
<1>6. QED
  BY <1>2, <1>3, <1>4, <1>5, WorkerMoves DEF Next, Environment, Begin, CacheSync,
     CallFails, Crash, FlipInstance

\* A copy is only ever replaced by what is stored.
LEMMA CacheMoves ==
    ASSUME TypeOK, Next, NEW g \in Groups
    PROVE  cache'[g] = cache[g] \/ cache'[g] = obj'[g]
<1>1. cache' = cache \/ cache' = obj' \/ \E d \in Groups : CacheSync(d)
  BY DEF Next, Environment, Begin, CallFails, Crash, Worker, AddFinalizer,
     DeleteRemote, RemoveFinalizer, Resolve, Create, Update, Finish,
     WriteErrorStatus, CreateCR, EditSpec, RequestDelete, FlipInstance
<1>2. ASSUME NEW d \in Groups, CacheSync(d)
      PROVE  cache'[g] = cache[g] \/ cache'[g] = obj'[g]
  BY <1>2, StateTypes DEF CacheSync
<1>3. QED
  BY <1>1, <1>2

\* A job starts with the copy seen, and keeps it until AddFinalizer.
JobStart ==
    /\ job.pc = "idle"
    /\ UNCHANGED <<obj, cache, remote>>
    /\ \E g \in Groups :
         /\ job'.c = g /\ job'.base = cache[g] /\ job'.mem = cache[g]
         /\ job'.id = None
         /\ cache[g].state # "absent"
         /\ \/ job'.pc = "errorStatus"
            \/ /\ job'.pc = "deleteRemote" /\ cache[g].groupID # None
               /\ cache[g].state = "deleting"
            \/ /\ job'.pc = "removeFinalizer" /\ cache[g].groupID = None
               /\ cache[g].state = "deleting"
            \/ job'.pc = "addFinalizer" /\ cache[g].state = "live"
            \/ job'.pc = "resolve" /\ LiveHeld(cache[g])

\* AddFinalizer succeeded.
JobFinalizer ==
    /\ At("addFinalizer") /\ Current
    /\ obj' = [obj EXCEPT ![job.c].finalizer = TRUE] /\ UNCHANGED cache
    /\ job' = [job EXCEPT !.pc = "resolve", !.base.finalizer = TRUE,
                          !.mem.finalizer = TRUE]

\* The job keeps its copy of the resource, as far as the invariant sees.
SameCopy ==
    /\ job'.c = job.c /\ job'.base = job.base
    /\ job'.mem.state = job.mem.state /\ job'.mem.spec = job.mem.spec
    /\ job'.mem.finalizer = job.mem.finalizer

\* The job goes on past the finalizer, or calls PocketID to delete.
JobOn ==
    /\ job.pc # "idle"
    /\ SameCopy
    /\ \/ job'.pc = job.pc
       \/ job'.pc = "errorStatus"
       \/ job.pc \in AfterFinalizer /\ job'.pc \in AfterFinalizer
       \/ job.pc = "deleteRemote" /\ job'.pc = "removeFinalizer"

\* How the job changes.
JobMove == job'.pc = "idle" \/ JobStart \/ JobFinalizer \/ JobOn

\* Goto keeps the copy.
LEMMA JobGoesOn ==
    ASSUME TypeOK, NEW pc \in Busy, job.pc # "idle", Goto(pc)
    PROVE  SameCopy /\ job'.pc = pc
  BY BusyJob DEF Goto, SameCopy, Job

\* Every step of the worker moves the job in those ways.
LEMMA JobMovesWorker ==
    ASSUME TypeOK, Worker
    PROVE  JobMove
<1>1. /\ job \in Job /\ job.mem \in CR /\ job.pc # "idle"
  BY BusyJob DEF Worker, AddFinalizer, DeleteRemote, RemoveFinalizer, Resolve, Create,
     Update, Finish, WriteErrorStatus, At
<1>2. CASE Done
  BY <1>2 DEF Done, Idle, JobMove
<1>3. ASSUME Goto("errorStatus")
      PROVE  JobMove
  BY <1>1, <1>3, JobGoesOn DEF JobMove, JobOn, Busy
<1>4. ASSUME NEW pc \in AfterFinalizer, Goto(pc), job.pc \in AfterFinalizer
      PROVE  JobMove
  <2>1. pc \in Busy
    BY DEF Busy
  <2>2. SameCopy /\ job'.pc = pc
    BY <1>1, <1>4, <2>1, JobGoesOn
  <2>3. QED
    BY <1>1, <1>4, <2>2 DEF JobMove, JobOn
<1>5. CASE AddFinalizer
  BY <1>2, <1>5 DEF AddFinalizer, JobMove, JobFinalizer
<1>6. CASE DeleteRemote
  <2>1. CASE Goto("removeFinalizer")
    BY <1>1, <1>6, <2>1, JobGoesOn DEF DeleteRemote, JobMove, JobOn, Busy, At
  <2>2. QED
    BY <1>3, <1>6, <2>1 DEF DeleteRemote
<1>7. CASE RemoveFinalizer \/ Finish \/ WriteErrorStatus
  BY <1>2, <1>7 DEF RemoveFinalizer, Finish, WriteErrorStatus
<1>8. CASE Resolve
  <2>1. ASSUME NEW i, job' = [job EXCEPT !.pc = "update", !.id = i]
        PROVE  JobMove
    BY <1>1, <1>8, <2>1 DEF Resolve, At, JobMove, JobOn, SameCopy, AfterFinalizer,
       Resolved, Job
  <2>2. CASE Goto("create")
    BY <1>4, <1>8, <2>2 DEF Resolve, At, AfterFinalizer
  <2>3. QED
    BY <1>3, <1>8, <2>1, <2>2 DEF Resolve
<1>9. ASSUME NEW i \in Ids, Create(i)
      PROVE  JobMove
  <2>1. CASE job' = [job EXCEPT !.pc = "finish", !.id = i, !.mem.groupID = i]
    BY <1>1, <1>9, <2>1 DEF Create, At, JobMove, JobOn, SameCopy, AfterFinalizer,
       Resolved, Job, CR
  <2>2. QED
    BY <1>3, <1>9, <2>1 DEF Create
<1>10. CASE Update
  <2>1. CASE Goto("finish")
    BY <1>4, <1>10, <2>1 DEF Update, At, AfterFinalizer, Resolved
  <2>2. QED
    BY <1>3, <1>10, <2>1 DEF Update
<1>11. QED
  BY <1>5, <1>6, <1>7, <1>8, <1>9, <1>10 DEF Worker

\* Every step moves the job so.
LEMMA JobMoves ==
    ASSUME TypeOK, Next
    PROVE  JobMove
<1>1. ASSUME NEW g \in Groups, Begin(g)
      PROVE  JobMove
  <2>1. /\ job.pc = "idle" /\ UNCHANGED <<obj, cache, remote>>
        /\ cache[g].state # "absent"
    BY <1>1 DEF Begin, Idle
  <2>2. \E pc \in Busy :
          /\ Start(g, pc)
          /\ \/ pc = "errorStatus"
             \/ /\ pc = "deleteRemote" /\ cache[g].groupID # None
                /\ cache[g].state = "deleting"
             \/ /\ pc = "removeFinalizer" /\ cache[g].groupID = None
                /\ cache[g].state = "deleting"
             \/ pc = "addFinalizer" /\ cache[g].state = "live"
             \/ pc = "resolve" /\ LiveHeld(cache[g])
    BY <1>1 DEF Begin, Busy, AfterFinalizer, LiveHeld
  <2>3. QED
    BY <2>1, <2>2 DEF Start, JobMove, JobStart
<1>2. CASE CallFails
  <2>1. CASE Done
    BY <2>1 DEF Done, Idle, JobMove
  <2>2. CASE Goto("errorStatus") /\ job.pc # "idle"
    BY <2>2, JobGoesOn DEF JobMove, JobOn, Busy
  <2>3. QED
    BY <1>2, <2>1, <2>2 DEF CallFails, At
<1>3. CASE Crash
  BY <1>3 DEF Crash, Done, Idle, JobMove
<1>4. CASE job' = job
  BY <1>4 DEF JobMove, JobOn, SameCopy
<1>5. QED
  BY <1>1, <1>2, <1>3, <1>4, JobMovesWorker DEF Next, Environment, CacheSync,
     CreateCR, EditSpec, RequestDelete, FlipInstance

-------------------------------------------------------------------------------
(* The invariant is inductive. *)

\* It holds initially.
LEMMA FinalizerInit == Init => FinalizerInv
  BY NoCRFields DEF Init, FinalizerInv, CopiesInv, JobInv, Idle,
     LiveHeld, Held

\* Every step preserves what copies say of the finalizer.
LEMMA CopiesStep ==
    ASSUME TypeOK, FinalizerInv, Next
    PROVE  CopiesInv'
<1>1. SUFFICES ASSUME NEW g \in Groups
               PROVE  /\ LiveHeld(cache'[g]) => Held(obj'[g])
                      /\ cache'[g].state = "deleting" => ~LiveHeld(obj'[g])
  BY DEF CopiesInv, LiveHeld, Held
<1>2. ObjMove(g) /\ obj[g] \in CR /\ obj'[g] \in CR
  BY ObjMoves, TypeStep, StateTypes DEF FinalizerInv, TypeOK
<1>3. CASE cache'[g] = obj'[g]
  BY <1>3 DEF LiveHeld, Held
<1>4. CASE cache'[g] = cache[g]
  <2>1. /\ LiveHeld(cache[g]) => Held(obj[g])
        /\ cache[g].state = "deleting" => ~LiveHeld(obj[g])
    BY DEF FinalizerInv, CopiesInv
  <2>2. At("removeFinalizer") /\ job.c = g => ~LiveHeld(cache[g])
    BY DEF FinalizerInv, JobInv, At
  <2>3. At("addFinalizer") /\ job.c = g /\ Current
          => obj[g].state = "live" /\ cache[g].state # "deleting"
    BY DEF FinalizerInv, JobInv, At, Current
  <2>4. QED
    BY <1>2, <1>4, <2>1, <2>2, <2>3 DEF ObjMove, Unchanged, LiveHeld, Held
<1>5. QED
  BY <1>3, <1>4, CacheMoves

\* Every step preserves JobInv.
LEMMA JobStep ==
    ASSUME TypeOK, FinalizerInv, Next
    PROVE  JobInv'
<1>1. CASE job'.pc = "idle"
  BY <1>1 DEF JobInv
<1>2. CASE JobStart
  <2>1. PICK g \in Groups :
          /\ job'.c = g /\ job'.base = cache[g] /\ job'.mem = cache[g]
          /\ cache[g].state # "absent"
          /\ \/ job'.pc = "errorStatus"
             \/ /\ job'.pc \in {"deleteRemote", "removeFinalizer"}
                /\ cache[g].state = "deleting"
             \/ /\ job'.pc = "addFinalizer"
                /\ cache[g].state = "live"
             \/ job'.pc = "resolve" /\ LiveHeld(cache[g])
    BY <1>2 DEF JobStart
  <2>2. obj' = obj /\ cache'[g] = cache[g]
    BY <1>2 DEF JobStart
  <2>3. /\ LiveHeld(cache[g]) => Held(obj[g])
        /\ cache[g].state = "deleting" => ~LiveHeld(obj[g])
    BY DEF FinalizerInv, CopiesInv
  <2>4. /\ job'.pc \in AfterFinalizer => job'.pc = "resolve"
    BY <2>1 DEF AfterFinalizer, Resolved
  <2>5. QED
    BY <2>1, <2>2, <2>3, <2>4 DEF JobInv, LiveHeld
<1>3. CASE JobFinalizer
  <2>1. job \in Job /\ job.c \in Groups /\ job.base \in CR /\ job.mem \in CR
    BY <1>3, BusyJob DEF JobFinalizer, At
  <2>2. /\ job'.pc = "resolve" /\ job'.c = job.c
        /\ job'.base = [job.base EXCEPT !.finalizer = TRUE]
        /\ job'.mem = [job.mem EXCEPT !.finalizer = TRUE]
    BY <1>3, <2>1 DEF JobFinalizer, Job
  <2>3. /\ job.base.state = "live" /\ job.mem.state = "live"
        /\ job.mem.spec = job.base.spec
    BY <1>3 DEF JobFinalizer, FinalizerInv, JobInv, At
  <2>4. obj'[job.c].state = "live" /\ obj'[job.c].finalizer
    BY <1>3, <2>1, <2>3, StateTypes DEF JobFinalizer, Current, CR
  <2>5. QED
    BY <2>1, <2>2, <2>3, <2>4 DEF JobInv, LiveHeld, Held, CR
<1>4. CASE JobOn /\ job'.pc # "idle"
  <2>1. job.c \in Groups /\ job'.c = job.c /\ job'.base = job.base
    BY <1>4, BusyJob DEF JobOn, SameCopy
  <2>2. ObjMove(job.c) /\ obj[job.c] \in CR /\ obj'[job.c] \in CR
    BY <2>1, ObjMoves, TypeStep, StateTypes DEF FinalizerInv, TypeOK
  <2>3. \/ cache'[job.c] = cache[job.c]
        \/ cache'[job.c] = obj'[job.c]
    BY <2>1, CacheMoves
  <2>4. /\ LiveHeld(job.base) => Held(obj[job.c])
        /\ job.base.state = "deleting" =>
              ~LiveHeld(obj[job.c]) /\ ~LiveHeld(cache[job.c])
        /\ job.pc = "addFinalizer" =>
              /\ job.base.state = "live"
              /\ cache[job.c].state = "deleting" => obj[job.c].state = "deleting"
        /\ job.pc \in AfterFinalizer => LiveHeld(job.base)
        /\ job.pc \in {"deleteRemote", "removeFinalizer"} =>
              job.base.state = "deleting"
    BY <1>4 DEF FinalizerInv, JobInv, JobOn
  <2>5. LiveHeld(job.base) => Held(obj'[job.c])
    BY <1>4, <2>2, <2>4 DEF ObjMove, Unchanged, LiveHeld, Held, At
  <2>6. job.base.state = "deleting" =>
           ~LiveHeld(obj'[job.c]) /\ ~LiveHeld(cache'[job.c])
    BY <2>2, <2>3, <2>4 DEF ObjMove, Unchanged, LiveHeld, At
  <2>7. job.pc = "addFinalizer" =>
           (cache'[job.c].state = "deleting" => obj'[job.c].state = "deleting")
    BY <2>2, <2>3, <2>4 DEF ObjMove, Unchanged, LiveHeld, At, Current
  <2>8. /\ job'.pc \in AfterFinalizer => job.pc \in AfterFinalizer
        /\ job'.pc = "addFinalizer" => job.pc = "addFinalizer"
        /\ job'.pc \in {"deleteRemote", "removeFinalizer"}
              => job.pc \in {"deleteRemote", "removeFinalizer"}
    BY <1>4 DEF JobOn, AfterFinalizer, Resolved
  <2>9. /\ job'.base.state # "absent"
         /\ job'.mem.state = job'.base.state
         /\ job'.mem.finalizer = job'.base.finalizer
         /\ job'.mem.spec = job'.base.spec
    BY <1>4 DEF JobOn, SameCopy, FinalizerInv, JobInv
  <2>10. QED
    BY <2>1, <2>4, <2>5, <2>6, <2>7, <2>8, <2>9 DEF JobInv, LiveHeld,
       Held
<1>5. QED
  BY <1>1, <1>2, <1>3, <1>4, JobMoves DEF JobMove

\* The invariant is inductive.
LEMMA FinalizerStep == TypeOK /\ FinalizerInv /\ [Next]_vars => FinalizerInv'
<1>1. CASE UNCHANGED vars
  BY <1>1 DEF vars, FinalizerInv, CopiesInv, JobInv, LiveHeld, Held
<1>2. QED
  BY <1>1, CopiesStep, JobStep DEF FinalizerInv
-------------------------------------------------------------------------------
(* Ownership: every group of PocketID belongs to one resource. *)

\* Specs are those users gave to the resource, in every copy.
SpecsInv ==
    /\ \A g \in Groups :
         obj[g].spec \in Specs[g] /\ cache[g].spec \in Specs[g]
    /\ job.pc # "idle" => job.base.spec \in Specs[job.c]

\* An id that g knows of was given by PocketID to a group of one of g's names.
Named(g, i) ==
    i # None => remote[i].state # "unused" /\ remote[i].name \in NamesOf(g)

\* Every id that a resource, a copy of it or its job holds is Named.
NamesInv ==
    /\ \A g \in Groups :
         Named(g, obj[g].groupID) /\ Named(g, cache[g].groupID)
    /\ job.pc # "idle" =>
         /\ Named(job.c, job.base.groupID) /\ Named(job.c, job.mem.groupID)
         /\ Named(job.c, job.id)

\* Without finalizer nothing is recorded.
RecordsInv == \A g \in Groups : ~Held(obj[g]) => obj[g].groupID = None

\* A copy of a deletion that is over names a group that is gone.
DeletionsInv ==
    /\ \A g \in Groups :
         LET o == cache[g] IN
         (o.state = "deleting" /\ o.groupID # None
            /\ remote[o.groupID].state = "live") => obj[g].state = "deleting"
    /\ (job.pc # "idle" /\ job.base.state = "deleting") =>
         /\ (job.base.groupID # None /\ remote[job.base.groupID].state = "live")
               => obj[job.c].state = "deleting"
         /\ Current => cache[job.c] = job.base
         /\ job.pc = "deleteRemote" => job.base.groupID # None
         /\ (job.pc = "removeFinalizer" /\ job.base.groupID # None)
               => remote[job.base.groupID].state = "deleted"

\* The group the worker acts on exists, and so does one that it is about to
\* record for the first time.
ActingInv ==
    job.pc # "idle" =>
        /\ job.pc \in Resolved => remote[job.id].state = "live"
        /\ job.mem.groupID # job.base.groupID =>
              /\ LiveHeld(job.base) /\ job.mem.groupID # None
              /\ remote[job.mem.groupID].state = "live"

\* The parts of the invariant, with the property they are for.
OwnershipInv == /\ SpecsInv /\ NamesInv /\ RecordsInv /\ DeletionsInv
                /\ ActingInv /\ RecordedLive

\* All that the inductive step may assume.
AllInv == TypeOK /\ FinalizerInv /\ OwnershipInv
-------------------------------------------------------------------------------
(* What a step can do to the ids that resources, copies and the job hold. *)

\* What the worker makes of the group with id i.
RemoteMove(i) ==
    \/ remote'[i].state = remote[i].state /\ remote'[i].name = remote[i].name
    \/ /\ At("create") /\ remote[i].state = "unused"
       /\ remote'[i].state = "live" /\ remote'[i].name = job.mem.spec.name
    \/ /\ At("update") /\ job.id = i
       /\ remote'[i].state = remote[i].state
       /\ remote'[i].name = job.mem.spec.name
    \/ /\ At("deleteRemote") /\ job.base.groupID = i
       /\ remote'[i].state = "deleted" /\ remote'[i].name = remote[i].name

\* Every step moves every group of PocketID in those ways.
LEMMA RemoteMoves ==
    ASSUME TypeOK, Next, NEW i \in Ids
    PROVE  RemoteMove(i)
<1>1. remote \in [Ids -> Remote] /\ remote[i] \in Remote
  BY StateTypes
<1>2. CASE DeleteRemote
  BY <1>1, <1>2 DEF DeleteRemote, RemoteMove, Remote
<1>3. ASSUME NEW j \in Ids, Create(j)
      PROVE  RemoteMove(i)
  BY <1>1, <1>3 DEF Create, RemoteMove
<1>4. CASE remote' = remote
  BY <1>4 DEF RemoteMove
<1>5. CASE Update
  <2>1. CASE remote' = [remote EXCEPT ![job.id] =
                          [remote[job.id] EXCEPT !.name = job.mem.spec.name,
                                                 !.label = job.mem.spec.label]]
    <3>1. CASE job.id = i
      BY <1>1, <1>5, <2>1, <3>1 DEF Update, RemoteMove, Remote
    <3>2. CASE job.id # i
      BY <1>1, <2>1, <3>2 DEF RemoteMove
    <3>3. QED
      BY <3>1, <3>2
  <2>2. QED
    BY <1>4, <1>5, <2>1 DEF Update
<1>6. QED
  BY <1>2, <1>3, <1>4, <1>5 DEF Next, Worker, Environment, Begin,
     CacheSync, CallFails, Crash,
     AddFinalizer, RemoveFinalizer, Resolve, Finish, WriteErrorStatus, CreateCR, EditSpec,
     RequestDelete, FlipInstance

\* How the id a resource records changes.
RecordMove(g) ==
    /\ obj'[g].spec \in Specs[g]
    /\ \/ /\ obj'[g].groupID = obj[g].groupID
          /\ Held(obj[g]) => Held(obj'[g])
       \/ obj'[g].groupID = None /\ ~Held(obj'[g])
       \/ /\ At("finish") /\ job.c = g /\ job'.pc = "idle"
          /\ obj'[g].groupID = job.id /\ Unchanged(g)
       \/ /\ At("errorStatus") /\ job.c = g /\ job'.pc = "idle" /\ Current
          /\ obj'[g].groupID = job.mem.groupID /\ Unchanged(g)

\* Every step moves every recorded id in those ways.
LEMMA RecordMoves ==
    ASSUME AllInv, Next, NEW g \in Groups
    PROVE  RecordMove(g)
<1>1. /\ TypeOK /\ obj \in [Groups -> CR] /\ obj[g] \in CR
      /\ obj[g].spec \in Specs[g]
  BY StateTypes DEF AllInv, OwnershipInv, SpecsInv
<1>2. CASE obj' = obj
  BY <1>1, <1>2 DEF RecordMove
<1>3. CASE AddFinalizer
  <2>1. CASE obj' = [obj EXCEPT ![job.c].finalizer = TRUE]
    BY <1>1, <2>1 DEF RecordMove, CR, Held
  <2>2. QED
    BY <1>2, <1>3, <2>1 DEF AddFinalizer
<1>4. CASE RemoveFinalizer
  <2>1. job.c \in Groups
    BY <1>1, <1>4, BusyJob DEF RemoveFinalizer, At
  <2>2. CASE obj' = [obj EXCEPT ![job.c] = NoCR(job.c)]
    BY <1>1, <2>1, <2>2, NoCRFields DEF RecordMove, Held
  <2>3. QED
    BY <1>2, <1>4, <2>2 DEF RemoveFinalizer
<1>5. CASE Finish
  <2>1. CASE obj' # obj
    <3>1. obj' = [obj EXCEPT ![job.c] =
                    [obj[job.c] EXCEPT !.groupID = job.id, !.ready = TRUE,
                                       !.observed = TRUE]]
      BY <1>5, <2>1 DEF Finish
    <3>2. At("finish") /\ job.c \in Groups /\ job'.pc = "idle"
      BY <1>1, <1>5, BusyJob DEF Finish, At, Done, Idle
    <3>3. CASE job.c = g
      BY <1>1, <3>1, <3>2, <3>3 DEF RecordMove, CR, Unchanged
    <3>4. CASE job.c # g
      BY <1>1, <3>1, <3>4 DEF RecordMove
    <3>5. QED
      BY <3>3, <3>4
  <2>2. QED
    BY <1>2, <2>1
<1>6. CASE WriteErrorStatus
  <2>1. /\ At("errorStatus") /\ job.c \in Groups /\ job'.pc = "idle"
        /\ job.mem \in CR /\ job.mem.spec = job.base.spec
        /\ job.mem.state = job.base.state
        /\ job.mem.finalizer = job.base.finalizer
        /\ job.base.spec \in Specs[job.c]
    BY <1>1, <1>6, BusyJob DEF WriteErrorStatus, At, Done, Idle, AllInv,
       FinalizerInv, JobInv, OwnershipInv, SpecsInv
  <2>2. CASE Current
    <3>1. obj' = [obj EXCEPT ![job.c] =
                    [job.mem EXCEPT !.ready = FALSE, !.observed = TRUE]]
      BY <1>6, <2>2 DEF WriteErrorStatus
    <3>2. CASE job.c = g
      BY <1>1, <2>1, <2>2, <3>1, <3>2 DEF RecordMove, CR, Current, Unchanged
    <3>3. CASE job.c # g
      BY <1>1, <3>1, <3>3 DEF RecordMove
    <3>4. QED
      BY <3>2, <3>3
  <2>3. QED
    BY <1>2, <1>6, <2>2 DEF WriteErrorStatus
<1>7. ASSUME NEW d \in Groups, NEW s \in Specs[d], CreateCR(d, s)
      PROVE  RecordMove(g)
  BY <1>1, <1>7 DEF CreateCR, NewCR, RecordMove, Held
<1>8. ASSUME NEW d \in Groups, NEW s \in Specs[d], EditSpec(d, s)
      PROVE  RecordMove(g)
  BY <1>1, <1>8 DEF EditSpec, RecordMove, Held, CR
<1>9. ASSUME NEW d \in Groups, RequestDelete(d)
      PROVE  RecordMove(g)
  <2>1. CASE obj' = [obj EXCEPT ![d] = NoCR(d)]
    BY <1>1, <2>1, NoCRFields DEF RecordMove, Held
  <2>2. CASE obj' = [obj EXCEPT ![d].state = "deleting"]
    BY <1>1, <2>2 DEF RecordMove, Held, CR
  <2>3. QED
    BY <1>9, <2>1, <2>2 DEF RequestDelete
<1>10. QED
  BY <1>2, <1>3, <1>4, <1>5, <1>6, <1>7, <1>8, <1>9 DEF Next, Worker, Environment,
     Begin, CacheSync,
     CallFails, Crash, DeleteRemote, Resolve, Create, Update,
     FlipInstance

\* How the ids the job holds change while it goes on.
IdsStay ==
    /\ job'.id = job.id /\ job'.mem.groupID = job.mem.groupID
    /\ job'.pc \in Resolved => job.pc \in Resolved
    /\ job'.pc = "deleteRemote" => job.pc = "deleteRemote"
    /\ job'.pc = "removeFinalizer" =>
          \/ job.pc = "removeFinalizer"
          \/ /\ At("deleteRemote")
             /\ job.base.groupID # None
                   => remote'[job.base.groupID].state = "deleted"

\* Resolve found the id: recorded or looked up.
IdFound ==
    /\ At("resolve") /\ job'.pc = "update" /\ remote' = remote
    /\ job'.mem.groupID = job.mem.groupID
    /\ job'.id \in Live
    /\ \/ job'.id = job.mem.groupID
       \/ remote[job'.id].name = job.mem.spec.name

\* Create got the id from PocketID.
IdCreated ==
    /\ At("create") /\ job'.pc = "finish"
    /\ \E i \in Ids : /\ remote'[i].state = "live"
                      /\ remote'[i].name = job.mem.spec.name
                      /\ job'.id = i /\ job'.mem.groupID = i

\* Begin knows no more than the copy in the cache.
IdStart ==
    /\ job.pc = "idle" /\ remote' = remote
    /\ job'.id = None
    /\ job'.pc \notin Resolved
    /\ job'.pc = "deleteRemote" => job'.base.groupID # None
    /\ job'.pc = "removeFinalizer" => job'.base.groupID = None

\* How the ids that the job holds change.
IdsMove == \/ job'.pc = "idle"
           \/ IdStart
           \/ job.pc # "idle" /\ (IdsStay \/ IdFound \/ IdCreated)

\* Going to another call keeps the ids.
LEMMA IdsOnGoto ==
    ASSUME TypeOK, job.pc # "idle", NEW pc \in Busy, Goto(pc),
           pc \notin {"deleteRemote", "removeFinalizer"},
           pc \in Resolved => job.pc \in Resolved
    PROVE  IdsMove
  BY BusyJob DEF Goto, IdsMove, IdsStay, Job

\* Every step of the worker moves the ids of the job in those ways.
LEMMA IdsMovesWorker ==
    ASSUME TypeOK, Worker
    PROVE  IdsMove
<1>1. /\ job \in Job /\ job.mem \in CR /\ job.base \in CR /\ job.pc # "idle"
  BY BusyJob DEF Worker, AddFinalizer, DeleteRemote, RemoveFinalizer, Resolve,
     Create, Update, Finish, WriteErrorStatus, At
<1>2. CASE Done
  BY <1>2 DEF Done, Idle, IdsMove
<1>3. ASSUME Goto("errorStatus")
      PROVE  IdsMove
  BY <1>1, <1>3, IdsOnGoto DEF Busy, Resolved
<1>4. ASSUME NEW pc \in Resolved, Goto(pc), job.pc \in Resolved
      PROVE  IdsMove
  BY <1>1, <1>4, IdsOnGoto DEF Busy, AfterFinalizer, Resolved
<1>5. CASE AddFinalizer
  <2>1. CASE job' = [job EXCEPT !.pc = "resolve", !.base.finalizer = TRUE,
                                !.mem.finalizer = TRUE]
    BY <1>1, <2>1 DEF IdsMove, IdsStay, Job, CR, Resolved
  <2>2. QED
    BY <1>2, <1>5, <2>1 DEF AddFinalizer
<1>6. CASE DeleteRemote
  <2>1. CASE Goto("removeFinalizer")
    <3>1. job.base.groupID # None
             => remote'[job.base.groupID].state = "deleted"
      BY <1>1, <1>6, StateTypes DEF DeleteRemote, CR, Remote
    <3>2. QED
      BY <1>1, <1>6, <2>1, <3>1 DEF DeleteRemote, Goto, IdsMove, IdsStay, Job,
         Resolved
  <2>2. QED
    BY <1>3, <1>6, <2>1 DEF DeleteRemote
<1>7. CASE RemoveFinalizer \/ Finish \/ WriteErrorStatus
  BY <1>2, <1>7 DEF RemoveFinalizer, Finish, WriteErrorStatus
<1>8. CASE Resolve
  <2>1. At("resolve") /\ remote' = remote
    BY <1>8 DEF Resolve
  <2>2. ASSUME NEW i \in Live, job' = [job EXCEPT !.pc = "update", !.id = i],
               i = job.mem.groupID \/ remote[i].name = job.mem.spec.name
        PROVE  IdsMove
    BY <1>1, <2>1, <2>2 DEF IdsMove, IdFound, Job
  <2>3. CASE Goto("create")
    BY <1>1, <2>3, IdsOnGoto DEF Busy, AfterFinalizer, Resolved
  <2>4. CASE job.mem.groupID # None
    BY <1>3, <1>8, <2>2, <2>4 DEF Resolve
  <2>5. CASE job.mem.groupID = None
    <3>1. PICK page \in Pages :
            LET named == {i \in page : remote[i].name = job.mem.spec.name} IN
            \/ \E i \in named : job' = [job EXCEPT !.pc = "update", !.id = i]
            \/ named = {} /\ Goto("create")
      BY <1>8, <2>5 DEF Resolve
    <3>2. page \subseteq Live
      BY DEF Pages
    <3>3. QED
      BY <2>2, <2>3, <3>1, <3>2
  <2>6. QED
    BY <2>4, <2>5
<1>9. ASSUME NEW i \in Ids, Create(i)
       PROVE  IdsMove
  <2>1. CASE job' = [job EXCEPT !.pc = "finish", !.id = i, !.mem.groupID = i]
    <3>1. /\ job'.pc = "finish" /\ job'.id = i /\ job'.mem.groupID = i
      BY <1>1, <2>1 DEF Job, CR
    <3>2. /\ remote'[i].state = "live" /\ remote'[i].name = job.mem.spec.name
      BY <1>9, StateTypes DEF Create
    <3>3. At("create")
      BY <1>9 DEF Create
    <3>4. QED
      BY <1>1, <3>1, <3>2, <3>3 DEF IdsMove, IdCreated
  <2>2. QED
    BY <1>3, <1>9, <2>1 DEF Create
<1>10. CASE Update
  BY <1>3, <1>4, <1>10 DEF Update, At, Resolved
<1>11. QED
  BY <1>5, <1>6, <1>7, <1>8, <1>9, <1>10 DEF Worker

\* Every step moves them so.
LEMMA IdsMoves ==
    ASSUME TypeOK, Next
    PROVE  IdsMove
<1>1. ASSUME NEW g \in Groups, Begin(g)
      PROVE  IdsMove
  <2>1. job.pc = "idle" /\ remote' = remote
    BY <1>1 DEF Begin, Idle
  <2>2. \E pc \in {"errorStatus", "deleteRemote", "removeFinalizer",
                   "addFinalizer", "resolve"} :
          /\ Start(g, pc)
          /\ pc = "deleteRemote" => cache[g].groupID # None
          /\ pc = "removeFinalizer" => cache[g].groupID = None
    BY <1>1 DEF Begin
  <2>3. QED
    BY <2>1, <2>2 DEF Start, IdsMove, IdStart, Resolved
<1>2. CASE CallFails
  <2>1. CASE Done
    BY <2>1 DEF Done, Idle, IdsMove
  <2>2. CASE Goto("errorStatus") /\ job.pc # "idle"
    BY <2>2, IdsOnGoto DEF Busy, Resolved
  <2>3. QED
    BY <1>2, <2>1, <2>2 DEF CallFails, At
<1>3. CASE Crash
  BY <1>3 DEF Crash, Done, Idle, IdsMove
<1>4. CASE job' = job
  BY <1>4 DEF IdsMove, IdsStay
<1>5. QED
  BY <1>1, <1>2, <1>3, <1>4, IdsMovesWorker DEF Next, Environment,
     CacheSync, CreateCR, EditSpec,
     RequestDelete, FlipInstance

\* A job that goes on keeps its resource and the copy it started from, but for
\* the finalizer.
LEMMA JobKeeps ==
    ASSUME AllInv, Next, job.pc # "idle", job'.pc # "idle"
    PROVE  /\ job.c \in Groups /\ job'.c = job.c
           /\ job'.base.groupID = job.base.groupID
           /\ job'.base.spec = job.base.spec /\ job'.base.state = job.base.state
           /\ job'.mem.spec = job.mem.spec
           /\ LiveHeld(job.base) => LiveHeld(job'.base)
           /\ job'.base = job.base \/ job.base.state = "live"
           /\ IdsStay \/ IdFound \/ IdCreated
<1>1. TypeOK /\ job \in Job /\ job.c \in Groups /\ job.base \in CR /\ job.mem \in CR
  BY BusyJob DEF AllInv
<1>2. IdsStay \/ IdFound \/ IdCreated
  BY <1>1, IdsMoves DEF IdsMove, IdStart
<1>3. CASE JobFinalizer
  <2>1. /\ job'.c = job.c
        /\ job'.base = [job.base EXCEPT !.finalizer = TRUE]
        /\ job'.mem = [job.mem EXCEPT !.finalizer = TRUE]
    BY <1>1, <1>3 DEF JobFinalizer, Job
  <2>2. job.base.state = "live"
    BY <1>3 DEF JobFinalizer, AllInv, FinalizerInv, JobInv, At
  <2>3. QED
    BY <1>1, <1>2, <2>1, <2>2 DEF LiveHeld, CR
<1>4. CASE JobOn
  BY <1>1, <1>2, <1>4 DEF JobOn, SameCopy
<1>5. QED
  BY <1>1, <1>3, <1>4, JobMoves DEF JobMove, JobStart

\* An idle worker starts from the copy in the cache, and writes nothing.
LEMMA JobStarts ==
    ASSUME AllInv, Next, job.pc = "idle", job'.pc # "idle"
    PROVE  /\ UNCHANGED <<obj, remote>> /\ IdStart
           /\ \E g \in Groups : /\ job'.c = g /\ cache'[g] = cache[g]
                                 /\ job'.base = cache[g]
                                 /\ job'.mem = cache[g]
<1>1. JobStart
  BY JobMoves DEF AllInv, JobMove, JobFinalizer, JobOn, At
<1>2. IdStart
  BY IdsMoves DEF AllInv, IdsMove
<1>3. QED
  BY <1>1, <1>2 DEF JobStart, IdStart

\* A deletion in progress changes only through the worker's own last write.
LEMMA DeletionStays ==
    ASSUME AllInv, Next, job.pc # "idle", job'.pc # "idle",
           obj'[job.c].state = "deleting", ~LiveHeld(obj[job.c])
    PROVE  obj'[job.c] = obj[job.c]
<1>1. job.c \in Groups /\ obj \in [Groups -> CR] /\ obj[job.c] \in CR
  BY BusyJob, StateTypes DEF AllInv
<1>2. CASE AddFinalizer
  <2>1. CASE Current
    <3>1. obj[job.c].state = "live"
      BY <1>2, <2>1 DEF AddFinalizer, Current, AllInv, FinalizerInv, JobInv, At
    <3>2. obj' = [obj EXCEPT ![job.c].finalizer = TRUE]
      BY <1>2, <2>1 DEF AddFinalizer
    <3>3. QED
      BY <1>1, <3>1, <3>2 DEF CR
  <2>2. QED
    BY <1>2, <2>1 DEF AddFinalizer
<1>3. CASE RemoveFinalizer \/ Finish \/ WriteErrorStatus
  BY <1>3 DEF RemoveFinalizer, Finish, WriteErrorStatus, Done, Idle
<1>4. ASSUME NEW d \in Groups, NEW s \in Specs[d], CreateCR(d, s)
      PROVE  obj'[job.c] = obj[job.c]
  BY <1>1, <1>4 DEF CreateCR, NewCR
<1>5. ASSUME NEW d \in Groups, NEW s \in Specs[d], EditSpec(d, s)
      PROVE  obj'[job.c] = obj[job.c]
  BY <1>1, <1>5 DEF EditSpec, CR
<1>6. ASSUME NEW d \in Groups, RequestDelete(d)
      PROVE  obj'[job.c] = obj[job.c]
  BY <1>1, <1>6, NoCRFields DEF RequestDelete, LiveHeld
<1>7. QED
  BY <1>2, <1>3, <1>4, <1>5, <1>6 DEF Next, Worker, Environment, Begin,
     CacheSync, CallFails, Crash,
     DeleteRemote, Resolve, Create, Update, FlipInstance
-------------------------------------------------------------------------------
(* Each part of the invariant is preserved. *)

\* The name the worker acts for is one of its resource's.
LEMMA JobName ==
    ASSUME AllInv, job.pc # "idle"
    PROVE  job.c \in Groups /\ job.mem.spec.name \in NamesOf(job.c)
  BY BusyJob DEF AllInv, FinalizerInv, JobInv, OwnershipInv, SpecsInv, NamesOf

\* Two resources never know the same group.
LEMMA OneOwner ==
    ASSUME NamesDisjoint, NEW g \in Groups, NEW d \in Groups, NEW i \in Ids,
           Named(g, i), Named(d, i)
    PROVE  g = d
  BY GroupNoneAssumption DEF Named, NamesDisjoint

\* Named in the next state.
NamedNext(g, i) ==
    i # None => remote'[i].state # "unused" /\ remote'[i].name \in NamesOf(g)

\* An id stays Named: PocketID never forgets one, and Update keeps its name.
LEMMA NamedStep ==
    ASSUME AllInv, NamesDisjoint \/ NamesFixed, Next,
           NEW g \in Groups, NEW i \in Ids \cup {None}, Named(g, i)
    PROVE  NamedNext(g, i)
<1>1. CASE i = None
  BY <1>1 DEF NamedNext
<1>2. CASE i \in Ids /\ i # None
  <2>1. RemoteMove(i)
    BY <1>2, RemoteMoves DEF AllInv
  <2>2. remote[i].state # "unused" /\ remote[i].name \in NamesOf(g)
    BY <1>2 DEF Named
  <2>3. CASE At("update") /\ job.id = i /\ remote'[i].state = remote[i].state
               /\ remote'[i].name = job.mem.spec.name
    <3>1. job.c \in Groups /\ job.mem.spec.name \in NamesOf(job.c)
      BY <2>3, JobName DEF At
    <3>2. Named(job.c, i)
      BY <2>3 DEF AllInv, OwnershipInv, NamesInv, At
    <3>3. CASE NamesDisjoint
      <4>1. g = job.c
        BY <1>2, <3>1, <3>2, <3>3, OneOwner
      <4>2. QED
        BY <2>2, <2>3, <3>1, <4>1 DEF NamedNext
    <3>4. CASE NamesFixed
      <4>1. remote[i].name = job.mem.spec.name
        BY <1>2, <3>1, <3>2, <3>4 DEF Named, NamesFixed, NamesOf
      <4>2. QED
        BY <2>2, <2>3, <4>1 DEF NamedNext
    <3>5. QED
      BY <3>3, <3>4
  <2>4. QED
    BY <2>1, <2>2, <2>3 DEF RemoteMove, NamedNext
<1>3. QED
  BY <1>1, <1>2

\* Every step preserves SpecsInv.
LEMMA SpecsStep ==
    ASSUME AllInv, Next
    PROVE  SpecsInv'
<1>1. ASSUME NEW g \in Groups
      PROVE  obj'[g].spec \in Specs[g] /\ cache'[g].spec \in Specs[g]
  <2>1. obj'[g].spec \in Specs[g]
    BY RecordMoves DEF RecordMove
  <2>2. cache[g].spec \in Specs[g]
    BY DEF AllInv, OwnershipInv, SpecsInv
  <2>3. cache'[g] = cache[g] \/ cache'[g] = obj'[g]
    BY CacheMoves DEF AllInv
  <2>4. QED
    BY <2>1, <2>2, <2>3
<1>2. ASSUME job'.pc # "idle"
      PROVE  job'.base.spec \in Specs[job'.c]
  <2>1. CASE job.pc = "idle"
    BY <1>2, <2>1, JobStarts DEF AllInv, OwnershipInv, SpecsInv
  <2>2. CASE job.pc # "idle"
    BY <1>2, <2>2, JobKeeps DEF AllInv, OwnershipInv, SpecsInv
  <2>3. QED
    BY <2>1, <2>2
<1>3. QED
  BY <1>1, <1>2 DEF SpecsInv

\* The ids held are ids or None.
LEMMA IdTypes ==
    ASSUME TypeOK
    PROVE  /\ \A g \in Groups : /\ obj[g].groupID \in Ids \cup {None}
                                 /\ cache[g].groupID \in Ids \cup {None}
           /\ job.pc # "idle" =>
                /\ job.c \in Groups
                /\ job.base.groupID \in Ids \cup {None}
                /\ job.mem.groupID \in Ids \cup {None}
                /\ job.id \in Ids \cup {None}
<1>1. ASSUME NEW g \in Groups
      PROVE  /\ obj[g].groupID \in Ids \cup {None}
             /\ cache[g].groupID \in Ids \cup {None}
  BY StateTypes DEF CR
<1>2. ASSUME job.pc # "idle"
      PROVE  /\ job.c \in Groups
             /\ job.base.groupID \in Ids \cup {None}
             /\ job.mem.groupID \in Ids \cup {None}
             /\ job.id \in Ids \cup {None}
  BY <1>2, BusyJob DEF CR
<1>3. QED
  BY <1>1, <1>2

\* Every step preserves NamesInv.
LEMMA NamesStep ==
    ASSUME AllInv, NamesDisjoint \/ NamesFixed, Next
    PROVE  NamesInv'
<1>0. TypeOK /\ NamesInv
  BY DEF AllInv, OwnershipInv
<1>1. ASSUME NEW g \in Groups
      PROVE  NamedNext(g, obj'[g].groupID) /\ NamedNext(g, cache'[g].groupID)
  <2>1. /\ NamedNext(g, obj[g].groupID) /\ NamedNext(g, cache[g].groupID)
    BY <1>0, IdTypes, NamedStep DEF NamesInv
  <2>2. (job.pc # "idle" /\ job.c = g) =>
           NamedNext(g, job.id) /\ NamedNext(g, job.mem.groupID)
    BY <1>0, IdTypes, NamedStep DEF NamesInv
  <2>3. NamedNext(g, obj'[g].groupID)
    BY <2>1, <2>2, RecordMoves DEF RecordMove, At, NamedNext
  <2>4. cache'[g] = cache[g] \/ cache'[g] = obj'[g]
    BY <1>0, CacheMoves
  <2>5. QED
    BY <2>1, <2>3, <2>4
<1>2. ASSUME job'.pc # "idle"
      PROVE  /\ NamedNext(job'.c, job'.base.groupID)
             /\ NamedNext(job'.c, job'.mem.groupID)
             /\ NamedNext(job'.c, job'.id)
  <2>1. CASE job.pc = "idle"
    <3>1. PICK g \in Groups : /\ job'.c = g /\ job'.base = cache[g]
                               /\ job'.mem = cache[g]
      BY <1>2, <2>1, JobStarts
    <3>2. NamedNext(g, cache[g].groupID)
      BY <1>0, IdTypes, NamedStep DEF NamesInv
    <3>3. job'.id = None
      BY <1>2, <2>1, JobStarts DEF IdStart
    <3>4. QED
      BY <3>1, <3>2, <3>3 DEF NamedNext
  <2>2. CASE job.pc # "idle"
    <3>1. /\ NamedNext(job.c, job.base.groupID)
          /\ NamedNext(job.c, job.mem.groupID) /\ NamedNext(job.c, job.id)
      BY <1>0, <2>2, IdTypes, NamedStep DEF NamesInv
    <3>2. job.mem.spec.name \in NamesOf(job.c)
      BY <2>2, JobName
    <3>3. /\ job'.c = job.c /\ job'.base.groupID = job.base.groupID
          /\ IdsStay \/ IdFound \/ IdCreated
      BY <1>2, <2>2, JobKeeps
    <3>4. CASE IdsStay
      BY <3>1, <3>3, <3>4 DEF IdsStay
    <3>5. CASE IdFound
      BY <3>1, <3>2, <3>3, <3>5 DEF IdFound, NamedNext, Live
    <3>6. CASE IdCreated
      BY <3>1, <3>2, <3>3, <3>6 DEF IdCreated, NamedNext
    <3>7. QED
      BY <3>3, <3>4, <3>5, <3>6
  <2>3. QED
    BY <2>1, <2>2
<1>3. QED
  BY <1>1, <1>2 DEF NamesInv, NamedNext, Named

\* Every step preserves RecordsInv.
LEMMA RecordsStep ==
    ASSUME AllInv, Next
    PROVE  RecordsInv'
<1>1. SUFFICES ASSUME NEW g \in Groups, ~Held(obj'[g])
               PROVE  obj'[g].groupID = None
  BY DEF RecordsInv, Held
<1>2. ~Held(obj[g]) => obj[g].groupID = None
  BY DEF AllInv, OwnershipInv, RecordsInv
<1>3. CASE At("finish") /\ job.c = g /\ Unchanged(g)
  BY <1>1, <1>3 DEF At, AfterFinalizer, Resolved, AllInv, FinalizerInv, JobInv,
     LiveHeld, Held, Unchanged
<1>4. CASE /\ At("errorStatus") /\ job.c = g /\ Current /\ Unchanged(g)
           /\ obj'[g].groupID = job.mem.groupID
  <2>1. job.mem.groupID # job.base.groupID => LiveHeld(job.base)
    BY <1>4 DEF At, AllInv, OwnershipInv, ActingInv
  <2>2. QED
    BY <1>1, <1>2, <1>4, <2>1 DEF Current, LiveHeld, Held, Unchanged
<1>5. QED
  BY <1>1, <1>2, <1>3, <1>4, RecordMoves DEF RecordMove

\* What is live after a step that made nothing of it was live before.
LEMMA StillLive ==
    ASSUME AllInv, Next, NEW g \in Groups, NEW i \in Ids,
           Named(g, i), remote'[i].state = "live"
    PROVE  remote[i].state = "live"
  BY RemoteMoves, GroupNoneAssumption DEF AllInv, RemoteMove, Named

\* A deleted group of PocketID never comes back.
LEMMA StillDeleted ==
    ASSUME AllInv, Next, NEW i \in Ids, remote[i].state = "deleted"
    PROVE  remote'[i].state = "deleted"
  BY RemoteMoves DEF AllInv, RemoteMove

\* Only a deletion takes a group away, and only the one its copy names.
LEMMA StaysLive ==
    ASSUME AllInv, Next, NEW i \in Ids, remote[i].state = "live",
           ~(At("deleteRemote") /\ job.base.groupID = i)
    PROVE  remote'[i].state = "live"
  BY RemoteMoves DEF AllInv, RemoteMove

\* Every step preserves DeletionsInv.
LEMMA DeletionsStep ==
    ASSUME AllInv, Next
    PROVE  DeletionsInv'
<1>0. TypeOK /\ NamesInv /\ DeletionsInv /\ JobInv
  BY DEF AllInv, OwnershipInv, FinalizerInv
<1>1. ASSUME NEW g \in Groups, cache'[g].state = "deleting",
             cache'[g].groupID # None,
             remote'[cache'[g].groupID].state = "live"
      PROVE  obj'[g].state = "deleting"
  <2>1. CASE cache'[g] = obj'[g]
    BY <1>1, <2>1
  <2>2. CASE cache'[g] = cache[g]
    <3>1. /\ cache[g].groupID \in Ids /\ Named(g, cache[g].groupID)
      BY <1>0, <1>1, <2>2, IdTypes DEF NamesInv
    <3>2. remote[cache[g].groupID].state = "live"
      BY <1>1, <2>2, <3>1, StillLive
    <3>3. obj[g].state = "deleting"
      BY <1>0, <1>1, <2>2, <3>2 DEF DeletionsInv
    <3>4. ~(At("removeFinalizer") /\ job.c = g /\ Current)
      <4>1. SUFFICES ASSUME At("removeFinalizer"), job.c = g, Current
                     PROVE  FALSE
        OBVIOUS
      <4>2. job.base.state = "deleting" /\ cache[g] = job.base
        BY <1>0, <4>1 DEF At, JobInv, DeletionsInv
      <4>3. remote[job.base.groupID].state = "deleted"
        BY <1>0, <1>1, <2>2, <4>1, <4>2 DEF At, DeletionsInv
      <4>4. QED
        BY <3>2, <4>2, <4>3
    <3>5. QED
      BY <1>0, <3>3, <3>4, ObjMoves DEF ObjMove, Unchanged, LiveHeld
  <2>3. QED
    BY <1>0, <2>1, <2>2, CacheMoves
<1>2. ASSUME job'.pc # "idle", job'.base.state = "deleting"
      PROVE  /\ (job'.base.groupID # None
                   /\ remote'[job'.base.groupID].state = "live")
                     => obj'[job'.c].state = "deleting"
             /\ job'.base = obj'[job'.c] => cache'[job'.c] = job'.base
             /\ job'.pc = "deleteRemote" => job'.base.groupID # None
             /\ (job'.pc = "removeFinalizer" /\ job'.base.groupID # None)
                   => remote'[job'.base.groupID].state = "deleted"
  <2>1. CASE job.pc = "idle"
    <3>1. PICK g \in Groups : /\ job'.c = g /\ cache'[g] = cache[g]
                               /\ job'.base = cache[g]
      BY <1>2, <2>1, JobStarts
    <3>2. UNCHANGED <<obj, remote>> /\ IdStart
      BY <1>2, <2>1, JobStarts
    <3>3. QED
      BY <1>0, <1>2, <3>1, <3>2 DEF DeletionsInv, IdStart
  <2>2. CASE job.pc # "idle"
    <3>1. /\ job.c \in Groups /\ job'.c = job.c /\ job'.base = job.base
          /\ IdsStay \/ IdFound \/ IdCreated
      BY <1>2, <2>2, JobKeeps
    <3>2. /\ job.base.state = "deleting" /\ ~LiveHeld(obj[job.c])
          /\ job.base.groupID \in Ids \cup {None}
          /\ Named(job.c, job.base.groupID)
      BY <1>0, <1>2, <2>2, <3>1, IdTypes DEF JobInv, NamesInv
    <3>3. ASSUME job.base.groupID # None,
                 remote'[job.base.groupID].state = "live"
          PROVE  obj'[job.c].state = "deleting"
      <4>1. remote[job.base.groupID].state = "live"
        BY <3>1, <3>2, <3>3, StillLive
      <4>2. obj[job.c].state = "deleting"
        BY <1>0, <2>2, <3>2, <3>3, <4>1 DEF DeletionsInv
      <4>3. ObjMove(job.c)
        BY <1>0, <3>1, ObjMoves
      <4>4. QED
        BY <1>2, <4>2, <4>3 DEF ObjMove, Unchanged, LiveHeld
    <3>4. ASSUME job.base = obj'[job.c]
          PROVE  cache'[job.c] = job.base
      <4>1. obj'[job.c] = obj[job.c]
        BY <1>2, <2>2, <3>2, <3>4, DeletionStays
      <4>2. cache[job.c] = job.base
        BY <1>0, <2>2, <3>2, <3>4, <4>1 DEF DeletionsInv, Current
      <4>3. cache'[job.c] = cache[job.c] \/ cache'[job.c] = obj'[job.c]
        BY <1>0, <3>1, CacheMoves
      <4>4. QED
        BY <3>4, <4>2, <4>3
    <3>5. job'.pc = "deleteRemote" => job.base.groupID # None
      BY <1>0, <2>2, <3>1, <3>2 DEF IdsStay, IdFound, IdCreated, DeletionsInv
    <3>6. ASSUME job'.pc = "removeFinalizer", job.base.groupID # None
          PROVE  remote'[job.base.groupID].state = "deleted"
      <4>1. CASE job.pc = "removeFinalizer"
        BY <1>0, <2>2, <3>2, <3>6, <4>1, StillDeleted DEF DeletionsInv
      <4>2. QED
        BY <3>1, <3>6, <4>1 DEF IdsStay, IdFound, IdCreated
    <3>7. QED
      BY <3>1, <3>3, <3>4, <3>5, <3>6
  <2>3. QED
    BY <2>1, <2>2
<1>3. QED
  BY <1>1, <1>2 DEF DeletionsInv, Current

\* Every step preserves ActingInv.
LEMMA ActingStep ==
    ASSUME AllInv, Next
    PROVE  ActingInv'
<1>0. TypeOK /\ ActingInv /\ JobInv
  BY DEF AllInv, OwnershipInv, FinalizerInv
<1>1. SUFFICES ASSUME job'.pc # "idle"
               PROVE  /\ job'.pc \in Resolved => remote'[job'.id].state = "live"
                      /\ job'.mem.groupID # job'.base.groupID =>
                            /\ LiveHeld(job'.base) /\ job'.mem.groupID # None
                            /\ remote'[job'.mem.groupID].state = "live"
  BY DEF ActingInv, LiveHeld
<1>2. CASE job.pc = "idle"
  <2>1. IdStart /\ job'.base = job'.mem
    BY <1>1, <1>2, JobStarts
  <2>2. QED
    BY <2>1 DEF IdStart
<1>3. CASE job.pc # "idle"
  <2>1. /\ job'.base.groupID = job.base.groupID
        /\ LiveHeld(job.base) => LiveHeld(job'.base)
        /\ IdsStay \/ IdFound \/ IdCreated
    BY <1>1, <1>3, JobKeeps
  <2>2. At("deleteRemote") => ~LiveHeld(job.base)
    BY <1>0, <1>3 DEF JobInv, LiveHeld, At
  <2>3. ASSUME job.mem.groupID # job.base.groupID
        PROVE  /\ LiveHeld(job'.base) /\ job.mem.groupID # None
               /\ remote'[job.mem.groupID].state = "live"
    <3>1. /\ LiveHeld(job.base) /\ job.mem.groupID # None
          /\ remote[job.mem.groupID].state = "live"
      BY <1>0, <1>3, <2>3 DEF ActingInv
    <3>2. job.mem.groupID \in Ids
      BY <1>0, <1>3, <3>1, IdTypes
    <3>3. QED
      BY <2>1, <2>2, <3>1, <3>2, StaysLive
  <2>4. CASE IdsStay
    <3>1. job'.pc \in Resolved => remote'[job.id].state = "live"
      <4>1. SUFFICES ASSUME job'.pc \in Resolved
                     PROVE  remote'[job.id].state = "live"
        OBVIOUS
      <4>2. job.pc \in Resolved /\ job.id \in Ids /\ remote[job.id].state = "live"
        BY <1>0, <1>3, <2>4, <4>1, BusyJob DEF IdsStay, ActingInv
      <4>3. ~At("deleteRemote")
        BY <4>2 DEF At, Resolved
      <4>4. QED
        BY <4>2, <4>3, StaysLive
    <3>2. QED
      BY <2>1, <2>3, <2>4, <3>1 DEF IdsStay
  <2>5. CASE IdFound
    BY <2>1, <2>3, <2>5 DEF IdFound, Live
  <2>6. CASE IdCreated
    <3>1. LiveHeld(job.base)
      BY <1>0, <2>6 DEF IdCreated, At, JobInv, AfterFinalizer
    <3>2. QED
      BY <2>1, <2>6, <3>1, GroupNoneAssumption DEF IdCreated
  <2>7. QED
    BY <2>1, <2>4, <2>5, <2>6
<1>4. QED
  BY <1>2, <1>3

\* Every step preserves RecordedLive, if no two resources share a name.
LEMMA RecordedStep ==
    ASSUME AllInv, NamesDisjoint, Next
    PROVE  RecordedLive'
<1>0. /\ TypeOK /\ NamesInv /\ RecordsInv /\ ActingInv /\ JobInv
      /\ \A g \in Groups : Fresh(g) => remote[obj[g].groupID].state = "live"
  BY DEF AllInv, OwnershipInv, FinalizerInv, RecordedLive, Live
<1>1. SUFFICES ASSUME NEW g \in Groups, obj'[g].state = "live",
                      obj'[g].groupID # None
               PROVE  remote'[obj'[g].groupID].state = "live"
  <2>1. ASSUME NEW g \in Groups, obj'[g].groupID # None
        PROVE  obj'[g].groupID \in Ids
    BY <1>0, <2>1, TypeStep, StateTypes DEF TypeOK, CR
  <2>2. QED
    BY <2>1 DEF RecordedLive, Fresh, Live
<1>2. ASSUME obj'[g].groupID = obj[g].groupID, Held(obj[g]), obj[g].state = "live"
      PROVE  remote'[obj'[g].groupID].state = "live"
  <2>1. /\ obj[g].groupID \in Ids /\ Named(g, obj[g].groupID)
        /\ remote[obj[g].groupID].state = "live"
    BY <1>0, <1>1, <1>2, IdTypes DEF NamesInv, Fresh
  <2>2. ~(At("deleteRemote") /\ job.base.groupID = obj[g].groupID)
    <3>1. SUFFICES ASSUME At("deleteRemote"), job.base.groupID = obj[g].groupID
                   PROVE  FALSE
      OBVIOUS
    <3>2. job.c \in Groups /\ Named(job.c, obj[g].groupID)
      BY <1>0, <3>1, IdTypes DEF At, NamesInv
    <3>3. job.c = g
      BY <2>1, <3>2, OneOwner
    <3>4. ~LiveHeld(obj[g])
      BY <1>0, <3>1, <3>3 DEF At, JobInv
    <3>5. QED
      BY <1>2, <3>4 DEF LiveHeld, Held
  <2>3. QED
    BY <1>2, <2>1, <2>2, StaysLive
<1>3. CASE obj'[g].groupID = obj[g].groupID /\ (Held(obj[g]) => Held(obj'[g]))
  <2>1. Held(obj[g])
    BY <1>0, <1>1, <1>3 DEF RecordsInv
  <2>2. obj[g].state = "live"
    BY <1>0, <1>1, <2>1, ObjMoves DEF ObjMove, Unchanged, Held
  <2>3. QED
    BY <1>2, <1>3, <2>1, <2>2
<1>4. CASE At("finish") /\ job.c = g /\ obj'[g].groupID = job.id
  <2>1. job.id \in Ids /\ remote[job.id].state = "live" /\ ~At("deleteRemote")
    BY <1>0, <1>4, BusyJob DEF At, Resolved, ActingInv
  <2>2. QED
    BY <1>4, <2>1, StaysLive
<1>5. CASE /\ At("errorStatus") /\ job.c = g /\ Current /\ Unchanged(g)
           /\ obj'[g].groupID = job.mem.groupID
  <2>1. job.mem.groupID \in Ids /\ ~At("deleteRemote")
    BY <1>0, <1>1, <1>5, IdTypes DEF At
  <2>2. remote[job.mem.groupID].state = "live"
    BY <1>0, <1>1, <1>5 DEF At, ActingInv, Current, Unchanged, Fresh
  <2>3. QED
    BY <1>5, <2>1, <2>2, StaysLive
<1>6. QED
  BY <1>1, <1>3, <1>4, <1>5, RecordMoves DEF RecordMove, Held
-------------------------------------------------------------------------------
(* A live resource never records a deleted group. *)

\* The invariant holds initially.
LEMMA OwnershipInit == Init => OwnershipInv
<1>1. SUFFICES ASSUME Init
               PROVE  OwnershipInv
  OBVIOUS
<1>2. /\ job.pc = "idle"
      /\ \A g \in Groups : obj[g] = NoCR(g) /\ cache[g] = NoCR(g)
  BY <1>1 DEF Init, Idle
<1>3. SpecsInv /\ NamesInv /\ RecordsInv
  BY <1>2, NoCRFields DEF SpecsInv, NamesInv, Named, RecordsInv
<1>4. DeletionsInv /\ ActingInv /\ RecordedLive
  BY <1>2, NoCRFields DEF DeletionsInv, ActingInv, RecordedLive, Fresh
<1>5. QED
  BY <1>3, <1>4 DEF OwnershipInv

\* The invariant is inductive.
LEMMA AllStep ==
    AllInv /\ (NamesDisjoint \/ NamesFixed) /\ [Next]_vars => AllInv'
<1>1. SUFFICES ASSUME AllInv, NamesDisjoint \/ NamesFixed, [Next]_vars
               PROVE  AllInv'
  OBVIOUS
<1>2. TypeOK' /\ FinalizerInv'
  BY <1>1, TypeStep, FinalizerStep DEF AllInv
<1>3. CASE UNCHANGED vars
  BY <1>1, <1>2, <1>3 DEF vars, AllInv, OwnershipInv, SpecsInv, NamesInv, Named,
     RecordsInv, DeletionsInv, ActingInv, RecordedLive, Fresh, Live, Current,
     LiveHeld, Held
<1>4. CASE Next
  <2>1. RecordedLive'
    <3>1. CASE NamesDisjoint
      BY <1>1, <1>4, <3>1, RecordedStep
    <3>2. CASE ~NamesDisjoint
      BY <3>2 DEF RecordedLive
    <3>3. QED
      BY <3>1, <3>2
  <2>2. QED
    BY <1>1, <1>2, <1>4, <2>1, SpecsStep, NamesStep, RecordsStep, DeletionsStep,
       ActingStep DEF AllInv, OwnershipInv
<1>5. QED
  BY <1>1, <1>3, <1>4

\* The invariant holds in every reachable state, if names are disjoint or fixed.
LEMMA Ownership == (NamesDisjoint \/ NamesFixed) => (Spec => []AllInv)
<1>1. Init => AllInv
  BY TypeInit, FinalizerInit, OwnershipInit DEF AllInv
<1>2. SUFFICES ASSUME NamesDisjoint \/ NamesFixed
               PROVE  Spec => []AllInv
  OBVIOUS
<1>3. AllInv /\ [Next]_vars => AllInv'
  BY <1>2, AllStep
<1>4. QED
  BY <1>1, <1>3, PTL DEF Spec

\* A resource in use never records a group that the controller has deleted, however
\* stale the copies it acts on: not its own, not another resource's, and not that
\* of an earlier resource of the same name.
THEOREM GroupRecordedIsLive == Spec => []RecordedLive
<1>1. CASE NamesDisjoint
  <2>1. AllInv => RecordedLive
    BY DEF AllInv, OwnershipInv
  <2>2. QED
    BY <1>1, <2>1, Ownership, PTL
<1>2. CASE ~NamesDisjoint
  <2>1. TypeOK => RecordedLive
    BY <1>2 DEF RecordedLive
  <2>2. QED
    BY <2>1, GroupTypeCorrect, PTL
<1>3. QED
  BY <1>1, <1>2
-------------------------------------------------------------------------------
(* What the status claims. *)

\* The status of g says that its latest generation is synced.
Claimed(o) == o.state = "live" /\ o.ready /\ o.observed

\* The spec a status claims to be synced is the one that the cache holds and that
\* the worker started from; and what the last write is about to claim is so.
ClaimInv ==
    /\ \A g \in Groups : Claimed(obj[g]) => cache[g].spec = obj[g].spec
    /\ (job.pc # "idle" /\ Claimed(obj[job.c])) => job.base.spec = obj[job.c].spec
    /\ At("finish") => /\ remote[job.id].name = job.mem.spec.name
                       /\ remote[job.id].label = job.mem.spec.label

\* A claim that is there after a step was there, or is the last write's.
ClaimMove(g) ==
    Claimed(obj'[g]) =>
        \/ /\ Claimed(obj[g]) /\ obj'[g].spec = obj[g].spec
           /\ obj'[g].groupID = obj[g].groupID
        \/ /\ At("finish") /\ job.c = g /\ job'.pc = "idle"
           /\ UNCHANGED <<cache, remote>>
           /\ cache[g].spec = obj[g].spec /\ obj'[g].spec = obj[g].spec
           /\ obj'[g].groupID = job.id

\* Every step moves every claim so.
LEMMA ClaimMoves ==
    ASSUME TypeOK, JobInv, Next, NEW g \in Groups
    PROVE  ClaimMove(g)
<1>1. obj \in [Groups -> CR] /\ obj[g] \in CR
  BY StateTypes
<1>2. CASE obj' = obj
  BY <1>2 DEF ClaimMove
<1>3. CASE AddFinalizer
  <2>1. CASE obj' = [obj EXCEPT ![job.c].finalizer = TRUE]
    BY <1>1, <2>1 DEF ClaimMove, Claimed, CR
  <2>2. QED
    BY <1>2, <1>3, <2>1 DEF AddFinalizer
<1>4. CASE RemoveFinalizer
  <2>1. job.c \in Groups
    BY <1>4, BusyJob DEF RemoveFinalizer, At
  <2>2. CASE obj' = [obj EXCEPT ![job.c] = NoCR(job.c)]
    BY <1>1, <2>1, <2>2, NoCRFields DEF ClaimMove, Claimed
  <2>3. QED
    BY <1>2, <1>4, <2>2 DEF RemoveFinalizer
<1>5. CASE Finish /\ obj' # obj
  <2>1. /\ obj' = [obj EXCEPT ![job.c] =
                     [obj[job.c] EXCEPT !.groupID = job.id, !.ready = TRUE,
                                        !.observed = TRUE]]
        /\ cache[job.c] = obj[job.c] /\ At("finish")
        /\ UNCHANGED <<cache, remote>> /\ job'.pc = "idle"
    BY <1>5 DEF Finish, Done, Idle
  <2>2. CASE job.c = g
    BY <1>1, <2>1, <2>2 DEF ClaimMove, CR
  <2>3. CASE job.c # g
    BY <1>1, <2>1, <2>3 DEF ClaimMove
  <2>4. QED
    BY <2>2, <2>3
<1>6. CASE WriteErrorStatus
  <2>1. job.c \in Groups /\ job.mem \in CR
    BY <1>6, BusyJob DEF WriteErrorStatus, At
  <2>2. CASE obj' = [obj EXCEPT ![job.c] =
                       [job.mem EXCEPT !.ready = FALSE, !.observed = TRUE]]
    BY <1>1, <2>1, <2>2 DEF ClaimMove, Claimed, CR
  <2>3. QED
    BY <1>2, <1>6, <2>2 DEF WriteErrorStatus
<1>7. ASSUME NEW d \in Groups, NEW s \in Specs[d], CreateCR(d, s)
      PROVE  ClaimMove(g)
  BY <1>1, <1>7 DEF CreateCR, NewCR, ClaimMove, Claimed
<1>8. ASSUME NEW d \in Groups, NEW s \in Specs[d], EditSpec(d, s)
      PROVE  ClaimMove(g)
  BY <1>1, <1>8 DEF EditSpec, ClaimMove, Claimed, CR
<1>9. ASSUME NEW d \in Groups, RequestDelete(d)
      PROVE  ClaimMove(g)
  <2>1. CASE obj' = [obj EXCEPT ![d] = NoCR(d)]
    BY <1>1, <2>1, NoCRFields DEF ClaimMove, Claimed
  <2>2. CASE obj' = [obj EXCEPT ![d].state = "deleting"]
    BY <1>1, <2>2 DEF ClaimMove, Claimed, CR
  <2>3. QED
    BY <1>9, <2>1, <2>2 DEF RequestDelete
<1>10. QED
  BY <1>2, <1>3, <1>4, <1>5, <1>6, <1>7, <1>8, <1>9 DEF Next, Worker, Environment,
     Begin, CacheSync, CallFails, Crash, DeleteRemote, Resolve, Create, Update,
     FlipInstance

\* The worker comes to its last write from Create or Update, with the group as the
\* spec it started from says.
LEMMA ToFinish ==
    ASSUME TypeOK, Next, job'.pc = "finish"
    PROVE  \/ job' = job /\ remote' = remote
           \/ /\ job'.id \in Ids
              /\ remote'[job'.id].name = job'.mem.spec.name
              /\ remote'[job'.id].label = job'.mem.spec.label
<1>1. ASSUME NEW g \in Groups, Begin(g)
      PROVE  FALSE
  <2>1. \E pc \in {"errorStatus", "deleteRemote", "removeFinalizer",
                   "addFinalizer", "resolve"} : Start(g, pc)
    BY <1>1 DEF Begin
  <2>2. QED
    BY <2>1 DEF Start
<1>2. ~Done /\ \A pc \in Busy : (job \in Job /\ Goto(pc)) => pc = "finish"
  BY DEF Done, Idle, Goto, Job
<1>3. CASE Worker
  <2>1. job \in Job /\ remote \in [Ids -> Remote] /\ job.mem \in CR
    BY <1>3, BusyJob, StateTypes DEF Worker, AddFinalizer, DeleteRemote,
       RemoveFinalizer, Resolve, Create, Update, Finish, WriteErrorStatus, At
  <2>2. /\ ~Done /\ ~Goto("errorStatus") /\ ~Goto("removeFinalizer")
        /\ ~Goto("create")
    BY <1>2, <2>1 DEF Busy, AfterFinalizer, Resolved
  <2>3. ~AddFinalizer /\ ~Resolve
    BY <2>1, <2>2 DEF AddFinalizer, Resolve, Job
  <2>4. ASSUME NEW i \in Ids, Create(i)
        PROVE  /\ job'.id = i /\ job'.mem.spec = job.mem.spec
               /\ remote'[i].name = job.mem.spec.name
               /\ remote'[i].label = job.mem.spec.label
    <3>1. job' = [job EXCEPT !.pc = "finish", !.id = i, !.mem.groupID = i]
      BY <2>2, <2>4 DEF Create
    <3>2. job'.id = i /\ job'.mem = [job.mem EXCEPT !.groupID = i]
      BY <2>1, <3>1 DEF Job
    <3>3. job'.mem.spec = job.mem.spec
      BY <2>1, <3>2 DEF CR
    <3>4. remote'[i] = [state |-> "live", name |-> job.mem.spec.name,
                        label |-> job.mem.spec.label]
      BY <2>1, <2>4 DEF Create
    <3>5. QED
      BY <3>2, <3>3, <3>4
  <2>5. CASE Update
    <3>1. /\ job.id \in Ids /\ Goto("finish")
      BY <2>2, <2>5, BusyJob DEF Update, At, Resolved
    <3>2. job'.id = job.id /\ job'.mem = job.mem
      BY <2>1, <3>1 DEF Goto, Job
    <3>3. /\ remote'[job.id].name = job.mem.spec.name
          /\ remote'[job.id].label = job.mem.spec.label
      <4>1. CASE remote' = [remote EXCEPT ![job.id] =
                              [remote[job.id] EXCEPT !.name  = job.mem.spec.name,
                                                     !.label = job.mem.spec.label]]
        BY <2>1, <3>1, <4>1 DEF Remote
      <4>2. CASE remote' = remote /\ ~NeedsUpdate(remote[job.id])
        BY <4>2 DEF NeedsUpdate
      <4>3. QED
        BY <2>5, <4>1, <4>2 DEF Update
    <3>4. QED
      BY <3>1, <3>2, <3>3
  <2>6. QED
    BY <1>3, <2>2, <2>3, <2>4, <2>5 DEF Worker, DeleteRemote, RemoveFinalizer,
       Finish, WriteErrorStatus
<1>4. ~Crash
  BY <1>2 DEF Crash
<1>5. ~CallFails
  <2>1. job.pc # "idle" => ~Goto("errorStatus")
    BY <1>2, BusyJob DEF Busy, AfterFinalizer, Resolved
  <2>2. QED
    BY <1>2, <2>1 DEF CallFails, At
<1>6. QED
  BY <1>1, <1>3, <1>4, <1>5 DEF Next, Environment, CacheSync, CreateCR, EditSpec,
     RequestDelete, FlipInstance

\* Every step preserves ClaimInv.
LEMMA ClaimStep ==
    ASSUME AllInv, ClaimInv, Next
    PROVE  ClaimInv'
<1>0. TypeOK /\ JobInv
  BY DEF AllInv, FinalizerInv
<1>1. ASSUME NEW g \in Groups, Claimed(obj'[g])
      PROVE  cache'[g].spec = obj'[g].spec
  <2>1. ClaimMove(g)
    BY <1>0, ClaimMoves
  <2>2. CASE cache'[g] = obj'[g]
    BY <2>2
  <2>3. CASE cache'[g] = cache[g]
    BY <1>1, <2>1, <2>3 DEF ClaimMove, ClaimInv
  <2>4. QED
    BY <1>0, <2>2, <2>3, CacheMoves
<1>2. ASSUME job'.pc # "idle", Claimed(obj'[job'.c])
      PROVE  job'.base.spec = obj'[job'.c].spec
  <2>1. CASE job.pc = "idle"
    <3>1. obj' = obj
      BY <1>2, <2>1, JobStarts
    <3>2. PICK g \in Groups : job'.c = g /\ job'.base = cache[g]
      BY <1>2, <2>1, JobStarts
    <3>3. QED
      BY <1>2, <3>1, <3>2 DEF ClaimInv
  <2>2. CASE job.pc # "idle"
    <3>1. /\ job.c \in Groups /\ job'.c = job.c
          /\ job'.base.spec = job.base.spec
      BY <1>2, <2>2, JobKeeps
    <3>2. ClaimMove(job.c)
      BY <1>0, <3>1, ClaimMoves
    <3>3. Claimed(obj[job.c]) /\ obj'[job.c].spec = obj[job.c].spec
      BY <1>2, <3>1, <3>2 DEF ClaimMove
    <3>4. QED
      BY <2>2, <3>1, <3>3 DEF ClaimInv
  <2>3. QED
    BY <2>1, <2>2
<1>3. ASSUME job'.pc = "finish"
      PROVE  /\ remote'[job'.id].name = job'.mem.spec.name
             /\ remote'[job'.id].label = job'.mem.spec.label
  BY <1>0, <1>3, ToFinish DEF ClaimInv, At
<1>4. QED
  BY <1>1, <1>2, <1>3 DEF ClaimInv, At, Claimed

\* The invariant holds in every reachable state.
LEMMA ClaimInvariant == NamesDisjoint => (Spec => [](AllInv /\ ClaimInv))
<1>1. SUFFICES ASSUME NamesDisjoint
               PROVE  Spec => [](AllInv /\ ClaimInv)
  OBVIOUS
<1>2. Init => ClaimInv
  BY NoCRFields DEF Init, ClaimInv, Claimed, Idle, At
<1>3. AllInv /\ ClaimInv /\ [Next]_vars => ClaimInv'
  <2>1. CASE UNCHANGED vars
    BY <2>1 DEF vars, ClaimInv, Claimed, At
  <2>2. QED
    BY <2>1, ClaimStep
<1>4. Spec => []AllInv
  BY <1>1, Ownership
<1>5. QED
  BY <1>2, <1>3, <1>4, PTL DEF Spec

\* A claim that stands and was true stays true: no job but the resource's own acts on
\* its group, and that one started from the spec claimed.
LEMMA MatchesStays ==
    ASSUME AllInv, ClaimInv, NamesDisjoint, Next, NEW g \in Groups,
           Claimed(obj[g]), Matches(g),
           obj'[g].spec = obj[g].spec, obj'[g].groupID = obj[g].groupID
    PROVE  Matches(g)'
<1>0. /\ TypeOK /\ JobInv /\ NamesInv /\ DeletionsInv
      /\ remote \in [Ids -> Remote]
  BY StateTypes DEF AllInv, FinalizerInv, OwnershipInv
<1> DEFINE i == obj[g].groupID
<1>1. i \in Ids /\ remote[i].state = "live" /\ Named(g, i) /\ i # None
  BY <1>0, GroupNoneAssumption DEF Matches, Live, NamesInv
<1>2. SUFFICES /\ remote'[i].state = "live"
               /\ remote'[i].name = obj[g].spec.name
               /\ remote'[i].label = obj[g].spec.label
  BY <1>1 DEF Matches, Live
<1>3. CASE remote'[i] = remote[i]
  BY <1>1, <1>3 DEF Matches
<1>4. CASE DeleteRemote /\ job.base.groupID = i
  <2>1. job.pc # "idle" /\ job.base.state = "deleting" /\ job.c \in Groups
    BY <1>0, <1>4, BusyJob DEF DeleteRemote, At, JobInv
  <2>2. Named(job.c, i)
    BY <1>0, <1>4, <2>1 DEF NamesInv
  <2>3. job.c = g
    BY <1>1, <2>1, <2>2, OneOwner
  <2>4. obj[g].state = "deleting"
    BY <1>0, <1>1, <1>4, <2>1, <2>3 DEF DeletionsInv
  <2>5. QED
    BY <2>4 DEF Claimed
<1>5. CASE Update /\ job.id = i /\ remote' # remote
  <2>1. job.pc # "idle" /\ job.c \in Groups
    BY <1>0, <1>5, BusyJob DEF Update, At
  <2>2. Named(job.c, i)
    BY <1>0, <1>5, <2>1 DEF NamesInv
  <2>3. job.c = g
    BY <1>1, <2>1, <2>2, OneOwner
  <2>4. job.mem.spec = obj[g].spec
    BY <1>0, <2>1, <2>3 DEF ClaimInv, JobInv
  <2>5. remote' = [remote EXCEPT ![i] = [remote[i] EXCEPT !.name = job.mem.spec.name,
                                                          !.label = job.mem.spec.label]]
    BY <1>5 DEF Update
  <2>6. QED
    BY <1>0, <1>1, <2>4, <2>5 DEF Remote
<1>6. ASSUME NEW j \in Ids, Create(j)
      PROVE  remote'[i] = remote[i]
  BY <1>0, <1>1, <1>6 DEF Create
<1>7. (DeleteRemote /\ job.base.groupID # i) => remote'[i] = remote[i]
  BY <1>0, <1>1 DEF DeleteRemote
<1>8. (Update /\ job.id # i) => remote'[i] = remote[i]
  BY <1>0, <1>1 DEF Update
<1>9. QED
  BY <1>3, <1>4, <1>5, <1>6, <1>7, <1>8 DEF Next, Worker, Environment, Begin,
     CacheSync, CallFails, Crash, AddFinalizer, RemoveFinalizer, Resolve, Finish,
     WriteErrorStatus, CreateCR, EditSpec, RequestDelete, FlipInstance

\* However old its copies, and whatever is lost, the controller never makes a status
\* claim a sync that did not happen, but by marking the generation that it finds
\* with its last read; and it never makes a claim false that was true.
THEOREM GroupReadyIsEarned == Spec => ReadyIsEarned
<1>1. ASSUME AllInv, ClaimInv, NamesDisjoint, Next, NEW g \in Groups,
             FalseClaim(g)', ~FalseClaim(g)
      PROVE  At("finish") /\ job.c = g /\ job.mem.spec # obj[g].spec
  <2>1. TypeOK /\ JobInv /\ ActingInv
    BY <1>1 DEF AllInv, FinalizerInv, OwnershipInv
  <2>2. Claimed(obj'[g]) /\ ~Matches(g)'
    BY <1>1 DEF FalseClaim, Claimed
  <2>3. ClaimMove(g)
    BY <1>1, <2>1, ClaimMoves
  <2>4. CASE /\ Claimed(obj[g]) /\ obj'[g].spec = obj[g].spec
             /\ obj'[g].groupID = obj[g].groupID
    <3>1. Matches(g)
      BY <1>1, <2>4 DEF FalseClaim, Claimed
    <3>2. QED
      BY <1>1, <2>2, <2>4, <3>1, MatchesStays
  <2>5. CASE /\ At("finish") /\ job.c = g /\ remote' = remote
             /\ obj'[g].spec = obj[g].spec /\ obj'[g].groupID = job.id
             /\ job.mem.spec = obj[g].spec
    <3>1. job.id \in Ids /\ remote[job.id].state = "live"
      BY <2>1, <2>5, BusyJob DEF At, Resolved, ActingInv
    <3>2. /\ remote[job.id].name = job.mem.spec.name
          /\ remote[job.id].label = job.mem.spec.label
      BY <1>1, <2>5 DEF ClaimInv
    <3>3. QED
      BY <2>2, <2>5, <3>1, <3>2 DEF Matches, Live
  <2>6. QED
    BY <2>2, <2>3, <2>4, <2>5 DEF ClaimMove
<1>2. CASE NamesDisjoint
  <2>1. AllInv /\ ClaimInv /\ [Next]_vars =>
          [NamesDisjoint =>
             \A g \in Groups :
                 FalseClaim(g)' =>
                   \/ FalseClaim(g)
                   \/ /\ At("finish") /\ job.c = g
                      /\ job.mem.spec # obj[g].spec]_vars
    BY <1>1, <1>2
  <2>2. QED
    BY <1>2, <2>1, ClaimInvariant, PTL DEF Spec, ReadyIsEarned
<1>3. CASE ~NamesDisjoint
  <2>1. [Next]_vars =>
          [NamesDisjoint =>
             \A g \in Groups :
                 FalseClaim(g)' =>
                   \/ FalseClaim(g)
                   \/ /\ At("finish") /\ job.c = g
                      /\ job.mem.spec # obj[g].spec]_vars
    BY <1>3
  <2>2. QED
    BY <2>1, PTL DEF Spec, ReadyIsEarned
<1>4. QED
  BY <1>2, <1>3
-------------------------------------------------------------------------------
(* The controller implements Lifecycle. *)

AbsPhase    == [g \in Groups |-> Phase(obj[g])]
\* The id a resource records.
AbsRecorded == [g \in Groups |-> obj[g].groupID]
AbsObject   == [i \in Ids |-> remote[i].state]

\* Initial states map to initial states.
LEMMA AbstractInit == Init => Abstract!Init
<1>1. SUFFICES ASSUME Init
               PROVE  Abstract!Init
  OBVIOUS
<1>2. AbsPhase = [g \in Groups |-> "absent"]
  BY <1>1, NoCRFields DEF Init, AbsPhase, Phase
<1>3. AbsRecorded = [g \in Groups |-> None]
  BY <1>1, NoCRFields DEF Init, AbsRecorded
<1>4. AbsObject \in [Ids -> {"unused", "live"}]
  BY <1>1 DEF Init, AbsObject, InitialRemote
<1>5. QED
  BY <1>2, <1>3, <1>4 DEF Abstract!Init, AbsPhase, AbsRecorded, AbsObject

\* The three variables of Lifecycle.
AbsVars == <<AbsPhase, AbsRecorded, AbsObject>>

\* A step changes one resource at most, and one group at most.
LEMMA OneResource ==
    ASSUME NEW g \in Groups, \A d \in Groups \ {g} : obj'[d] = obj[d]
    PROVE  /\ AbsPhase' = [AbsPhase EXCEPT ![g] = Phase(obj'[g])]
           /\ AbsRecorded' = [AbsRecorded EXCEPT ![g] = obj'[g].groupID]
  BY DEF AbsPhase, AbsRecorded, Phase

\* What leaves state, finalizer and recorded ids alone is not seen.
LEMMA SameResources ==
    ASSUME \A d \in Groups : Unchanged(d) /\ obj'[d].groupID = obj[d].groupID
    PROVE  AbsPhase' = AbsPhase /\ AbsRecorded' = AbsRecorded
  BY DEF AbsPhase, AbsRecorded, Phase, Unchanged

\* A step that moves one group of PocketID.
LEMMA OneObject ==
    ASSUME NEW i \in Ids, \A j \in Ids \ {i} : remote'[j].state = remote[j].state
    PROVE  AbsObject' = [AbsObject EXCEPT ![i] = remote'[i].state]
  BY DEF AbsObject

\* A step that moves none.
LEMMA SameObjects ==
    ASSUME \A j \in Ids : remote'[j].state = remote[j].state
    PROVE  AbsObject' = AbsObject
  BY DEF AbsObject

\* The five ways the worker and users move a resource through its phases.
LEMMA AbsDeclare ==
    ASSUME NEW g \in Groups, \A d \in Groups \ {g} : obj'[d] = obj[d],
           remote' = remote,
           obj[g].state = "absent", obj[g].groupID = None,
           obj'[g].state = "live", ~obj'[g].finalizer, obj'[g].groupID = None
    PROVE  Abstract!Next
<1>1. AbsPhase[g] = "absent" /\ Phase(obj'[g]) = "declared"
  BY DEF AbsPhase, Phase
<1>2. AbsPhase' = [AbsPhase EXCEPT ![g] = "declared"] /\ AbsRecorded' = AbsRecorded
  <2>1. AbsPhase' = [AbsPhase EXCEPT ![g] = "declared"]
    BY <1>1, OneResource
  <2>2. AbsRecorded' = AbsRecorded
    BY <1>1, OneResource, Zenon DEF AbsRecorded
  <2>3. QED
    BY <2>1, <2>2
<1>3. Abstract!Declare(g)
  BY <1>1, <1>2, SameObjects DEF Abstract!Declare, Abstract!Become, AbsPhase,
     AbsRecorded, AbsObject
<1>4. QED
  BY <1>3 DEF Abstract!Next

\* AddFinalizer.
LEMMA AbsManage ==
    ASSUME NEW g \in Groups, \A d \in Groups \ {g} : obj'[d] = obj[d],
           remote' = remote,
           obj[g].state = "live", ~obj[g].finalizer,
           obj'[g].state = "live", obj'[g].finalizer,
           obj'[g].groupID = obj[g].groupID
    PROVE  Abstract!Next
<1>1. AbsPhase[g] = "declared" /\ Phase(obj'[g]) = "managed"
  BY DEF AbsPhase, Phase
<1>2. AbsPhase' = [AbsPhase EXCEPT ![g] = "managed"] /\ AbsRecorded' = AbsRecorded
  <2>1. AbsPhase' = [AbsPhase EXCEPT ![g] = "managed"]
    BY <1>1, OneResource
  <2>2. AbsRecorded' = AbsRecorded
    BY <1>1, OneResource, Zenon DEF AbsRecorded
  <2>3. QED
    BY <2>1, <2>2
<1>3. Abstract!Manage(g)
  BY <1>1, <1>2, SameObjects DEF Abstract!Manage, Abstract!Become, AbsPhase,
     AbsRecorded, AbsObject
<1>4. QED
  BY <1>3 DEF Abstract!Next

\* A delete request without finalizer.
LEMMA AbsWithdraw ==
    ASSUME NEW g \in Groups, \A d \in Groups \ {g} : obj'[d] = obj[d],
           remote' = remote,
           obj[g].state = "live", ~obj[g].finalizer, obj[g].groupID = None,
           obj'[g].state = "absent", obj'[g].groupID = None
    PROVE  Abstract!Next
<1>1. /\ AbsPhase[g] = "declared" /\ Phase(obj'[g]) = "absent"
      /\ AbsRecorded[g] = None
  BY DEF AbsPhase, AbsRecorded, Phase
<1>2. AbsPhase' = [AbsPhase EXCEPT ![g] = "absent"] /\ AbsRecorded' = AbsRecorded
  <2>1. AbsPhase' = [AbsPhase EXCEPT ![g] = "absent"]
    BY <1>1, OneResource
  <2>2. AbsRecorded' = AbsRecorded
    BY <1>1, OneResource, Zenon DEF AbsRecorded
  <2>3. QED
    BY <2>1, <2>2
<1>3. Abstract!Withdraw(g)
  BY <1>1, <1>2, SameObjects DEF Abstract!Withdraw, Abstract!Become, AbsPhase,
     AbsRecorded, AbsObject
<1>4. QED
  BY <1>3 DEF Abstract!Next

\* A delete request with the finalizer.
LEMMA AbsRequestDelete ==
    ASSUME NEW g \in Groups, \A d \in Groups \ {g} : obj'[d] = obj[d],
           remote' = remote,
           obj[g].state = "live", obj[g].finalizer, obj'[g].state = "deleting",
           obj'[g].groupID = obj[g].groupID
    PROVE  Abstract!Next
<1>1. AbsPhase[g] = "managed" /\ Phase(obj'[g]) = "deleting"
  BY DEF AbsPhase, Phase
<1>2. AbsPhase' = [AbsPhase EXCEPT ![g] = "deleting"] /\ AbsRecorded' = AbsRecorded
  <2>1. AbsPhase' = [AbsPhase EXCEPT ![g] = "deleting"]
    BY <1>1, OneResource
  <2>2. AbsRecorded' = AbsRecorded
    BY <1>1, OneResource, Zenon DEF AbsRecorded
  <2>3. QED
    BY <2>1, <2>2
<1>3. Abstract!RequestDelete(g)
  BY <1>1, <1>2, SameObjects DEF Abstract!RequestDelete, Abstract!Become, AbsPhase,
     AbsRecorded, AbsObject
<1>4. QED
  BY <1>3 DEF Abstract!Next

\* RemoveFinalizer.
LEMMA AbsRemove ==
    ASSUME NEW g \in Groups, \A d \in Groups \ {g} : obj'[d] = obj[d],
           remote' = remote, obj[g].state = "deleting",
           obj[g].groupID # None => /\ obj[g].groupID \in Ids
                                     /\ remote[obj[g].groupID].state = "deleted",
           obj'[g].state = "absent", obj'[g].groupID = None
    PROVE  Abstract!Next
<1>1. /\ AbsPhase[g] = "deleting" /\ Phase(obj'[g]) = "absent"
      /\ AbsRecorded[g] # None => AbsObject[AbsRecorded[g]] = "deleted"
  BY DEF AbsPhase, AbsRecorded, AbsObject, Phase
<1>2. /\ AbsPhase' = [AbsPhase EXCEPT ![g] = "absent"]
      /\ AbsRecorded' = [AbsRecorded EXCEPT ![g] = None]
  BY <1>1, OneResource
<1>3. Abstract!Remove(g)
  BY <1>1, <1>2, SameObjects DEF Abstract!Remove, AbsPhase, AbsRecorded, AbsObject
<1>4. QED
  BY <1>3 DEF Abstract!Next

\* A live resource with its finalizer is "managed".
LEMMA ManagedResources ==
    ASSUME TypeOK, NEW g \in Groups, Held(obj[g])
    PROVE  g \in Abstract!Managed
<1>1. obj[g] \in CR
  BY StateTypes
<1>2. Phase(obj[g]) \in {"managed", "deleting"}
  BY <1>1 DEF Held, Phase, CR
<1>3. QED
  BY <1>2 DEF Abstract!Managed

\* The status update of Finish and of WriteErrorStatus.
LEMMA AbsRecord ==
    ASSUME TypeOK, NEW g \in Groups, \A d \in Groups \ {g} : obj'[d] = obj[d],
           remote' = remote, NEW i \in Ids, remote[i].state = "live",
           Held(obj[g]), Unchanged(g), obj'[g].groupID = i
    PROVE  Abstract!Next
<1>1. AbsPhase' = AbsPhase
  <2>1. Phase(obj'[g]) = Phase(obj[g])
    BY DEF Unchanged, Phase
  <2>2. AbsPhase' = [AbsPhase EXCEPT ![g] = Phase(obj'[g])]
    BY OneResource
  <2>3. QED
    BY <2>1, <2>2 DEF AbsPhase
<1>2. AbsRecorded' = [AbsRecorded EXCEPT ![g] = i]
  BY OneResource
<1>3. Abstract!Record(g, i)
  BY <1>1, <1>2, SameObjects, ManagedResources DEF Abstract!Record, AbsPhase,
     AbsRecorded, AbsObject
<1>4. QED
  BY <1>3 DEF Abstract!Next

\* Create.
LEMMA AbsProvision ==
    ASSUME TypeOK, obj' = obj, NEW g \in Groups, Held(obj[g]), NEW i \in Ids,
           \A j \in Ids \ {i} : remote'[j].state = remote[j].state,
           remote[i].state = "unused", remote'[i].state = "live"
    PROVE  Abstract!Next
<1>1. AbsPhase' = AbsPhase /\ AbsRecorded' = AbsRecorded
  BY DEF AbsPhase, AbsRecorded, Phase
<1>2. AbsObject' = [AbsObject EXCEPT ![i] = "live"]
  BY OneObject
<1>3. Abstract!Provision(i)
  BY <1>1, <1>2, ManagedResources DEF Abstract!Provision, AbsPhase, AbsRecorded,
     AbsObject
<1>4. QED
  BY <1>3 DEF Abstract!Next

\* DeleteRemote.
LEMMA AbsDeprovision ==
    ASSUME TypeOK, obj' = obj, NEW g \in Groups, obj[g].state = "deleting",
           NEW i \in Ids,
           \A d \in Groups : LiveHeld(obj[d]) => obj[d].groupID # i,
           \A j \in Ids \ {i} : remote'[j].state = remote[j].state,
           remote[i].state = "live", remote'[i].state = "deleted"
    PROVE  Abstract!Next
<1>1. AbsPhase' = AbsPhase /\ AbsRecorded' = AbsRecorded
  BY DEF AbsPhase, AbsRecorded, Phase
<1>2. AbsObject' = [AbsObject EXCEPT ![i] = "deleted"]
  BY OneObject
<1>3. /\ \A d \in Groups : Phase(obj[d]) = "managed" => obj[d].groupID # i
      /\ Phase(obj[g]) = "deleting"
  <2>1. \A d \in Groups : obj[d].state \in {"absent", "live", "deleting"}
    BY StateTypes DEF CR
  <2>2. QED
    BY <2>1 DEF LiveHeld, Phase
<1>4. Abstract!Deprovision(i)
  BY <1>1, <1>2, <1>3 DEF Abstract!Deprovision, AbsPhase, AbsRecorded, AbsObject
<1>5. QED
  BY <1>4 DEF Abstract!Next

\* Every step of the controller is a step of the abstract one, or stutters.
LEMMA AbstractWorker ==
    ASSUME AllInv, NamesDisjoint, Worker
    PROVE  Abstract!Next \/ UNCHANGED AbsVars
<1>0. /\ TypeOK /\ NamesInv /\ RecordsInv /\ DeletionsInv /\ ActingInv /\ JobInv
      /\ obj \in [Groups -> CR] /\ remote \in [Ids -> Remote]
  BY StateTypes DEF AllInv, OwnershipInv, FinalizerInv
<1>1. /\ job \in Job /\ job.c \in Groups /\ job.base \in CR /\ job.mem \in CR
      /\ job.pc # "idle" /\ obj[job.c] \in CR
  BY <1>0, BusyJob DEF Worker, AddFinalizer, DeleteRemote, RemoveFinalizer, Resolve,
     Create, Update, Finish, WriteErrorStatus, At
<1>2. CASE obj' = obj /\ \A i \in Ids : remote'[i].state = remote[i].state
  BY <1>2, SameResources, SameObjects DEF Unchanged, AbsVars
<1>3. CASE AddFinalizer
  <2>1. CASE Current
    <3>1. /\ obj' = [obj EXCEPT ![job.c].finalizer = TRUE] /\ remote' = remote
          /\ obj[job.c].state = "live"
      BY <1>0, <1>1, <1>3, <2>1 DEF AddFinalizer, At, Current, JobInv
    <3>2. /\ \A d \in Groups \ {job.c} : obj'[d] = obj[d]
          /\ obj'[job.c].state = "live" /\ obj'[job.c].finalizer
          /\ obj'[job.c].groupID = obj[job.c].groupID
      BY <1>0, <1>1, <3>1 DEF CR
    <3>3. CASE obj[job.c].finalizer
      <4>1. Unchanged(job.c)
        BY <3>1, <3>2, <3>3, Zenon DEF Unchanged
      <4>2. \A d \in Groups : Unchanged(d) /\ obj'[d].groupID = obj[d].groupID
        BY <3>2, <4>1, Zenon DEF Unchanged
      <4>3. QED
        BY <3>1, <4>2, SameResources, SameObjects DEF AbsVars
    <3>4. CASE ~obj[job.c].finalizer
      BY <1>1, <3>1, <3>2, <3>4, AbsManage
    <3>5. QED
      BY <3>3, <3>4
  <2>2. QED
    BY <1>2, <1>3, <2>1 DEF AddFinalizer
<1>4. CASE DeleteRemote
  <2>1. /\ job.base.state = "deleting" /\ job.base.groupID \in Ids
        /\ Named(job.c, job.base.groupID) /\ ~LiveHeld(obj[job.c])
    BY <1>0, <1>1, <1>4, IdTypes DEF DeleteRemote, At, JobInv, DeletionsInv, NamesInv
  <2>2. /\ obj' = obj
        /\ remote' = [remote EXCEPT ![job.base.groupID].state = "deleted"]
    BY <1>4 DEF DeleteRemote
  <2>3. /\ remote'[job.base.groupID].state = "deleted"
        /\ \A j \in Ids \ {job.base.groupID} : remote'[j].state = remote[j].state
    BY <1>0, <2>1, <2>2 DEF Remote
  <2>4. CASE remote[job.base.groupID].state = "deleted"
    BY <1>2, <2>2, <2>3, <2>4
  <2>5. CASE remote[job.base.groupID].state = "live"
    <3>1. obj[job.c].state = "deleting"
      BY <1>0, <1>1, <2>1, <2>5, GroupNoneAssumption DEF DeletionsInv
    <3>2. \A d \in Groups : LiveHeld(obj[d]) => obj[d].groupID # job.base.groupID
      BY <1>0, <1>1, <2>1, OneOwner DEF NamesInv
    <3>3. QED
      BY <1>0, <1>1, <2>1, <2>2, <2>3, <2>5, <3>1, <3>2, AbsDeprovision
  <2>6. remote[job.base.groupID].state \in {"live", "deleted"}
    BY <1>0, <2>1, GroupNoneAssumption DEF Named, Remote
  <2>7. QED
    BY <2>4, <2>5, <2>6
<1>5. CASE RemoveFinalizer
  <2>1. CASE Current
    <3>1. /\ obj' = [obj EXCEPT ![job.c] = NoCR(job.c)] /\ remote' = remote
          /\ obj[job.c] = job.base
          /\ obj[job.c].state = "deleting"
      BY <1>0, <1>1, <1>5, <2>1 DEF RemoveFinalizer, At, Current, JobInv
    <3>2. /\ \A d \in Groups \ {job.c} : obj'[d] = obj[d]
          /\ obj'[job.c].state = "absent" /\ obj'[job.c].groupID = None
      BY <1>0, <1>1, <3>1, NoCRFields
    <3>3. obj[job.c].groupID # None =>
             /\ obj[job.c].groupID \in Ids
             /\ remote[obj[job.c].groupID].state = "deleted"
      BY <1>0, <1>1, <1>5, <3>1, IdTypes DEF RemoveFinalizer, At, DeletionsInv
    <3>4. QED
      BY <1>1, <3>1, <3>2, <3>3, AbsRemove
  <2>2. QED
    BY <1>2, <1>5, <2>1 DEF RemoveFinalizer
<1>6. ASSUME NEW i \in Ids, Create(i)
      PROVE  Abstract!Next \/ UNCHANGED AbsVars
  <2>1. /\ obj' = obj /\ remote[i].state = "unused" /\ remote'[i].state = "live"
        /\ \A j \in Ids \ {i} : remote'[j].state = remote[j].state
    BY <1>0, <1>6 DEF Create
  <2>2. Held(obj[job.c])
    BY <1>0, <1>1, <1>6 DEF Create, At, JobInv, AfterFinalizer
  <2>3. QED
    BY <1>0, <1>1, <2>1, <2>2, AbsProvision
<1>7. CASE Update
  <2>1. CASE remote' = [remote EXCEPT ![job.id] =
                          [remote[job.id] EXCEPT !.name = job.mem.spec.name,
                                                 !.label = job.mem.spec.label]]
    <3>1. job.id \in Ids /\ remote[job.id] \in Remote
      BY <1>0, <1>7, BusyJob DEF Update, At, Resolved
    <3>2. \A i \in Ids : remote'[i].state = remote[i].state
      BY <1>0, <2>1, <3>1 DEF Remote
    <3>3. QED
      BY <1>2, <1>7, <3>2 DEF Update
  <2>2. QED
    BY <1>2, <1>7, <2>1 DEF Update
<1>8. CASE Finish
  <2>1. CASE obj' # obj
    <3>1. obj' = [obj EXCEPT ![job.c] =
                    [obj[job.c] EXCEPT !.groupID = job.id, !.ready = TRUE,
                                       !.observed = TRUE]]
      BY <1>8, <2>1 DEF Finish
    <3>2. /\ \A d \in Groups \ {job.c} : obj'[d] = obj[d]
          /\ Unchanged(job.c) /\ obj'[job.c].groupID = job.id
      BY <1>0, <1>1, <3>1 DEF CR, Unchanged
    <3>3. /\ remote' = remote /\ job.id \in Ids
          /\ remote[job.id].state = "live" /\ Held(obj[job.c])
      BY <1>0, <1>1, <1>8, BusyJob DEF Finish, At, Resolved, AfterFinalizer,
         ActingInv, JobInv
    <3>4. QED
      BY <1>0, <1>1, <3>2, <3>3, AbsRecord
  <2>2. QED
    BY <1>2, <1>8, <2>1 DEF Finish
<1>9. CASE WriteErrorStatus
  <2>1. CASE Current
    <3>1. obj' = [obj EXCEPT ![job.c] =
                    [job.mem EXCEPT !.ready = FALSE, !.observed = TRUE]]
      BY <1>9, <2>1 DEF WriteErrorStatus
    <3>2. /\ \A d \in Groups \ {job.c} : obj'[d] = obj[d]
          /\ Unchanged(job.c) /\ obj'[job.c].groupID = job.mem.groupID
          /\ obj[job.c] = job.base /\ remote' = remote
      BY <1>0, <1>1, <1>9, <2>1, <3>1 DEF WriteErrorStatus, CR, Unchanged, Current,
         JobInv
    <3>3. CASE job.mem.groupID = job.base.groupID
      BY <3>2, <3>3, SameResources, SameObjects DEF Unchanged, AbsVars
    <3>4. CASE job.mem.groupID # job.base.groupID
      <4>1. /\ job.mem.groupID \in Ids /\ remote[job.mem.groupID].state = "live"
            /\ Held(obj[job.c])
        BY <1>0, <1>1, <3>2, <3>4, IdTypes DEF ActingInv, LiveHeld, Held
      <4>2. QED
        BY <1>0, <1>1, <3>2, <4>1, AbsRecord
    <3>5. QED
      BY <3>3, <3>4
  <2>2. QED
    BY <1>2, <1>9, <2>1 DEF WriteErrorStatus
<1>10. QED
  BY <1>2, <1>3, <1>4, <1>5, <1>6, <1>7, <1>8, <1>9 DEF Worker, Resolve

\* Every step of the model is a step of Lifecycle, or stutters.
LEMMA AbstractStep ==
    ASSUME AllInv, NamesDisjoint, Next
    PROVE  Abstract!Next \/ UNCHANGED AbsVars
<1>0. TypeOK /\ RecordsInv /\ obj \in [Groups -> CR]
  BY StateTypes DEF AllInv, OwnershipInv
<1>1. CASE obj' = obj /\ remote' = remote
  BY <1>1, SameResources, SameObjects DEF Unchanged, AbsVars
<1>2. ASSUME NEW g \in Groups, NEW s \in Specs[g], CreateCR(g, s)
      PROVE  Abstract!Next
  <2>1. /\ obj[g].state = "absent" /\ obj' = [obj EXCEPT ![g] = NewCR(s)]
        /\ remote' = remote
    BY <1>2 DEF CreateCR
  <2>2. obj[g].groupID = None
    BY <1>0, <2>1 DEF RecordsInv, Held
  <2>3. /\ obj'[g].state = "live" /\ ~obj'[g].finalizer /\ obj'[g].groupID = None
        /\ \A d \in Groups \ {g} : obj'[d] = obj[d]
    BY <1>0, <2>1 DEF NewCR
  <2>4. QED
    BY <2>1, <2>2, <2>3, AbsDeclare
<1>3. ASSUME NEW g \in Groups, NEW s \in Specs[g], EditSpec(g, s)
      PROVE  UNCHANGED AbsVars
  <2>1. /\ obj' = [obj EXCEPT ![g] = [obj[g] EXCEPT !.spec = s, !.observed = FALSE]]
        /\ remote' = remote
    BY <1>3 DEF EditSpec
  <2>2. \A d \in Groups : Unchanged(d) /\ obj'[d].groupID = obj[d].groupID
    BY <1>0, <2>1 DEF Unchanged, CR
  <2>3. QED
    BY <2>1, <2>2, SameResources, SameObjects DEF AbsVars
<1>4. ASSUME NEW g \in Groups, RequestDelete(g)
      PROVE  Abstract!Next
  <2>1. obj[g].state = "live" /\ remote' = remote
    BY <1>4 DEF RequestDelete
  <2>2. CASE obj[g].finalizer
    <3>1. obj' = [obj EXCEPT ![g].state = "deleting"]
      BY <1>4, <2>2 DEF RequestDelete
    <3>2. /\ obj'[g].state = "deleting" /\ obj'[g].groupID = obj[g].groupID
          /\ \A d \in Groups \ {g} : obj'[d] = obj[d]
      BY <1>0, <3>1 DEF CR
    <3>3. QED
      BY <2>1, <2>2, <3>2, AbsRequestDelete
  <2>3. CASE ~obj[g].finalizer
    <3>1. obj' = [obj EXCEPT ![g] = NoCR(g)]
      BY <1>4, <2>3 DEF RequestDelete
    <3>2. /\ obj'[g].state = "absent" /\ obj'[g].groupID = None
          /\ \A d \in Groups \ {g} : obj'[d] = obj[d]
      BY <1>0, <3>1, NoCRFields
    <3>3. obj[g].groupID = None
      BY <1>0, <2>3 DEF RecordsInv, Held
    <3>4. QED
      BY <2>1, <2>3, <3>2, <3>3, AbsWithdraw
  <2>4. QED
    BY <2>2, <2>3
<1>5. QED
  BY <1>1, <1>2, <1>3, <1>4, AbstractWorker DEF Next, Environment, Begin,
     CacheSync, CallFails, Crash, FlipInstance

\* Seen from users and from PocketID the controller, with its caches, lost answers
\* and crashes, behaves like Lifecycle, if no two resources share a name: a group
\* is deleted only while its resource is, and a resource disappears only when the
\* group it recorded is gone.
THEOREM GroupLifecycleImplemented == NamesDisjoint => (Spec => Implements)
<1>1. SUFFICES ASSUME NamesDisjoint
               PROVE  Spec => Implements
  OBVIOUS
<1>2. AllInv /\ [Next]_vars => [Abstract!Next]_(Abstract!vars)
  <2>1. SUFFICES ASSUME AllInv, [Next]_vars
                 PROVE  Abstract!Next \/ UNCHANGED Abstract!vars
    OBVIOUS
  <2>2. CASE UNCHANGED vars
    BY <2>2 DEF vars, Abstract!vars, Phase
  <2>3. CASE Next
    BY <1>1, <2>1, <2>3, AbstractStep DEF AbsVars, AbsPhase, AbsRecorded, AbsObject,
       Abstract!vars
  <2>4. QED
    BY <2>1, <2>2, <2>3
<1>3. Spec => []AllInv
  BY <1>1, Ownership
<1>4. QED
  BY <1>2, <1>3, AbstractInit, PTL DEF Spec, Implements, Abstract!Spec
-------------------------------------------------------------------------------
(* Uniqueness: no two groups of one name. *)

\* PocketID starts with no two groups of one name.
ExistingDistinct ==
    \A i, j \in DOMAIN Existing : Existing[i] = Existing[j] => i = j

\* However many groups there are, the list call answers all of them.
OnePage == IsFiniteSet(Ids) /\ Cardinality(Ids) <= PageSize

\* What uniqueness depends on, beside the code.
UniqueNames == NamesFixed /\ ExistingDistinct /\ OnePage

\* No two groups in PocketID have one name.
Distinct == \A i, j \in Live : remote[i].name = remote[j].name => i = j

\* A group is about to be made only while there is none of its name: between the
\* listing and the creation nobody else makes one.
LookupInv ==
    At("create") => \A i \in Live : remote[i].name # job.mem.spec.name

\* Distinct is inductive only with LookupInv.
UniqueInv == Distinct /\ LookupInv
-------------------------------------------------------------------------------
(* How the groups in PocketID change. *)

\* The names of those that stay do not change.
LEMMA NameStays ==
    ASSUME AllInv, NamesFixed, Next, NEW i \in Ids, i \in Live, i \in Live'
    PROVE  remote'[i].name = remote[i].name
<1>1. RemoteMove(i) /\ remote[i].state = "live"
  BY RemoteMoves DEF AllInv, Live
<1>2. CASE At("update") /\ job.id = i /\ remote'[i].name = job.mem.spec.name
  <2>1. Named(job.c, i) /\ job.c \in Groups /\ job.mem.spec.name \in NamesOf(job.c)
    BY <1>2, JobName DEF At, AllInv, OwnershipInv, NamesInv
  <2>2. remote[i].name \in NamesOf(job.c)
    BY <2>1, GroupNoneAssumption DEF Named
  <2>3. QED
    BY <1>2, <2>1, <2>2 DEF NamesFixed, NamesOf
<1>3. QED
  BY <1>1, <1>2 DEF RemoteMove

\* Only Create adds one, of the name that was looked up.
LEMMA NewGroup ==
    ASSUME AllInv, Next, NEW i \in Ids, i \notin Live, i \in Live'
    PROVE  /\ At("create") /\ remote'[i].name = job.mem.spec.name
           /\ \A j \in Ids \ {i} : remote'[j] = remote[j]
<1>1. RemoteMove(i) /\ remote[i].state # "live" /\ remote'[i].state = "live"
  BY RemoteMoves DEF AllInv, Live
<1>2. At("create") /\ remote'[i].name = job.mem.spec.name /\ remote' # remote
  <2>1. ~(At("update") /\ job.id = i)
    BY <1>1 DEF AllInv, OwnershipInv, ActingInv, At, Resolved
  <2>2. QED
    BY <1>1, <2>1 DEF RemoteMove
<1>3. \E k \in Ids : Create(k)
  BY <1>2 DEF Next, Worker, Environment, Begin, CacheSync, CallFails, Crash, At,
     AddFinalizer, DeleteRemote, RemoveFinalizer, Resolve, Update, Finish,
     WriteErrorStatus, CreateCR, EditSpec, RequestDelete, FlipInstance
<1>4. PICK k \in Ids : Create(k)
  BY <1>3
<1>5. remote \in [Ids -> Remote]
  BY StateTypes DEF AllInv
<1>6. k = i
  BY <1>1, <1>4, <1>5 DEF Create
<1>7. QED
  BY <1>2, <1>4, <1>5, <1>6 DEF Create

\* Every step preserves Distinct.
LEMMA DistinctStep ==
    ASSUME AllInv, NamesFixed, UniqueInv, Next
    PROVE  Distinct'
<1>1. SUFFICES ASSUME NEW i \in Ids, NEW j \in Ids, i \in Live', j \in Live',
                      remote'[i].name = remote'[j].name
               PROVE  i = j
  BY DEF Distinct, Live
<1>2. CASE i \in Live /\ j \in Live
  BY <1>1, <1>2, NameStays DEF UniqueInv, Distinct
<1>3. ASSUME NEW a \in Ids, NEW b \in Ids, a \notin Live, a \in Live', b \in Live',
             remote'[a].name = remote'[b].name, a # b
      PROVE  FALSE
  <2>1. /\ At("create") /\ remote'[a].name = job.mem.spec.name
        /\ remote'[b] = remote[b]
    BY <1>3, NewGroup
  <2>2. b \in Live /\ remote[b].name = job.mem.spec.name
    BY <1>3, <2>1 DEF Live
  <2>3. QED
    BY <2>1, <2>2 DEF UniqueInv, LookupInv
<1>4. QED
  BY <1>1, <1>2, <1>3

\* One page is all there is.
LEMMA PageIsLive ==
    ASSUME OnePage, NEW page \in Pages
    PROVE  page = Live
<1>1. Live \in SUBSET Ids
  BY DEF Live
<1>2. /\ IsFiniteSet(Live) /\ Cardinality(Live) <= Cardinality(Ids)
      /\ Cardinality(Live) \in Nat /\ Cardinality(Ids) \in Nat
  BY <1>1, FS_Subset, FS_CardinalityType DEF OnePage
<1>3. Cardinality(Live) <= PageSize
  BY <1>2, GroupBoundsAssumption DEF OnePage
<1>4. QED
  BY <1>3 DEF Pages

\* The worker comes to create only from Resolve, or stays there while others move.
LEMMA ToCreate ==
    ASSUME TypeOK, Next, job'.pc = "create"
    PROVE  remote' = remote /\ (Resolve \/ job' = job)
<1>1. ASSUME NEW g \in Groups, Begin(g)
      PROVE  FALSE
  <2>1. \E pc \in {"errorStatus", "deleteRemote", "removeFinalizer",
                   "addFinalizer", "resolve"} : Start(g, pc)
    BY <1>1 DEF Begin
  <2>2. QED
    BY <2>1 DEF Start
<1>2. ~Done /\ \A pc \in Busy : (job \in Job /\ Goto(pc)) => pc = "create"
  BY DEF Done, Idle, Goto, Job
<1>3. CASE Worker
  <2>1. job \in Job
    BY <1>3, BusyJob DEF Worker, AddFinalizer, DeleteRemote, RemoveFinalizer, Resolve,
       Create, Update, Finish, WriteErrorStatus, At
  <2>2. /\ ~Done /\ ~Goto("errorStatus") /\ ~Goto("removeFinalizer")
        /\ ~Goto("finish")
    BY <1>2, <2>1 DEF Busy, AfterFinalizer, Resolved
  <2>3. ~AddFinalizer
    BY <2>1, <2>2 DEF AddFinalizer, Job
  <2>4. ~\E i \in Ids : Create(i)
    BY <2>1, <2>2 DEF Create, Job
  <2>5. Resolve
    BY <1>3, <2>2, <2>3, <2>4 DEF Worker, DeleteRemote, RemoveFinalizer, Update,
       Finish, WriteErrorStatus
  <2>6. QED
    BY <2>5 DEF Resolve
<1>4. ~Crash
  BY <1>2 DEF Crash
<1>5. ~CallFails
  <2>1. job.pc # "idle" => ~Goto("errorStatus")
    BY <1>2, BusyJob DEF Busy, AfterFinalizer, Resolved
  <2>2. QED
    BY <1>2, <2>1 DEF CallFails, At
<1>6. QED
  BY <1>1, <1>3, <1>4, <1>5 DEF Next, Environment, CacheSync, CreateCR, EditSpec,
     RequestDelete, FlipInstance

\* Every step preserves LookupInv.
LEMMA LookupStep ==
    ASSUME AllInv, OnePage, UniqueInv, Next
    PROVE  LookupInv'
<1>1. SUFFICES ASSUME job'.pc = "create"
               PROVE  \A i \in Live' : remote'[i].name # job'.mem.spec.name
  BY DEF LookupInv, At
<1>2. remote' = remote /\ Live' = Live /\ (Resolve \/ job' = job)
  BY <1>1, ToCreate DEF AllInv, Live
<1>3. CASE job' = job
  BY <1>1, <1>2, <1>3 DEF UniqueInv, LookupInv, At
<1>4. CASE Resolve
  <2>1. job \in Job /\ job.pc # "idle"
    BY <1>4, BusyJob DEF AllInv, Resolve, At
  <2>2. /\ job.mem.groupID = None
        /\ job' = [job EXCEPT !.pc = "create"]
        /\ \E page \in Pages :
             {i \in page : remote[i].name = job.mem.spec.name} = {}
    BY <1>1, <1>4, <2>1 DEF Resolve, Goto, Job
  <2>3. {i \in Live : remote[i].name = job.mem.spec.name} = {}
    BY <2>2, PageIsLive
  <2>4. job'.mem = job.mem
    BY <2>1, <2>2 DEF Job
  <2>5. QED
    BY <1>2, <2>3, <2>4
<1>5. QED
  BY <1>2, <1>3, <1>4
-------------------------------------------------------------------------------
(* One group of a name, whose id stays. *)

\* The invariant holds initially.
LEMMA UniqueInit == ExistingDistinct /\ Init => UniqueInv
<1>1. SUFFICES ASSUME ExistingDistinct, Init
               PROVE  UniqueInv
  OBVIOUS
<1>2. \A i \in Live : i \in DOMAIN Existing /\ remote[i].name = Existing[i]
  BY <1>1 DEF Init, Live, InitialRemote
<1>3. ~At("create")
  BY <1>1 DEF Init, Idle, At
<1>4. QED
  BY <1>1, <1>2, <1>3 DEF ExistingDistinct, UniqueInv, Distinct, LookupInv

\* The invariant holds in every reachable state.
LEMMA Uniqueness == UniqueNames => (Spec => [](AllInv /\ UniqueInv))
<1>1. SUFFICES ASSUME UniqueNames
               PROVE  Spec => [](AllInv /\ UniqueInv)
  OBVIOUS
<1>2. AllInv /\ UniqueInv /\ [Next]_vars => UniqueInv'
  <2>1. CASE UNCHANGED vars
    BY <2>1 DEF vars, UniqueInv, Distinct, LookupInv, Live, At
  <2>2. CASE Next
    BY <1>1, <2>2, DistinctStep, LookupStep DEF UniqueNames, UniqueInv
  <2>3. QED
    BY <2>1, <2>2
<1>3. Init => UniqueInv
  BY <1>1, UniqueInit DEF UniqueNames
<1>4. Spec => []AllInv
  BY <1>1, Ownership DEF UniqueNames
<1>5. QED
  BY <1>2, <1>3, <1>4, PTL DEF Spec

\* Retries after lost answers, conflicts and crashes never make a second group of a
\* name, if one page of the listing holds every group and PocketID starts with one
\* of a name.
THEOREM GroupPerNameIsOne ==
    (ExistingDistinct /\ OnePage) => (Spec => []OneGroupPerName)
<1>1. CASE UniqueNames
  <2>1. UniqueInv => OneGroupPerName
    BY DEF UniqueInv, Distinct, OneGroupPerName
  <2>2. QED
    BY <1>1, <2>1, Uniqueness, PTL
<1>2. CASE ~NamesFixed
  <2>1. TypeOK => OneGroupPerName
    BY <1>2 DEF OneGroupPerName
  <2>2. QED
    BY <2>1, GroupTypeCorrect, PTL
<1>3. QED
  BY <1>1, <1>2 DEF UniqueNames

\* Two groups in PocketID that one resource knows are one.
LEMMA SameGroup ==
    ASSUME NamesFixed, UniqueInv, NEW g \in Groups, NEW i \in Live, NEW j \in Live,
           Named(g, i), Named(g, j)
    PROVE  i = j
<1>1. remote[i].name \in NamesOf(g) /\ remote[j].name \in NamesOf(g)
  BY GroupNoneAssumption DEF Named, Live
<1>2. remote[i].name = remote[j].name
  BY <1>1 DEF NamesFixed, NamesOf
<1>3. QED
  BY <1>2 DEF UniqueInv, Distinct

\* A step that replaces no recorded id of a live resource.
LEMMA IdStep ==
    ASSUME AllInv, UniqueInv, NamesDisjoint, NamesFixed, Next, NEW g \in Groups,
           Fresh(g), obj'[g].state # "absent"
    PROVE  obj'[g].groupID = obj[g].groupID
<1>0. /\ TypeOK /\ NamesInv /\ RecordsInv /\ ActingInv /\ JobInv
      /\ obj[g].groupID \in Live /\ Named(g, obj[g].groupID)
      /\ obj[g].state = "live" /\ Held(obj[g])
  BY DEF AllInv, OwnershipInv, FinalizerInv, RecordedLive, NamesInv, RecordsInv, Fresh
<1>1. Held(obj'[g])
  BY <1>0, ObjMoves DEF ObjMove, Unchanged, Held, LiveHeld
<1>2. CASE At("finish") /\ job.c = g /\ obj'[g].groupID = job.id
  <2>1. job.id \in Live /\ Named(g, job.id)
    BY <1>0, <1>2, BusyJob DEF At, Resolved, ActingInv, NamesInv, Live
  <2>2. QED
    BY <1>0, <1>2, <2>1, SameGroup
<1>3. CASE /\ At("errorStatus") /\ job.c = g /\ Current
           /\ obj'[g].groupID = job.mem.groupID
  <2>1. CASE job.mem.groupID = job.base.groupID
    BY <1>3, <2>1 DEF Current
  <2>2. CASE job.mem.groupID # job.base.groupID
    <3>1. job.mem.groupID \in Live /\ Named(g, job.mem.groupID)
      BY <1>0, <1>3, <2>2, IdTypes DEF At, ActingInv, NamesInv, Live
    <3>2. QED
      BY <1>0, <1>3, <3>1, SameGroup
  <2>3. QED
    BY <2>1, <2>2
<1>4. QED
  BY <1>1, <1>2, <1>3, RecordMoves DEF RecordMove

\* An id that users and OIDC clients may have read is not replaced while its
\* resource lives, whatever copies, lost answers and crashes the controller works
\* with, if in addition no two resources share a name.
THEOREM GroupIdIsStable == (UniqueNames /\ NamesDisjoint) => (Spec => IdStable)
<1>1. SUFFICES ASSUME UniqueNames, NamesDisjoint
               PROVE  Spec => IdStable
  OBVIOUS
<1>2. AllInv /\ UniqueInv /\ [Next]_vars =>
        [\A g \in Groups :
           (Fresh(g) /\ obj'[g].state # "absent")
              => obj'[g].groupID = obj[g].groupID]_vars
  BY <1>1, IdStep DEF UniqueNames
<1>3. Spec => [](AllInv /\ UniqueInv)
  BY <1>1, Uniqueness
<1>4. QED
  BY <1>2, <1>3, PTL DEF Spec, IdStable
===============================================================================
